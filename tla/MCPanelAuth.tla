---------------------------- MODULE MCPanelAuth ----------------------------
(* PanelAuth on a small instance. *)
EXTENDS PanelAuth, TLC

CONSTANTS b1, b2, c1, c2

Symmetric == {p @@ q : p \in Permutations(Tabs), q \in Permutations(Calls)}
=============================================================================
