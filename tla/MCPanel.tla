------------------------------ MODULE MCPanel ------------------------------
(* Panel on a small instance. *)
EXTENDS Panel

(* STARTING is left to the screens' guards: it behaves as STOPPED does. *)
SomeStatus == {"ausente", "SCAN_QR_CODE", "WORKING", "STOPPED"}

(* A visit to the screens of a session, or to one of those that issue. *)
Visits == {{"sessoes", "detalhe"}, {"aplicacao", "fora"}, {"webhooks", "fora"}}
=============================================================================
