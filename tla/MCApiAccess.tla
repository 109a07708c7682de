---------------------------- MODULE MCApiAccess ----------------------------
(* ApiAccess on a small instance. *)
EXTENDS ApiAccess

CONSTANTS a1, k1, k2, s1, s2

(* A session of the application and one of another. *)
Owner == [s \in Sessions |-> IF s = s1 THEN a1 ELSE NoApp]

(* Beside the administrators: the sends, and of the panel a download, the   *)
(* removal of a session and what synchronises its status.                  *)
FewRoutes ==
    {rt \in MessagesController : rt.saves = "always"}
    \cup {rt \in AdminSessionsController : (rt.sync \/ rt.gone) /\ rt.call # "once"}
    \cup {Admin("download")}

(* A key for everything and one for sending alone. *)
AllOrSending == [k \in Keys |-> IF k = k1 THEN {} ELSE {"messages:send"}]
=============================================================================
