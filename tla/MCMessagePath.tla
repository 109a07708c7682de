--------------------------- MODULE MCMessagePath ---------------------------
(* Instances of MessagePath for TLC: sends and the events WAHA emits about *)
(* them.                                                                   *)
EXTENDS MessagePath, TLC

CONSTANTS r1, r2, k1, h1

(* Both requests are tries under one key. *)
OneKey == [r \in Requests |-> k1]

Ev(i, k, w, a) == [id |-> i, kind |-> k, msg |-> w, ack |-> a]

(* One of the two sends is announced, acked and revoked. *)
SendEvents == {Ev(1, "message", r1, 1), Ev(2, "ack", r1, 2), Ev(3, "revoked", r1, 0)}

AllFaults == {"db", "redis", "crash"}

(* A handler that dies at any step leaves what one with a failing query     *)
(* leaves in the rows.                                                     *)
PathIngestFaults == {"crash"}
=============================================================================
