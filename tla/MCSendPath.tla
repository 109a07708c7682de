----------------------------- MODULE MCSendPath -----------------------------
(* Instances of SendPath for TLC. *)
EXTENDS SendPath

CONSTANTS r1, r2, r3, k1

(* Three tries of one send under the same key. *)
OneKey == [r \in Requests |-> k1]

AllFaults == {"db", "redis", "crash"}
=============================================================================
