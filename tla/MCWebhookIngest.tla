-------------------------- MODULE MCWebhookIngest --------------------------
(* Instances of WebhookIngest for TLC: events about messages that did not  *)
(* start in the gateway.                                                   *)
EXTENDS WebhookIngest

CONSTANTS m1, h1, h2

Ev(i, k, w, a) == [id |-> i, kind |-> k, msg |-> w, ack |-> a]

(* A message that is announced, acked and revoked. *)
MessageLife == {Ev(1, "message", m1, 0), Ev(2, "ack", m1, 3), Ev(3, "revoked", m1, 0)}

(* A message and two of its acks. *)
TwoAcks == {Ev(1, "message", m1, 1), Ev(2, "ack", m1, 2), Ev(3, "ack", m1, 3)}

AllFaults == {"db", "crash", "net", "session"}
NoFaults == {}
=============================================================================
