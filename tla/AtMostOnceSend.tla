--------------------------- MODULE AtMostOnceSend ---------------------------
(***************************************************************************)
(* What an Idempotency-Key promises the integrator: while the key is held  *)
(* at most one send made under it reaches WhatsApp, a key is given back    *)
(* only when none did, and the recorded answer is that one send.  After    *)
(* its 24 hours a key is forgotten and promises nothing about the past.    *)
(***************************************************************************)
CONSTANTS Keys, Sends, NoSend

VARIABLES held, delivered, answer

vars == <<held, delivered, answer>>

Init ==
    /\ held = [k \in Keys |-> FALSE]
    /\ delivered = [k \in Keys |-> {}]
    /\ answer = [k \in Keys |-> NoSend]

Claim(k) ==
    /\ ~held[k]
    /\ delivered[k] = {}
    /\ held' = [held EXCEPT ![k] = TRUE]
    /\ UNCHANGED <<delivered, answer>>

Deliver(k, s) ==
    /\ held[k]
    /\ delivered[k] = {}
    /\ delivered' = [delivered EXCEPT ![k] = {s}]
    /\ UNCHANGED <<held, answer>>

Settle(k, s) ==
    /\ held[k]
    /\ answer[k] = NoSend
    /\ s \in delivered[k]
    /\ answer' = [answer EXCEPT ![k] = s]
    /\ UNCHANGED <<held, delivered>>

GiveBack(k) ==
    /\ held[k]
    /\ delivered[k] = {}
    /\ held' = [held EXCEPT ![k] = FALSE]
    /\ UNCHANGED <<delivered, answer>>

Forget(k) ==
    /\ held[k]
    /\ held' = [held EXCEPT ![k] = FALSE]
    /\ delivered' = [delivered EXCEPT ![k] = {}]
    /\ answer' = [answer EXCEPT ![k] = NoSend]

Next ==
    \E k \in Keys :
        \/ Claim(k)
        \/ \E s \in Sends : Deliver(k, s) \/ Settle(k, s)
        \/ GiveBack(k)
        \/ Forget(k)

Spec == Init /\ [][Next]_vars
=============================================================================
