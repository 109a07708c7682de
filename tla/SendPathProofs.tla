--------------------------- MODULE SendPathProofs ---------------------------
(***************************************************************************)
(* What SendPath guarantees for any set of requests and keys, any          *)
(* assignment of keys to requests and any combination of faults.           *)
(*                                                                         *)
(* The argument.  A request that reserved a key owns it until its last     *)
(* Redis write; IInv says that an owner still finds PENDING under its key, *)
(* and that of the requests in a key's window at most one owns the key or  *)
(* has a delivery that is under way or done.  The error branch frees a key *)
(* only for an owner whose delivery was refused, so a key is free only     *)
(* when no request of its window is out there.                             *)
(***************************************************************************)
EXTENDS SendPath, TLAPS

-----------------------------------------------------------------------------
(* Type correctness.                                                       *)

LEMMA TypeInit == Init => TypeOK
  BY SendAssumption
  DEF Init, TypeOK, MessagesInit, MessagesTypeOK, Row, NoRow, MessageStatus,
      WahaState, Pc

(* What a database call that throws leaves of the rows and the answers:    *)
(* it may have been committed, and none takes a wahaId away.               *)
LEMMA ThrownRows ==
  ASSUME TypeOK, NEW r \in Requests,
         PrepararThrows(r) \/ SaveFailedThrows(r) \/ SaveSentThrows(r)
  PROVE  /\ sendRow' \in [Requests -> Row]
         /\ \A q \in Requests \ {r} : sendRow'[q] = sendRow[q]
         /\ sendRow[r].wahaId => sendRow'[r].wahaId
         /\ sendRow[r].status # "none" => sendRow'[r].status # "none"
<1> USE DEF TypeOK, MessagesTypeOK, Row, MessageStatus, SentRow
<1>1. CASE sendRow' = sendRow
  BY <1>1
<1>2. CASE sendRow' = [sendRow EXCEPT ![r].status = "QUEUED"]
  BY <1>2
<1>3. CASE sendRow' = [sendRow EXCEPT ![r].status = "FAILED"]
  BY <1>3
<1>4. CASE sendRow' = [sendRow EXCEPT ![r] = SentRow(r)]
  BY <1>4
<1> QED
  BY <1>1, <1>2, <1>3, <1>4 DEF PrepararThrows, SaveFailedThrows, SaveSentThrows

LEMMA ThrownAnswer ==
  ASSUME TypeOK, NEW r \in Requests, PrepararThrows(r) \/ SaveFailedThrows(r)
  PROVE  /\ reply' \in [Requests -> {"none", "conflict"} \cup FailedReply \cup Requests]
         /\ \A q \in Requests \ {r} : reply'[q] = reply[q]
         /\ reply'[r] \in {"dbRefused", "error"}
         /\ write' = [write EXCEPT ![r] = "none"]
         /\ pc' = [pc EXCEPT ![r] = "done"]
<1>1. PICK a \in {"dbRefused", "error"} : FailWith(r, a)
  BY DEF PrepararThrows, SaveFailedThrows
<1>2. reply' = [reply EXCEPT ![r] = a]
  BY <1>1 DEF FailWith, Answer
<1>3. write' = [write EXCEPT ![r] = "none"]
  BY <1>1 DEF FailWith
<1>4. pc' = [pc EXCEPT ![r] = "done"]
  BY DEF PrepararThrows, SaveFailedThrows, Go
<1> QED
  BY <1>2, <1>3, <1>4 DEF TypeOK, FailedReply

LEMMA TypeStep == TypeOK /\ [Next]_vars => TypeOK'
<1> SUFFICES ASSUME TypeOK, [Next]_vars PROVE TypeOK'
  OBVIOUS
<1>a. \A r \in Requests :
        PrepararThrows(r) \/ SaveFailedThrows(r) \/ SaveSentThrows(r) =>
          sendRow' \in [Requests -> Row]
  BY ThrownRows
<1>b. \A r \in Requests :
        PrepararThrows(r) \/ SaveFailedThrows(r) =>
          /\ reply' \in [Requests -> {"none", "conflict"} \cup FailedReply \cup Requests]
          /\ write' = [write EXCEPT ![r] = "none"]
          /\ pc' = [pc EXCEPT ![r] = "done"]
  BY ThrownAnswer
<1> USE SendAssumption
    DEF TypeOK, MessagesTypeOK, Row, MessageStatus, WahaState, Pc, Tags, FailedReply,
        Keyed
<1>1. ASSUME NEW r \in Requests, Intercept(r) PROVE TypeOK'
  BY <1>1 DEF Intercept, Go, messageVars
<1>2. ASSUME NEW r \in Requests, Replay(r) PROVE TypeOK'
  BY <1>2 DEF Replay, Go, Answer, messageVars
<1>3. ASSUME NEW r \in Requests, EmAndamento(r) PROVE TypeOK'
  BY <1>3 DEF EmAndamento, Go, Answer, messageVars
<1>4. ASSUME NEW r \in Requests, BuscarIdempotente(r) PROVE TypeOK'
  BY <1>4 DEF BuscarIdempotente, Go, messageVars
<1>5. ASSUME NEW r \in Requests, ReservarIdempotencia(r) PROVE TypeOK'
  BY <1>5 DEF ReservarIdempotencia, Go, messageVars
<1>6. ASSUME NEW r \in Requests, ReservaPerdida(r) PROVE TypeOK'
  BY <1>6 DEF ReservaPerdida, Go, Answer, messageVars
<1>7. ASSUME NEW r \in Requests, ReservaReenviada(r) PROVE TypeOK'
  BY <1>7 DEF ReservaReenviada, Go, Answer, messageVars
<1>8. ASSUME NEW r \in Requests, ReservaThrows(r) PROVE TypeOK'
  BY <1>8 DEF ReservaThrows, Go, Answer, messageVars
<1>9. ASSUME NEW r \in Requests, Preparar(r) PROVE TypeOK'
  BY <1>9 DEF Preparar, Go, FailWith, Answer, messageVars
<1>10. ASSUME NEW r \in Requests, CreateRow(r) PROVE TypeOK'
  BY <1>10 DEF CreateRow, Go
<1>11. ASSUME NEW r \in Requests, PrepararThrows(r) PROVE TypeOK'
  <2>1. UNCHANGED <<hookRow, waha, redis, window>>
    BY <1>11 DEF PrepararThrows
  <2> QED
    BY <1>11, <1>a, <1>b, <2>1
<1>12. ASSUME NEW r \in Requests, Enviar(r) PROVE TypeOK'
  BY <1>12 DEF Enviar, Go
<1>13. ASSUME NEW r \in Requests, RespostaOk(r) PROVE TypeOK'
  BY <1>13 DEF RespostaOk, Go, messageVars
<1>14. ASSUME NEW r \in Requests, RespostaRecusada(r) PROVE TypeOK'
  BY <1>14 DEF RespostaRecusada, Go, messageVars
<1>15. ASSUME NEW r \in Requests, RespostaIncerta(r) PROVE TypeOK'
  BY <1>15 DEF RespostaIncerta, Go, messageVars
<1>16. ASSUME NEW r \in Requests, SaveSent(r) PROVE TypeOK'
  BY <1>16 DEF SaveSent, SentRow, Go, Answer
<1>17. ASSUME NEW r \in Requests, SaveSentThrows(r) PROVE TypeOK'
  <2>1. /\ pc' = [pc EXCEPT ![r] = "failing"]
        /\ UNCHANGED <<hookRow, waha, redis, reply, write, window>>
    BY <1>17 DEF SaveSentThrows, Go
  <2> QED
    BY <1>17, <1>a, <2>1
<1>18. ASSUME NEW r \in Requests, SaveFailed(r) PROVE TypeOK'
  BY <1>18 DEF SaveFailed, Failing, Go, FailWith, Answer
<1>19. ASSUME NEW r \in Requests, SaveFailedThrows(r) PROVE TypeOK'
  <2>1. UNCHANGED <<hookRow, waha, redis, window>>
    BY <1>19 DEF SaveFailedThrows
  <2> QED
    BY <1>19, <1>a, <1>b, <2>1
<1>20. ASSUME NEW r \in Requests, RegistrarIdempotencia(r) PROVE TypeOK'
  BY <1>20 DEF RegistrarIdempotencia, messageVars
<1>21. ASSUME NEW r \in Requests, LiberarIdempotencia(r) PROVE TypeOK'
  BY <1>21 DEF LiberarIdempotencia, messageVars
<1>22. ASSUME NEW r \in Requests, EscritaPerdida(r) PROVE TypeOK'
  BY <1>22 DEF EscritaPerdida, messageVars
<1>23. ASSUME NEW r \in Requests, Crash(r) PROVE TypeOK'
  BY <1>23 DEF Crash, messageVars
<1>24. ASSUME NEW r \in Requests, WahaAceita(r) PROVE TypeOK'
  BY <1>24 DEF WahaAceita, sendVars
<1>25. ASSUME NEW r \in Requests, WahaRecusa(r) PROVE TypeOK'
  BY <1>25 DEF WahaRecusa, sendVars
<1>26. ASSUME NEW k \in Keys, Expirar(k) PROVE TypeOK'
  BY <1>26 DEF Expirar, Over, messageVars
<1>27. ASSUME NEW r \in Requests, SaveSentDuplicate(r) PROVE TypeOK'
  BY <1>27 DEF SaveSentDuplicate, Go, messageVars
<1>28. CASE UNCHANGED vars
  BY <1>28 DEF vars, messageVars, sendVars
<1>29. ASSUME NEW r \in Requests, Anunciar(r) PROVE TypeOK'
  BY <1>29 DEF Anunciar, Known, sendVars
<1> QED
  BY <1>1, <1>2, <1>3, <1>4, <1>5, <1>6, <1>7, <1>8, <1>9, <1>10, <1>11,
     <1>12, <1>13, <1>14, <1>15, <1>16, <1>17, <1>18, <1>19, <1>20, <1>21,
     <1>22, <1>23, <1>24, <1>25, <1>26, <1>27, <1>28, <1>29
  DEF Next, SendNext, Progress, Writes

(* Every variable keeps its type: no handler, fault or lost write leaves   *)
(* Redis, a row or a request in a state the code does not know.            *)
THEOREM TypeCorrect == Spec => []TypeOK
  BY TypeInit, TypeStep, PTL DEF Spec

-----------------------------------------------------------------------------
(* The inductive invariant.                                                *)

LEMMA InvInit == Init => IInv
<1> SUFFICES ASSUME Init PROVE IInv
  OBVIOUS
<1>1. TypeOK
  BY TypeInit
<1>2. WindowsByKey /\ OneOwner /\ OpenDeliveryHoldsKey
  BY DEF Init, WindowsByKey, OneOwner, OpenDeliveryHoldsKey
<1>3. OwnersInWindow /\ PcAgreesWithWaha /\ WritesAgreeWithWaha
  BY DEF Init, MessagesInit, OwnersInWindow, PcAgreesWithWaha,
         WritesAgreeWithWaha, Owner, Active, Failing
<1>4. StoredResults /\ AnswerWasDelivered /\ RefusedNeverDelivered
  BY SendAssumption
  DEF Init, MessagesInit, StoredResults, AnswerWasDelivered,
      RefusedNeverDelivered, Tags, FailedReply
<1> QED
  BY <1>1, <1>2, <1>3, <1>4 DEF IInv

LEMMA InvStep == IInv /\ [Next]_vars => IInv'
<1> SUFFICES ASSUME IInv, [Next]_vars PROVE IInv'
  OBVIOUS
<1>0. TypeOK'
  BY TypeStep DEF IInv
<1>a. \A r \in Requests :
        PrepararThrows(r) \/ SaveFailedThrows(r) \/ SaveSentThrows(r) =>
          \A q \in Requests :
            /\ sendRow[q].wahaId => sendRow'[q].wahaId
            /\ sendRow[q].status # "none" => sendRow'[q].status # "none"
  BY ThrownRows DEF IInv
<1>b. \A r \in Requests :
        PrepararThrows(r) \/ SaveFailedThrows(r) =>
          /\ \A q \in Requests \ {r} : reply'[q] = reply[q]
          /\ reply'[r] \in {"dbRefused", "error"}
          /\ write' = [write EXCEPT ![r] = "none"]
          /\ pc' = [pc EXCEPT ![r] = "done"]
  BY ThrownAnswer DEF IInv
<1> USE <1>0, SendAssumption
    DEF IInv, WindowsByKey, OwnersInWindow, OneOwner, OpenDeliveryHoldsKey,
        PcAgreesWithWaha, WritesAgreeWithWaha, StoredResults,
        AnswerWasDelivered, RefusedNeverDelivered, Owner, Open, Active, Failing,
        Keyed, Linked, TypeOK, MessagesTypeOK, Tags, FailedReply, Row
<1>1. ASSUME NEW r \in Requests, Intercept(r) PROVE IInv'
  BY <1>1 DEF Intercept, Go, messageVars
<1>2. ASSUME NEW r \in Requests, Replay(r) PROVE IInv'
  BY <1>2 DEF Replay, Go, Answer, messageVars
<1>3. ASSUME NEW r \in Requests, EmAndamento(r) PROVE IInv'
  BY <1>3 DEF EmAndamento, Go, Answer, messageVars
<1>4. ASSUME NEW r \in Requests, BuscarIdempotente(r) PROVE IInv'
  BY <1>4 DEF BuscarIdempotente, Go, messageVars
<1>5. ASSUME NEW r \in Requests, ReservarIdempotencia(r) PROVE IInv'
  <2>1. OwnersInWindow' /\ WindowsByKey'
    BY <1>5 DEF ReservarIdempotencia, Go, messageVars
  <2>2. OneOwner' /\ OpenDeliveryHoldsKey'
    BY <1>5 DEF ReservarIdempotencia, Go, messageVars
  <2>3. PcAgreesWithWaha' /\ WritesAgreeWithWaha' /\ StoredResults'
    BY <1>5 DEF ReservarIdempotencia, Go, messageVars
  <2>4. AnswerWasDelivered' /\ RefusedNeverDelivered'
    BY <1>5 DEF ReservarIdempotencia, Go, messageVars
  <2> QED
    BY <2>1, <2>2, <2>3, <2>4
<1>6. ASSUME NEW r \in Requests, ReservaPerdida(r) PROVE IInv'
  BY <1>6 DEF ReservaPerdida, Go, Answer, messageVars
<1>7. ASSUME NEW r \in Requests, ReservaReenviada(r) PROVE IInv'
  BY <1>7 DEF ReservaReenviada, Go, Answer, messageVars
<1>8. ASSUME NEW r \in Requests, ReservaThrows(r) PROVE IInv'
  BY <1>8 DEF ReservaThrows, Go, Answer, messageVars
<1>9. ASSUME NEW r \in Requests, Preparar(r) PROVE IInv'
  BY <1>9 DEF Preparar, Go, FailWith, Answer, messageVars
<1>10. ASSUME NEW r \in Requests, CreateRow(r) PROVE IInv'
  BY <1>10 DEF CreateRow, Go
<1>11. ASSUME NEW r \in Requests, PrepararThrows(r) PROVE IInv'
  <2>0. pc[r] = "handle" /\ UNCHANGED <<hookRow, waha, redis, window>>
    BY <1>11 DEF PrepararThrows, Go
  <2>1. WindowsByKey' /\ OwnersInWindow'
    BY <1>11, <1>a, <1>b, <2>0
  <2>2. OneOwner' /\ OpenDeliveryHoldsKey'
    <3>1. \A q \in Requests : (Owner(q) \/ Open(q))' => Owner(q) \/ Open(q)
      BY <1>11, <1>b, <2>0
    <3>2. window' = window /\ \A q \in Requests : Open(q)' => Open(q)
      BY <2>0
    <3>3. OneOwner'
      <4> HIDE DEF Owner, Open
      <4> QED
        BY <3>1, <3>2
    <3>4. OpenDeliveryHoldsKey'
      BY <2>0
    <3> QED
      BY <3>3, <3>4
  <2>3. PcAgreesWithWaha' /\ WritesAgreeWithWaha'
    BY <1>11, <1>a, <1>b, <2>0
  <2>4. StoredResults' /\ AnswerWasDelivered' /\ RefusedNeverDelivered'
    BY <1>11, <1>a, <1>b, <2>0
  <2> QED
    BY <2>1, <2>2, <2>3, <2>4
<1>12. ASSUME NEW r \in Requests, Enviar(r) PROVE IInv'
  <2>1. WindowsByKey' /\ OwnersInWindow'
    BY <1>12 DEF Enviar, Go
  <2>2. OneOwner'
    BY <1>12 DEF Enviar, Go
  <2>3. OpenDeliveryHoldsKey'
    BY <1>12 DEF Enviar, Go
  <2>4. PcAgreesWithWaha' /\ WritesAgreeWithWaha'
    BY <1>12 DEF Enviar, Go
  <2>5. StoredResults' /\ AnswerWasDelivered' /\ RefusedNeverDelivered'
    BY <1>12 DEF Enviar, Go
  <2> QED
    BY <2>1, <2>2, <2>3, <2>4, <2>5
<1>13. ASSUME NEW r \in Requests, RespostaOk(r) PROVE IInv'
  BY <1>13 DEF RespostaOk, Go, messageVars
<1>14. ASSUME NEW r \in Requests, RespostaRecusada(r) PROVE IInv'
  BY <1>14 DEF RespostaRecusada, Go, messageVars
<1>15. ASSUME NEW r \in Requests, RespostaIncerta(r) PROVE IInv'
  BY <1>15 DEF RespostaIncerta, Go, messageVars
<1>16. ASSUME NEW r \in Requests, SaveSent(r) PROVE IInv'
  <2>1. WindowsByKey' /\ OwnersInWindow'
    BY <1>16 DEF SaveSent, SentRow, Go, Answer
  <2>2. OneOwner' /\ OpenDeliveryHoldsKey'
    BY <1>16 DEF SaveSent, SentRow, Go, Answer
  <2>3. PcAgreesWithWaha' /\ WritesAgreeWithWaha'
    BY <1>16 DEF SaveSent, SentRow, Go, Answer
  <2>4. StoredResults' /\ AnswerWasDelivered' /\ RefusedNeverDelivered'
    BY <1>16 DEF SaveSent, SentRow, Go, Answer
  <2> QED
    BY <2>1, <2>2, <2>3, <2>4
<1>17. ASSUME NEW r \in Requests, SaveSentThrows(r) PROVE IInv'
  <2>0. /\ pc[r] = "saving" /\ pc' = [pc EXCEPT ![r] = "failing"]
        /\ UNCHANGED <<hookRow, waha, redis, reply, write, window>>
    BY <1>17 DEF SaveSentThrows, Go
  <2>1. WindowsByKey' /\ OwnersInWindow'
    BY <1>17, <1>a, <2>0
  <2>2. OneOwner' /\ OpenDeliveryHoldsKey'
    BY <1>17, <1>a, <2>0
  <2>3. PcAgreesWithWaha' /\ WritesAgreeWithWaha'
    BY <1>17, <1>a, <2>0
  <2>4. StoredResults' /\ AnswerWasDelivered' /\ RefusedNeverDelivered'
    BY <1>17, <1>a, <2>0
  <2> QED
    BY <2>1, <2>2, <2>3, <2>4
<1>18. ASSUME NEW r \in Requests, SaveFailed(r) PROVE IInv'
  <2>1. WindowsByKey' /\ OwnersInWindow'
    BY <1>18 DEF SaveFailed, Go, FailWith, Answer
  <2>2. OneOwner' /\ OpenDeliveryHoldsKey'
    BY <1>18 DEF SaveFailed, Go, FailWith, Answer
  <2>3. PcAgreesWithWaha' /\ WritesAgreeWithWaha'
    BY <1>18 DEF SaveFailed, Go, FailWith, Answer
  <2>4. StoredResults' /\ AnswerWasDelivered' /\ RefusedNeverDelivered'
    BY <1>18 DEF SaveFailed, Go, FailWith, Answer
  <2> QED
    BY <2>1, <2>2, <2>3, <2>4
<1>19. ASSUME NEW r \in Requests, SaveFailedThrows(r) PROVE IInv'
  <2>0. pc[r] \in Failing /\ UNCHANGED <<hookRow, waha, redis, window>>
    BY <1>19 DEF SaveFailedThrows, Go
  <2>a. \A q \in Requests : /\ sendRow[q].wahaId => sendRow'[q].wahaId
                            /\ sendRow[q].status # "none" => sendRow'[q].status # "none"
    BY <1>19, <1>a
  <2>1. WindowsByKey' /\ OwnersInWindow'
    BY <1>19, <1>a, <1>b, <2>0
  <2>2. OneOwner' /\ OpenDeliveryHoldsKey'
    <3>1. \A q \in Requests : (Owner(q) \/ Open(q))' => Owner(q) \/ Open(q)
      BY <1>19, <1>b, <2>0
    <3>2. window' = window /\ \A q \in Requests : Open(q)' => Open(q)
      BY <2>0
    <3>3. OneOwner'
      <4> HIDE DEF Owner, Open
      <4> QED
        BY <3>1, <3>2
    <3>4. OpenDeliveryHoldsKey'
      BY <2>0
    <3> QED
      BY <3>3, <3>4
  <2>3. PcAgreesWithWaha' /\ WritesAgreeWithWaha'
    <3>1. PcAgreesWithWaha'
      BY <1>19, <1>b, <2>0, <2>a
    <3>2. WritesAgreeWithWaha'
      BY <1>19, <1>b, <2>0, <2>a
    <3> QED
      BY <3>1, <3>2
  <2>4. StoredResults' /\ AnswerWasDelivered' /\ RefusedNeverDelivered'
    <3>1. StoredResults'
      BY <2>0, <2>a
    <3>2. \A q \in Requests : reply'[q] \in Requests \cup {"refused"} => reply'[q] = reply[q]
      BY <1>19, <1>b
    <3>3. AnswerWasDelivered'
      BY <3>2, <2>0, <2>a
    <3>4. RefusedNeverDelivered'
      BY <3>2, <2>0
    <3> QED
      BY <3>1, <3>3, <3>4
  <2> QED
    BY <2>1, <2>2, <2>3, <2>4
<1>20. ASSUME NEW r \in Requests, RegistrarIdempotencia(r) PROVE IInv'
  <2>1. WindowsByKey' /\ OwnersInWindow'
    BY <1>20 DEF RegistrarIdempotencia, messageVars
  <2>2. OneOwner' /\ OpenDeliveryHoldsKey'
    BY <1>20 DEF RegistrarIdempotencia, messageVars
  <2>3. StoredResults'
    BY <1>20 DEF RegistrarIdempotencia, messageVars
  <2>4. /\ PcAgreesWithWaha' /\ WritesAgreeWithWaha'
        /\ AnswerWasDelivered' /\ RefusedNeverDelivered'
    BY <1>20 DEF RegistrarIdempotencia, messageVars
  <2> QED
    BY <2>1, <2>2, <2>3, <2>4
<1>21. ASSUME NEW r \in Requests, LiberarIdempotencia(r) PROVE IInv'
  <2>1. WindowsByKey' /\ OwnersInWindow'
    BY <1>21 DEF LiberarIdempotencia, messageVars
  <2>2. OneOwner' /\ OpenDeliveryHoldsKey'
    BY <1>21 DEF LiberarIdempotencia, messageVars
  <2>3. StoredResults'
    BY <1>21 DEF LiberarIdempotencia, messageVars
  <2>4. /\ PcAgreesWithWaha' /\ WritesAgreeWithWaha'
        /\ AnswerWasDelivered' /\ RefusedNeverDelivered'
    BY <1>21 DEF LiberarIdempotencia, messageVars
  <2> QED
    BY <2>1, <2>2, <2>3, <2>4
<1>22. ASSUME NEW r \in Requests, EscritaPerdida(r) PROVE IInv'
  BY <1>22 DEF EscritaPerdida, messageVars
<1>23. ASSUME NEW r \in Requests, Crash(r) PROVE IInv'
  BY <1>23 DEF Crash, messageVars
<1>24. ASSUME NEW r \in Requests, WahaAceita(r) PROVE IInv'
  BY <1>24 DEF WahaAceita, sendVars
<1>25. ASSUME NEW r \in Requests, WahaRecusa(r) PROVE IInv'
  BY <1>25 DEF WahaRecusa, sendVars
<1>26. ASSUME NEW k \in Keys, Expirar(k) PROVE IInv'
  BY <1>26 DEF Expirar, Over, messageVars
<1>27. ASSUME NEW r \in Requests, SaveSentDuplicate(r) PROVE IInv'
  BY <1>27 DEF SaveSentDuplicate, Go, messageVars
<1>28. CASE UNCHANGED vars
  BY <1>28 DEF vars, messageVars, sendVars
<1>29. ASSUME NEW r \in Requests, Anunciar(r) PROVE IInv'
  BY <1>29 DEF Anunciar, sendVars
<1> QED
  BY <1>1, <1>2, <1>3, <1>4, <1>5, <1>6, <1>7, <1>8, <1>9, <1>10, <1>11,
     <1>12, <1>13, <1>14, <1>15, <1>16, <1>17, <1>18, <1>19, <1>20, <1>21,
     <1>22, <1>23, <1>24, <1>25, <1>26, <1>27, <1>28, <1>29
  DEF Next, SendNext, Progress, Writes

(* Whoever reserved a key keeps it until its last Redis write, and of the  *)
(* requests that used a key at most one is on its way or delivered.        *)
THEOREM Invariant == Spec => []IInv
  BY InvInit, InvStep, PTL DEF Spec

-----------------------------------------------------------------------------
(* What follows from it.                                                   *)

LEMMA Consequences ==
  IInv => /\ AtMostOneDelivery
          /\ OpenDeliveryHoldsKey
          /\ SameAnswer
          /\ AnswerWasDelivered
          /\ RefusedNeverDelivered
          /\ NoInvisibleSend
<1> SUFFICES ASSUME IInv
             PROVE  AtMostOneDelivery /\ SameAnswer /\ NoInvisibleSend
  BY DEF IInv
<1>1. AtMostOneDelivery
  BY DEF IInv, OneOwner, AtMostOneDelivery, Open
<1>2. ASSUME NEW k \in Keys, NEW r \in Requests, NEW s \in Requests,
             reply[r] \in window[k], reply[s] \in window[k]
      PROVE  reply[r] = reply[s]
  <2>1. reply[r] \in Requests /\ reply[s] \in Requests
    BY <1>2 DEF IInv, TypeOK
  <2>2. Open(reply[r]) /\ Open(reply[s])
    BY <2>1, <1>2 DEF IInv, AnswerWasDelivered, Open
  <2> QED
    BY <2>1, <2>2, <1>2 DEF IInv, OneOwner
<1>3. SameAnswer
  BY <1>2 DEF SameAnswer
<1>4. NoInvisibleSend
  BY DEF IInv, PcAgreesWithWaha, NoInvisibleSend
<1> QED
  BY <1>1, <1>3, <1>4

(* A key lets at most one of its requests reach WhatsApp, whatever times   *)
(* out, is refused, is lost or crashes: the reason the header exists.      *)
THEOREM AtMostOnce == Spec => []AtMostOneDelivery
  BY Consequences, Invariant, PTL

(* The error branch of the interceptor never frees the key of a delivery   *)
(* that happened or may still happen.                                      *)
THEOREM KeyKept == Spec => []OpenDeliveryHoldsKey
  BY Consequences, Invariant, PTL

(* All the 201s under a key name one message, so a repeated request is     *)
(* answered with the original result and no other.                         *)
THEOREM OneAnswer == Spec => []SameAnswer
  BY Consequences, Invariant, PTL

(* A 201, fresh or replayed, names a message WhatsApp has, in a row that   *)
(* its acks will find.                                                     *)
THEOREM AnswersAreTrue == Spec => []AnswerWasDelivered
  BY Consequences, Invariant, PTL

(* After a 4xx of the gateway or of WAHA nothing went out and nothing ever *)
(* will, whatever failed on the way: only then is the key given back.  (It *)
(* is not so for the 4xx the filter makes of a database error.)            *)
THEOREM RefusalsAreTrue == Spec => []RefusedNeverDelivered
  BY Consequences, Invariant, PTL

(* Whatever reaches WhatsApp has a row, even if the process died between   *)
(* the call and its answer.                                                *)
THEOREM NothingInvisible == Spec => []NoInvisibleSend
  BY Consequences, Invariant, PTL

-----------------------------------------------------------------------------
(* The path implements the promise.                                        *)

LEMMA PromiseInit == Init => Promise!Init
<1> SUFFICES ASSUME Init PROVE Promise!Init
  OBVIOUS
<1>1. \A k \in Keys : redis[k] = "absent" /\ redis[k] \notin Requests
  BY SendAssumption DEF Init, Tags
<1>2. \A k \in Keys : {r \in window[k] : waha[r] = "accepted"} = {}
  BY DEF Init
<1> QED
  BY <1>1, <1>2 DEF Promise!Init

(* The steps that change what the promise speaks of.                       *)

LEMMA ReserveClaims ==
  ASSUME IInv, NEW r \in Requests,
         ReservarIdempotencia(r) \/ ReservaReenviada(r)
  PROVE  Promise!Claim(KeyOf[r])
<1> DEFINE k == KeyOf[r]
<1>1. k \in Keys /\ redis[k] = "absent" /\ waha[r] = "none" /\ waha' = waha
  BY SendAssumption
  DEF IInv, PcAgreesWithWaha, Keyed, ReservarIdempotencia, ReservaReenviada,
      Go, messageVars
<1>2. redis' = [redis EXCEPT ![k] = "PENDING"]
  BY DEF ReservarIdempotencia, ReservaReenviada
<1>3. window' = window \/ window' = [window EXCEPT ![k] = @ \cup {r}]
  BY DEF ReservarIdempotencia, ReservaReenviada
<1>4. {q \in window[k] : waha[q] = "accepted"} = {}
  BY <1>1 DEF IInv, OpenDeliveryHoldsKey
<1>5. \A l \in Keys : {q \in window'[l] : waha'[q] = "accepted"}
                        = {q \in window[l] : waha[q] = "accepted"}
  BY <1>1, <1>3 DEF IInv, TypeOK
<1>6. \A l \in Keys : (redis'[l] # "absent") = (l = k \/ redis[l] # "absent")
  BY <1>1, <1>2 DEF IInv, TypeOK
<1>7. \A l \in Keys : redis'[l] \in Requests <=> redis[l] \in Requests
  BY <1>1, <1>2, SendAssumption DEF IInv, TypeOK, Tags
<1>8. \A l \in Keys : redis[l] \in Requests => redis'[l] = redis[l]
  BY <1>1, <1>2, SendAssumption DEF IInv, TypeOK, Tags
<1> QED
  BY <1>1, <1>4, <1>5, <1>6, <1>7, <1>8 DEF Promise!Claim

LEMMA AcceptDelivers ==
  ASSUME IInv, NEW r \in Requests, WahaAceita(r)
  PROVE  (\E k \in Keys : Promise!Deliver(k, r)) \/ UNCHANGED Promise!vars
<1>1. /\ waha[r] = "pending" /\ waha' = [waha EXCEPT ![r] = "accepted"]
      /\ redis' = redis /\ window' = window
  BY DEF WahaAceita, sendVars
<1>2. CASE \E k \in Keys : r \in window[k]
  <2> PICK k \in Keys : r \in window[k]
    BY <1>2
  <2>1. redis[k] # "absent"
    BY <1>1 DEF IInv, OpenDeliveryHoldsKey
  <2>2. {q \in window[k] : waha[q] = "accepted"} = {}
    BY <1>1 DEF IInv, OneOwner, Open
  <2>3. {q \in window'[k] : waha'[q] = "accepted"} = {r}
    BY <1>1, <2>2 DEF IInv, TypeOK, MessagesTypeOK
  <2>4. \A l \in Keys \ {k} : {q \in window'[l] : waha'[q] = "accepted"}
                                = {q \in window[l] : waha[q] = "accepted"}
    BY <1>1 DEF IInv, TypeOK, MessagesTypeOK, WindowsByKey
  <2>5. Promise!Deliver(k, r)
    BY <1>1, <2>1, <2>2, <2>3, <2>4 DEF Promise!Deliver
  <2> QED
    BY <2>5
<1>3. CASE \A k \in Keys : r \notin window[k]
  <2>1. \A l \in Keys : {q \in window'[l] : waha'[q] = "accepted"}
                          = {q \in window[l] : waha[q] = "accepted"}
    BY <1>1, <1>3 DEF IInv, TypeOK, MessagesTypeOK
  <2> QED
    BY <1>1, <2>1 DEF Promise!vars
<1> QED
  BY <1>2, <1>3

LEMMA RegisterSettles ==
  ASSUME IInv, NEW r \in Requests, RegistrarIdempotencia(r)
  PROVE  Promise!Settle(KeyOf[r], r)
<1> DEFINE k == KeyOf[r]
<1>1. /\ write[r] = "result" /\ redis' = [redis EXCEPT ![k] = r]
      /\ waha' = waha /\ window' = window
  BY DEF RegistrarIdempotencia, messageVars
<1>2. k \in Keys /\ redis[k] = "PENDING" /\ r \in window[k]
  BY <1>1, SendAssumption DEF IInv, OwnersInWindow, Owner, Keyed
<1>3. r \in {q \in window[k] : waha[q] = "accepted"}
  BY <1>1, <1>2 DEF IInv, WritesAgreeWithWaha
<1>4. redis[k] \notin Requests /\ r # "absent"
  BY <1>2, SendAssumption DEF Tags
<1> QED
  BY <1>1, <1>2, <1>3, <1>4 DEF Promise!Settle, IInv, TypeOK

LEMMA ReleaseGivesBack ==
  ASSUME IInv, NEW r \in Requests, LiberarIdempotencia(r)
  PROVE  Promise!GiveBack(KeyOf[r])
<1> DEFINE k == KeyOf[r]
<1>1. /\ write[r] = "release" /\ redis' = [redis EXCEPT ![k] = "absent"]
      /\ waha' = waha /\ window' = window
  BY DEF LiberarIdempotencia, messageVars
<1>2. k \in Keys /\ redis[k] = "PENDING" /\ r \in window[k]
  BY <1>1, SendAssumption DEF IInv, OwnersInWindow, Owner, Keyed
<1>3. {q \in window[k] : waha[q] = "accepted"} = {}
  BY <1>1, <1>2 DEF IInv, OneOwner, WritesAgreeWithWaha, Owner, Open
<1>4. redis[k] \notin Requests /\ "absent" \notin Requests
  BY <1>2, SendAssumption DEF Tags
<1> QED
  BY <1>1, <1>2, <1>3, <1>4 DEF Promise!GiveBack, IInv, TypeOK

LEMMA ExpiryForgets ==
  ASSUME IInv, NEW k \in Keys, Expirar(k)
  PROVE  Promise!Forget(k)
<1>1. /\ redis[k] # "absent" /\ redis' = [redis EXCEPT ![k] = "absent"]
      /\ window' = [window EXCEPT ![k] = {}] /\ waha' = waha
  BY DEF Expirar, messageVars
<1>2. "absent" \notin Requests
  BY SendAssumption DEF Tags
<1> QED
  BY <1>1, <1>2 DEF Promise!Forget, IInv, TypeOK

(* Every other step of a request leaves the keys' windows, values and      *)
(* deliveries as they are.                                                 *)
LEMMA OthersStutter ==
  ASSUME IInv, NEW r \in Requests,
         \/ Intercept(r)
         \/ Progress(r) /\ ~ReservarIdempotencia(r) /\ ~ReservaReenviada(r)
         \/ EscritaPerdida(r)
         \/ Crash(r)
         \/ WahaRecusa(r)
  PROVE  UNCHANGED Promise!vars
<1>1. redis' = redis /\ window' = window
  BY DEF Intercept, Progress, EscritaPerdida, Crash, WahaRecusa, Replay,
         EmAndamento, BuscarIdempotente, ReservaPerdida, ReservaThrows,
         Preparar, CreateRow, PrepararThrows, Enviar, RespostaOk,
         RespostaRecusada, RespostaIncerta, SaveSent, SaveSentDuplicate,
         SaveSentThrows, SaveFailed, SaveFailedThrows, sendVars
<1>2. \A q \in Requests : waha'[q] = "accepted" <=> waha[q] = "accepted"
  BY DEF Intercept, Progress, EscritaPerdida, Crash, WahaRecusa, Replay,
         EmAndamento, BuscarIdempotente, ReservaPerdida, ReservaThrows,
         Preparar, CreateRow, PrepararThrows, Enviar, RespostaOk,
         RespostaRecusada, RespostaIncerta, SaveSent, SaveSentDuplicate,
         SaveSentThrows, SaveFailed, SaveFailedThrows, messageVars, Go, IInv, TypeOK,
         MessagesTypeOK, PcAgreesWithWaha
<1>3. \A k \in Keys : {q \in window'[k] : waha'[q] = "accepted"}
                        = {q \in window[k] : waha[q] = "accepted"}
  BY <1>1, <1>2 DEF IInv, TypeOK
<1> QED
  BY <1>1, <1>3 DEF Promise!vars

LEMMA PromiseStep == IInv /\ [Next]_vars => [Promise!Next]_(Promise!vars)
<1> SUFFICES ASSUME IInv, [Next]_vars
             PROVE  Promise!Next \/ UNCHANGED Promise!vars
  BY DEF Promise!vars
<1>1. ASSUME NEW r \in Requests,
             ReservarIdempotencia(r) \/ ReservaReenviada(r)
      PROVE  Promise!Next
  <2>1. KeyOf[r] \in Keys
    BY <1>1, SendAssumption
    DEF IInv, PcAgreesWithWaha, Keyed, Go, ReservarIdempotencia,
        ReservaReenviada
  <2> QED
    BY <1>1, <2>1, ReserveClaims DEF Promise!Next
<1>2. ASSUME NEW r \in Requests, WahaAceita(r)
      PROVE  Promise!Next \/ UNCHANGED Promise!vars
  BY <1>2, AcceptDelivers DEF Promise!Next
<1>3. ASSUME NEW r \in Requests, write[r] # "none" PROVE KeyOf[r] \in Keys
  BY <1>3, SendAssumption DEF IInv, OwnersInWindow, Keyed
<1>4. ASSUME NEW r \in Requests, RegistrarIdempotencia(r) PROVE Promise!Next
  <2>1. KeyOf[r] \in Keys
    BY <1>3, <1>4 DEF RegistrarIdempotencia
  <2> QED
    BY <1>4, <2>1, RegisterSettles DEF Promise!Next
<1>5. ASSUME NEW r \in Requests, LiberarIdempotencia(r) PROVE Promise!Next
  <2>1. KeyOf[r] \in Keys
    BY <1>3, <1>5 DEF LiberarIdempotencia
  <2> QED
    BY <1>5, <2>1, ReleaseGivesBack DEF Promise!Next
<1>6. ASSUME NEW k \in Keys, Expirar(k) PROVE Promise!Next
  BY <1>6, ExpiryForgets DEF Promise!Next
<1>7. CASE UNCHANGED vars
  BY <1>7 DEF vars, messageVars, sendVars, Promise!vars
<1>8. ASSUME NEW r \in Requests, Anunciar(r) PROVE UNCHANGED Promise!vars
  BY <1>8 DEF Anunciar, sendVars, Promise!vars
<1> QED
  BY <1>1, <1>2, <1>4, <1>5, <1>6, <1>7, <1>8, OthersStutter
  DEF Next, SendNext, Writes

(* For all keys and requests the gateway keeps the promise of the header:  *)
(* it claims a key before it delivers, delivers at most once while the key *)
(* is held, and gives the key back only when nothing was delivered.        *)
THEOREM Refinement == Spec => PromiseKept
<1>1. Init => Promise!Init
  BY PromiseInit
<1>2. IInv /\ [Next]_vars => [Promise!Next]_(Promise!vars)
  BY PromiseStep
<1> QED
  BY <1>1, <1>2, Invariant, PTL DEF Spec, PromiseKept, Promise!Spec

=============================================================================
