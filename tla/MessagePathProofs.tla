------------------------- MODULE MessagePathProofs -------------------------
(***************************************************************************)
(* What the ingestion guarantees by itself, and what it and the send path  *)
(* guarantee together, for any requests, keys, events and handlers and any *)
(* combination of faults.                                                  *)
(*                                                                         *)
(* The lock.  A handler gets past it only by inserting its event, and      *)
(* nothing removes a row of inbound_events, so an event has at most one    *)
(* handler past the lock in all its life; and that handler publishes once, *)
(* on its way out (LockInv).                                               *)
(*                                                                         *)
(* Together.  The two paths meet in the rows of messages alone.  The       *)
(* ingestion writes no wahaId to a row of the send path and blanks none of *)
(* its statuses (RowsKeep), which is all the send path's invariant needs.  *)
(* A row is given its wahaId by a send that has not finished, and only     *)
(* while the ingestion has no row with it, or by a message event, and only *)
(* while no row has it; so a message has one row with its wahaId           *)
(* (RowsApart), and has it for good.  The send path writes only to rows    *)
(* that have none (UnfinishedIsUnlinked), so that from then on only acks   *)
(* write a status; the exception is a row whose update was committed and   *)
(* thrown nevertheless, which the catch makes FAILED (LinkedByFault).      *)
(***************************************************************************)
EXTENDS MessagePath, SendPathProofs

-----------------------------------------------------------------------------
(* The ingestion by itself: types.                                         *)

LEMMA AckStatus == ASSUME NEW ack \in -1..4 PROVE AckToStatus(ack) \in MessageStatus
  BY DEF AckToStatus, MessageStatus

LEMMA RowOfType ==
  ASSUME MessagesTypeOK, NEW w \in WahaIds
  PROVE  RowOf(w) \in Row
  BY DEF MessagesTypeOK, RowOf, Linked

(* An UPDATE by wahaId writes the one row that has it. *)
LEMMA UpdateRowType ==
  ASSUME MessagesTypeOK, NEW w \in WahaIds, NEW row \in Row, UpdateRow(w, row)
  PROVE  sendRow' \in [Requests -> Row] /\ hookRow' \in [WahaIds -> Row]
  BY DEF MessagesTypeOK, UpdateRow, Linked

LEMMA NoEventType == NoEvent \in Events
  BY IngestAssumption DEF NoEvent

LEMMA IngestTypeInit == IngestInit => IngestTypeOK
  BY NoEventType, IngestAssumption
  DEF IngestInit, IngestVarsInit, MessagesInit, IngestTypeOK, MessagesTypeOK, Row, NoRow,
      MessageStatus, WahaState, WahaIds, At

LEMMA IngestTypeStep == IngestTypeOK /\ [IngestNext]_webhookVars => IngestTypeOK'
<1> SUFFICES ASSUME IngestTypeOK, [IngestNext]_webhookVars PROVE IngestTypeOK'
  OBVIOUS
<1> USE IngestAssumption, NoEventType, AckStatus
    DEF IngestTypeOK, MessagesTypeOK, Row, MessageStatus, At, Known, Linked,
        StatusOf, RowOf, NewRow
<1>1. ASSUME NEW h \in Handlers, NEW e \in Events, Post(h, e)
      PROVE  IngestTypeOK'
  BY <1>1 DEF Post, Move, messageVars
<1>2. ASSUME NEW h \in Handlers, AutenticarThrows(h) PROVE IngestTypeOK'
  BY <1>2 DEF AutenticarThrows, Move, Interromper, messageVars
<1>3. ASSUME NEW h \in Handlers, RegistrarEvento(h) PROVE IngestTypeOK'
  BY <1>3 DEF RegistrarEvento, Move, messageVars
<1>4. ASSUME NEW h \in Handlers, EventoDuplicado(h) PROVE IngestTypeOK'
  BY <1>4 DEF EventoDuplicado, Move, Interromper, messageVars
<1>5. ASSUME NEW h \in Handlers, ResolverSessao(h) PROVE IngestTypeOK'
  BY <1>5 DEF ResolverSessao, Move, messageVars
<1>6. ASSUME NEW h \in Handlers, SessaoDesconhecida(h) PROVE IngestTypeOK'
  BY <1>6 DEF SessaoDesconhecida, Move, Finish, messageVars
<1>7. ASSUME NEW h \in Handlers, ResolverSessaoThrows(h) PROVE IngestTypeOK'
  BY <1>7 DEF ResolverSessaoThrows, Move, Interromper, messageVars
<1>8. ASSUME NEW h \in Handlers, AoReceberMensagem(h) PROVE IngestTypeOK'
  BY <1>8 DEF AoReceberMensagem, Move
<1>9. ASSUME NEW h \in Handlers, LerMensagem(h) PROVE IngestTypeOK'
  BY <1>9 DEF LerMensagem, Move, messageVars
<1>10. ASSUME NEW h \in Handlers, AoConfirmar(h) PROVE IngestTypeOK'
  <2>1. ev[h].msg \in WahaIds /\ AckToStatus(ev[h].ack) \in MessageStatus
    OBVIOUS
  <2>2. RowOf(ev[h].msg) \in Row
    BY <2>1, RowOfType
  <2>3. PICK s \in MessageStatus \cup {"none"} :
           UpdateRow(ev[h].msg, [RowOf(ev[h].msg) EXCEPT !.status = s])
    BY <1>10, <2>1, <2>2 DEF AoConfirmar
  <2>4. sendRow' \in [Requests -> Row] /\ hookRow' \in [WahaIds -> Row]
    BY <2>1, <2>2, <2>3, UpdateRowType
  <2> QED
    BY <1>10, <2>4 DEF AoConfirmar, Move, Finish
<1>11. ASSUME NEW h \in Handlers, AoRevogar(h) PROVE IngestTypeOK'
  <2>1. ev[h].msg \in WahaIds
    OBVIOUS
  <2>2. RowOf(ev[h].msg) \in Row
    BY <2>1, RowOfType
  <2>3. [RowOf(ev[h].msg) EXCEPT !.revoked = TRUE] \in Row
    BY <2>2
  <2>4. sendRow' \in [Requests -> Row] /\ hookRow' \in [WahaIds -> Row]
    BY <1>11, <2>1, <2>3, UpdateRowType DEF AoRevogar
  <2> QED
    BY <1>11, <2>4 DEF AoRevogar, Move, Finish
<1>12. ASSUME NEW h \in Handlers, MensagemDesconhecida(h) PROVE IngestTypeOK'
  BY <1>12 DEF MensagemDesconhecida, Move, Finish, messageVars
<1>13. ASSUME NEW h \in Handlers, HandlerThrows(h) PROVE IngestTypeOK'
  BY <1>13 DEF HandlerThrows, Move, Finish, messageVars
<1>14. ASSUME NEW h \in Handlers, Publicar(h) PROVE IngestTypeOK'
  BY <1>14 DEF Publicar, Move, Finish, messageVars
<1>15. ASSUME NEW h \in Handlers, Responder(h) PROVE IngestTypeOK'
  BY <1>15 DEF Responder, Move, Clear, messageVars
<1>16. ASSUME NEW h \in Handlers, CrashHandler(h) PROVE IngestTypeOK'
  BY <1>16 DEF CrashHandler, Clear, Interromper, messageVars
<1>17. CASE UNCHANGED webhookVars
  BY <1>17 DEF webhookVars, messageVars, ingestVars
<1> QED
  BY <1>1, <1>2, <1>3, <1>4, <1>5, <1>6, <1>7, <1>8,
     <1>9, <1>10, <1>11, <1>12, <1>13, <1>14, <1>15, <1>16, <1>17
  DEF IngestNext, HandlerStep

(* Every variable keeps its type; in particular an ack never writes a      *)
(* status outside MessageStatus.                                           *)
THEOREM IngestTypeCorrect == IngestSpec => []IngestTypeOK
  BY IngestTypeInit, IngestTypeStep, PTL DEF IngestSpec

-----------------------------------------------------------------------------
(* The ingestion by itself: the lock.                                      *)

Handling(h) == at[h] \in {"resolve", "dispatch", "confirm", "publish"}

HandledIsRegistered == \A h \in Handlers : Handling(h) => ev[h] \in registered

OneHandlerPerEvent ==
    \A g, h \in Handlers : Handling(g) /\ Handling(h) /\ ev[g] = ev[h] => g = h

PublishedIsOver ==
    \A e \in Events : published[e] # 0 =>
        e \in registered /\ \A h \in Handlers : Handling(h) => ev[h] # e

LockInv ==
    /\ IngestTypeOK
    /\ HandledIsRegistered
    /\ OneHandlerPerEvent
    /\ PublishedIsOver
    /\ EffectsAtMostOnce

LEMMA LockInit == IngestInit => LockInv
<1> SUFFICES ASSUME IngestInit PROVE LockInv
  OBVIOUS
<1>1. IngestTypeOK
  BY IngestTypeInit
<1>2. HandledIsRegistered /\ OneHandlerPerEvent
  BY DEF IngestInit, IngestVarsInit, HandledIsRegistered, OneHandlerPerEvent, Handling
<1>3. PublishedIsOver /\ EffectsAtMostOnce
  BY DEF IngestInit, IngestVarsInit, PublishedIsOver, EffectsAtMostOnce
<1> QED
  BY <1>1, <1>2, <1>3 DEF LockInv

LEMMA LockStep == LockInv /\ [IngestNext]_webhookVars => LockInv'
<1> SUFFICES ASSUME LockInv, [IngestNext]_webhookVars PROVE LockInv'
  OBVIOUS
<1>0. IngestTypeOK'
  BY IngestTypeStep DEF LockInv
<1> USE <1>0
    DEF LockInv, HandledIsRegistered, OneHandlerPerEvent, PublishedIsOver,
        EffectsAtMostOnce, Handling, IngestTypeOK
<1>1. ASSUME NEW h \in Handlers, NEW e \in Events, Post(h, e)
      PROVE  LockInv'
  BY <1>1 DEF Post, Move
<1>2. ASSUME NEW h \in Handlers, AutenticarThrows(h) PROVE LockInv'
  BY <1>2 DEF AutenticarThrows, Move, Interromper
<1>3. ASSUME NEW h \in Handlers, RegistrarEvento(h) PROVE LockInv'
  BY <1>3 DEF RegistrarEvento, Move
<1>4. ASSUME NEW h \in Handlers, EventoDuplicado(h) PROVE LockInv'
  BY <1>4 DEF EventoDuplicado, Move, Interromper
<1>5. ASSUME NEW h \in Handlers, ResolverSessao(h) PROVE LockInv'
  BY <1>5 DEF ResolverSessao, Move
<1>6. ASSUME NEW h \in Handlers, SessaoDesconhecida(h) PROVE LockInv'
  BY <1>6 DEF SessaoDesconhecida, Move, Finish
<1>7. ASSUME NEW h \in Handlers, ResolverSessaoThrows(h) PROVE LockInv'
  BY <1>7 DEF ResolverSessaoThrows, Move, Interromper
<1>8. ASSUME NEW h \in Handlers, AoReceberMensagem(h) PROVE LockInv'
  BY <1>8 DEF AoReceberMensagem, Move
<1>9. ASSUME NEW h \in Handlers, LerMensagem(h) PROVE LockInv'
  BY <1>9 DEF LerMensagem, Move
<1>10. ASSUME NEW h \in Handlers, AoConfirmar(h) PROVE LockInv'
  BY <1>10 DEF AoConfirmar, Move, Finish
<1>11. ASSUME NEW h \in Handlers, AoRevogar(h) PROVE LockInv'
  BY <1>11 DEF AoRevogar, Move, Finish
<1>12. ASSUME NEW h \in Handlers, MensagemDesconhecida(h) PROVE LockInv'
  BY <1>12 DEF MensagemDesconhecida, Move, Finish
<1>13. ASSUME NEW h \in Handlers, HandlerThrows(h) PROVE LockInv'
  BY <1>13 DEF HandlerThrows, Move, Finish
<1>14. ASSUME NEW h \in Handlers, Publicar(h) PROVE LockInv'
  BY <1>14 DEF Publicar, Move, Finish
<1>15. ASSUME NEW h \in Handlers, Responder(h) PROVE LockInv'
  BY <1>15 DEF Responder, Move, Clear
<1>16. ASSUME NEW h \in Handlers, CrashHandler(h) PROVE LockInv'
  BY <1>16 DEF CrashHandler, Clear, Interromper
<1>17. CASE UNCHANGED webhookVars
  BY <1>17 DEF webhookVars, messageVars, ingestVars
<1> QED
  BY <1>1, <1>2, <1>3, <1>4, <1>5, <1>6, <1>7, <1>8,
     <1>9, <1>10, <1>11, <1>12, <1>13, <1>14, <1>15, <1>16, <1>17
  DEF IngestNext, HandlerStep

(* An event takes effect at most once, however often WAHA posts it and     *)
(* however many handlers serve it at the same time: its row in             *)
(* inbound_events lets a single handler through, and that one once.        *)
THEOREM AtMostOneEffect == IngestSpec => []EffectsAtMostOnce
<1>1. LockInv => EffectsAtMostOnce
  BY DEF LockInv
<1> QED
  BY <1>1, LockInit, LockStep, PTL DEF IngestSpec

-----------------------------------------------------------------------------
(* Both together: the inductive invariant.                                 *)

RowsApart == \A r \in Requests : ~(sendRow[r].wahaId /\ hookRow[r].wahaId)

UnfinishedIsUnlinked ==
    \A r \in Requests : pc[r] \notin {"failing", "done"} => ~sendRow[r].wahaId

(* Such a row has its wahaId before its request is done only when the      *)
(* database failed after it committed the update.                          *)
LinkedByFault ==
    \A r \in Requests : pc[r] = "failing" /\ sendRow[r].wahaId => "db" \in Faults

(* An ack that is about to be written, or a message event that is about to *)
(* be passed on, is about a recorded message.                              *)
HandledIsKnown ==
    \A h \in Handlers :
        /\ at[h] = "confirm" => ev[h].kind = "ack" /\ Known(ev[h].msg)
        /\ at[h] = "publish" /\ ev[h].kind = "message" => Known(ev[h].msg)

PathInv ==
    /\ IInv
    /\ LockInv
    /\ RowsApart
    /\ UnfinishedIsUnlinked
    /\ LinkedByFault
    /\ HandledIsKnown
    /\ ProcessedMessageIsRecorded

-----------------------------------------------------------------------------
(* The rows.                                                               *)

LEMMA PathTypes ==
  ASSUME PathInv
  PROVE  /\ TypeOK /\ IngestTypeOK
         /\ sendRow \in [Requests -> Row] /\ hookRow \in [WahaIds -> Row]
         /\ \A w \in WahaIds : RowOf(w) \in Row
         /\ \A e \in Events : e.msg \in WahaIds
  BY IngestAssumption
  DEF PathInv, IInv, LockInv, TypeOK, MessagesTypeOK, RowOf, Linked

(* The send path does not touch a row that has its wahaId, save that the   *)
(* catch of a send whose update was committed after all writes FAILED.     *)
Caught(w) == "db" \in Faults /\ Linked(w) /\ pc[w] = "failing"

Untouched ==
    \A w \in WahaIds : Known(w) =>
        /\ Known(w)'
        /\ RowOf(w).revoked => RowOf(w)'.revoked
        /\ StatusOf(w)' # StatusOf(w) => Caught(w) /\ StatusOf(w)' = "FAILED"

SendInv == RowsApart /\ UnfinishedIsUnlinked /\ LinkedByFault

LEMMA SendRows ==
  ASSUME PathInv, TypeOK', SendNext
  PROVE  SendInv' /\ Untouched
<1>0. /\ sendRow \in [Requests -> Row] /\ hookRow \in [WahaIds -> Row]
      /\ sendRow' \in [Requests -> Row] /\ hookRow' \in [WahaIds -> Row]
      /\ pc \in [Requests -> Pc]
      /\ SendInv
      /\ \A r \in Requests : pc[r] = "failing" /\ sendRow[r].wahaId => "db" \in Faults
  BY PathTypes DEF PathInv, SendInv, LinkedByFault, TypeOK, MessagesTypeOK
<1> USE <1>0
    DEF SendInv, RowsApart, UnfinishedIsUnlinked, LinkedByFault, Untouched, Caught,
        Known, Linked, RowOf, StatusOf, Row, WahaIds
<1>1. ASSUME NEW r \in Requests, Intercept(r) PROVE SendInv' /\ Untouched
  BY <1>1 DEF Intercept, Go, messageVars
<1>2. ASSUME NEW r \in Requests, Replay(r) PROVE SendInv' /\ Untouched
  BY <1>2 DEF Replay, Go, Answer, messageVars
<1>3. ASSUME NEW r \in Requests, EmAndamento(r) PROVE SendInv' /\ Untouched
  BY <1>3 DEF EmAndamento, Go, Answer, messageVars
<1>4. ASSUME NEW r \in Requests, BuscarIdempotente(r) PROVE SendInv' /\ Untouched
  BY <1>4 DEF BuscarIdempotente, Go, messageVars
<1>5. ASSUME NEW r \in Requests, ReservarIdempotencia(r) PROVE SendInv' /\ Untouched
  BY <1>5 DEF ReservarIdempotencia, Go, messageVars
<1>6. ASSUME NEW r \in Requests, ReservaPerdida(r) PROVE SendInv' /\ Untouched
  BY <1>6 DEF ReservaPerdida, Go, Answer, messageVars
<1>7. ASSUME NEW r \in Requests, ReservaReenviada(r) PROVE SendInv' /\ Untouched
  BY <1>7 DEF ReservaReenviada, Go, Answer, messageVars
<1>8. ASSUME NEW r \in Requests, ReservaThrows(r) PROVE SendInv' /\ Untouched
  BY <1>8 DEF ReservaThrows, Go, Answer, messageVars
<1>9. ASSUME NEW r \in Requests, Preparar(r) PROVE SendInv' /\ Untouched
  BY <1>9 DEF Preparar, Go, FailWith, Answer, messageVars
<1>10. ASSUME NEW r \in Requests, CreateRow(r) PROVE SendInv' /\ Untouched
  BY <1>10 DEF CreateRow, Go
<1>11. ASSUME NEW r \in Requests, PrepararThrows(r) PROVE SendInv' /\ Untouched
  <2>1. /\ pc' = [pc EXCEPT ![r] = "done"] /\ pc[r] = "handle" /\ hookRow' = hookRow
        /\ sendRow' = sendRow \/ sendRow' = [sendRow EXCEPT ![r].status = "QUEUED"]
    BY <1>11 DEF PrepararThrows, Go
  <2>2. CASE sendRow' = sendRow
    BY <2>1, <2>2
  <2>3. CASE sendRow' = [sendRow EXCEPT ![r].status = "QUEUED"]
    BY <2>1, <2>3
  <2> QED
    BY <2>1, <2>2, <2>3
<1>12. ASSUME NEW r \in Requests, Enviar(r) PROVE SendInv' /\ Untouched
  BY <1>12 DEF Enviar, Go
<1>13. ASSUME NEW r \in Requests, RespostaOk(r) PROVE SendInv' /\ Untouched
  BY <1>13 DEF RespostaOk, Go, messageVars
<1>14. ASSUME NEW r \in Requests, RespostaRecusada(r) PROVE SendInv' /\ Untouched
  BY <1>14 DEF RespostaRecusada, Go, messageVars
<1>15. ASSUME NEW r \in Requests, RespostaIncerta(r) PROVE SendInv' /\ Untouched
  BY <1>15 DEF RespostaIncerta, Go, messageVars
<1>16. ASSUME NEW r \in Requests, SaveSent(r) PROVE SendInv' /\ Untouched
  BY <1>16 DEF SaveSent, SentRow, Go, Answer
<1>17. ASSUME NEW r \in Requests, SaveSentThrows(r) PROVE SendInv' /\ Untouched
  BY <1>17 DEF SaveSentThrows, SentRow, Go
<1>18. ASSUME NEW r \in Requests, SaveFailed(r) PROVE SendInv' /\ Untouched
  BY <1>18 DEF SaveFailed, Failing, Go, FailWith, Answer
<1>19. ASSUME NEW r \in Requests, SaveFailedThrows(r) PROVE SendInv' /\ Untouched
  BY <1>19 DEF SaveFailedThrows, Failing, Go, FailWith, Answer
<1>20. ASSUME NEW r \in Requests, RegistrarIdempotencia(r) PROVE SendInv' /\ Untouched
  BY <1>20 DEF RegistrarIdempotencia, messageVars
<1>21. ASSUME NEW r \in Requests, LiberarIdempotencia(r) PROVE SendInv' /\ Untouched
  BY <1>21 DEF LiberarIdempotencia, messageVars
<1>22. ASSUME NEW r \in Requests, EscritaPerdida(r) PROVE SendInv' /\ Untouched
  BY <1>22 DEF EscritaPerdida, messageVars
<1>23. ASSUME NEW r \in Requests, Crash(r) PROVE SendInv' /\ Untouched
  BY <1>23 DEF Crash, messageVars
<1>24. ASSUME NEW r \in Requests, WahaAceita(r) PROVE SendInv' /\ Untouched
  BY <1>24 DEF WahaAceita, sendVars
<1>25. ASSUME NEW r \in Requests, WahaRecusa(r) PROVE SendInv' /\ Untouched
  BY <1>25 DEF WahaRecusa, sendVars
<1>26. ASSUME NEW k \in Keys, Expirar(k) PROVE SendInv' /\ Untouched
  BY <1>26 DEF Expirar, Over, messageVars
<1>27. ASSUME NEW r \in Requests, SaveSentDuplicate(r) PROVE SendInv' /\ Untouched
  BY <1>27 DEF SaveSentDuplicate, Go, messageVars
<1> QED
  BY <1>1, <1>2, <1>3, <1>4, <1>5, <1>6, <1>7, <1>8, <1>9, <1>10, <1>11, <1>12, <1>13,
     <1>14, <1>15, <1>16, <1>17, <1>18, <1>19, <1>20, <1>21, <1>22, <1>23, <1>24, <1>25,
     <1>26, <1>27
  DEF SendNext, Progress, Writes

(* No row is given a wahaId another has, none loses it or its status, and  *)
(* a revocation stays.                                                     *)
RowsKeep ==
    /\ waha' = waha
    /\ \A r \in Requests :
        /\ sendRow'[r].wahaId = sendRow[r].wahaId
        /\ sendRow[r].status # "none" => sendRow'[r].status # "none"
    /\ RowsApart'
    /\ \A w \in WahaIds : Known(w) => Known(w)' /\ (RowOf(w).revoked => RowOf(w)'.revoked)

(* What is announced is recorded, if it is not yet. *)
LEMMA UpsertKeeps ==
  ASSUME PathInv, NEW w \in WahaIds, UNCHANGED <<sendRow, waha>>,
         hookRow' = IF Known(w) THEN hookRow ELSE [hookRow EXCEPT ![w] = NewRow(w)]
  PROVE  /\ RowsKeep /\ Known(w)'
         /\ \A v \in WahaIds : Known(v) => RowOf(v)' = RowOf(v)
<1> USE PathTypes
    DEF PathInv, RowsKeep, RowsApart, Known, Linked, RowOf, NewRow
<1>1. CASE Known(w)
  BY <1>1
<1>2. CASE ~Known(w)
  <2>1. hookRow' = [hookRow EXCEPT ![w] = NewRow(w)]
    BY <1>2
  <2>2. NewRow(w).wahaId
    OBVIOUS
  <2> QED
    BY <1>2, <2>1, <2>2
<1> QED
  BY <1>1, <1>2

(* An UPDATE of a recorded message changes its row alone. *)
LEMMA UpdateKeeps ==
  ASSUME PathInv, NEW w \in WahaIds, Known(w), NEW row \in Row, row.wahaId,
         RowOf(w).revoked => row.revoked,
         RowOf(w).status # "none" => row.status # "none",
         UpdateRow(w, row), UNCHANGED waha
  PROVE  /\ RowsKeep /\ RowOf(w)' = row
         /\ \A v \in WahaIds \ {w} : Known(v) => RowOf(v)' = RowOf(v)
<1>0. /\ sendRow \in [Requests -> Row] /\ hookRow \in [WahaIds -> Row] /\ RowsApart
  BY PathTypes DEF PathInv
<1>1. CASE Linked(w)
  <2>1. w \in Requests /\ sendRow' = [sendRow EXCEPT ![w] = row] /\ hookRow' = hookRow
    BY <1>1 DEF UpdateRow, Linked
  <2> QED
    BY <1>0, <1>1, <2>1 DEF RowsKeep, RowsApart, Known, Linked, RowOf, Row
<1>2. CASE ~Linked(w)
  <2>1. hookRow' = [hookRow EXCEPT ![w] = row] /\ sendRow' = sendRow
    BY <1>2 DEF UpdateRow
  <2> QED
    BY <1>0, <1>2, <2>1 DEF RowsKeep, RowsApart, Known, Linked, RowOf, Row
<1> QED
  BY <1>1, <1>2

(* The status of a recorded message moves by an ack alone, and only        *)
(* forward of what that ack had read, or to FAILED.                        *)
StatusMoves ==
    \A w \in WahaIds :
        Known(w) /\ StatusOf(w)' # StatusOf(w) =>
            \E h \in Handlers :
                /\ at[h] = "confirm" /\ ev[h].kind = "ack" /\ ev[h].msg = w
                /\ StatusOf(w)' = "FAILED" \/ Rank(StatusOf(w)') > Rank(seen[h])

IngestKeeps == RowsKeep /\ StatusMoves /\ HandledIsKnown' /\ ProcessedMessageIsRecorded'

(* Processed, as far as ev and outcome tell. *)
LEMMA Quiet ==
  ASSUME PathInv, UNCHANGED messageVars, HandledIsKnown',
         ProcessedMessageIsRecorded'
  PROVE  IngestKeeps
  BY DEF IngestKeeps, PathInv, RowsKeep, RowsApart, StatusMoves, Known, Linked, RowOf,
         StatusOf, messageVars

(* A handler that is not about a message event, or one that kept what was  *)
(* recorded, leaves the processed events recorded.                         *)
LEMMA Recorded ==
  ASSUME PathInv, RowsKeep, NEW h \in Handlers,
         ev[h].kind # "message" \/ outcome' = outcome,
         outcome' \in {outcome, [outcome EXCEPT ![ev[h]] = "processado"]}
  PROVE  ProcessedMessageIsRecorded'
<1>1. /\ outcome \in [Events -> {"none", "processado", "ignorado", "erro"}]
      /\ \A e \in Events : e.msg \in WahaIds
      /\ \A e \in Events : e.kind = "message" /\ outcome[e] = "processado" => Known(e.msg)
  BY PathTypes DEF PathInv, IngestTypeOK, ProcessedMessageIsRecorded
<1>2. \A e \in Events : e.kind = "message" /\ outcome'[e] = "processado" => Known(e.msg)
  BY <1>1
<1>3. \A e \in Events : e.kind = "message" /\ outcome'[e] = "processado" => Known(e.msg)'
  BY <1>1, <1>2 DEF RowsKeep
<1> QED
  BY <1>3 DEF ProcessedMessageIsRecorded

LEMMA IngestRows ==
  ASSUME PathInv, NEW h \in Handlers,
         HandlerStep(h) \/ CrashHandler(h) \/ \E e \in Events : Post(h, e)
  PROVE  IngestKeeps
<1>0. /\ at \in [Handlers -> At] /\ ev \in [Handlers -> Events]
      /\ outcome \in [Events -> {"none", "processado", "ignorado", "erro"}]
      /\ HandledIsKnown
      /\ \A e \in Events : e.kind = "message" /\ outcome[e] = "processado" => Known(e.msg)
      /\ ev[h].msg \in WahaIds /\ ev[h].ack \in -1..4
      /\ \A g \in Handlers : ev[g].msg \in WahaIds
  BY PathTypes, IngestAssumption DEF PathInv, IngestTypeOK, ProcessedMessageIsRecorded
<1>a. ASSUME UNCHANGED messageVars, HandledIsKnown',
             \A e \in Events : e.kind = "message" /\ outcome'[e] = "processado" => Known(e.msg)
      PROVE  IngestKeeps
  <2>1. ProcessedMessageIsRecorded'
    BY <1>a DEF ProcessedMessageIsRecorded, Known, Linked, messageVars
  <2> QED
    BY <1>a, <2>1, Quiet
<1>1. ASSUME AutenticarThrows(h) PROVE IngestKeeps
  <2>1. /\ UNCHANGED messageVars
        /\ HandledIsKnown'
        /\ \A e \in Events : e.kind = "message" /\ outcome'[e] = "processado" => Known(e.msg)
    BY <1>1, <1>0
    DEF AutenticarThrows, Move, Interromper, messageVars, HandledIsKnown, Known, Linked
  <2> QED
    BY <1>a, <2>1
<1>2. ASSUME RegistrarEvento(h) PROVE IngestKeeps
  <2>1. /\ UNCHANGED messageVars
        /\ HandledIsKnown'
        /\ \A e \in Events : e.kind = "message" /\ outcome'[e] = "processado" => Known(e.msg)
    BY <1>2, <1>0
    DEF RegistrarEvento, Move, messageVars, HandledIsKnown, Known, Linked
  <2> QED
    BY <1>a, <2>1
<1>3. ASSUME EventoDuplicado(h) PROVE IngestKeeps
  <2>1. /\ UNCHANGED messageVars
        /\ HandledIsKnown'
        /\ \A e \in Events : e.kind = "message" /\ outcome'[e] = "processado" => Known(e.msg)
    BY <1>3, <1>0
    DEF EventoDuplicado, Move, Interromper, messageVars, HandledIsKnown, Known, Linked
  <2> QED
    BY <1>a, <2>1
<1>4. ASSUME ResolverSessao(h) PROVE IngestKeeps
  <2>1. /\ UNCHANGED messageVars
        /\ HandledIsKnown'
        /\ \A e \in Events : e.kind = "message" /\ outcome'[e] = "processado" => Known(e.msg)
    BY <1>4, <1>0
    DEF ResolverSessao, Move, messageVars, HandledIsKnown, Known, Linked
  <2> QED
    BY <1>a, <2>1
<1>5. ASSUME SessaoDesconhecida(h) PROVE IngestKeeps
  <2>1. /\ UNCHANGED messageVars
        /\ HandledIsKnown'
        /\ \A e \in Events : e.kind = "message" /\ outcome'[e] = "processado" => Known(e.msg)
    BY <1>5, <1>0
    DEF SessaoDesconhecida, Move, Finish, messageVars, HandledIsKnown, Known, Linked
  <2> QED
    BY <1>a, <2>1
<1>6. ASSUME ResolverSessaoThrows(h) PROVE IngestKeeps
  <2>1. /\ UNCHANGED messageVars
        /\ HandledIsKnown'
        /\ \A e \in Events : e.kind = "message" /\ outcome'[e] = "processado" => Known(e.msg)
    BY <1>6, <1>0
    DEF ResolverSessaoThrows, Move, Interromper, messageVars, HandledIsKnown, Known, Linked
  <2> QED
    BY <1>a, <2>1
<1>7. ASSUME AoReceberMensagem(h) PROVE IngestKeeps
  <2>0. PICK w \in WahaIds : w = ev[h].msg
    BY <1>0
  <2>1. /\ UNCHANGED sendRow /\ at' = [at EXCEPT ![h] = "publish"] /\ ev[h].kind = "message"
        /\ hookRow' = IF Known(w) THEN hookRow ELSE [hookRow EXCEPT ![w] = NewRow(w)]
        /\ UNCHANGED <<ev, outcome, waha>>
    BY <1>7, <2>0 DEF AoReceberMensagem, Move
  <2>2. /\ RowsKeep /\ Known(w)'
        /\ \A v \in WahaIds : Known(v) => RowOf(v)' = RowOf(v)
    BY <1>0, <2>0, <2>1, UpsertKeeps
  <2>3. StatusMoves
    BY <2>2 DEF StatusMoves, StatusOf
  <2> QED
    BY <1>0, <2>0, <2>1, <2>2, <2>3, Recorded DEF IngestKeeps, HandledIsKnown, RowsKeep
<1>8. ASSUME LerMensagem(h) PROVE IngestKeeps
  <2>1. /\ UNCHANGED messageVars
        /\ HandledIsKnown'
        /\ \A e \in Events : e.kind = "message" /\ outcome'[e] = "processado" => Known(e.msg)
    BY <1>8, <1>0
    DEF LerMensagem, Move, messageVars, HandledIsKnown, Known, Linked
  <2> QED
    BY <1>a, <2>1
<1>9. ASSUME AoConfirmar(h) PROVE IngestKeeps
  <2>0. PICK w \in WahaIds : w = ev[h].msg
    BY <1>0
  <2> DEFINE deve == DeveAtualizar(ev[h].ack, seen[h])
             status == IF deve THEN AckToStatus(ev[h].ack) ELSE RowOf(w).status
             row == [RowOf(w) EXCEPT !.status = status]
  <2>1. /\ at[h] = "confirm" /\ ev[h].kind = "ack" /\ Known(w) /\ waha' = waha
        /\ \E to \in {"publish", "answer"} : at' = [at EXCEPT ![h] = to]
        /\ ev' = ev
        /\ outcome' \in {outcome, [outcome EXCEPT ![ev[h]] = "processado"]}
    BY <1>9, <2>0, <1>0 DEF AoConfirmar, Move, Finish, HandledIsKnown
  <2>2. RowOf(w) \in Row /\ RowOf(w).wahaId
    BY <1>0, <2>0, <2>1, PathTypes DEF PathInv, Known, RowOf, Linked
  <2>3. UpdateRow(w, row)
    BY <1>9, <2>0, <2>2 DEF AoConfirmar, Row
  <2>4. /\ status \in MessageStatus \cup {"none"}
        /\ RowOf(w).status # "none" => status # "none"
    BY <1>0, <2>2 DEF AckToStatus, Row, MessageStatus
  <2>5. deve => status = "FAILED" \/ Rank(status) > Rank(seen[h])
    BY DEF DeveAtualizar, Rank
  <2>6. ~deve => status = RowOf(w).status
    OBVIOUS
  <2> HIDE DEF status
  <2>7. /\ row \in Row /\ row.wahaId /\ (RowOf(w).revoked => row.revoked)
        /\ row.status = status
    BY <2>2, <2>4 DEF Row
  <2> HIDE DEF row
  <2>8. /\ RowsKeep /\ RowOf(w)' = row
        /\ \A v \in WahaIds \ {w} : Known(v) => RowOf(v)' = RowOf(v)
    BY <2>1, <2>3, <2>4, <2>7, UpdateKeeps
  <2>9. StatusMoves
    BY <2>0, <2>1, <2>5, <2>6, <2>7, <2>8 DEF StatusMoves, StatusOf
  <2>10. HandledIsKnown'
    BY <1>0, <2>0, <2>1, <2>8 DEF HandledIsKnown, RowsKeep
  <2> QED
    BY <1>0, <2>0, <2>1, <2>8, <2>9, <2>10, Recorded DEF IngestKeeps
<1>10. ASSUME AoRevogar(h) PROVE IngestKeeps
  <2>0. PICK w \in WahaIds : w = ev[h].msg
    BY <1>0
  <2> DEFINE row == [RowOf(w) EXCEPT !.revoked = TRUE]
  <2>1. /\ ev[h].kind = "revoked" /\ Known(w) /\ waha' = waha /\ at' = [at EXCEPT ![h] = "answer"]
        /\ UpdateRow(w, row)
        /\ ev' = ev
        /\ outcome' \in {outcome, [outcome EXCEPT ![ev[h]] = "processado"]}
    BY <1>10, <2>0 DEF AoRevogar, Move, Finish
  <2>2. RowOf(w) \in Row /\ RowOf(w).wahaId
    BY <1>0, <2>0, <2>1, PathTypes DEF PathInv, Known, RowOf, Linked
  <2>3. row \in Row /\ row.wahaId /\ row.revoked /\ row.status = RowOf(w).status
    BY <2>2 DEF Row
  <2> HIDE DEF row
  <2>4. /\ RowsKeep /\ RowOf(w)' = row
        /\ \A v \in WahaIds \ {w} : Known(v) => RowOf(v)' = RowOf(v)
    BY <1>0, <2>0, <2>1, <2>3, UpdateKeeps
  <2>5. StatusMoves
    BY <2>3, <2>4 DEF StatusMoves, StatusOf
  <2>6. HandledIsKnown'
    BY <1>0, <2>0, <2>1, <2>4 DEF HandledIsKnown, RowsKeep
  <2> QED
    BY <1>0, <2>0, <2>1, <2>4, <2>5, <2>6, Recorded DEF IngestKeeps
<1>11. ASSUME MensagemDesconhecida(h) PROVE IngestKeeps
  <2>1. /\ UNCHANGED messageVars
        /\ HandledIsKnown'
        /\ \A e \in Events : e.kind = "message" /\ outcome'[e] = "processado" => Known(e.msg)
    BY <1>11, <1>0
    DEF MensagemDesconhecida, Move, Finish, messageVars, HandledIsKnown, Known, Linked
  <2> QED
    BY <1>a, <2>1
<1>12. ASSUME HandlerThrows(h) PROVE IngestKeeps
  <2>1. /\ UNCHANGED messageVars
        /\ HandledIsKnown'
        /\ \A e \in Events : e.kind = "message" /\ outcome'[e] = "processado" => Known(e.msg)
    BY <1>12, <1>0
    DEF HandlerThrows, Move, Finish, messageVars, HandledIsKnown, Known, Linked
  <2> QED
    BY <1>a, <2>1
<1>13. ASSUME Publicar(h) PROVE IngestKeeps
  <2>1. /\ UNCHANGED messageVars
        /\ HandledIsKnown'
        /\ \A e \in Events : e.kind = "message" /\ outcome'[e] = "processado" => Known(e.msg)
    BY <1>13, <1>0
    DEF Publicar, Move, Finish, messageVars, HandledIsKnown, Known, Linked
  <2> QED
    BY <1>a, <2>1
<1>14. ASSUME Responder(h) PROVE IngestKeeps
  <2>1. /\ UNCHANGED messageVars
        /\ HandledIsKnown'
        /\ \A e \in Events : e.kind = "message" /\ outcome'[e] = "processado" => Known(e.msg)
    BY <1>14, <1>0
    DEF Responder, Move, Clear, messageVars, HandledIsKnown, Known, Linked
  <2> QED
    BY <1>a, <2>1
<1>15. ASSUME CrashHandler(h) PROVE IngestKeeps
  <2>1. /\ UNCHANGED messageVars
        /\ HandledIsKnown'
        /\ \A e \in Events : e.kind = "message" /\ outcome'[e] = "processado" => Known(e.msg)
    BY <1>15, <1>0
    DEF CrashHandler, Clear, Interromper, messageVars, HandledIsKnown, Known, Linked
  <2> QED
    BY <1>a, <2>1
<1>16. ASSUME NEW e \in Events, Post(h, e) PROVE IngestKeeps
  <2>1. /\ UNCHANGED messageVars
        /\ HandledIsKnown'
        /\ \A d \in Events : d.kind = "message" /\ outcome'[d] = "processado" => Known(d.msg)
    BY <1>16, <1>0
    DEF Post, Move, messageVars, HandledIsKnown, Known, Linked
  <2> QED
    BY <1>a, <2>1
<1> QED
  BY <1>1, <1>2, <1>3, <1>4, <1>5, <1>6, <1>7, <1>8, <1>9, <1>10, <1>11, <1>12, <1>13,
     <1>14, <1>15, <1>16
  DEF HandlerStep

-----------------------------------------------------------------------------
(* The steps.                                                              *)

LEMMA PathInvInit == PathInit => PathInv
<1> SUFFICES ASSUME PathInit PROVE PathInv
  OBVIOUS
<1>1. Init /\ IngestInit
  BY DEF PathInit, Init, IngestInit
<1>2. IInv /\ LockInv
  BY <1>1, InvInit, LockInit
<1>3. RowsApart /\ UnfinishedIsUnlinked /\ LinkedByFault
  BY <1>1
  DEF Init, MessagesInit, NoRow, RowsApart, UnfinishedIsUnlinked, LinkedByFault, WahaIds
<1>4. HandledIsKnown /\ ProcessedMessageIsRecorded
  BY <1>1 DEF IngestInit, IngestVarsInit, HandledIsKnown, ProcessedMessageIsRecorded
<1> QED
  BY <1>2, <1>3, <1>4 DEF PathInv

(* The lock does not depend on the messages, but for their types. *)
LEMMA LockStays ==
  ASSUME LockInv, MessagesTypeOK', UNCHANGED ingestVars
  PROVE  LockInv'
  BY DEF LockInv, HandledIsRegistered, OneHandlerPerEvent, PublishedIsOver, EffectsAtMostOnce,
         Handling, IngestTypeOK, ingestVars

LEMMA SendKeeps ==
  ASSUME PathInv, SendNext, UNCHANGED ingestVars
  PROVE  PathInv' /\ Untouched
<1>1. IInv'
  BY InvStep DEF PathInv, Next
<1>2. TypeOK' /\ MessagesTypeOK'
  BY <1>1 DEF IInv, TypeOK
<1>3. LockInv'
  BY <1>2, LockStays DEF PathInv
<1>4. SendInv' /\ Untouched
  BY <1>2, SendRows
<1>5. /\ \A w \in WahaIds : Known(w) => Known(w)'
      /\ \A h \in Handlers : ev[h].msg \in WahaIds
      /\ \A e \in Events : e.msg \in WahaIds
      /\ at' = at /\ ev' = ev /\ outcome' = outcome
  BY <1>4, PathTypes DEF Untouched, IngestTypeOK, ingestVars
<1>6. HandledIsKnown'
  BY <1>5 DEF PathInv, HandledIsKnown
<1>7. ProcessedMessageIsRecorded'
  BY <1>5 DEF PathInv, ProcessedMessageIsRecorded
<1> QED
  BY <1>1, <1>3, <1>4, <1>6, <1>7 DEF PathInv, SendInv

(* The send path's invariant asks of the rows of the messages that they    *)
(* keep their wahaId and have a status; the ingestion sees to it.          *)
LEMMA SendInvStays ==
  ASSUME IInv, RowsKeep, MessagesTypeOK', UNCHANGED sendVars
  PROVE  IInv'
<1>1. /\ redis' = redis /\ pc' = pc /\ reply' = reply /\ write' = write /\ window' = window
      /\ waha' = waha
      /\ \A r \in Requests : /\ sendRow'[r].wahaId = sendRow[r].wahaId
                             /\ sendRow[r].status # "none" => sendRow'[r].status # "none"
  BY DEF RowsKeep, sendVars
<1>2. TypeOK'
  BY <1>1 DEF IInv, TypeOK
<1>3. WindowsByKey' /\ OwnersInWindow' /\ OneOwner' /\ OpenDeliveryHoldsKey'
  BY <1>1 DEF IInv, WindowsByKey, OwnersInWindow, OneOwner, OpenDeliveryHoldsKey, Owner, Open
<1>4. PcAgreesWithWaha' /\ WritesAgreeWithWaha' /\ RefusedNeverDelivered'
  BY <1>1 DEF IInv, PcAgreesWithWaha, WritesAgreeWithWaha, RefusedNeverDelivered
<1>5. StoredResults' /\ AnswerWasDelivered'
  BY <1>1 DEF IInv, StoredResults, AnswerWasDelivered, Linked
<1> QED
  BY <1>2, <1>3, <1>4, <1>5 DEF IInv

LEMMA IngestInvStep ==
  ASSUME PathInv, IngestNext, UNCHANGED sendVars
  PROVE  PathInv' /\ IngestKeeps
<1>1. IngestKeeps
  BY IngestRows DEF IngestNext
<1>2. LockInv' /\ MessagesTypeOK'
  BY LockStep DEF PathInv, LockInv, IngestTypeOK
<1>3. IInv'
  BY <1>1, <1>2, SendInvStays DEF PathInv, IngestKeeps
<1>4. UnfinishedIsUnlinked' /\ LinkedByFault'
  BY <1>1 DEF PathInv, UnfinishedIsUnlinked, LinkedByFault, IngestKeeps, RowsKeep, sendVars
<1> QED
  BY <1>1, <1>2, <1>3, <1>4 DEF PathInv, IngestKeeps, RowsKeep

LEMMA PathInvStep ==
  ASSUME PathInv, [PathNext]_pathVars
  PROVE  PathInv' /\ (IngestKeeps \/ Untouched)
<1>1. CASE UNCHANGED pathVars
  <2>1. UNCHANGED vars /\ UNCHANGED webhookVars
    BY <1>1 DEF pathVars, vars, webhookVars
  <2>2. IInv' /\ LockInv'
    BY <2>1, InvStep, LockStep DEF PathInv
  <2>3. Untouched
    BY <1>1 DEF Untouched, Known, Linked, RowOf, StatusOf, pathVars, messageVars
  <2>4. /\ RowsApart' /\ UnfinishedIsUnlinked' /\ LinkedByFault'
        /\ HandledIsKnown' /\ ProcessedMessageIsRecorded'
    BY <1>1
    DEF PathInv, RowsApart, UnfinishedIsUnlinked, LinkedByFault, HandledIsKnown,
        ProcessedMessageIsRecorded, Known, Linked, pathVars, messageVars, sendVars, ingestVars
  <2> QED
    BY <2>2, <2>3, <2>4 DEF PathInv
<1> QED
  BY <1>1, SendKeeps, IngestInvStep DEF PathNext

-----------------------------------------------------------------------------
(* What holds of both together.                                            *)

(* In every reachable state a message has at most one row with its wahaId, *)
(* and the invariants of the send path and of the lock hold beside it.     *)
THEOREM PathInvariant == PathSpec => []PathInv
<1>1. PathInv /\ [PathNext]_pathVars => PathInv'
  BY PathInvStep
<1> QED
  BY <1>1, PathInvInit, PTL DEF PathSpec

(* A message answered with 201, at once or from its key, has one row: the  *)
(* one the answer names (executar, and the upsert of aoReceberMensagem).   *)
THEOREM OneRow == PathSpec => []AnsweredSendHasOneRow
<1>1. PathInv => AnsweredSendHasOneRow
  BY DEF PathInv, IInv, AnswerWasDelivered, Linked, RowsApart, AnsweredSendHasOneRow
<1> QED
  BY <1>1, PathInvariant, PTL

(* A message event answered as processed left a row with its wahaId, for   *)
(* the gateway's own sends too (aoReceberMensagem).                        *)
THEOREM ProcessedIsRecorded == PathSpec => []ProcessedMessageIsRecorded
<1>1. PathInv => ProcessedMessageIsRecorded
  BY DEF PathInv
<1> QED
  BY <1>1, PathInvariant, PTL

(* Once a row has its wahaId its status moves by an ack alone, forward of  *)
(* what the ack's handler had read or to FAILED: a repeated message event  *)
(* never overwrites it (aoConfirmar), and executar only by its catch, when *)
(* the database failed after it had committed the update to SENT.          *)
THEOREM AcksAlone == PathSpec => OnlyAcksMoveStatus
<1> DEFINE A == \A w \in WahaIds :
                  Known(w) /\ StatusOf(w)' # StatusOf(w) =>
                    \/ \E h \in Handlers :
                         /\ at[h] = "confirm" /\ ev[h].kind = "ack" /\ ev[h].msg = w
                         /\ StatusOf(w)' = "FAILED" \/ Rank(StatusOf(w)') > Rank(seen[h])
                    \/ /\ "db" \in Faults /\ Linked(w) /\ pc[w] = "failing"
                       /\ StatusOf(w)' = "FAILED"
<1>1. ASSUME PathInv, [PathNext]_pathVars PROVE A
  <2>1. CASE IngestKeeps
    BY <2>1 DEF IngestKeeps, StatusMoves
  <2>2. CASE Untouched
    BY <2>2 DEF Untouched, Caught
  <2> QED
    BY <1>1, <2>1, <2>2, PathInvStep
<1>2. PathInv /\ [PathNext]_pathVars => [A]_pathVars
  BY <1>1
<1> QED
  BY <1>2, PathInvariant, PTL DEF PathSpec, OnlyAcksMoveStatus

(* A revoked message stays blanked, whatever arrives or is saved after it  *)
(* (aoRevogar).                                                            *)
THEOREM RevokedStays == PathSpec => RevokedStaysRevoked
<1> DEFINE A == \A w \in WahaIds : Known(w) /\ RowOf(w).revoked => RowOf(w)'.revoked
<1>1. PathInv /\ [PathNext]_pathVars => [A]_pathVars
  BY PathInvStep DEF IngestKeeps, RowsKeep, Untouched
<1> QED
  BY <1>1, PathInvariant, PTL DEF PathSpec, RevokedStaysRevoked

(* Whatever SendPath promises by itself it promises with the webhooks of   *)
(* its own messages coming in: at most one delivery per key, a 201 only    *)
(* for an accepted message, a 4xx of the gateway or of WAHA only when      *)
(* nothing went out, nothing invisible.  (A webhook that overtakes the     *)
(* answer turns it into a 4xx of the database, which says nothing.)        *)
THEOREM SendPathStands ==
  PathSpec => [](/\ AtMostOneDelivery
                 /\ OpenDeliveryHoldsKey
                 /\ SameAnswer
                 /\ AnswerWasDelivered
                 /\ RefusedNeverDelivered
                 /\ NoInvisibleSend)
<1>1. PathInv => /\ AtMostOneDelivery
                 /\ OpenDeliveryHoldsKey
                 /\ SameAnswer
                 /\ AnswerWasDelivered
                 /\ RefusedNeverDelivered
                 /\ NoInvisibleSend
  BY Consequences DEF PathInv
<1> QED
  BY <1>1, PathInvariant, PTL

(* With the ingestion beside it the path still keeps the promise of the    *)
(* Idempotency-Key: a webhook is no step of AtMostOnceSend.                *)
THEOREM PromiseStands == PathSpec => PromiseKept
<1>1. PathInit => Promise!Init
  BY PromiseInit DEF PathInit
<1>2. ASSUME PathInv, [PathNext]_pathVars PROVE [Promise!Next]_(Promise!vars)
  <2>1. IInv
    BY <1>2 DEF PathInv
  <2>2. CASE [Next]_vars
    BY <2>1, <2>2, PromiseStep
  <2>3. CASE IngestNext /\ UNCHANGED sendVars
    <3>1. redis' = redis /\ window' = window /\ waha' = waha
      BY <1>2, <2>3, IngestInvStep DEF sendVars, IngestKeeps, RowsKeep
    <3> QED
      BY <3>1 DEF Promise!vars
  <2> QED
    BY <1>2, <2>2, <2>3 DEF PathNext, Next, pathVars, vars
<1>3. PathInv /\ [PathNext]_pathVars => [Promise!Next]_(Promise!vars)
  BY <1>2
<1> QED
  BY <1>1, <1>3, PathInvariant, PTL DEF PathSpec, PromiseKept, Promise!Spec

(* With the sends beside it the ingestion still passes an event on at most *)
(* once.                                                                   *)
THEOREM OneEffectStands == PathSpec => []EffectsAtMostOnce
<1>1. PathInv => EffectsAtMostOnce
  BY DEF PathInv, LockInv
<1> QED
  BY <1>1, PathInvariant, PTL
=============================================================================
