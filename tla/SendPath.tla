------------------------------ MODULE SendPath ------------------------------
(***************************************************************************)
(* POST /v1/messages/*: the Idempotency-Key interceptor, the message       *)
(* service it wraps, the one-shot call to WAHA, and the Redis key.         *)
(*                                                                         *)
(* Requests run concurrently; every await of the code is a step of its     *)
(* own.  The names in Faults switch on the failures of the environment:    *)
(*   "db"     a Prisma call throws: the database fails, or the session was *)
(*            removed meanwhile and its messages with it (the removal of   *)
(*            the rows is not modelled)                                    *)
(*   "redis"  Redis refuses a write, or the connection drops and the       *)
(*            client resends the command                                   *)
(*   "crash"  the process serving a request dies; a process that serves    *)
(*            several is a crash of each                                   *)
(*                                                                         *)
(* The requests are those of one API process, as production deploys it:    *)
(* its Redis client resends what it was waiting for before it sends        *)
(* anything else, so a resent DEL frees no key a later SET took.  Apart    *)
(* from that nothing here depends on there being one.                      *)
(*                                                                         *)
(* Operators called Mutant... are not part of the model: each is the       *)
(* definition after it with a plausible bug, and the README tells which    *)
(* property notices the bug.                                               *)
(***************************************************************************)
EXTENDS Messages

CONSTANTS
    Keys,       \* idem:<applicationId>:<Idempotency-Key> in Redis
    NoKey,      \* a request without the header
    KeyOf,      \* the key each request carries
    Faults

(* A failed request is answered with a 4xx of the gateway or of WAHA       *)
(* ("refused"), a 4xx that fromPrisma makes of a database error (409 of    *)
(* P2002 and P2003, 404 of P2025: "dbRefused"), or anything else.          *)
FailedReply == {"refused", "dbRefused", "error"}

Tags == {"absent", "PENDING", "none", "conflict"} \cup FailedReply

ASSUME SendAssumption ==
    /\ NoKey \notin Keys
    /\ KeyOf \in [Requests -> Keys \cup {NoKey}]
    /\ Requests \cap Tags = {}
    /\ Faults \subseteq {"db", "redis", "crash"}

VARIABLES
    redis,      \* the Redis value of a key: absent, PENDING, or the result of a request
    pc,         \* where each request is
    reply,      \* what the integrator was answered
    write,      \* the Redis write a finished request did not wait for
    window      \* history: the requests that reserved a key in its current 24 hours

sendVars == <<redis, pc, reply, write, window>>
vars == <<messageVars, sendVars>>

Pc == {"idle", "lookup", "reserve", "handle", "call", "waiting", "saving",
       "failing", "failingSure", "failingDuplicate", "done"}

Keyed(r) == KeyOf[r] # NoKey

(* Before the first step of a request nothing is known about it. *)
Init ==
    /\ MessagesInit
    /\ redis = [k \in Keys |-> "absent"]
    /\ pc = [r \in Requests |-> "idle"]
    /\ reply = [r \in Requests |-> "none"]
    /\ write = [r \in Requests |-> "none"]
    /\ window = [k \in Keys |-> {}]

Go(r, from, to) == pc[r] = from /\ pc' = [pc EXCEPT ![r] = to]

Answer(r, a) == reply' = [reply EXCEPT ![r] = a]

-----------------------------------------------------------------------------
(* The interceptor.                                                        *)

(* intercept: without a key the handler runs unprotected. *)
Intercept(r) ==
    /\ Go(r, "idle", IF Keyed(r) THEN "lookup" ELSE "handle")
    /\ UNCHANGED <<messageVars, redis, reply, write, window>>

(* buscarIdempotente: a stored result is replayed ... *)
Replay(r) ==
    /\ Go(r, "lookup", "done")
    /\ redis[KeyOf[r]] \in Requests
    /\ Answer(r, redis[KeyOf[r]])
    /\ UNCHANGED <<messageVars, redis, write, window>>

MutantEsperar(r) == \* reads again instead of answering 409
    /\ Go(r, "lookup", "lookup")
    /\ redis[KeyOf[r]] = "PENDING"
    /\ UNCHANGED <<messageVars, redis, reply, write, window>>

(* ... PENDING is 'em-andamento' ... *)
EmAndamento(r) ==
    /\ Go(r, "lookup", "done")
    /\ redis[KeyOf[r]] = "PENDING"
    /\ Answer(r, "conflict")
    /\ UNCHANGED <<messageVars, redis, write, window>>

(* ... and no value sends the request on to the reservation. *)
BuscarIdempotente(r) ==
    /\ Go(r, "lookup", "reserve")
    /\ redis[KeyOf[r]] = "absent"
    /\ UNCHANGED <<messageVars, redis, reply, write, window>>

MutantReservarSemNX(r) == \* SET without NX after the lookup
    /\ Go(r, "reserve", "handle")
    /\ redis' = [redis EXCEPT ![KeyOf[r]] = "PENDING"]
    /\ window' = [window EXCEPT ![KeyOf[r]] = @ \cup {r}]
    /\ UNCHANGED <<messageVars, reply, write>>

(* reservarIdempotencia: SET key PENDING EX 86400 NX. *)
ReservarIdempotencia(r) ==
    /\ Go(r, "reserve", "handle")
    /\ redis[KeyOf[r]] = "absent"
    /\ redis' = [redis EXCEPT ![KeyOf[r]] = "PENDING"]
    /\ window' = [window EXCEPT ![KeyOf[r]] = @ \cup {r}]
    /\ UNCHANGED <<messageVars, reply, write>>

ReservaPerdida(r) ==
    /\ Go(r, "reserve", "done")
    /\ redis[KeyOf[r]] # "absent"
    /\ Answer(r, "conflict")
    /\ UNCHANGED <<messageVars, redis, write, window>>

(* The connection drops after the SET was applied: ioredis resends it, and *)
(* NX makes the client lose against its own first attempt.                 *)
ReservaReenviada(r) ==
    /\ "redis" \in Faults
    /\ Go(r, "reserve", "done")
    /\ redis[KeyOf[r]] = "absent"
    /\ redis' = [redis EXCEPT ![KeyOf[r]] = "PENDING"]
    /\ Answer(r, "conflict")
    /\ UNCHANGED <<messageVars, write, window>>

(* Redis refuses the SET (it runs without eviction): an error, and nothing *)
(* is reserved.                                                            *)
ReservaThrows(r) ==
    /\ "redis" \in Faults
    /\ Go(r, "reserve", "done")
    /\ Answer(r, "error")
    /\ UNCHANGED <<messageVars, redis, write, window>>

MutantLiberarSempre(r, a) == \* every error frees the key
    /\ Answer(r, a)
    /\ write' = [write EXCEPT ![r] = IF Keyed(r) THEN "release" ELSE "none"]

(* How a failed handler leaves the interceptor: the tap's error branch     *)
(* frees the key only when naoEntregaCerta says nothing went out.  That    *)
(* reads the status of an HttpException or of the error; the filter gives  *)
(* a database error its status only afterwards.                            *)
FailWith(r, a) ==
    /\ Answer(r, a)
    /\ write' = [write EXCEPT ![r] = IF a = "refused" /\ Keyed(r) THEN "release" ELSE "none"]

-----------------------------------------------------------------------------
(* The handler: validation, preparar, sessaoOperavel, resolverArquivo.     *)

(* A 4xx of the gateway itself: bad body or recipient, unknown session,    *)
(* session not WORKING, no file or more than one, file too large.          *)
Preparar(r) ==
    /\ Go(r, "handle", "done")
    /\ FailWith(r, "refused")
    /\ UNCHANGED <<messageVars, redis, window>>

MutantSemRegistro(r) == \* the row is left for later
    /\ Go(r, "handle", "call")
    /\ UNCHANGED <<messageVars, redis, reply, write, window>>

(* executar: the row is inserted, QUEUED and without a wahaId. *)
CreateRow(r) ==
    /\ Go(r, "handle", "call")
    /\ sendRow' = [sendRow EXCEPT ![r].status = "QUEUED"]
    /\ UNCHANGED <<hookRow, waha, redis, reply, write, window>>

(* The session lookup or the insert throws; an insert that throws may have *)
(* been committed, but not one of an unknown session (P2003).              *)
PrepararThrows(r) ==
    /\ "db" \in Faults
    /\ Go(r, "handle", "done")
    /\ \E a \in {"dbRefused", "error"} :
        /\ FailWith(r, a)
        /\ \/ UNCHANGED sendRow
           \/ a = "error" /\ sendRow' = [sendRow EXCEPT ![r].status = "QUEUED"]
    /\ UNCHANGED <<hookRow, waha, redis, window>>

(* WahaClient.raw: a send is not retryable, so there is one attempt. *)
Enviar(r) ==
    /\ Go(r, "call", "waiting")
    /\ waha' = [waha EXCEPT ![r] = "pending"]
    /\ UNCHANGED <<sendRow, hookRow, redis, reply, write, window>>

MutantRespostaOk(r) == \* any answer counts as a 200
    /\ waha[r] # "none"
    /\ Go(r, "waiting", "saving")
    /\ UNCHANGED <<messageVars, redis, reply, write, window>>

(* 200, with the id of the message, which WahaMessage requires. *)
RespostaOk(r) ==
    /\ waha[r] = "accepted"
    /\ Go(r, "waiting", "saving")
    /\ UNCHANGED <<messageVars, redis, reply, write, window>>

(* 400, 404, 422: translated into an error whose status is 4xx. *)
RespostaRecusada(r) ==
    /\ waha[r] = "refused"
    /\ Go(r, "waiting", "failingSure")
    /\ UNCHANGED <<messageVars, redis, reply, write, window>>

MutantTimeoutComoRecusa(r) == \* a timeout counts as a 4xx
    /\ Go(r, "waiting", "failingSure")
    /\ UNCHANGED <<messageVars, redis, reply, write, window>>

(* Timeout, broken connection, 5xx, 429, 401, a body that is not JSON:     *)
(* WAHA may have sent the message, may still send it, or never will.       *)
RespostaIncerta(r) ==
    /\ Go(r, "waiting", "failing")
    /\ UNCHANGED <<messageVars, redis, reply, write, window>>

SentRow(r) == [status |-> "SENT", wahaId |-> TRUE, revoked |-> sendRow[r].revoked]

MutantSemUnicidade(r) == \* no unique index on the wahaId
    /\ Go(r, "saving", "done")
    /\ sendRow' = [sendRow EXCEPT ![r] = SentRow(r)]
    /\ Answer(r, r)
    /\ write' = [write EXCEPT ![r] = IF Keyed(r) THEN "result" ELSE "none"]
    /\ UNCHANGED <<hookRow, waha, redis, window>>

(* The update to SENT with the wahaId; the tap's next branch then starts   *)
(* the write of the result without waiting for it.                         *)
SaveSent(r) ==
    /\ ~hookRow[r].wahaId
    /\ Go(r, "saving", "done")
    /\ sendRow' = [sendRow EXCEPT ![r] = SentRow(r)]
    /\ Answer(r, r)
    /\ write' = [write EXCEPT ![r] = IF Keyed(r) THEN "result" ELSE "none"]
    /\ UNCHANGED <<hookRow, waha, redis, window>>

(* The same update throws.  It is inside the try, so the catch takes it    *)
(* for a failed send: the webhook was faster and another row has the       *)
(* wahaId (P2002) ...                                                      *)
SaveSentDuplicate(r) ==
    /\ hookRow[r].wahaId
    /\ Go(r, "saving", "failingDuplicate")
    /\ UNCHANGED <<messageVars, redis, reply, write, window>>

(* ... or the database fails, before or after it committed the update.     *)
SaveSentThrows(r) ==
    /\ "db" \in Faults
    /\ Go(r, "saving", "failing")
    /\ \/ UNCHANGED sendRow
       \/ ~hookRow[r].wahaId /\ sendRow' = [sendRow EXCEPT ![r] = SentRow(r)]
    /\ UNCHANGED <<hookRow, waha, redis, reply, write, window>>

Failing == {"failing", "failingSure", "failingDuplicate"}

(* The catch of executar: the row becomes FAILED and the error goes on to  *)
(* the interceptor and the filter.                                         *)
SaveFailed(r) ==
    \E from \in Failing :
        /\ Go(r, from, "done")
        /\ sendRow' = [sendRow EXCEPT ![r].status = "FAILED"]
        /\ FailWith(r, CASE from = "failing"          -> "error"
                         [] from = "failingSure"      -> "refused"
                         [] from = "failingDuplicate" -> "dbRefused")
        /\ UNCHANGED <<hookRow, waha, redis, window>>

(* The update in the catch throws too, committed or not: its error         *)
(* replaces the first one.  (P2025 when the row is gone.)                  *)
SaveFailedThrows(r) ==
    /\ "db" \in Faults
    /\ \E from \in Failing : Go(r, from, "done")
    /\ \E a \in {"dbRefused", "error"} :
        /\ FailWith(r, a)
        /\ \/ UNCHANGED sendRow
           \/ a = "error" /\ sendRow' = [sendRow EXCEPT ![r].status = "FAILED"]
    /\ UNCHANGED <<hookRow, waha, redis, window>>

-----------------------------------------------------------------------------
(* The writes nobody waits for.                                            *)

(* registrarIdempotencia: SETEX key 86400 result. *)
RegistrarIdempotencia(r) ==
    /\ write[r] = "result"
    /\ redis' = [redis EXCEPT ![KeyOf[r]] = r]
    /\ write' = [write EXCEPT ![r] = "none"]
    /\ UNCHANGED <<messageVars, pc, reply, window>>

(* liberarIdempotencia: DEL key. *)
LiberarIdempotencia(r) ==
    /\ write[r] = "release"
    /\ redis' = [redis EXCEPT ![KeyOf[r]] = "absent"]
    /\ write' = [write EXCEPT ![r] = "none"]
    /\ UNCHANGED <<messageVars, pc, reply, window>>

(* Redis refuses the write: nobody retries it.  (Nor does anybody catch the *)
(* rejection, so the process may die as well: Crash, of its requests.)      *)
EscritaPerdida(r) ==
    /\ "redis" \in Faults
    /\ write[r] # "none"
    /\ write' = [write EXCEPT ![r] = "none"]
    /\ UNCHANGED <<messageVars, redis, pc, reply, window>>

-----------------------------------------------------------------------------
(* The environment.                                                        *)

(* The process dies: the request stops wherever it is, without an answer,  *)
(* and so does the write it did not wait for.  WAHA carries on.            *)
Crash(r) ==
    /\ "crash" \in Faults
    /\ pc[r] \notin {"idle", "done"} \/ write[r] # "none"
    /\ pc' = [pc EXCEPT ![r] = "done"]
    /\ write' = [write EXCEPT ![r] = "none"]
    /\ UNCHANGED <<messageVars, redis, reply, window>>

WahaAceita(r) ==
    /\ waha[r] = "pending"
    /\ waha' = [waha EXCEPT ![r] = "accepted"]
    /\ UNCHANGED <<sendRow, hookRow, sendVars>>

WahaRecusa(r) ==
    /\ waha[r] = "pending"
    /\ waha' = [waha EXCEPT ![r] = "refused"]
    /\ UNCHANGED <<sendRow, hookRow, sendVars>>

(* WAHA announces a message it accepted, and the ingestion's upsert makes  *)
(* a row with its wahaId, unless there is one: maybe before the answer to  *)
(* the POST arrives.  This is all that the send path sees of a webhook;    *)
(* MessagePath has the whole ingestion in its place.                       *)
Anunciar(r) ==
    /\ waha[r] = "accepted" /\ ~Known(r)
    /\ hookRow' = [hookRow EXCEPT ![r] =
                     [status |-> "SENT", wahaId |-> TRUE, revoked |-> FALSE]]
    /\ UNCHANGED <<sendRow, waha, sendVars>>

(* The request is over: the gateway works on it no longer and WAHA, which  *)
(* gets at most the timeout of a call, has decided or never received it.   *)
Over(r) == pc[r] = "done" /\ write[r] = "none" /\ waha[r] # "pending"

(* The key's 24 hours end, long after the requests that used it. *)
Expirar(k) ==
    /\ redis[k] # "absent"
    /\ \A r \in window[k] : Over(r)
    /\ redis' = [redis EXCEPT ![k] = "absent"]
    /\ window' = [window EXCEPT ![k] = {}]
    /\ UNCHANGED <<messageVars, pc, reply, write>>

-----------------------------------------------------------------------------
(* One request's own steps: they happen unless the process dies. *)
Progress(r) ==
    \/ Replay(r)
    \/ EmAndamento(r)
    \/ BuscarIdempotente(r)
    \/ ReservarIdempotencia(r)
    \/ ReservaPerdida(r)
    \/ ReservaReenviada(r)
    \/ ReservaThrows(r)
    \/ Preparar(r)
    \/ CreateRow(r)
    \/ PrepararThrows(r)
    \/ Enviar(r)
    \/ RespostaOk(r)
    \/ RespostaRecusada(r)
    \/ RespostaIncerta(r)
    \/ SaveSent(r)
    \/ SaveSentDuplicate(r)
    \/ SaveSentThrows(r)
    \/ SaveFailed(r)
    \/ SaveFailedThrows(r)

Writes(r) ==
    \/ RegistrarIdempotencia(r)
    \/ LiberarIdempotencia(r)
    \/ EscritaPerdida(r)

SendNext ==
    \/ \E r \in Requests :
        \/ Intercept(r)
        \/ Progress(r)
        \/ Writes(r)
        \/ Crash(r)
        \/ WahaAceita(r)
        \/ WahaRecusa(r)
    \/ \E k \in Keys : Expirar(k)

Next ==
    \/ SendNext
    \/ \E r \in Requests : Anunciar(r)

Spec == Init /\ [][Next]_vars

(* Node runs the continuation of every settled await, and every call to    *)
(* WAHA settles by its answer or by its timeout.                           *)
Fairness == \A r \in Requests : WF_vars(Progress(r)) /\ WF_vars(Writes(r))

FairSpec == Spec /\ Fairness
-----------------------------------------------------------------------------
(* Properties.                                                             *)

TypeOK ==
    /\ MessagesTypeOK
    /\ redis \in [Keys -> {"absent", "PENDING"} \cup Requests]
    /\ pc \in [Requests -> Pc]
    /\ reply \in [Requests -> {"none", "conflict"} \cup FailedReply \cup Requests]
    /\ write \in [Requests -> {"none", "result", "release"}]
    /\ window \in [Keys -> SUBSET Requests]

(* Of the requests that used a key within its 24 hours, at most one is on  *)
(* its way to WhatsApp or has got there, whatever timed out or crashed.    *)
AtMostOneDelivery ==
    \A k \in Keys : \A r, s \in window[k] :
        /\ waha[r] \in {"pending", "accepted"}
        /\ waha[s] \in {"pending", "accepted"}
        => r = s

(* A send that went out, or still may, keeps its key taken: only then can  *)
(* the integrator repeat it safely (the error branch of the tap).          *)
OpenDeliveryHoldsKey ==
    \A k \in Keys : \A r \in window[k] :
        waha[r] \in {"pending", "accepted"} => redis[k] # "absent"

(* Repeating a request with its key gives the original result: all 201s    *)
(* under a key name the same message.                                      *)
SameAnswer ==
    \A k \in Keys : \A r, s \in {q \in Requests : KeyOf[q] = k} :
        reply[r] \in window[k] /\ reply[s] \in window[k] => reply[r] = reply[s]

(* A 201, fresh or replayed, names a message that WhatsApp has and whose   *)
(* row carries the wahaId that later acks will look for.                   *)
AnswerWasDelivered ==
    \A r \in Requests : reply[r] \in Requests =>
        waha[reply[r]] = "accepted" /\ Linked(reply[r])

(* A 4xx of the gateway or of WAHA, the answers naoEntregaCerta frees the  *)
(* key for, says that nothing went out: nothing ever does, whatever failed *)
(* on the way to that answer.  It is not so of every 4xx, as the comment   *)
(* on naoEntregaCerta has it: one that the filter makes of a database      *)
(* error, "dbRefused", may answer a message that went out.                 *)
RefusedNeverDelivered ==
    \A r \in Requests : reply[r] = "refused" => waha[r] \in {"none", "refused"}

(* No send is invisible: whatever reaches WhatsApp has a row, even if the  *)
(* process died in the middle (the comment on executar).                   *)
NoInvisibleSend ==
    \A r \in Requests : waha[r] = "accepted" => sendRow[r].status # "none"

(* The inductive invariant behind them.                                    *)

(* Between its reservation and its last Redis write a request owns its key.*)
Active == {"handle", "call", "waiting", "saving"} \cup Failing

Owner(r) == pc[r] \in Active \/ write[r] # "none"

Open(r) == waha[r] \in {"pending", "accepted"}

WindowsByKey == \A k \in Keys : \A r \in window[k] : KeyOf[r] = k

OwnersInWindow ==
    \A r \in Requests :
        /\ Keyed(r) /\ Owner(r) => r \in window[KeyOf[r]] /\ redis[KeyOf[r]] = "PENDING"
        /\ write[r] # "none" => Keyed(r) /\ pc[r] = "done"

OneOwner ==
    \A k \in Keys : \A r, s \in window[k] :
        (Owner(r) \/ Open(r)) /\ (Owner(s) \/ Open(s)) => r = s

PcAgreesWithWaha ==
    \A r \in Requests :
        /\ pc[r] \in {"idle", "lookup", "reserve", "handle", "call"} => waha[r] = "none"
        /\ pc[r] \in {"saving", "failingDuplicate"} => waha[r] = "accepted"
        /\ pc[r] = "failingSure" => waha[r] = "refused"
        /\ pc[r] \in {"lookup", "reserve"} => Keyed(r)
        /\ pc[r] # "done" => reply[r] = "none" /\ write[r] = "none"
        /\ pc[r] = "call" \/ waha[r] # "none" => sendRow[r].status # "none"

WritesAgreeWithWaha ==
    \A r \in Requests :
        /\ write[r] = "result" => waha[r] = "accepted" /\ sendRow[r].wahaId
        /\ write[r] = "release" => waha[r] \in {"none", "refused"}

StoredResults ==
    \A k \in Keys : redis[k] \in Requests =>
        /\ redis[k] \in window[k]
        /\ waha[redis[k]] = "accepted"
        /\ sendRow[redis[k]].wahaId

IInv ==
    /\ TypeOK
    /\ WindowsByKey
    /\ OwnersInWindow
    /\ OneOwner
    /\ OpenDeliveryHoldsKey
    /\ PcAgreesWithWaha
    /\ WritesAgreeWithWaha
    /\ StoredResults
    /\ AnswerWasDelivered
    /\ RefusedNeverDelivered

(* Every request that entered the interceptor ends, with or without an     *)
(* answer: none waits for a key that another one holds.                    *)
RequestSettles == \A r \in Requests : pc[r] = "lookup" ~> pc[r] = "done"

(* The path implements the promise of an Idempotency-Key. *)
Promise == INSTANCE AtMostOnceSend WITH
    Sends     <- Requests,
    NoSend    <- "none",
    held      <- [k \in Keys |-> redis[k] # "absent"],
    delivered <- [k \in Keys |-> {r \in window[k] : waha[r] = "accepted"}],
    answer    <- [k \in Keys |-> IF redis[k] \in Requests THEN redis[k] ELSE "none"]

PromiseKept == Promise!Spec
=============================================================================
