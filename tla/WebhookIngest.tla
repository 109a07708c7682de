--------------------------- MODULE WebhookIngest ---------------------------
(***************************************************************************)
(* POST /internal/waha/webhook for message events: the event lock in       *)
(* inbound_events, the session lookup and the three message handlers.      *)
(*                                                                         *)
(* WAHA posts an event until it sees a 2xx, at most MaxPosts times, and    *)
(* posts it again when an answer is late: posts of one event, and events   *)
(* of one message, run concurrently and arrive in any order.  A handler is *)
(* one such HTTP request; every await is a step of its own.  Session       *)
(* status events are the sessions' and left out, and so are events nobody  *)
(* handles, which end as an ack or a revocation of an unknown message does.*)
(*                                                                         *)
(* Faults: "db" a query fails, "crash" the process dies, "net" the answer  *)
(* does not reach WAHA, "session" the session is unknown.                  *)
(*                                                                         *)
(* Operators called Mutant... are not part of the model: each is the       *)
(* definition after it with a plausible bug (see the README).              *)
(***************************************************************************)
EXTENDS Messages

CONSTANTS
    Events,     \* WAHA events: records [id, kind, msg, ack]
    Handlers,   \* webhook requests the gateway serves at the same time
    MaxPosts,   \* WAHA's attempts per event
    IngestFaults

Kinds == {"message", "ack", "revoked"}

ASSUME IngestAssumption ==
    /\ Events # {}
    /\ \A e \in Events : e.kind \in Kinds /\ e.msg \in WahaIds /\ e.ack \in -1..4
    /\ MaxPosts \in Nat \ {0}
    /\ IngestFaults \subseteq {"db", "crash", "net", "session"}

VARIABLES
    registered, \* events with a row in inbound_events
    at,         \* where each handler is
    ev,         \* the event each handler serves
    seen,       \* the message status a handler read
    result,     \* what a handler is about to answer
    posts,      \* posts made per event
    acked,      \* events WAHA got a 2xx for
    outcome,    \* history: how an event's processing ended, or that a fault hit it
    published   \* history: how often an event was passed on to the integrator

ingestVars == <<registered, at, ev, seen, result, posts, acked, outcome, published>>
webhookVars == <<messageVars, ingestVars>>

(* What stands in ev for a handler that serves no event. *)
NoEvent == CHOOSE e \in Events : TRUE

At == {"idle", "lock", "resolve", "dispatch", "confirm", "publish", "answer"}

IngestVarsInit ==
    /\ registered = {}
    /\ at = [h \in Handlers |-> "idle"]
    /\ ev = [h \in Handlers |-> NoEvent]
    /\ seen = [h \in Handlers |-> "none"]
    /\ result = [h \in Handlers |-> "none"]
    /\ posts = [e \in Events |-> 0]
    /\ acked = {}
    /\ outcome = [e \in Events |-> "none"]
    /\ published = [e \in Events |-> 0]

IngestInit == MessagesInit /\ IngestVarsInit

Move(h, from, to) == at[h] = from /\ at' = [at EXCEPT ![h] = to]

(* processar returns r: the handler answers, and the event's fate is set. *)
Finish(h, r) ==
    /\ result' = [result EXCEPT ![h] = r]
    /\ outcome' = [outcome EXCEPT ![ev[h]] = r]

(* A fault stops the handler; the event's fate is known already, or lost   *)
(* unless another post is handled.                                         *)
Interromper(h) ==
    outcome' = [outcome EXCEPT ![ev[h]] = IF @ = "none" THEN "erro" ELSE @]

-----------------------------------------------------------------------------
(* WAHA.                                                                   *)

(* WAHA speaks of a message of this gateway once it accepted the send. *)
Emitted(e) == e.msg \in Requests => waha[e.msg] = "accepted"

Post(h, e) ==
    /\ Move(h, "idle", "lock")
    /\ Emitted(e) /\ e \notin acked /\ posts[e] < MaxPosts
    /\ ev' = [ev EXCEPT ![h] = e]
    /\ posts' = [posts EXCEPT ![e] = @ + 1]
    /\ UNCHANGED <<messageVars, registered, seen, result, acked, outcome, published>>

(* autenticar refuses a late timestamp or a wrong HMAC, or its query fails:*)
(* the answer is an error, and the event is not recorded.                  *)
AutenticarThrows(h) ==
    /\ "db" \in IngestFaults
    /\ Move(h, "lock", "answer")
    /\ result' = [result EXCEPT ![h] = "erro"]
    /\ Interromper(h)
    /\ UNCHANGED <<messageVars, registered, ev, seen, posts, acked, published>>

-----------------------------------------------------------------------------
(* processar.                                                              *)

MutantSemTrava(h) == \* no unique index on wahaEventId
    /\ Move(h, "lock", "resolve")
    /\ registered' = registered \cup {ev[h]}
    /\ UNCHANGED <<messageVars, ev, seen, result, posts, acked, outcome, published>>

MutantSoRegistrar(h) == \* recorded and answered, never handled
    /\ Move(h, "lock", "answer")
    /\ ev[h] \notin registered
    /\ registered' = registered \cup {ev[h]}
    /\ UNCHANGED <<messageVars, ev, seen, result, posts, acked, outcome, published>>

(* registrarEvento: INSERT, unique by wahaEventId. *)
RegistrarEvento(h) ==
    /\ Move(h, "lock", "resolve")
    /\ ev[h] \notin registered
    /\ registered' = registered \cup {ev[h]}
    /\ UNCHANGED <<messageVars, ev, seen, result, posts, acked, outcome, published>>

(* Its catch takes every error for a unique violation. *)
EventoDuplicado(h) ==
    /\ Move(h, "lock", "answer")
    /\ ev[h] \in registered \/ "db" \in IngestFaults
    /\ result' = [result EXCEPT ![h] = "duplicado"]
    /\ IF ev[h] \in registered THEN UNCHANGED outcome ELSE Interromper(h)
    /\ UNCHANGED <<messageVars, registered, ev, seen, posts, acked, published>>

(* resolverSessao finds the session by its stamped id or by name ... *)
ResolverSessao(h) ==
    /\ Move(h, "resolve", "dispatch")
    /\ UNCHANGED <<messageVars, registered, ev, seen, result, posts, acked, outcome, published>>

(* ... or does not ... *)
SessaoDesconhecida(h) ==
    /\ "session" \in IngestFaults
    /\ Move(h, "resolve", "answer")
    /\ Finish(h, "ignorado")
    /\ UNCHANGED <<messageVars, registered, ev, seen, posts, acked, published>>

(* ... or throws, outside the try: the answer is a 500. *)
ResolverSessaoThrows(h) ==
    /\ "db" \in IngestFaults
    /\ Move(h, "resolve", "answer")
    /\ result' = [result EXCEPT ![h] = "erro"]
    /\ Interromper(h)
    /\ UNCHANGED <<messageVars, registered, ev, seen, posts, acked, published>>

-----------------------------------------------------------------------------
(* despachar.                                                              *)

FromMe(w) == w \in Requests \cup FromPhone

(* The row the upsert of a message event creates. *)
NewRow(w) ==
    [status |-> IF FromMe(w) THEN "SENT" ELSE "DELIVERED", wahaId |-> TRUE, revoked |-> FALSE]

MutantSobrescreverLinha(h) == \* the upsert's update writes every column
    /\ ev[h].kind = "message"
    /\ Move(h, "dispatch", "publish")
    /\ UpdateRow(ev[h].msg, NewRow(ev[h].msg))
    /\ UNCHANGED <<waha, registered, ev, seen, result, posts, acked, outcome, published>>

MutantIgnorarProprias(h) == \* own sends are taken to have a row already
    /\ ev[h].kind = "message"
    /\ Move(h, "dispatch", "publish")
    /\ hookRow' = IF Known(ev[h].msg) \/ ev[h].msg \in Requests THEN hookRow
                  ELSE [hookRow EXCEPT ![ev[h].msg] = NewRow(ev[h].msg)]
    /\ UNCHANGED <<sendRow, waha, registered, ev, seen, result, posts, acked, outcome, published>>

(* aoReceberMensagem: create the row, or enrich the existing one (media    *)
(* and raw payload only).                                                  *)
AoReceberMensagem(h) ==
    /\ ev[h].kind = "message"
    /\ Move(h, "dispatch", "publish")
    /\ hookRow' = IF Known(ev[h].msg) THEN hookRow
                  ELSE [hookRow EXCEPT ![ev[h].msg] = NewRow(ev[h].msg)]
    /\ UNCHANGED <<sendRow, waha, registered, ev, seen, result, posts, acked, outcome, published>>

(* aoConfirmar reads the message ... *)
LerMensagem(h) ==
    /\ ev[h].kind = "ack"
    /\ Known(ev[h].msg)
    /\ Move(h, "dispatch", "confirm")
    /\ seen' = [seen EXCEPT ![h] = StatusOf(ev[h].msg)]
    /\ UNCHANGED <<messageVars, registered, ev, result, posts, acked, outcome, published>>

(* ... decides by what it read, FAILED always winning ... *)
DeveAtualizar(ack, atual) ==
    AckToStatus(ack) = "FAILED" \/ Rank(AckToStatus(ack)) > Rank(atual)

(* ... and writes; only an update of the status is passed on. *)
AoConfirmar(h) ==
    LET e == ev[h]
        deve == DeveAtualizar(e.ack, seen[h])
    IN  /\ Move(h, "confirm", IF deve THEN "publish" ELSE "answer")
        /\ UpdateRow(e.msg, [RowOf(e.msg) EXCEPT !.status =
                                IF deve THEN AckToStatus(e.ack) ELSE @])
        /\ IF deve THEN UNCHANGED <<result, outcome>> ELSE Finish(h, "processado")
        /\ UNCHANGED <<waha, registered, ev, seen, posts, acked, published>>

(* aoRevogar: type 'revoked' and no body. *)
AoRevogar(h) ==
    /\ ev[h].kind = "revoked"
    /\ Known(ev[h].msg)
    /\ Move(h, "dispatch", "answer")
    /\ UpdateRow(ev[h].msg, [RowOf(ev[h].msg) EXCEPT !.revoked = TRUE])
    /\ Finish(h, "processado")
    /\ UNCHANGED <<waha, registered, ev, seen, posts, acked, published>>

(* Both handlers drop an event about a message without a row. *)
MensagemDesconhecida(h) ==
    /\ ev[h].kind \in {"ack", "revoked"}
    /\ ~Known(ev[h].msg)
    /\ Move(h, "dispatch", "answer")
    /\ Finish(h, "processado")
    /\ UNCHANGED <<messageVars, registered, ev, seen, posts, acked, published>>

(* A handler's query throws: processar logs it and answers 'ignorado'. *)
HandlerThrows(h) ==
    /\ "db" \in IngestFaults
    /\ \E from \in {"dispatch", "confirm"} : Move(h, from, "answer")
    /\ Finish(h, "ignorado")
    /\ UNCHANGED <<messageVars, registered, ev, seen, posts, acked, published>>

(* bus.publicar and webhooks.publicar, which never throw. *)
Publicar(h) ==
    /\ Move(h, "publish", "answer")
    /\ published' = [published EXCEPT ![ev[h]] = @ + 1]
    /\ Finish(h, "processado")
    /\ UNCHANGED <<messageVars, registered, ev, seen, posts, acked>>

-----------------------------------------------------------------------------
Clear(h) ==
    /\ result' = [result EXCEPT ![h] = "none"]
    /\ seen' = [seen EXCEPT ![h] = "none"]
    /\ ev' = [ev EXCEPT ![h] = NoEvent]

(* The handler answers: WAHA sees a 2xx, a 500, or nothing. *)
Responder(h) ==
    /\ Move(h, "answer", "idle")
    /\ \/ acked' = IF result[h] = "erro" THEN acked ELSE acked \cup {ev[h]}
       \/ "net" \in IngestFaults /\ UNCHANGED acked
    /\ Clear(h)
    /\ UNCHANGED <<messageVars, registered, posts, outcome, published>>

(* The process dies: the handler stops wherever it is. *)
CrashHandler(h) ==
    /\ "crash" \in IngestFaults
    /\ at[h] # "idle"
    /\ at' = [at EXCEPT ![h] = "idle"]
    /\ Clear(h)
    /\ Interromper(h)
    /\ UNCHANGED <<messageVars, registered, posts, acked, published>>

HandlerStep(h) ==
    \/ AutenticarThrows(h)
    \/ RegistrarEvento(h)
    \/ EventoDuplicado(h)
    \/ ResolverSessao(h)
    \/ SessaoDesconhecida(h)
    \/ ResolverSessaoThrows(h)
    \/ AoReceberMensagem(h)
    \/ LerMensagem(h)
    \/ AoConfirmar(h)
    \/ AoRevogar(h)
    \/ MensagemDesconhecida(h)
    \/ HandlerThrows(h)
    \/ Publicar(h)
    \/ Responder(h)

IngestNext ==
    \E h \in Handlers :
        \/ \E e \in Events : Post(h, e)
        \/ HandlerStep(h)
        \/ CrashHandler(h)

IngestSpec == IngestInit /\ [][IngestNext]_webhookVars

(* Node runs the continuation of every settled await; WAHA keeps posting   *)
(* an event it has no 2xx for while it has attempts left.                  *)
IngestFairness ==
    /\ \A h \in Handlers : WF_webhookVars(HandlerStep(h))
    /\ \A e \in Events : WF_webhookVars(\E h \in Handlers : Post(h, e))

IngestFairSpec == IngestSpec /\ IngestFairness

-----------------------------------------------------------------------------
(* Properties.                                                             *)

IngestTypeOK ==
    /\ MessagesTypeOK
    /\ registered \subseteq Events
    /\ at \in [Handlers -> At]
    /\ ev \in [Handlers -> Events]
    /\ seen \in [Handlers -> MessageStatus \cup {"none"}]
    /\ result \in [Handlers -> {"none", "duplicado", "processado", "ignorado", "erro"}]
    /\ posts \in [Events -> 0..MaxPosts]
    /\ acked \subseteq Events
    /\ outcome \in [Events -> {"none", "processado", "ignorado", "erro"}]
    /\ published \in [Events -> Nat]

(* However often WAHA posts an event, and whatever fails or runs at the    *)
(* same time, it is passed on to the integrator at most once.              *)
EffectsAtMostOnce == \A e \in Events : published[e] <= 1

(* A message event answered as processed left a row with its wahaId.       *)
ProcessedMessageIsRecorded ==
    \A e \in Events :
        e.kind = "message" /\ outcome[e] = "processado" => Known(e.msg)

(* "Status de mensagem nunca regride": an ack never moves a message to an  *)
(* earlier status, save to FAILED.                                         *)
StatusNeverRegresses ==
    [][\A w \in WahaIds :
        Known(w) => \/ Rank(StatusOf(w)') >= Rank(StatusOf(w))
                    \/ StatusOf(w)' = "FAILED"]_webhookVars

(* Every event WAHA emits is eventually handled, however many of its posts *)
(* run at once and however many answers are lost, unless the database or   *)
(* the process failed while one of them was under way.                     *)
EventSettles == <>[](\A e \in Events : Emitted(e) => outcome[e] # "none")
=============================================================================
