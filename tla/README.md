# Verification of the WAHA gateway

TLA+ models, TLC runs and TLAPS proofs about the gateway in this repository: a
NestJS API (`apps/api`) that applications use to send and receive WhatsApp
messages through WAHA, a panel (`apps/web`) and the contract both share
(`packages/shared`). Paths below are relative to the repository root;
`modules/` stands for `apps/api/src/modules/`.

## 1. The system

```
 integrator --POST /v1/messages/*--> interceptor -> MessagesService --POST--> WAHA -> WhatsApp
     ^                                  |  Redis        | messages table        |
     |                                  +---------------+                       |
     +---- webhooks-out queue <---- WebhookIngestService <---events (retried)---+
 panel --- admin-auth, applications, sessions, history, SSE bus
```

| component | state | operations | what is hard | what makes it correct |
|---|---|---|---|---|
| Idempotency-Key interceptor, `modules/messages/idempotency.interceptor.ts` | Redis key `idem:<app>:<key>`: absent, `PENDING`, or a result, 24 h | look up, reserve (SET NX), run, record or free | concurrent tries; uncertain deliveries; process death; the final Redis write is not awaited | one delivery per key; truthful answers; `PENDING` is temporary unless the delivery is uncertain |
| Guards, errors, routes, `common/`, the controllers | none | authenticate, throttle, validate, answer | which errors mean that nothing happened | what a status says of the effects is true, as far as the database lets it; no route without its credential |
| Message sending, `modules/messages/messages.service.ts` | row in `messages`: `QUEUED` -> `SENT` or `FAILED` | text, media, location, contact (reactions, seen and typing keep no state) | the row and WAHA change in separate steps; any of them fails | nothing reaches WhatsApp without a row; a row's status matches what WAHA did |
| WAHA client, `modules/waha/` | none | one attempt for sends, three for reads and life-cycle calls | answers later than the timeout | a 4xx error is raised only when WAHA refused |
| Webhook ingestion, `modules/webhook-ingest/` | `inbound_events` (lock), `messages` | one handler per kind of event | WAHA repeats posts, handlers run concurrently, acks arrive in any order, the lock precedes the handling | effect at most once; status never regresses; every event is handled |
| Sessions, `modules/sessions/sessions.service.ts` | `sessions` row beside WAHA's own session | create, start, stop, restart, logout, remove, QR, pairing code | two copies of the truth changed by calls, webhooks and the reconciliation | the copies agree in the end; no session of WAHA without an owner; the number is bound while connected |
| Reconciliation, `modules/sessions/sessions.sync.ts` | Redis lock, both copies | a pass each minute: missing, status, number, webhook config, orphans | local rows are read before the remote list | repairs divergence, never destroys a live session |
| Webhooks to integrators, `modules/webhooks-out/` | endpoint (status, consecutive failures), delivery rows, BullMQ jobs | publish, deliver, retry, abandon, deactivate, resend | the row and the job are written in two steps; concurrent failures; jobs carry old data | each event delivered or abandoned visibly; deactivation only after consecutive failures |
| API keys, `modules/api-keys/` | key rows, a cache of 60 s in the process | authenticate, invalidate, touch | a cached key that was just revoked | no use of a revoked key beyond the cache window |
| Applications, `modules/applications/` | applications and keys | update, remove, create, revoke, rotate key | "last key" is checked before the revocation, the row is read before it is written | an application keeps a key unless somebody insisted |
| Administrators, `modules/admin-auth/` | Redis: refresh token -> family, family -> current token | login, refresh, logout | rotation in several Redis calls against logout and reuse | one live token per family; a logout holds |
| Panel client, `apps/web/src/lib/api.ts`, `hooks/use-eventos.ts` | session in memory and storage | call with one renewal for all, reconnect the stream | many requests find the token expired at once | one renewal per expiry; no logout by a race of its own |
| Panel screens, `apps/web/src/routes/` | React state and cached queries, per screen | show a session and its QR code; act on it; issue, rotate and revoke keys and secrets | polls, lossy events and late answers about the same row; dialogs left half-way | the screen comes to show the row; a secret is not lost by accident; the last key is warned of |
| History, `modules/history/` | none (reads) | pages by cursor, export, chats | rows inserted between pages | no row repeated or skipped |
| Event bus, `modules/events/` | in memory | publish to the panel's streams | a stream that is down misses what is published | modelled with the screens, as events that may be lost |
| Audit, metrics, configuration, logging, health | append-only / none | | | not modelled, see section 8 |

Calls: the interceptor wraps the message controllers; MessagesService and
SessionsService call WAHA over HTTP; WAHA calls the ingestion by webhook; the
ingestion writes `messages` and `sessions` and passes events on to the bus (panel)
and the delivery queue (integrator). Shared state: PostgreSQL between sending,
ingestion, sessions and reconciliation; Redis for what outlives a request or a process. As deployed
there is one API process, and the models assume it in two places: the cache of keys is its own, and
its Redis client resends a command before it sends another (`SendPath`).

## 2. The modules

| module | models | kind |
|---|---|---|
| `Messages` | the `messages` table, the status tables of the shared contract and what WAHA did with each POST | shared state |
| `SendPath` | interceptor, `executar`, the one-shot WAHA call, the Redis key | component |
| `AtMostOnceSend` | what an Idempotency-Key promises | abstract specification |
| `WebhookIngest` | `receber`, `processar` and the handlers of message events | component |
| `MessagePath` | `SendPath` and `WebhookIngest`, which it extends, on one table: a step is one of either (`WebhookIngest` in the place of `Anunciar`, which is what `SendPath` alone knows of webhooks) | composition |
| `Sessions` | the two copies of a session: creation and rollback, calls, the `session.status` webhook, the reconciliation pass | component |
| `WebhookDelivery` | a delivery to an integrator's endpoint: row, jobs, the listener of their failures, the endpoint's counter and its deactivation | component |
| `Routes` | the routes of every controller as guards, handlers and the client of WAHA tell them apart, and the status of every error | pure part |
| `ApiAccess` | a request from its credential to its answer, beside the administrators' calls on keys and applications | component, on `Routes` |
| `PanelAuth` | login, refresh and logout in Redis, and the tabs of a browser with their shared token | component |
| `History` | pages, exports and the panel's merged list of messages while rows come and go | component |
| `Panel` | the screens that act: a session with its QR dialog; keys and endpoints with the dialog of a secret | component |
| `MCSendPath`, `MCWebhookIngest`, `MCMessagePath`, `MCSessions`, `MCWebhookDelivery`, `MCApiAccess`, `MCPanelAuth`, `MCHistory`, `MCPanel` | values of the constants for TLC | instances |
| `SendPathProofs`, `MessagePathProofs` (also those of the ingestion alone), `SessionsProofs`, `WebhookDeliveryProofs`, `ApiAccessProofs`, `PanelAuthProofs`, `HistoryProofs`, `PanelProofs` | theorems | proofs |

**State.** A message has up to two rows: `sendRow[r]`, which `executar` inserts
for the request `r` before it calls WAHA and which gets its `wahaId` with the
answer, and `hookRow[w]`, which the ingestion upserts under the wahaId `w`. The
unique index on `(sessionId, wahaId)` makes at most one of them carry the wahaId;
`RowOf(w)` is that row. The message WAHA creates for a request is identified with
the request. `waha[r]` is what WAHA did with the POST: `none`, `pending`,
`accepted` or `refused`. `redis[k]` is the value under a key, `pc[r]` the await a
request stands at, `write[r]` the Redis write it started with `void` and does not
wait for, `window[k]` (history) who reserved the key in its current 24 hours.
In the ingestion `at[h]` is the await a handler stands at, `seen[h]` the status it
read, `registered` the rows of `inbound_events`; `outcome` and `published` are
history.

In `Sessions`, `row[s]` is the row of the table and `remote[s]` WAHA's session with
its status, number and configuration: `ours` (stamped by this gateway, webhook
right), `stale` (stamped, webhook's address or secret out of date) or `foreign`.
`create[s]` is where the creation stands and `posted` holds creations WAHA has yet
to execute; `call[c]` carries what a call read before it called WAHA (`seen`) and
WAHA's answer (`got`); `hook[h]` is the event a handler found a row for; `pass[p]`
holds the two lists a pass read, `locais` and `remotas`, and what it still has to
go through. `answered` is history: the sessions whose creation was over when the
pass read the rows.

In `WebhookDelivery`, `row[d]` is the status of a delivery, `job[<<d, k>>]` the job of
its publication (`k = 0`) or of its `k`-th resend, with the attempts BullMQ counted
(`made`) and the await its worker stands at; `notices` holds the failures `aoFalhar`
was told of and has not finished with, for nobody waits for it; `publish` and `resend`
are where `publicar` and `reenfileirar` stand. History: `accepted` (answered with 2xx),
`posts`, and `counted`, the jobs the endpoint's counter stands for.

In `ApiAccess`, `key[k]` and `app[a]` are rows, `cache[k]` what the process remembers of
a key, `req[r].at` the await a request stands at (`valid` and `invalid` are the time the
secret is being verified, after the row was read), `op[o]` an administrator's call with
what it read (`was`, `copy`). A slot of `Requests` serves one request after another. History:
`effects[r]`, how often WAHA or the gateway did what was asked; `raced`, `forced`.

In `PanelAuth`, `token[t]` is `admin:refresh:<t>` and `families` the `admin:family:` keys;
`call[c]` stands between two Redis commands; `page[b].flight` is the one renewal a tab
has under way (`renovacaoEmAndamento`), `requests[b]` counts the tab's requests by whether
they are sent, repeated after a renewal, or waiting for one; `storage` is the refresh token
all tabs share in `localStorage`.

In `History`, `table` is the set of rows that match the reader's filter, `reader` who reads
and the cursor he was given last; a page is the set of its rows, and its order that of the
query (`Before`). `got` and `kept` (what was there all the time) are history.

In `Panel`, `waha` and `linha` are a session's status at WAHA and in its row, `vista` what
the screen shows, `busca` the answer under way to its query, `eventos` the streams an
event is on its way on, `fase`, `qr` and `consulta` the QR dialog and its requests;
`chave[k]` is a key or a secret, `pedido` the mutation of each row and of the form,
`confirma` and `forcar` the dialog of a row, `segredo` the dialog that shows a secret once.
`historico` is history.

**Actions.** One per stretch of code between two awaits, with the name of the
function it stands for (`ReservarIdempotencia`, `AoConfirmar`); an await that can
end in several ways has one action per way (`RespostaOk`, `RespostaRecusada`,
`RespostaIncerta`). Steps of the environment are `WahaAceita`, `WahaRecusa`,
`Crash`, `CrashHandler`, `Post` and `Expirar`, and in `Sessions` `WahaMuda`,
`WahaPerde`, `WahaCria`, `WahaExecuta`, `AmbienteMuda`, `EventoPerdido` and
`LockExpira`; in `WebhookDelivery` `Falhar` (BullMQ counts the attempt and tells the
listener) and `Die`: there is one API process, and all that is under way dies with it;
a job its worker had is put back once and given up the second time, as BullMQ does
with its default `maxStalledCount` of 1. In `ApiAccess` time is `Expirar` (a cache entry is 60 seconds
old) and `Vencer` (a key's date has come), in `PanelAuth` `Expirar` (of a Redis key),
`Falhar` (a command throws), `Perder` (the connection breaks, before the API heard of the
call or after) and `Recarregar`; in `History` rows appear and vanish at any time (`Surgir`,
`Sumir`); in `Panel` the operator clicks at any time, WAHA moves (`MudarWaha`), and every
publication reaches whichever of the streams are up (`Publicar`). The faults are switched on by the constants `Faults` and
`IngestFaults`; in `Sessions` and `WebhookDelivery` each fault takes one of `MaxFaults`.

**Abstracted.** Message contents, recipients, media and sessions: all that
`preparar`, `sessaoOperavel` and `resolverArquivo` decide is whether the request
goes on (`CreateRow`), is refused with a 4xx (`Preparar`) or fails without a status
(`PrepararThrows`). In `Sessions`: the limit per application and duplicate labels,
which only refuse a call; timestamps, audit rows and the notices to panel and
integrator; the lock and repetition of a `session.status` event, which are
`WebhookIngest`'s (an event is handled once, in any order, or lost); the counters
of the QR code and the pairing code, which read. What a pass read of a session
it has dealt with is forgotten, except that it has a row. In `WebhookDelivery`:
addresses, secrets, payloads and the filter by event; the time between attempts; what
a row keeps of an answer. In `ApiAccess`: the secret itself (a credential is a key that was
issued, or something else), names and slugs, `lastUsedAt`; rate limiting and validation
only refuse. In `PanelAuth`: passwords and access tokens (any request may find its access
token expired). In `History`: the filter (a row that stops matching vanishes) and all of a
row but its application, time and id. In `Panel`: layout, wording, toasts and the pairing
code; a query has one answer under way, as React Query drops an older one. `PROJECT.json` maps each definition to its lines.

**Assumptions about the environment.** WAHA's 400, 404 and 422 mean that it did
not and will not send. A 200 carries the id of the message. A key expires after
the requests that used it are over (24 hours against a timeout of seconds).
WAHA emits events about a message of the gateway only after it accepted the send.

**Mutants.** The operators named `Mutant...` are variants of the definition after
them with a plausible bug. With the variant in its place, the property beside it
in `PROJECT.json` ("mutants") is violated.

## 3. The runs

| run | instance | shows | distinct states |
|---|---|---|---|
| `send_path` | 3 requests, 1 key, faults of database, Redis and process, webhooks that may overtake WAHA's answer | at most one delivery, true 201s, refusals after which nothing goes out, no invisible send, requests end, and `SendPath` implements `AtMostOnceSend` | 171 thousand |
| `ingest` | 2 handlers, a message announced, acked and revoked, 2 posts per event, every fault | an event takes effect at most once, and is handled in the end unless a fault of the database or the process hit it | 366 thousand |
| `message_path` | 2 requests with a key, 1 handler, announcement, ack and revocation, every fault of the send, handlers that die | one row per answered send, processed messages are recorded, the send path leaves a linked row's status alone but for a fault of the database, a revocation stays | 890 thousand |
| `sessions` | one own session beside a foreign one, one call of any kind, one webhook handler, one pass, one move of WAHA (also to a status this version does not know), one fault | a deleted row stays deleted, an answered session is not taken for an orphan, foreign sessions are untouched | 1.3 million |
| `sessions_live` | the same without calls, with two numbers, two moves of WAHA, one fault | statuses converge, the number is bound, orphans go, webhooks are repaired | 244 thousand |
| `deliveries` | one delivery and one resend, two attempts, threshold 2, two edits of the endpoint (pause, reactivation, removal), one fault | a SUCCESS was answered with 2xx, an ABANDONED was posted as often as there are attempts, a deactivated endpoint failed as often as the threshold, a waiting job is seen through | 96 thousand |
| `access` | one slot for requests to the sends, a download, the removal of a session and the routes that read a session or its QR code, with any credential and up to two attempts at WAHA; one application, two keys (one dated and for everything, one for sending), a foreign session, two administrators' calls of any kind | nothing is done without the right key, scope and owner; what the status of an answer says of the effects; a cut-off key leaves the cache at once unless something overlapped, and in any case in the end; the last key stays | 480 thousand |
| `panel_auth` | two tabs of one browser, two requests, three tokens, two calls under way, one fault | one token per family, requests that expire together do not cost the session, a family that a logout revoked stays revoked | 1.4 million |
| `history` | five messages of two applications, some of the same time; pages of one or two, exports of three lines | no message twice, none skipped, a reading ends | 26 thousand |
| `panel` | the screens of a session, of an application's keys, of an endpoint; three secrets; two events out of the ordinary | the QR dialog sees the connection, the screens come to show the row, secrets are not lost by accident, the last key is warned of | 540 thousand |

| run that ends in a violation | statement | what happens |
|---|---|---|
| `ingest_race` | "Status de mensagem nunca regride" | two acks handled at the same time compare with the same status, and the earlier one is written last |
| `history_all` | "ele continua apontando para o ponto certo", of the cursor of the merged list | the cursor of one application is applied to all: messages of another that the cut dropped are never shown |

What the properties exempt is part of what they say. `CutIsImmediate` and `LastKeyKept`
hold when nothing overlapped (`raced`): two calls, or an authentication and a clearing of
the cache, may meet in the wrong order. Then `CacheConverges` is what is left of the one, and
nothing of the other (section 5).
`RefusedNeverDelivered` is about the 4xx of the gateway and of WAHA, for which the interceptor
frees the key. The filter answers 4xx to errors of the database too, and after WAHA was called
these say nothing of the message: the model keeps them apart (`dbRefused`, `db4xx`). Of every
4xx the property would be false (section 5).
`AnswerTellsEffects` likewise exempts a 4xx made of a database error, a route that repeats its
call (an attempt that got no answer may have been executed), the 404 of a download, which
hides every error, and the 2xx of a session's removal, to which WAHA's 404 is as good. A
`GET :id` is answered 200 from the row when WAHA cannot be asked; what it does is to read the row.
`OnlyAcksMoveStatus` exempts one write: the catch of a send whose update the database committed
although it threw.
`AnsweredSessionKept` leaves out a session created between the two reads of a pass (section 5),
`EventSettles` the events a fault of the database or the process hit, `JobIsSeenThrough` jobs
stalled by a process that died.
`NumberIsBound` is about a session that is paired with one number only; one that is paired again
with another may keep the first (section 5).
`LogoutHolds` is about a logout that finds its token: one that meets a renewal finds it used
up and revokes nothing (section 5), but a family it did revoke is never written again, whatever
renewal was under way; `SessionLostForCause`
names the causes that may cost a session; `SecretConfirmed` exempts two secrets issued at
the same time, a lost answer and a screen that was left; `LastKeyWarned` asks for a warning of the
key, not for one each time; `ScreenConverges` exempts the detail
of a session that was deleted.

**Bounds.** Three requests: one that fails, one that succeeds and one that finds
the key taken or the result stored can meet in one window. Keys are independent of
each other (no action reads two), so one suffices. Two handlers are enough for a
race between a read and a write. Two posts per event: one that is lost, late or
refused, and its repetition. Requests are not bounded in time: each is a value of
`Requests` and runs once. `published` and `posts` are bounded by `MaxPosts`.
In `message_path` a handler fails by dying at any step, which leaves in the rows what a failing query does.
No action of `Sessions` relates two own sessions except through what a pass
carries from one to the next, and that is dropped (`Dealt`): one own session, plus
a foreign one that must not be touched, covers them. One call and one handler
beside one pass give every pair of concurrent writers of a row; `LockExpira` lets a
second pass start only where `Passes` has two. `MaxChanges` bounds WAHA's own moves
and `MaxFaults` all that fails: the liveness properties say what happens when both
have come to rest. `sessions_live` has two numbers, a session's old one and its new one. Without calls in them, `StatusesConverge` is about events and passes only.
A delivery and its resend are two jobs on one row and one counter, which is every pair
of concurrent writers there is; endpoints share nothing. Two attempts have a first
that is retried and a last that is not, and with a threshold of two neither job alone
deactivates.
`access`: no action reads two applications' keys, and a request meets a foreign session as
one that is nobody's, so one application suffices. Two keys are what "last key" and a
rotation need; two calls of administrators every pair that may overlap; one slot, used again
and again, has an authentication overlap each of them, and a second one would only read the
same cache (it is filled by the slot's earlier requests). Of the routes
there is one of each kind that the properties tell apart: with a scope and an owner (the sends, whose
row is saved after WAHA's answer), and of the panel without them those that synchronise the row
before they answer, the removal, to which WAHA's 404 is as good, and the download, which hides
errors; two attempts are a repeated one and a last one. The other routes differ from these in
guards alone, and the theorems are about every route.
`panel_auth`: three tokens are a login and two renewals, or two families; two calls a renewal
beside a login, a logout or the other tab's renewal; two requests those that expire together.
One fault, because each loses a session by itself and the properties speak of its cause.
`history`: two messages of one time make the order need its second part, pages of one
and two end within and on a group of the same time, and three lines cut an export between pages.
`panel`: an operator's visit is to one of three groups of screens, which share nothing but the
dialog of the secret. Three secrets are one that was there, its successor and a third that is
issued beside it. One QR code beside the one just asked for is a late answer. `STARTING` is
treated by the screens as `STOPPED` is, so four statuses do. Two events out of the ordinary
(WAHA moves, a call fails, an operator leaves) are a cause and what meets it half-way.
Deadlock is not checked: when every request, event and call is over the system stops.

**Fairness** (`send_path`, `ingest`). Weak fairness of each request's, each pending Redis
write's and each handler's own steps: Node runs the continuation of a settled await, and every await settles,
the call to WAHA by its timeout at the latest. Weak fairness of posting: WAHA
repeats an event without a 2xx while it has attempts left
(`buildWebhookConfig`, 15 attempts). No fairness of `WahaAceita`, `WahaRecusa`, `Anunciar`,
`Expirar` or of any fault.

**Fairness** (`sessions_live`). Weak fairness of the steps of a creation, a call and
a handler for the same reasons; of a pass, because the scheduler starts one each
minute and its awaits settle; of `LockExpira`, because Redis expires the key. None
of WAHA's own moves, of `Chamar`, of a late execution or of a fault. None of the delivery of an
event either: WAHA gives up after its attempts, so an event may stay undelivered for ever.

**Fairness** (`deliveries`). Weak fairness of the steps of each job: the worker takes
what waits, the POST ends by its timeout at the latest, and BullMQ puts a failed job
back after its back-off. None of the listener, of an edit or of a fault.

**Fairness** (`access`). Weak fairness of the steps of a request and of an administrator's
call, for the same reasons, and of the expiry of a cache entry. None of the arrival of
requests or calls, nor of `Vencer`.

**Fairness** (`history`). Weak fairness of reading on: `exportCsv` is a loop of its own, and a
reader that never asks for the next page has not ended. None of what comes and goes.

**Fairness** (`panel`). Weak fairness of the timers (the screen's query each interval, the
dialog's look), of the API's answers and of what React does with them. None of events, of the
operator, of the QR code's own timer or of WAHA.

## 4. What is proved

Every safety property a passing run checks is also a theorem, for any requests, keys, events,
handlers, tabs, screens, bounds and faults that satisfy the named assumptions of the modules
(`MessagesAssumption`, `SendAssumption`, `IngestAssumption`, `SessionsAssumption`,
`DeliveryAssumption`, `AccessAssumption`, `PanelAuthAssumption`, `HistoryAssumption`,
`PanelAssumption`): names do not clash, constants have their types, WAHA can report the statuses
its own calls lead to; the deliveries, the messages and the secrets are finitely many; a message
is known by its id. The composition assumes nothing beside its parts.

| module | theorems | of the runs |
|---|---|---|
| `SendPathProofs` | `TypeCorrect`, `Invariant`; `AtMostOnce`, `KeyKept`, `OneAnswer`, `AnswersAreTrue`, `RefusalsAreTrue`, `NothingInvisible`; `Refinement` (`Spec => PromiseKept`) | `send_path` |
| `MessagePathProofs` | of the ingestion alone `IngestTypeCorrect`, `AtMostOneEffect` | `ingest` |
| | of both paths `PathInvariant`; `OneRow`, `ProcessedIsRecorded`, `AcksAlone`, `RevokedStays`; `SendPathStands` (the six invariants of the send path), `PromiseStands`, `OneEffectStands` | `message_path` |
| `SessionsProofs` | `TypeCorrect`, `InvCorrect`; `DeletedStays`, `ForeignKept`, `AnsweredKept` | `sessions` |
| `WebhookDeliveryProofs` | `TypeCorrect`, `Invariant`; `SuccessShown`, `AbandonedTried`, `DisabledJustly` | `deliveries` |
| `ApiAccessProofs` | `TypeCorrect`, `AccessInvariant`; `CutNow`, `LastKeyStays`, `ActsAreAuthorised`, `AnswersTell` | `access` |
| `PanelAuthProofs` | `TypeCorrect`, `ServerInvariant`, `CalmInvariant`; `OneToken`, `LogoutStays`, `SessionKept` | `panel_auth` |
| `HistoryProofs` | `Invariant`; `NoMessageTwice`, `NoMessageSkipped` | `history` |
| `PanelProofs` | `TypeCorrect`, `KeysInvariant`; `SecretsConfirmed`, `LastKeyIsWarned` | `panel` |

None of the properties is inductive by itself; the rest of this section says what each
invariant adds, and why.

**The send path.** Nothing in `AtMostOneDelivery` stops a request that has not called
WAHA yet. `IInv` adds who may still call. A request is an *owner* from its reservation to its last Redis write
(`Owner`), and *open* while its message is out or may go out (`Open`).
`OwnersInWindow`: an owner is in its key's window and finds `PENDING` there, so
nobody else can reserve. `OneOwner`: of a window at most one request is an owner or
open. `PcAgreesWithWaha` and `WritesAgreeWithWaha` tie the control state to what
WAHA did, which is what makes the error branch of the tap right: only
`failingSure` leads to `release`, and there `waha` is `refused`. A P2002 of the update
(`failingDuplicate`) has no status when the tap looks at it, so it keeps the key; the filter
makes it a 409 afterwards, which `RefusedNeverDelivered` does not count as a refusal.
`OpenDeliveryHoldsKey` then says that a free key has no open request in its window,
so the next reservation starts alone. `StoredResults` ties the recorded answer to
the delivery. Each theorem follows from `IInv` in a few steps.

**The refinement.** `held` is "Redis has a value", `delivered` the accepted
requests of the window, `answer` the stored result. A reservation claims (also the
one a resent command lost), `WahaAceita` delivers, `RegistrarIdempotencia`
settles, `LiberarIdempotencia` gives back, `Expirar` forgets, and all else stutters.

**The ingestion.** Past the lock (`Handling`) a handler's event is
registered, no two handlers have the same event, and a published event has no
handler past the lock; nothing unregisters an event, so none will come.

**The composition.** The two paths meet in the rows of messages alone. To a row of the send
path the ingestion gives no wahaId, and of its statuses it blanks none (`RowsKeep`), which is
all the send path's `IInv` needs: it survives the ingestion's writes, and `SendPathStands` and
`PromiseStands` follow as if nobody else wrote. Either path may link a row to a message first,
the send with its answer or a webhook that overtakes it; by the unique index each does so only
where no row has the wahaId yet (`RowsApart`), and none loses it. A send that has not finished
has no wahaId in its row (`UnfinishedIsUnlinked`), so what it still writes goes to no linked
row, unless the database committed the update and threw (`LinkedByFault`): but for that write of
FAILED, from the linking on only acks move the status (`AcksAlone`), and a webhook's blanking is
not undone (`RevokedStays`). A handler past its read or its upsert knows its message
(`HandledIsKnown`), whence `ProcessedMessageIsRecorded`, itself a part of the invariant.

**The sessions.** A row is made by `Criar` only, which needs a
session that was never created; every other write asks for the row it updates, so
`DeletedStays` follows from the types. The other two need what a pass has read.
`ForeignApart`: a foreign session has no row, no call, creation or pass under way
deals with it (`ForeignToPass`, which needs the session a pass stands at as well as
those it has to do), so it never changes. `AnsweredIsKnown`: a pass read the row of
every session whose creation was over, keeps knowing that it has a row, and so does
not list it among the orphans, the only sessions it deletes.

**The deliveries.** `AttemptsArePosts`: what BullMQ counts never
exceeds the POSTs, and only a job given up has used all its attempts. `QueuedOnce`: a
job enters the queue once, so it stays given up. `NoticesAreTrue`: the listener hears
at most once of each attempt of a job, so of its last one too, and `CounterCounts`
makes `failures` the size of the set `counted` of jobs that used up their attempts.
What the threshold compares is therefore a number of different jobs, and as those
only grow in number it is still true when the deactivation is written, whatever came
in between (`ThresholdForward`). `SavingAfterAnswer` ties SUCCESS to the answer.
The theorem says as many as the threshold, not consecutive: a success or a
reactivation between `ContarFalha` and `Desativar` is overruled by the code.

**Keys and applications.** `EffectsAreAuthorised` and `AnswerTellsEffects` speak of the
step that does something or answers; `RequestOK` carries what the guards found to that step: a request
past them has a key of the application it acts for and the scope of its route (both never
change once a key is issued), one at WAHA is about a session of its owner, and what was done
for it is at most its attempts: nothing before the call, all of it when a row is being
saved after a 2xx, nothing when one is saved after a 4xx of WAHA. `CutIsImmediate` and `LastKeyKept` need what a call has read
to be true when it writes, which is so only as long as calls do not overlap. `Undisturbed` is
the part of the invariant under `~raced`: at most one call is under way (`OneBusy`), what it read
still holds (`ReadHolds`), and a key that the cache or an authentication takes for valid is in
force, but for the await between a write and its clearing (`KnownIsInForce`). No invariant says so of
the states after a race, as section 5 tells.

**Administrators.** `OneTokenPerFamily`: a call that used up a token has not written the next
one. `OneHolder` says that a family has one live token or one such call; the call's new token
is known to nobody else until it is answered (`AnswersAreSecret`, `StoredIsAlone`), so
nobody uses it up meanwhile. `EndedIsOver`: a family that a logout deleted has no live token
and no call that holds one, since the logout itself held its only one; so nobody writes the
family again. `SessionLostForCause` speaks of browser and API together: as long as nothing
disturbed them (`Calm`) the token in the tabs' storage is live or one renewal of one tab is
using it, its family is there, no other call presents it, and the renewal succeeds; a renewal
that is refused has one of the causes.

**The screens of keys.** A request that issues is sent when no dialog covers the screen, so
no secret is on display, and unless a second one is sent beside it none comes on display
before its own answer (`OneIssue`, `NothingShown`): an answer never takes the place of a secret,
and "Concluir" closes only over one that was confirmed (`ConfirmedIsResolved`). A row revokes by
force only after its own refusal (`ForceIsWarned`): the flag outlives a cancelled dialog, but not
the screen, and was set by a refusal of that row. A rotation never leaves an application without keys,
because the database has a key for each request that issues (`SupplyLasts`, a count of requests
against a count of keys; in the code a key is random, and there always is one).
The half of `Panel` that shows a session changes none of this.

**The history.** `timestamp` and `id` order the messages of an application
totally, so a cursor splits them into those it has passed and those still due (`Due`). A page
takes the first of those that are due and leaves the cursor on its last one (`Take`,
`Ultimo`): what was given is never due again (`GivenIsPassed`), and what was there all the time
was given, or is due, or belongs to an application that is still left, or fell to the limit
of lines (`KeptIsAccountedFor`). That rows come, go and come back disturbs neither: a row
that comes is due or passed by its place alone. A reading ends with nothing due and nothing
left, which is `NothingSkipped`. The merged list is not covered: it does not keep the
invariant, as `history_all` shows.

**What proofs and runs share.** The inductive invariants and the type invariants are proved,
and no run repeats them. (TLC was used to find them: each held on its run's instance before it
was proved.) The bounds that keep a model finite need no proof where they only cap a counter:
types say `Nat` there, and where the code has a bound of its own the type says it
(`MaxTentativas`).

Only model-checked: liveness and everything that speaks of enabledness, which is out of the
prover's reach: `RequestSettles`, `EventSettles`, `StatusesConverge`, `NumberIsBound`,
`OrphanIsRemoved`, `WebhookIsRepaired`, `JobIsSeenThrough`, `CacheConverges`, `TraversalEnds`,
`ConnectionIsSeen`, `ScreenConverges`.

## 5. Findings

The two runs of section 3's second table; `PROJECT.json` ("findings") quotes the statements
with their lines. Other places where the code and what is said of it part, met while
modelling; the models have what the code does, and the properties exempt it by name or
do not speak of it:

- A session created between the two reads of a reconciliation pass is deleted from WAHA as
  an orphan although it has a row (`modules/sessions/sessions.sync.ts:36-37` says only what
  is not in the database goes; line 69). `AnsweredSessionKept` is about those whose creation was
  answered before.
- "FAILED (rank -1) sempre vence: é informação nova e definitiva"
  (`modules/webhook-ingest/webhook-ingest.service.ts:334`): rank -1 is below every status, so
  the next ack overwrites it.
- "se a inserção colidir, o evento já foi tratado" (same file, line 52): not if the process died, or
  the database failed, between the lock and the handling. `EventSettles` exempts the events such
  a fault hit (`outcome`).
- "se o WAHA falhar, o registro vira `FAILED`" (`modules/messages/messages.service.ts:237-238`):
  also when the webhook overtakes the answer of a successful POST, whose update then meets the
  unique index (the next item is about its answer), or when the update was committed and
  its answer lost. `AnswerWasDelivered` and `AtMostOneDelivery` hold all the same.
- "Erros 4xx do gateway (validação, sessão desconectada, destinatário inválido) acontecem antes de
  qualquer byte chegar ao WhatsApp" (`modules/messages/idempotency.interceptor.ts:105-106`), and by
  `docs/integracao.md:272` a 4xx frees the key and means "Corrija e repita com a mesma chave". When
  the webhook of a send is handled before the answer to its POST, the update to SENT meets the
  unique index (`modules/messages/messages.service.ts:269`), the catch rethrows the P2002 (281-293)
  and the filter makes it a 409 (`common/filters/all-exceptions.filter.ts:190-200`): a 4xx for a message that
  went out. The key stays taken, since the interceptor sees the error before the filter gives it a
  status, so a repetition under it is a 409 too and sends nothing; an integrator that corrects
  and repeats under a new key sends twice. In the model this is `SaveSentDuplicate` and the reply
  `dbRefused`, which `RefusedNeverDelivered` does not speak of; `AtMostOneDelivery` and
  `OpenDeliveryHoldsKey` hold all the same.
- "se todas as tentativas falharem, o número nunca é gravado [...] Este job é a rede de segurança"
  (`modules/sessions/sessions.sync.ts:25-29`; `tasks/09-sessoes-qr.md:195-199`): a pass fills in a
  number only where there is none (`sessions.sync.ts:122`), and nothing clears the number of a session
  that leaves WORKING but a logout or a removal (`webhook-ingest.service.ts:166-174`). A session that
  is paired with another phone, and whose WORKING event is lost, keeps the old number for
  as long as nothing else tells. `NumberIsBound` exempts it.
- "Não permitir revogar a última chave ativa sem confirmação explícita"
  (`tasks/08-aplicacoes-api-keys.md:49`, and the comment in
  `modules/applications/applications.service.ts:232-233`): the keys are counted (234) before the
  revocation (249), so two revocations without force that overlap each count the other's key and
  leave the application with none. `LastKeyKept` exempts calls that overlap.
- A removed session takes its messages with it; a send that is under way then ends in a 404 or a
  409 of the database (P2025, P2003), which the model has as faults of the database.
- An export of several applications that filters by a session breaks off at the first application
  that does not have it, in the middle of the file
  (`modules/history/admin-history.controller.ts:65-80`, `history.service.ts:44-50`):
  `SessaoNaoEncontrada`. `NothingSkipped` counts that as cut off.
- "um token usado duas vezes invalida a família inteira"
  (`modules/admin-auth/admin-auth.service.ts:41-43`, also 94-97 and `docs/seguranca.md:65-67`): a token that was used up is
  not found, and with it neither is its family; only the second caller is refused.
  `OneTokenPerFamily` is what holds.
- A logout whose token a renewal has just used up is answered like any other and revokes
  nothing (`modules/admin-auth/admin-auth.service.ts`, `logout`: the token is not found). The
  tab forgets its tokens; the family lives on in the answer of the renewal.
- "a credencial continuaria valendo por até 60 s — janela curta, mas inaceitável"
  (`modules/api-keys/api-key.service.ts:130-133`): it does when an authentication read the row
  before the revocation and stored its result after the clearing.
- "Cancelar" in the dialog of a key leaves the flag set that any other way to close it clears
  (`apps/web/src/routes/aplicacoes.tsx:392` against 384-387): the next revocation goes out
  with force. It still follows a warning about that same row, which is `LastKeyWarned`.
- The detail of a session that was deleted elsewhere goes on showing its last data, also
  when every further query fails. `ScreenConverges` exempts it.

## 6. Plan

Done: the message path, sessions and their reconciliation, deliveries, keys and applications
behind the guards, administrators with the tabs of the panel, the history, and the screens
that act; and the proofs of every safety property of the runs. What is left, in this order:

1. **Refinements**: an abstract specification of a family of refresh tokens, of which `PanelAuth`
   is an implementation, and one of a delivery (pending, then answered or given up after all its
   attempts) for `WebhookDelivery`, each as a theorem beside `PromiseStands`.
2. **More of the system**: versions of an endpoint's address and secret (`rotateSecret` with
   jobs queued), the notices of `aoMudarStatus`, the pairing code.

## 7. Hazards

`PROJECT.json` ("hazards") lists what is hard to test in this code, at its line, with the
properties that watch it; those without a property say why. Five more that no property
covers, for reference: an ack or a revocation that comes before the row of its message finds nothing
and is dropped (`modules/webhook-ingest/webhook-ingest.service.ts:372`, by design); the limit of
sessions is counted before the insert, so concurrent creations pass it together
(`modules/sessions/sessions.service.ts:115`); the reconciliation may set WORKING before the
event's handler reads the row, and then no `session.connected` is published
(`webhook-ingest.service.ts:212`); jobs queued before `rotateSecret` are signed with the old
secret (`modules/webhooks-out/webhook-delivery.queue.ts:142`); a WORKING event that is handled after
a logout binds the number again (`sessions.service.ts:386`).

## 8. Not modelled

- Recipients and media sources (`modules/messages/`): pure functions over strings and URLs;
  what they decide is whether a request goes on, which `SendPath` leaves open.
- The pairing code: like a QR code it is asked for once and shown; it changes no row.
- Chats, contacts and the aggregates of `metrics`: reads that are passed through; they
  are routes in `Routes`.
- Audit: append-only, its failures are swallowed.
- The SSE streams' reconnection, and an integrator's filtered stream: what a stream loses while
  it is down is in `Panel`, how often it tries again is not.
- Screens that only render, the screens of deliveries and of activating or removing
  applications and endpoints (their calls are in `ApiAccess` and `WebhookDelivery`).
- Formatting, wording, logging, OpenAPI, configuration, health checks, hashing and
  encryption: no state that properties speak of. HMAC verification and rate limiting decide
  only whether a request is served, and are a choice.
- WAHA, WhatsApp, PostgreSQL, Redis and the browser are modelled by how the code uses them.
