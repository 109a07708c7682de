----------------------------- MODULE ApiAccess -----------------------------
(***************************************************************************)
(* A request from its credential to its answer: the guards with the cache  *)
(* of authenticated keys, the owner check of the handler, the calls to     *)
(* WAHA with their repetitions, what is written after them, and the filter *)
(* of errors, while administrators create, revoke and rotate keys and      *)
(* deactivate or remove applications, await by await.  A request is one    *)
(* that no Idempotency-Key answers (SendPath).                             *)
(***************************************************************************)
EXTENDS Routes, FiniteSets

CONSTANTS
    Apps, Keys,
    InitialKeys,    \* the keys issued before, all to FirstApp
    FirstApp,
    Dated,          \* the keys an administrator issues with an expiry date
    ScopesOf,       \* the list of scopes an administrator gives a key
    Sessions,
    OwnerOf,        \* the application of a session, NoApp if it is not in Apps
    Served,         \* the routes that are called
    Requests,
    Ops,            \* the calls of administrators, one each
    MaxTentativas

NoApp == "no application"

ASSUME AccessAssumption ==
    /\ FirstApp \in Apps /\ NoApp \notin Apps
    /\ InitialKeys \subseteq Keys /\ Dated \subseteq Keys
    /\ ScopesOf \in [Keys -> SUBSET API_SCOPES]
    /\ OwnerOf \in [Sessions -> Apps \cup {NoApp}] /\ Sessions # {} /\ Keys # {}
    /\ Served \subseteq AppModule
    /\ Keys \cap {"jwt", "hmac", "nothing"} = {}
    /\ MaxTentativas \in Nat \ {0}

VARIABLES
    app,        \* the applications: active, inactive or deleted
    key,        \* the keys' rows
    late,       \* the expiry date of the keys that have one has passed
    cache,      \* of a key: nothing, its identity, or that it is refused
    req,        \* the request a slot is working on
    reply,      \* the class of the status it was answered with
    effects,    \* history: how often what it asks for was done
    op,         \* the calls of the administrators
    raced,      \* history: the cache was cleared during an authentication, or calls overlapped
    forced      \* history: a key was revoked with force

accessVars == <<app, key, late, cache, op, raced, forced>>
requestVars == <<req, reply, effects>>
vars == <<accessVars, requestVars>>

KeyRow == [state : {"unused", "active", "revoked", "deleted"},
           app : Apps \cup {NoApp}, dated : BOOLEAN, scopes : SUBSET API_SCOPES]

Unused == [state |-> "unused", app |-> NoApp, dated |-> FALSE, scopes |-> {}]

Emitida(k, a) ==
    [state |-> "active", app |-> a, dated |-> k \in Dated, scopes |-> ScopesOf[k]]

Credentials == Keys \cup {"jwt", "hmac", "nothing"}

Idle == [at |-> "idle", route |-> CHOOSE rt \in AppModule : TRUE, cred |-> "nothing",
         on |-> CHOOSE s \in Sessions : TRUE, app |-> NoApp, tries |-> 0, ans |-> "none"]

NewOp == [at |-> "new", kind |-> "update", k |-> CHOOSE k \in Keys : TRUE,
          a |-> FirstApp, active |-> TRUE, was |-> "active", copy |-> Unused]

Init ==
    /\ app = [a \in Apps |-> "active"]
    /\ key = [k \in Keys |-> IF k \in InitialKeys THEN Emitida(k, FirstApp) ELSE Unused]
    /\ late = FALSE
    /\ cache = [k \in Keys |-> "none"]
    /\ req = [r \in Requests |-> Idle]
    /\ reply = [r \in Requests |-> "none"]
    /\ effects = [r \in Requests |-> 0]
    /\ op = [o \in Ops |-> NewOp]
    /\ raced = FALSE
    /\ forced = FALSE

Exists(k) == key[k].state \in {"active", "revoked"}
Expired(k) == key[k].dated /\ late

(* The negation of invalido in authenticate, for the right secret. *)
Valida(k) ==
    /\ key[k].state = "active"
    /\ ~Expired(k)
    /\ app[key[k].app] = "active"

(* An empty list of scopes means all of them. *)
NormalizeScopes(list) == IF list = {} THEN API_SCOPES ELSE list \cap API_SCOPES

-----------------------------------------------------------------------------
(* The request.                                                            *)

Go(r, at) == req' = [req EXCEPT ![r].at = at]

(* The answer; the slot is free for another request. *)
Reply(r, class) ==
    /\ reply' = [reply EXCEPT ![r] = class]
    /\ req' = [req EXCEPT ![r] = Idle]

Fail(r, error) == Reply(r, Class(error)) /\ UNCHANGED effects

(* isOutraAutenticacao: prefixes that do not use an API key. *)
OutraAutenticacao(rt) == rt.prefix \in {"admin", "internal"}

UsesKey(rt) == ~rt.public /\ ~OutraAutenticacao(rt)

(* A request arrives, with a key that was issued once or something else. *)
Chegar(r) ==
    /\ req[r].at = "idle"
    /\ \E rt \in Served, s \in Sessions, c \in Credentials :
        /\ c \in Keys => UsesKey(rt) /\ key[c].state # "unused"
        /\ rt.on # "session" => s = Idle.on
        /\ req' = [req EXCEPT ![r] =
                    [Idle EXCEPT !.at = "guard", !.route = rt, !.cred = c, !.on = s]]
    /\ reply' = [reply EXCEPT ![r] = "none"]
    /\ effects' = [effects EXCEPT ![r] = 0]
    /\ UNCHANGED accessVars

(* What else lets a request in: AdminGuard or the token of the event       *)
(* stream, the signature of WAHA, or nothing at all.                       *)
Aceita(rt, c) ==
    CASE rt.guard \in {"AdminGuard", "token"} -> c = "jwt"
      [] rt.guard = "hmac"                    -> c = "hmac"
      [] OTHER                                -> TRUE

(* canActivate of a route without an API key. *)
OutroGuard(r) ==
    /\ req[r].at = "guard" /\ ~UsesKey(req[r].route)
    /\ IF Aceita(req[r].route, req[r].cred)
       THEN Go(r, "handler") /\ UNCHANGED <<reply, effects>>
       ELSE Fail(r, "unauthorized")
    /\ UNCHANGED accessVars

(* The identity is known, and the guard looks at the scopes without        *)
(* waiting in between.                                                     *)
Identificar(r, k) ==
    IF req[r].route.scope \in NormalizeScopes(key[k].scopes) \cup {"none"}
    THEN /\ req' = [req EXCEPT ![r].at = "throttle", ![r].app = key[k].app]
         /\ UNCHANGED <<reply, effects>>
    ELSE Fail(r, "forbidden")

(* extractKey and parseApiKey: not a key. *)
SemChave(r) ==
    /\ req[r].at = "guard" /\ UsesKey(req[r].route)
    /\ req[r].cred \notin Keys
    /\ Fail(r, "unauthorized")
    /\ UNCHANGED accessVars

(* authenticate, from the cache. *)
DoCache(r) ==
    LET k == req[r].cred IN
    /\ req[r].at = "guard" /\ UsesKey(req[r].route)
    /\ k \in Keys /\ cache[k] # "none"
    /\ IF cache[k] = "yes" THEN Identificar(r, k) ELSE Fail(r, "unauthorized")
    /\ UNCHANGED accessVars

(* authenticate, from the database: what findUnique found is judged after  *)
(* the secret was verified, which takes a while.                           *)
BuscarChave(r) ==
    LET k == req[r].cred IN
    /\ req[r].at = "guard" /\ UsesKey(req[r].route)
    /\ k \in Keys /\ cache[k] = "none"
    /\ Go(r, IF Valida(k) THEN "valid" ELSE "invalid")
    /\ UNCHANGED <<reply, effects, accessVars>>

Guardar(r) ==
    LET k == req[r].cred IN
    /\ \/ /\ req[r].at = "valid" /\ ~Expired(k)
          /\ cache' = [cache EXCEPT ![k] = "yes"]
          /\ Identificar(r, k)
       \/ /\ req[r].at = "invalid" \/ (req[r].at = "valid" /\ Expired(k))
          /\ cache' = [cache EXCEPT ![k] = "no"]
          /\ Fail(r, "unauthorized")
    /\ UNCHANGED <<app, key, late, op, raced, forced>>

(* ApiThrottlerGuard: the count of this key, or address, may be used up. *)
Limitar(r) ==
    /\ req[r].at = "throttle"
    /\ \/ Go(r, "handler") /\ UNCHANGED <<reply, effects>>
       \/ Fail(r, "tooManyRequests")
    /\ UNCHANGED accessVars

-----------------------------------------------------------------------------
(* The handler.                                                            *)

MutantSemDono(r) == TRUE \* the lookup goes by id alone

(* findOwned: the session is looked up with the application's id. *)
Pertence(r) == req[r].route.on = "session" => OwnerOf[req[r].on] = req[r].app

(* The body is invalid, or what is asked for is not there (any more), or   *)
(* the database refuses.  Nothing was done.                                *)
Recusar(r) ==
    /\ req[r].at = "handler"
    /\ \E error \in {"validationPipe", "notFound", "conflict"} \cup DOMAIN PrismaErrors :
        Fail(r, error)
    /\ UNCHANGED accessVars

(* The handler does what it is asked to by itself, or calls WAHA. *)
Agir(r) ==
    IF req[r].route.call = "none"
    THEN /\ effects' = [effects EXCEPT ![r] = 1]
         /\ Reply(r, "2xx")
    ELSE /\ req' = [req EXCEPT ![r].at = "waha", ![r].tries = 1]
         /\ UNCHANGED <<reply, effects>>

Atender(r) ==
    /\ req[r].at = "handler"
    /\ Pertence(r)
    /\ IF req[r].route.sync THEN Go(r, "sync") /\ UNCHANGED <<reply, effects>> ELSE Agir(r)
    /\ UNCHANGED accessVars

(* sincronizarStatus: every error of WAHA is swallowed but that it does    *)
(* not know the session, which is then written as FAILED; only the         *)
(* database can end the request here.  A QR or a code needs a session that *)
(* waits for one.                                                          *)
Sincronizar(r) ==
    /\ req[r].at = "sync"
    /\ \/ Agir(r)
       \/ \E error \in {"P2025", "database"} : Fail(r, error)
       \/ req[r].route.call # "none" /\ Fail(r, "conflict")
    /\ UNCHANGED accessVars

(* What an attempt at WAHA comes to.  A connection error is a timeout, a   *)
(* reset or the like; odd is any other error of the HTTP client.           *)
Outcome == {"2xx", "notJson", "404", "422", "401", "429", "5xx", "connection", "odd"}

(* Whether WAHA did what it was asked to. *)
Done(outcome) ==
    CASE outcome \in {"2xx", "notJson"}           -> {1}
      [] outcome \in {"404", "422", "401", "429"} -> {0}
      [] OTHER                                    -> {0, 1}

(* traduzir, and what raw and call make of the errors without a status. *)
Traduzir(outcome) ==
    CASE outcome = "404" -> "wahaSessionNotFound"
      [] outcome = "422" -> "wahaValidation"
      [] outcome = "401" -> "wahaAuth"
      [] outcome = "odd" -> "unknown"
      [] OTHER           -> "wahaUnavailable"

MutantTentativas(rt) == MaxTentativas \* every call is repeated

TentativasMax(rt) == IF rt.call = "retry" THEN MaxTentativas ELSE 1

(* What the handler makes of WAHA's last answer. *)
Resultado(rt, outcome) ==
    IF outcome = "2xx" \/ (rt.gone /\ outcome = "404") THEN "ok" ELSE Traduzir(outcome)

Responder(r, ans) == Reply(r, IF ans = "ok" THEN "2xx" ELSE Class(ans))

(* The catch of a send writes FAILED; the others go on only when it was    *)
(* done.                                                                   *)
Salva(rt, ans) == rt.saves = "always" \/ (rt.saves = "success" /\ ans = "ok")

(* raw: a 5xx or a connection error is tried again while there are         *)
(* attempts left.  (The two calls for a QR count as one.)                  *)
Raw(r) ==
    /\ req[r].at = "waha" /\ req[r].route.call # "download"
    /\ \E outcome \in Outcome, n \in 0..1 :
        /\ n \in Done(outcome)
        /\ effects' = [effects EXCEPT ![r] = @ + n]
        /\ LET rt  == req[r].route
               ans == Resultado(rt, outcome)
           IN CASE outcome \in {"5xx", "connection"} /\ req[r].tries < TentativasMax(rt) ->
                     req' = [req EXCEPT ![r].tries = @ + 1] /\ UNCHANGED reply
                [] Salva(rt, ans) ->
                     req' = [req EXCEPT ![r].at = "save", ![r].ans = ans] /\ UNCHANGED reply
                [] OTHER -> Responder(r, ans)
    /\ UNCHANGED accessVars

(* The row is written after WAHA's answer, and the database may refuse:    *)
(* the row is gone, or a webhook has recorded the message already.         *)
Salvar(r) ==
    /\ req[r].at = "save"
    /\ \/ Responder(r, req[r].ans) /\ UNCHANGED effects
       \/ \E error \in {"P2025", "database"} : Fail(r, error)
       \/ req[r].route.saves = "always" /\ req[r].ans = "ok" /\ Fail(r, "P2002")
    /\ UNCHANGED accessVars

(* downloadMedia: one attempt; fetchMedia answers whatever goes wrong with *)
(* "não está mais disponível".                                             *)
FetchMedia(r) ==
    /\ req[r].at = "waha" /\ req[r].route.call = "download"
    /\ \E outcome \in Outcome \ {"notJson"}, n \in 0..1 :
        /\ n \in Done(outcome)
        /\ effects' = [effects EXCEPT ![r] = @ + n]
        /\ Responder(r, IF outcome = "2xx" THEN "ok" ELSE "notFound")
    /\ UNCHANGED accessVars

-----------------------------------------------------------------------------
(* The administrators' calls.  The row a call read may be another one by   *)
(* the time it writes; the cache is cleared one await later.               *)

(* Another call is under way. *)
Overlaps(o) == \E p \in Ops \ {o} : op[p].at \notin {"new", "done"}

Advance(o, to) ==
    /\ op' = [op EXCEPT ![o] = IF to = "done" THEN [NewOp EXCEPT !.at = "done"]
                              ELSE [@ EXCEPT !.at = to]]
    /\ raced' = (raced \/ Overlaps(o))

Pedir(o) ==
    /\ op[o].at = "new"
    /\ \E kind \in {"update", "remove", "create", "revoke", "force", "rotate"},
          k \in Keys, a \in Apps, v \in BOOLEAN :
        /\ kind \in {"revoke", "force", "rotate"} => key[k].state # "unused" /\ a = FirstApp
        /\ kind \in {"update", "remove", "create"} => k = NewOp.k
        /\ kind # "update" => v
        /\ op' = [op EXCEPT ![o] =
                    [NewOp EXCEPT !.at = "read", !.kind = kind, !.k = k, !.a = a, !.active = v]]
    /\ raced' = (raced \/ Overlaps(o))
    /\ UNCHANGED <<app, key, late, cache, forced, requestVars>>

(* update, remove, createApiKey: the application must exist. *)
LerAplicacao(o) ==
    LET a == op[o].a IN
    /\ op[o].at = "read" /\ op[o].kind \in {"update", "remove", "create"}
    /\ IF app[a] = "deleted"
       THEN Advance(o, "done")
       ELSE /\ op' = [op EXCEPT ![o].at = "write", ![o].was = app[a]]
            /\ raced' = (raced \/ Overlaps(o))
    /\ UNCHANGED <<app, key, late, cache, forced, requestVars>>

(* update: the cache is cleared if the application was read the other way. *)
AtualizarAplicacao(o) ==
    LET a == op[o].a
        new == IF op[o].active THEN "active" ELSE "inactive"
    IN
    /\ op[o].at = "write" /\ op[o].kind = "update"
    /\ IF app[a] = "deleted"
       THEN Advance(o, "done") /\ UNCHANGED app
       ELSE /\ app' = [app EXCEPT ![a] = new]
            /\ Advance(o, IF new # op[o].was THEN "clear" ELSE "done")
    /\ UNCHANGED <<key, late, cache, forced, requestVars>>

(* remove: the delete cascades to the keys. *)
ExcluirAplicacao(o) ==
    LET a == op[o].a IN
    /\ op[o].at = "write" /\ op[o].kind = "remove"
    /\ IF app[a] = "deleted"
       THEN Advance(o, "done") /\ UNCHANGED <<app, key>>
       ELSE /\ app' = [app EXCEPT ![a] = "deleted"]
            /\ key' = [k \in Keys |-> IF key[k].app = a THEN [key[k] EXCEPT !.state = "deleted"]
                                      ELSE key[k]]
            /\ Advance(o, "clear")
    /\ UNCHANGED <<late, cache, forced, requestVars>>

(* createApiKey; an application that is gone by now is a foreign key error. *)
EmitirChave(o) ==
    LET a == op[o].a IN
    /\ op[o].at = "write" /\ op[o].kind = "create"
    /\ IF app[a] = "deleted"
       THEN UNCHANGED key
       ELSE \E k \in Keys :
                /\ key[k] = Unused
                /\ k \in Dated => ~late
                /\ key' = [key EXCEPT ![k] = Emitida(k, a)]
    /\ Advance(o, "done")
    /\ UNCHANGED <<app, late, cache, forced, requestVars>>

(* revokeApiKey and rotateApiKey: the key must exist, and a revocation     *)
(* of a revoked one is answered at once.                                   *)
LerChave(o) ==
    LET k == op[o].k IN
    /\ op[o].at = "read" /\ op[o].kind \in {"revoke", "force", "rotate"}
    /\ IF Exists(k) /\ (op[o].kind # "rotate" => key[k].state = "active")
       THEN /\ op' = [op EXCEPT ![o].at = IF op[o].kind = "revoke" THEN "count" ELSE "write",
                                ![o].copy = key[k]]
            /\ raced' = (raced \/ Overlaps(o))
       ELSE Advance(o, "done")
    /\ UNCHANGED <<app, key, late, cache, forced, requestVars>>

(* The keys of an application that were not revoked, expired or not. *)
Ativas(a) == {k \in Keys : key[k].app = a /\ key[k].state = "active"}

MutantContarAtivas(o) == \* one off
    /\ op[o].at = "count"
    /\ Advance(o, IF Cardinality(Ativas(op[o].copy.app)) < 1 THEN "done" ELSE "write")
    /\ UNCHANGED <<app, key, late, cache, forced, requestVars>>

(* Without force, the last one stays. *)
ContarAtivas(o) ==
    /\ op[o].at = "count"
    /\ Advance(o, IF Cardinality(Ativas(op[o].copy.app)) <= 1 THEN "done" ELSE "write")
    /\ UNCHANGED <<app, key, late, cache, forced, requestVars>>

MutantRevogar(o) == \* the cache is left to its expiry
    /\ op[o].at = "write" /\ op[o].kind \in {"revoke", "force"}
    /\ key' = IF Exists(op[o].k) THEN [key EXCEPT ![op[o].k].state = "revoked"] ELSE key
    /\ Advance(o, "done")
    /\ forced' = (forced \/ op[o].kind = "force")
    /\ UNCHANGED <<app, late, cache, requestVars>>

Revogar(o) ==
    LET k == op[o].k IN
    /\ op[o].at = "write" /\ op[o].kind \in {"revoke", "force"}
    /\ IF Exists(k)
       THEN key' = [key EXCEPT ![k].state = "revoked"] /\ Advance(o, "clear")
       ELSE Advance(o, "done") /\ UNCHANGED key
    /\ forced' = (forced \/ op[o].kind = "force")
    /\ UNCHANGED <<app, late, cache, requestVars>>

(* The transaction of rotateApiKey: a key with the application, scopes and *)
(* expiry that were read takes the place of the old one.                   *)
Rotacionar(o) ==
    LET k == op[o].k
        old == op[o].copy
    IN
    /\ op[o].at = "write" /\ op[o].kind = "rotate"
    /\ IF Exists(k)
       THEN /\ \E new \in Keys :
                /\ key[new] = Unused
                /\ key' = [key EXCEPT ![k].state = "revoked",
                                      ![new] = [old EXCEPT !.state = "active"]]
            /\ Advance(o, "clear")
       ELSE Advance(o, "done") /\ UNCHANGED key
    /\ UNCHANGED <<app, late, cache, forced, requestVars>>

(* invalidateCache: all of it.  An authentication that read the database   *)
(* before still stores what it found.                                      *)
InvalidateCache(o) ==
    /\ op[o].at = "clear"
    /\ cache' = [k \in Keys |-> "none"]
    /\ op' = [op EXCEPT ![o] = [NewOp EXCEPT !.at = "done"]]
    /\ raced' = (raced \/ Overlaps(o) \/ \E r \in Requests : req[r].at \in {"valid", "invalid"})
    /\ UNCHANGED <<app, key, late, forced, requestVars>>

-----------------------------------------------------------------------------
(* Time.                                                                   *)

MutantExpirar(k) == \* only refusals are stored with an expiry
    /\ cache[k] = "no"
    /\ cache' = [cache EXCEPT ![k] = "none"]
    /\ UNCHANGED <<app, key, late, op, raced, forced, requestVars>>

(* An entry is 60 seconds old; a hit does not make it younger. *)
Expirar(k) ==
    /\ cache[k] # "none"
    /\ cache' = [cache EXCEPT ![k] = "none"]
    /\ UNCHANGED <<app, key, late, op, raced, forced, requestVars>>

(* The expiry date of the keys that have one. *)
Vencer ==
    /\ ~late
    /\ late' = TRUE
    /\ UNCHANGED <<app, key, cache, op, raced, forced, requestVars>>

-----------------------------------------------------------------------------
RequestStep(r) ==
    \/ OutroGuard(r)
    \/ SemChave(r)
    \/ DoCache(r)
    \/ BuscarChave(r)
    \/ Guardar(r)
    \/ Limitar(r)
    \/ Recusar(r)
    \/ Atender(r)
    \/ Sincronizar(r)
    \/ Raw(r)
    \/ Salvar(r)
    \/ FetchMedia(r)

OpStep(o) ==
    \/ LerAplicacao(o)
    \/ AtualizarAplicacao(o)
    \/ ExcluirAplicacao(o)
    \/ EmitirChave(o)
    \/ LerChave(o)
    \/ ContarAtivas(o)
    \/ Revogar(o)
    \/ Rotacionar(o)
    \/ InvalidateCache(o)

Next ==
    \/ \E r \in Requests : Chegar(r) \/ RequestStep(r)
    \/ \E o \in Ops : Pedir(o) \/ OpStep(o)
    \/ \E k \in Keys : Expirar(k)
    \/ Vencer

Spec == Init /\ [][Next]_vars

(* Node runs the continuation of every settled await, a call to WAHA ends  *)
(* by its timeout, and the cache drops what is 60 seconds old.             *)
Fairness ==
    /\ \A r \in Requests : WF_vars(RequestStep(r))
    /\ \A o \in Ops : WF_vars(OpStep(o))
    /\ \A k \in Keys : WF_vars(Expirar(k))

FairSpec == Spec /\ Fairness

-----------------------------------------------------------------------------
(* Properties.                                                             *)

RequestState ==
    [at : {"idle", "guard", "valid", "invalid", "throttle", "handler", "sync", "waha", "save"},
     route : AppModule, cred : Credentials, on : Sessions,
     app : Apps \cup {NoApp}, tries : 0..MaxTentativas,
     ans : {"none", "ok"} \cup {Traduzir(outcome) : outcome \in Outcome}]

OpState ==
    [at : {"new", "read", "count", "write", "clear", "done"},
     kind : {"update", "remove", "create", "revoke", "force", "rotate"},
     k : Keys, a : Apps, active : BOOLEAN, was : {"active", "inactive", "deleted"},
     copy : KeyRow]

TypeOK ==
    /\ app \in [Apps -> {"active", "inactive", "deleted"}]
    /\ key \in [Keys -> KeyRow]
    /\ late \in BOOLEAN
    /\ cache \in [Keys -> {"none", "yes", "no"}]
    /\ req \in [Requests -> RequestState]
    /\ reply \in [Requests -> {"none", "2xx", "4xx", "db4xx", "5xx"}]
    /\ effects \in [Requests -> 0..MaxTentativas]
    /\ op \in [Ops -> OpState]
    /\ raced \in BOOLEAN
    /\ forced \in BOOLEAN

(* Whatever is cached, revoked or under way: something is done for a       *)
(* request only if its key is of the application that owns it and has the  *)
(* scope the route asks for, or if it carries the route's other credential.*)
Authorised(r) ==
    LET rt == req[r].route
        c  == req[r].cred
    IN IF UsesKey(rt)
       THEN /\ c \in Keys
            /\ rt.scope \in NormalizeScopes(key[c].scopes) \cup {"none"}
            /\ rt.on = "session" => OwnerOf[req[r].on] = key[c].app
       ELSE Aceita(rt, c)

EffectsAreAuthorised ==
    [][\A r \in Requests : effects'[r] > effects[r] => Authorised(r)]_vars

(* What is not repeated is done once at most.  A 2xx says that it was done *)
(* (to DELETE a session: or that WAHA had none any more).  A 4xx says that *)
(* it was not, whichever part of the gateway answered, but for a route     *)
(* that repeats its call, a download, whose 404 says nothing, and a 4xx    *)
(* that the filter makes of a database error, which may come after WAHA    *)
(* did it.                                                                 *)
AnswerTellsEffects ==
    [][\A r \in Requests :
        req[r].at # "idle" /\ req'[r].at = "idle" =>
            LET rt == req[r].route IN
            /\ reply'[r] = "2xx" /\ ~rt.gone => effects'[r] > 0
            /\ rt.call # "retry" => effects'[r] <= 1
            /\ rt.call \in {"none", "once"} /\ reply'[r] = "4xx" => effects'[r] = 0]_vars

(* "Torna o efeito instantâneo": when no other call and no authentication  *)
(* was under way, a key that was revoked, or whose application is          *)
(* deactivated or gone, is in the cache only until the call that did it    *)
(* goes on.                                                                *)
CutIsImmediate ==
    \A k \in Keys :
        cache[k] = "yes" /\ ~(key[k].state = "active" /\ app[key[k].app] = "active")
            => raced \/ \E o \in Ops : op[o].at = "clear"

(* An application that had a key keeps one that is not revoked, unless     *)
(* somebody forced it, removed it, or two calls overlapped.                *)
LastKeyKept ==
    \A a \in Apps :
        (\E k \in Keys : key[k].app = a) /\ app[a] # "deleted" /\ Ativas(a) = {}
            => raced \/ forced

(* Once administration comes to rest, the cache agrees with the database,  *)
(* whatever authentications and calls overlapped before.                   *)
CacheConverges ==
    <>[](\A k \in Keys : cache[k] # "none" => (cache[k] = "yes") = Valida(k))
=============================================================================
