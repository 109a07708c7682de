-------------------------- MODULE ApiAccessProofs --------------------------
(***************************************************************************)
(* What ApiAccess guarantees for any number of applications, keys,         *)
(* requests and administrators, for any table of routes served, and for    *)
(* any bound on the repetitions of a call to WAHA.                         *)
(*                                                                         *)
(* The argument.  A key that was issued never changes its application or   *)
(* its scopes, so that what the guard found is still so when the handler   *)
(* acts, whatever the administrators do in between (RequestsOK).  As long  *)
(* as no two calls of administrators overlapped and no authentication was  *)
(* under way when the cache was cleared, one call at most is under way; it *)
(* writes to what it has read; and what the cache or an authentication     *)
(* holds for valid is valid, unless that call is about to clear the cache  *)
(* (Undisturbed).                                                          *)
(***************************************************************************)
EXTENDS ApiAccess, FiniteSetTheorems, TLAPS

States == {"active", "inactive", "deleted"}

OpRecord ==
    [at : {"new", "read", "count", "write", "clear", "done"},
     kind : {"update", "remove", "create", "revoke", "force", "rotate"},
     k : Keys \cup {NewOp.k}, a : Apps, active : BOOLEAN, was : States, copy : KeyRow]

WahaErrors == {"wahaSessionNotFound", "wahaValidation", "wahaAuth", "unknown", "wahaUnavailable"}

RequestRecord ==
    [at : {"idle", "guard", "valid", "invalid", "throttle", "handler", "sync", "waha", "save"},
     route : AppModule, cred : Credentials, on : Sessions,
     app : Apps \cup {NoApp}, tries : 0..MaxTentativas,
     ans : {"none", "ok"} \cup WahaErrors]

AccessTypeOK ==
    /\ app \in [Apps -> States]
    /\ key \in [Keys -> KeyRow]
    /\ cache \in [Keys -> {"none", "yes", "no"}]
    /\ op \in [Ops -> OpRecord]
    /\ raced \in BOOLEAN
    /\ forced \in BOOLEAN

Classes == {"none", "2xx", "4xx", "db4xx", "5xx"}

RequestTypeOK ==
    /\ req \in [Requests -> RequestRecord]
    /\ reply \in [Requests -> Classes]
    /\ effects \in [Requests -> 0..MaxTentativas]

Issued(k) == key[k].state # "unused"

(* The guards let the request in. *)
Admitted(r) ==
    IF UsesKey(req[r].route)
    THEN /\ req[r].cred \in Keys
         /\ req[r].route.scope \in NormalizeScopes(key[req[r].cred].scopes) \cup {"none"}
         /\ req[r].app = key[req[r].cred].app
    ELSE Aceita(req[r].route, req[r].cred)

(* What WAHA answered, as the handler understands it, agrees with what was *)
(* done, n times.                                                          *)
AgreesWith(rt, ans, n) ==
    /\ ans \in {"ok"} \cup WahaErrors
    /\ ans = "ok" /\ ~rt.gone => n > 0
    /\ rt.call # "retry" => n <= 1
    /\ rt.call \in {"none", "once"} /\ ans \in {"wahaSessionNotFound", "wahaValidation"} => n = 0

(* The request was let in; what it did was counted; and what is asked of   *)
(* WAHA is about a session of its application.                             *)
RequestOK(r) ==
    /\ req[r].at # "idle" /\ req[r].cred \in Keys => Issued(req[r].cred)
    /\ req[r].at \in {"valid", "invalid"} => req[r].cred \in Keys /\ UsesKey(req[r].route)
    /\ req[r].at \in {"throttle", "handler", "sync", "waha", "save"} => Admitted(r)
    /\ req[r].at \in {"sync", "waha", "save"} => Pertence(r)
    /\ req[r].at = "waha" =>
        /\ req[r].route.call # "none"
        /\ req[r].tries <= TentativasMax(req[r].route)
        /\ effects[r] < req[r].tries
    /\ req[r].at = "save" => AgreesWith(req[r].route, req[r].ans, effects[r])
    /\ req[r].at \in {"guard", "valid", "invalid", "throttle", "handler", "sync"} => effects[r] = 0

RequestsOK == \A r \in Requests : RequestOK(r)

KeyKinds == {"revoke", "force", "rotate"}

(* The key that a call is about, and the application of what it read. *)
OpOK(o) ==
    /\ op[o].at = "count" => op[o].kind = "revoke"
    /\ op[o].at \in {"read", "count", "write"} /\ op[o].kind \in KeyKinds =>
        op[o].k \in Keys /\ Issued(op[o].k)
    /\ op[o].at \in {"count", "write"} /\ op[o].kind \in KeyKinds =>
        op[o].copy.app = key[op[o].k].app

OpsOK == \A o \in Ops : OpOK(o)

Busy(o) == op[o].at \notin {"new", "done"}

OneBusy == \A o, p \in Ops : Busy(o) /\ Busy(p) => o = p

(* What a call that is alone has read is still so when it writes. *)
ReadHolds ==
    \A o \in Ops :
        /\ op[o].at = "write" /\ op[o].kind = "update" => app[op[o].a] = op[o].was
        /\ op[o].at = "write" /\ op[o].kind = "revoke" =>
            \E j \in Keys : /\ j # op[o].k
                            /\ key[j].app = op[o].copy.app /\ key[j].state = "active"

Known(k) ==
    \/ cache[k] = "yes"
    \/ \E r \in Requests : req[r].at = "valid" /\ req[r].cred = k

InForce(k) == key[k].state = "active" /\ app[key[k].app] = "active"

KnownIsInForce ==
    (\A o \in Ops : op[o].at # "clear") => \A k \in Keys : Known(k) => InForce(k)

AppsKeepKeys ==
    \A a \in Apps :
        (\E k \in Keys : key[k].app = a) /\ app[a] # "deleted" =>
            \E j \in Keys : key[j].app = a /\ key[j].state = "active"

Undisturbed ==
    /\ OneBusy
    /\ ReadHolds
    /\ KnownIsInForce
    /\ ~forced => AppsKeepKeys

IInv ==
    /\ AccessTypeOK
    /\ RequestTypeOK
    /\ RequestsOK
    /\ OpsOK
    /\ ~raced => Undisturbed

-----------------------------------------------------------------------------
(* What the filter answers.                                                *)

LEMMA ClassIsError == \A e : Class(e) \in {"4xx", "db4xx", "5xx"}
  BY DEF Class

(* What WAHA answered: only a success is a 2xx, and only that WAHA does    *)
(* not know the session, or the body, is a 4xx.                            *)
LEMMA WahaAnswers ==
  ASSUME NEW ans \in {"ok"} \cup WahaErrors
  PROVE  LET class == IF ans = "ok" THEN "2xx" ELSE Class(ans)
         IN /\ class \in Classes
            /\ class = "2xx" => ans = "ok"
            /\ class = "4xx" => ans \in {"wahaSessionNotFound", "wahaValidation"}
<1>1. /\ ToProblem("wahaAuth") = 500 /\ ToProblem("wahaUnavailable") = 503
      /\ ToProblem("unknown") = 500
  BY DEF ToProblem, DomainErrors, HttpErrors, PrismaErrors, BodyParserErrors
<1> QED
  BY <1>1, ClassIsError DEF WahaErrors, Classes, Class

LEMMA DatabaseAnswers ==
  \A e \in {"P2002", "P2025", "database"} : Class(e) \in {"db4xx", "5xx"}
  BY DEF Class, PrismaErrors

LEMMA ResultadoFacts ==
  ASSUME NEW rt, NEW outcome \in Outcome
  PROVE  LET ans == Resultado(rt, outcome)
         IN /\ ans \in {"ok"} \cup WahaErrors
            /\ ans = "ok" /\ ~rt.gone => outcome = "2xx"
            /\ ans \in {"wahaSessionNotFound", "wahaValidation"} => outcome \in {"404", "422"}
  BY DEF Resultado, Traduzir, Outcome, WahaErrors

LEMMA AtLeastOne ==
  /\ MaxTentativas \in Nat /\ 0 <= MaxTentativas /\ 1 <= MaxTentativas
  /\ \A rt : /\ TentativasMax(rt) \in Nat
             /\ 1 <= TentativasMax(rt) /\ TentativasMax(rt) <= MaxTentativas
  BY AccessAssumption DEF TentativasMax

-----------------------------------------------------------------------------
(* Types.                                                                  *)

LEMMA Starts == Idle \in RequestRecord /\ NewOp \in OpRecord /\ Unused \in KeyRow
<1>1. AppModule # {}
  BY DEF AppModule, AccountController
<1>2. Sessions # {} /\ FirstApp \in Apps
  BY AccessAssumption
<1>3. (CHOOSE rt \in AppModule : TRUE) \in AppModule /\ (CHOOSE s \in Sessions : TRUE) \in Sessions
  BY <1>1, <1>2
<1>4. Idle \in RequestRecord
  BY <1>3, AtLeastOne DEF Idle, RequestRecord, Credentials
<1>5. Unused \in KeyRow
  BY DEF Unused, KeyRow
<1>6. NewOp \in OpRecord
  BY <1>2, <1>5 DEF NewOp, OpRecord, States
<1> QED
  BY <1>4, <1>5, <1>6

-----------------------------------------------------------------------------
(* The steps of a request.                                                 *)

(* What a step of a request does to its slot and leaves of the rest. *)
Serves(r) ==
    /\ RequestTypeOK'
    /\ \A s \in Requests \ {r} : req'[s] = req[s] /\ effects'[s] = effects[s]
    /\ UNCHANGED <<app, key, op, raced, forced>>

LEMMA ReplyFacts ==
  ASSUME RequestTypeOK, NEW r \in Requests, NEW class \in Classes, Reply(r, class)
  PROVE  /\ req' \in [Requests -> RequestRecord] /\ reply' \in [Requests -> Classes]
         /\ req'[r] = Idle /\ reply'[r] = class
         /\ \A s \in Requests \ {r} : req'[s] = req[s]
  BY Starts DEF RequestTypeOK, Reply

LEMMA FailFacts ==
  ASSUME RequestTypeOK, NEW r \in Requests, NEW e, Fail(r, e)
  PROVE  /\ RequestTypeOK' /\ UNCHANGED effects
         /\ req'[r] = Idle /\ reply'[r] = Class(e) /\ reply'[r] \in {"4xx", "db4xx", "5xx"}
         /\ \A s \in Requests \ {r} : req'[s] = req[s]
<1>1. Reply(r, Class(e)) /\ UNCHANGED effects
  BY DEF Fail
<1>2. Class(e) \in Classes /\ Class(e) \in {"4xx", "db4xx", "5xx"}
  BY ClassIsError DEF Classes
<1> QED
  BY <1>1, <1>2, ReplyFacts DEF RequestTypeOK

LEMMA GoFacts ==
  ASSUME RequestTypeOK, NEW r \in Requests,
         NEW at \in {"valid", "invalid", "handler", "sync"}, Go(r, at), UNCHANGED <<reply, effects>>
  PROVE  /\ RequestTypeOK'
         /\ \A s \in Requests \ {r} : req'[s] = req[s]
         /\ req'[r] = [req[r] EXCEPT !.at = at]
         /\ req'[r].at = at /\ req'[r].route = req[r].route /\ req'[r].cred = req[r].cred
         /\ req'[r].on = req[r].on /\ req'[r].app = req[r].app
<1>1. req' = [req EXCEPT ![r] = [req[r] EXCEPT !.at = at]]
  BY DEF Go, RequestTypeOK
<1>2. [req[r] EXCEPT !.at = at] \in RequestRecord
  BY DEF RequestTypeOK, RequestRecord
<1> QED
  BY <1>1, <1>2 DEF RequestTypeOK, RequestRecord

(* What a refusal does to a request that has done nothing. *)
LEMMA FailServes ==
  ASSUME RequestTypeOK, NEW r \in Requests, effects[r] = 0, NEW e, Fail(r, e),
         UNCHANGED <<app, key, op, raced, forced>>
  PROVE  /\ Serves(r) /\ RequestOK(r)'
         /\ req'[r].at = "idle" /\ effects'[r] = 0 /\ reply'[r] # "2xx"
<1>1. /\ RequestTypeOK' /\ UNCHANGED effects
      /\ req'[r] = Idle /\ reply'[r] \in {"4xx", "db4xx", "5xx"}
      /\ \A s \in Requests \ {r} : req'[s] = req[s]
  BY FailFacts
<1> QED
  BY <1>1 DEF Serves, Idle, RequestOK

(* What AnswerTellsEffects and EffectsAreAuthorised say of one request. *)
Tells(r) ==
    req[r].at # "idle" /\ req'[r].at = "idle" =>
        /\ reply'[r] = "2xx" /\ ~req[r].route.gone => effects'[r] > 0
        /\ req[r].route.call # "retry" => effects'[r] <= 1
        /\ req[r].route.call \in {"none", "once"} /\ reply'[r] = "4xx" => effects'[r] = 0

Authorises(r) == effects'[r] > effects[r] => Authorised(r)

(* What is learnt of a key is what the database says of it. *)
Learns ==
    /\ cache' \in [Keys -> {"none", "yes", "no"}]
    /\ \A k \in Keys : Known(k)' => Known(k) \/ InForce(k)

ServesWell(r) == Serves(r) /\ RequestOK(r)' /\ Tells(r) /\ Authorises(r) /\ Learns

LEMMA Refuses ==
  ASSUME AccessTypeOK, RequestTypeOK, NEW r \in Requests, effects[r] = 0, NEW e, Fail(r, e),
         UNCHANGED <<app, key, op, raced, forced>>,
         cache' \in [Keys -> {"none", "yes", "no"}],
         \A k \in Keys : cache'[k] = "yes" => Known(k) \/ InForce(k)
  PROVE  ServesWell(r)
<1>1. /\ Serves(r) /\ RequestOK(r)'
      /\ req'[r].at = "idle" /\ effects'[r] = 0 /\ reply'[r] # "2xx"
  BY FailServes
<1>2. Learns
  BY <1>1 DEF Learns, Known, Serves
<1>3. Tells(r) /\ Authorises(r)
  BY <1>1 DEF Tells, Authorises
<1> QED
  BY <1>1, <1>2, <1>3 DEF ServesWell

(* A step onwards that does nothing yet. *)
LEMMA Proceeds ==
  ASSUME AccessTypeOK, RequestTypeOK, RequestTypeOK', NEW r \in Requests, effects' = effects,
         req'[r].at \notin {"idle", "valid"},
         \A s \in Requests \ {r} : req'[s] = req[s], RequestOK(r)',
         UNCHANGED <<app, key, op, raced, forced>>,
         cache' \in [Keys -> {"none", "yes", "no"}],
         \A k \in Keys : cache'[k] = "yes" => Known(k) \/ InForce(k)
  PROVE  ServesWell(r)
<1>1. Serves(r)
  BY DEF Serves
<1>2. Learns
  BY DEF Learns, Known
<1>3. Tells(r) /\ Authorises(r)
  BY DEF Tells, Authorises, RequestTypeOK
<1> QED
  BY <1>1, <1>2, <1>3 DEF ServesWell

(* The identity of a key, and the scopes it was given. *)
LEMMA Identifies ==
  ASSUME AccessTypeOK, RequestTypeOK, RequestsOK, NEW r \in Requests,
         UsesKey(req[r].route), req[r].cred \in Keys, req[r].at \in {"guard", "valid"},
         Identificar(r, req[r].cred),
         UNCHANGED <<app, key, op, raced, forced>>,
         cache' \in [Keys -> {"none", "yes", "no"}],
         \A k \in Keys : cache'[k] = "yes" => Known(k) \/ InForce(k)
  PROVE  ServesWell(r)
<1> DEFINE q == req[r]
           k == q.cred
           m == [q EXCEPT !.at = "throttle", !.app = key[k].app]
<1>0. q \in RequestRecord /\ effects[r] = 0 /\ Issued(k) /\ key[k] \in KeyRow
  BY DEF RequestTypeOK, RequestsOK, RequestOK, AccessTypeOK
<1>1. CASE q.route.scope \in NormalizeScopes(key[k].scopes) \cup {"none"}
  <2>1. /\ req' = [req EXCEPT ![r] = m]
        /\ UNCHANGED <<reply, effects>>
    BY <1>1 DEF Identificar, RequestTypeOK
  <2>2. /\ m \in RequestRecord /\ m.at = "throttle" /\ m.app = key[k].app
        /\ m.route = q.route /\ m.cred = k
    BY <1>0 DEF RequestRecord, KeyRow
  <2> HIDE DEF m
  <2>3. RequestTypeOK' /\ req'[r] = m /\ \A s \in Requests \ {r} : req'[s] = req[s]
    BY <2>1, <2>2 DEF RequestTypeOK
  <2>4. RequestOK(r)'
    BY <1>0, <1>1, <2>1, <2>2, <2>3 DEF RequestOK, Admitted, Issued
  <2> QED
    BY <2>1, <2>2, <2>3, <2>4, Proceeds
<1>2. CASE q.route.scope \notin NormalizeScopes(key[k].scopes) \cup {"none"}
  <2>1. Fail(r, "forbidden")
    BY <1>2 DEF Identificar
  <2> QED
    BY <1>0, <2>1, Refuses
<1> QED
  BY <1>1, <1>2

LEMMA ArrivalServes ==
  ASSUME AccessTypeOK, RequestTypeOK, NEW r \in Requests, Chegar(r)
  PROVE  ServesWell(r)
<1>1. PICK rt \in Served, s \in Sessions, c \in Credentials :
        /\ c \in Keys => UsesKey(rt) /\ key[c].state # "unused"
        /\ req' = [req EXCEPT ![r] =
                    [Idle EXCEPT !.at = "guard", !.route = rt, !.cred = c, !.on = s]]
  BY DEF Chegar
<1> DEFINE m == [Idle EXCEPT !.at = "guard", !.route = rt, !.cred = c, !.on = s]
<1>2. /\ m \in RequestRecord /\ m.at = "guard" /\ m.cred = c
  <2>1. rt \in AppModule
    BY AccessAssumption
  <2> QED
    BY <2>1, Starts DEF RequestRecord, Idle
<1> HIDE DEF m
<1>3. /\ reply' = [reply EXCEPT ![r] = "none"] /\ effects' = [effects EXCEPT ![r] = 0]
      /\ UNCHANGED <<app, key, op, raced, forced, cache>> /\ req[r].at = "idle"
  BY DEF Chegar, accessVars
<1>4. /\ RequestTypeOK' /\ req'[r] = m /\ effects'[r] = 0
      /\ \A x \in Requests \ {r} : req'[x] = req[x] /\ effects'[x] = effects[x]
  BY <1>1, <1>2, <1>3, AtLeastOne DEF RequestTypeOK, m, Classes
<1>5. RequestOK(r)'
  BY <1>1, <1>2, <1>3, <1>4 DEF RequestOK, Issued
<1>6. Learns
  BY <1>2, <1>3, <1>4 DEF Learns, Known, AccessTypeOK
<1>7. Tells(r) /\ Authorises(r)
  BY <1>3, <1>4 DEF Tells, Authorises, RequestTypeOK
<1> QED
  BY <1>3, <1>4, <1>5, <1>6, <1>7 DEF ServesWell, Serves

LEMMA GuardServes ==
  ASSUME AccessTypeOK, RequestTypeOK, RequestsOK, NEW r \in Requests,
         OutroGuard(r) \/ SemChave(r) \/ DoCache(r) \/ BuscarChave(r) \/ Limitar(r) \/ Recusar(r)
  PROVE  ServesWell(r)
<1> DEFINE q == req[r]
<1>0. /\ q.at \in {"guard", "throttle", "handler"} => effects[r] = 0
      /\ RequestOK(r)
  BY DEF RequestsOK, RequestOK
<1>1. /\ UNCHANGED <<app, key, op, raced, forced>>
      /\ cache' \in [Keys -> {"none", "yes", "no"}]
      /\ \A k \in Keys : cache'[k] = "yes" => Known(k) \/ InForce(k)
  BY DEF OutroGuard, SemChave, DoCache, BuscarChave, Limitar, Recusar, accessVars, AccessTypeOK,
         Known
<1>2. ASSUME NEW e, Fail(r, e), q.at \in {"guard", "throttle", "handler"}
      PROVE  ServesWell(r)
  BY <1>0, <1>1, <1>2, Refuses
<1>3. ASSUME Go(r, "handler"), UNCHANGED <<reply, effects>>, Admitted(r),
             q.at \in {"guard", "throttle"}
      PROVE  ServesWell(r)
  <2>1. /\ RequestTypeOK' /\ \A s \in Requests \ {r} : req'[s] = req[s]
        /\ req'[r].at = "handler" /\ req'[r].route = req[r].route /\ req'[r].cred = req[r].cred
        /\ req'[r].on = req[r].on /\ req'[r].app = req[r].app
    BY <1>3, GoFacts
  <2>2. RequestOK(r)'
    BY <1>0, <1>1, <1>3, <2>1 DEF RequestOK, Admitted, Issued
  <2> QED
    BY <1>1, <1>3, <2>1, <2>2, Proceeds
<1>4. CASE OutroGuard(r)
  <2>1. q.at = "guard" /\ ~UsesKey(q.route)
    BY <1>4 DEF OutroGuard
  <2>2. CASE Aceita(q.route, q.cred)
    <3>1. Go(r, "handler") /\ UNCHANGED <<reply, effects>> /\ Admitted(r)
      BY <1>4, <2>1, <2>2 DEF OutroGuard, Admitted
    <3> QED
      BY <1>3, <2>1, <3>1
  <2>3. CASE ~Aceita(q.route, q.cred)
    BY <1>2, <1>4, <2>1, <2>3 DEF OutroGuard
  <2> QED
    BY <2>2, <2>3
<1>5. CASE SemChave(r)
  BY <1>2, <1>5 DEF SemChave
<1>6. CASE DoCache(r)
  <2>1. q.at = "guard" /\ UsesKey(q.route) /\ q.cred \in Keys
    BY <1>6 DEF DoCache
  <2>2. Identificar(r, q.cred) \/ Fail(r, "unauthorized")
    BY <1>6 DEF DoCache
  <2> QED
    BY <1>1, <1>2, <2>1, <2>2, Identifies
<1>7. CASE BuscarChave(r)
  <2>1. /\ q.at = "guard" /\ UsesKey(q.route) /\ q.cred \in Keys
        /\ UNCHANGED <<reply, effects, cache>>
    BY <1>7 DEF BuscarChave, accessVars
  <2>2. PICK at \in {"valid", "invalid"} : Go(r, at) /\ (at = "valid" => Valida(q.cred))
    BY <1>7 DEF BuscarChave
  <2>3. /\ RequestTypeOK' /\ \A s \in Requests \ {r} : req'[s] = req[s]
        /\ req'[r].at = at /\ req'[r].route = req[r].route /\ req'[r].cred = req[r].cred
    BY <2>1, <2>2, GoFacts
  <2>4. RequestOK(r)'
    BY <1>0, <1>1, <2>1, <2>3 DEF RequestOK, Issued
  <2>5. Learns
    BY <1>1, <2>1, <2>2, <2>3 DEF Learns, Known, Valida, InForce
  <2>6. Tells(r) /\ Authorises(r)
    BY <2>1, <2>3 DEF Tells, Authorises, RequestTypeOK
  <2> QED
    BY <1>1, <2>1, <2>3, <2>4, <2>5, <2>6 DEF ServesWell, Serves
<1>8. CASE Limitar(r)
  <2>1. q.at = "throttle" /\ Admitted(r)
    BY <1>0, <1>8 DEF Limitar, RequestOK
  <2>2. \/ Go(r, "handler") /\ UNCHANGED <<reply, effects>>
        \/ Fail(r, "tooManyRequests")
    BY <1>8 DEF Limitar
  <2> QED
    BY <1>2, <1>3, <2>1, <2>2
<1>9. CASE Recusar(r)
  BY <1>2, <1>9 DEF Recusar
<1> QED
  BY <1>4, <1>5, <1>6, <1>7, <1>8, <1>9

LEMMA StoringServes ==
  ASSUME AccessTypeOK, RequestTypeOK, RequestsOK, NEW r \in Requests, Guardar(r)
  PROVE  ServesWell(r)
<1> DEFINE q == req[r]
           k == q.cred
<1>0. /\ q.at \in {"valid", "invalid"} /\ effects[r] = 0 /\ k \in Keys /\ UsesKey(q.route)
      /\ UNCHANGED <<app, key, op, raced, forced>>
  BY DEF Guardar, RequestsOK, RequestOK
<1>1. CASE q.at = "valid" /\ cache' = [cache EXCEPT ![k] = "yes"] /\ Identificar(r, k)
  <2>1. /\ cache' \in [Keys -> {"none", "yes", "no"}]
        /\ \A j \in Keys : cache'[j] = "yes" => Known(j) \/ InForce(j)
    BY <1>0, <1>1 DEF AccessTypeOK, Known
  <2> QED
    BY <1>0, <1>1, <2>1, Identifies
<1>2. CASE cache' = [cache EXCEPT ![k] = "no"] /\ Fail(r, "unauthorized")
  <2>1. /\ cache' \in [Keys -> {"none", "yes", "no"}]
        /\ \A j \in Keys : cache'[j] = "yes" => Known(j) \/ InForce(j)
    BY <1>0, <1>2 DEF AccessTypeOK, Known
  <2> QED
    BY <1>0, <1>2, <2>1, Refuses
<1> QED
  BY <1>1, <1>2 DEF Guardar

(* The request is answered, and what was done for it is counted. *)
LEMMA Closes ==
  ASSUME AccessTypeOK, RequestTypeOK, NEW r \in Requests, NEW n \in 0..MaxTentativas,
         NEW class \in Classes,
         effects' = [effects EXCEPT ![r] = n], Reply(r, class),
         UNCHANGED accessVars,
         class = "2xx" /\ ~req[r].route.gone => n > 0,
         req[r].route.call # "retry" => n <= 1,
         req[r].route.call \in {"none", "once"} /\ class = "4xx" => n = 0,
         n > effects[r] => Authorised(r)
  PROVE  ServesWell(r)
<1>1. /\ req' \in [Requests -> RequestRecord] /\ reply' \in [Requests -> Classes]
      /\ req'[r] = Idle /\ reply'[r] = class
      /\ \A s \in Requests \ {r} : req'[s] = req[s]
  BY ReplyFacts
<1>2. /\ effects' \in [Requests -> 0..MaxTentativas] /\ effects'[r] = n
      /\ \A s \in Requests \ {r} : effects'[s] = effects[s]
  BY DEF RequestTypeOK
<1>3. Serves(r)
  BY <1>1, <1>2 DEF Serves, RequestTypeOK, accessVars
<1>4. RequestOK(r)'
  BY <1>1 DEF RequestOK, Idle
<1>5. Learns
  BY <1>1 DEF Learns, Known, AccessTypeOK, accessVars, Idle
<1>6. Tells(r) /\ Authorises(r)
  BY <1>1, <1>2 DEF Tells, Authorises
<1> QED
  BY <1>3, <1>4, <1>5, <1>6 DEF ServesWell

(* The answer of WAHA is passed on. *)
LEMMA Responds ==
  ASSUME AccessTypeOK, RequestTypeOK, NEW r \in Requests, NEW n \in 0..MaxTentativas,
         NEW ans, AgreesWith(req[r].route, ans, n),
         effects' = [effects EXCEPT ![r] = n], Responder(r, ans),
         UNCHANGED accessVars, n > effects[r] => Authorised(r)
  PROVE  ServesWell(r)
<1> DEFINE class == IF ans = "ok" THEN "2xx" ELSE Class(ans)
<1>1. /\ class \in Classes
      /\ class = "2xx" => ans = "ok"
      /\ class = "4xx" => ans \in {"wahaSessionNotFound", "wahaValidation"}
  BY WahaAnswers DEF AgreesWith
<1>2. Reply(r, class)
  BY DEF Responder
<1> HIDE DEF class
<1> QED
  BY <1>1, <1>2, Closes DEF AgreesWith

(* A request that was let in and is about a session of its application may *)
(* do what it asks for.                                                    *)
LEMMA AdmittedIsAuthorised ==
  ASSUME NEW r \in Requests, Admitted(r), Pertence(r)
  PROVE  Authorised(r)
  BY DEF Admitted, Pertence, Authorised

LEMMA CacheStays ==
  ASSUME AccessTypeOK, UNCHANGED accessVars
  PROVE  /\ UNCHANGED <<app, key, op, raced, forced>>
         /\ cache' \in [Keys -> {"none", "yes", "no"}]
         /\ \A k \in Keys : cache'[k] = "yes" => Known(k) \/ InForce(k)
  BY DEF accessVars, AccessTypeOK, Known

(* The handler acts for a request that has done nothing so far. *)
LEMMA ActingServes ==
  ASSUME AccessTypeOK, RequestTypeOK, NEW r \in Requests, req[r].at \in {"handler", "sync"},
         RequestOK(r), Pertence(r), Agir(r), UNCHANGED accessVars
  PROVE  ServesWell(r)
<1> DEFINE q == req[r]
<1>0. q \in RequestRecord /\ effects[r] = 0 /\ Admitted(r)
  BY DEF RequestTypeOK, RequestOK
<1>1. CASE q.route.call = "none"
  <2> DEFINE class == "2xx"
             total == 1
  <2>1. effects' = [effects EXCEPT ![r] = total] /\ Reply(r, class)
    BY <1>1 DEF Agir
  <2>2. /\ class \in Classes /\ total \in 0..MaxTentativas
        /\ class # "4xx" /\ total > 0 /\ total <= 1
    BY AtLeastOne DEF Classes
  <2>3. Authorised(r)
    BY <1>0, AdmittedIsAuthorised
  <2> HIDE DEF class, total
  <2> QED
    BY <2>1, <2>2, <2>3, Closes
<1>2. CASE q.route.call # "none"
  <2> DEFINE m == [q EXCEPT !.at = "waha", !.tries = 1]
  <2>1. req' = [req EXCEPT ![r] = m] /\ UNCHANGED <<reply, effects>>
    BY <1>2 DEF Agir, RequestTypeOK
  <2>2. /\ m \in RequestRecord /\ m.at = "waha" /\ m.tries = 1 /\ m.route = q.route
        /\ m.cred = q.cred /\ m.on = q.on /\ m.app = q.app
    <3>1. 1 \in 0..MaxTentativas
      BY AtLeastOne
    <3> QED
      BY <1>0, <3>1 DEF RequestRecord
  <2> HIDE DEF m
  <2>3. /\ RequestTypeOK' /\ req'[r] = m
        /\ \A s \in Requests \ {r} : req'[s] = req[s]
    BY <2>1, <2>2 DEF RequestTypeOK
  <2>4. RequestOK(r)'
    BY <1>0, <1>2, <2>1, <2>2, <2>3, AtLeastOne
    DEF RequestOK, Admitted, Pertence, Issued, accessVars
  <2> QED
    BY <2>1, <2>2, <2>3, <2>4, CacheStays, Proceeds
<1> QED
  BY <1>1, <1>2

LEMMA HandlerServes ==
  ASSUME AccessTypeOK, RequestTypeOK, RequestsOK, NEW r \in Requests, Atender(r)
  PROVE  ServesWell(r)
<1>0. req[r].at = "handler" /\ RequestOK(r) /\ Pertence(r) /\ UNCHANGED accessVars
  BY DEF RequestsOK, Atender
<1>1. CASE req[r].route.sync
  <2>1. Go(r, "sync") /\ UNCHANGED <<reply, effects>>
    BY <1>1 DEF Atender
  <2>2. /\ RequestTypeOK' /\ \A s \in Requests \ {r} : req'[s] = req[s]
        /\ req'[r].at = "sync" /\ req'[r].route = req[r].route /\ req'[r].cred = req[r].cred
        /\ req'[r].on = req[r].on /\ req'[r].app = req[r].app
    BY <2>1, GoFacts
  <2>3. RequestOK(r)'
    BY <1>0, <2>1, <2>2 DEF RequestOK, Admitted, Pertence, Issued, accessVars
  <2> QED
    BY <1>0, <2>1, <2>2, <2>3, CacheStays, Proceeds
<1>2. CASE ~req[r].route.sync
  BY <1>0, <1>2, ActingServes DEF Atender
<1> QED
  BY <1>1, <1>2

LEMMA SyncServes ==
  ASSUME AccessTypeOK, RequestTypeOK, RequestsOK, NEW r \in Requests, Sincronizar(r)
  PROVE  ServesWell(r)
<1>0. /\ req[r].at = "sync" /\ RequestOK(r) /\ Pertence(r) /\ effects[r] = 0
      /\ UNCHANGED accessVars
  BY DEF RequestsOK, RequestOK, Sincronizar
<1>1. CASE Agir(r)
  BY <1>0, <1>1, ActingServes
<1>2. ASSUME NEW e, Fail(r, e) PROVE ServesWell(r)
  BY <1>0, <1>2, CacheStays, Refuses
<1> QED
  BY <1>1, <1>2 DEF Sincronizar

(* An attempt at WAHA is for a request that may do what it asks for. *)
LEMMA AtWaha ==
  ASSUME RequestTypeOK, RequestsOK, NEW r \in Requests, req[r].at = "waha"
  PROVE  /\ RequestOK(r) /\ Admitted(r) /\ Pertence(r) /\ Authorised(r)
         /\ req[r] \in RequestRecord /\ req[r].tries \in Nat /\ effects[r] \in Nat
         /\ effects[r] < req[r].tries /\ req[r].tries <= TentativasMax(req[r].route)
         /\ req[r].tries <= MaxTentativas /\ MaxTentativas \in Nat
         /\ req[r].route.call # "none"
         /\ req[r].route.call # "retry" => effects[r] = 0
<1>1. /\ RequestOK(r) /\ Admitted(r) /\ Pertence(r)
      /\ req[r] \in RequestRecord /\ req[r].tries \in 0..MaxTentativas
      /\ effects[r] \in 0..MaxTentativas
      /\ effects[r] < req[r].tries /\ req[r].tries <= TentativasMax(req[r].route)
      /\ req[r].route.call # "none"
  BY DEF RequestTypeOK, RequestRecord, RequestsOK, RequestOK
<1>2. req[r].route.call # "retry" => effects[r] = 0
  BY <1>1 DEF TentativasMax
<1> QED
  BY <1>1, <1>2, AtLeastOne, AdmittedIsAuthorised

LEMMA RawServes ==
  ASSUME AccessTypeOK, RequestTypeOK, RequestsOK, NEW r \in Requests, Raw(r)
  PROVE  ServesWell(r)
<1> DEFINE q == req[r]
           rt == q.route
<1>0. q.at = "waha" /\ UNCHANGED accessVars
  BY DEF Raw
<1>1. PICK outcome \in Outcome, n \in 0..1 :
        /\ n \in Done(outcome)
        /\ effects' = [effects EXCEPT ![r] = @ + n]
        /\ LET ans == Resultado(rt, outcome)
           IN \/ /\ q.tries < TentativasMax(rt)
                 /\ req' = [req EXCEPT ![r].tries = @ + 1] /\ UNCHANGED reply
              \/ /\ req' = [req EXCEPT ![r].at = "save", ![r].ans = ans] /\ UNCHANGED reply
              \/ Responder(r, ans)
  BY DEF Raw
<1> DEFINE total == effects[r] + n
           ans   == Resultado(rt, outcome)
<1>2. /\ total \in 0..MaxTentativas /\ total <= q.tries
      /\ effects' = [effects EXCEPT ![r] = total]
      /\ \A s \in Requests \ {r} : effects'[s] = effects[s]
      /\ effects'[r] = total /\ effects' \in [Requests -> 0..MaxTentativas]
  <2>1. total \in 0..MaxTentativas /\ total <= q.tries
    BY <1>0, AtWaha
  <2>2. effects' = [effects EXCEPT ![r] = total]
    BY <1>1
  <2> QED
    BY <2>1, <2>2 DEF RequestTypeOK
<1>3. AgreesWith(rt, ans, total)
  <2>1. /\ ans \in {"ok"} \cup WahaErrors
        /\ ans = "ok" /\ ~rt.gone => outcome = "2xx"
        /\ ans \in {"wahaSessionNotFound", "wahaValidation"} => outcome \in {"404", "422"}
    BY ResultadoFacts
  <2>2. (outcome = "2xx" => n = 1) /\ (outcome \in {"404", "422"} => n = 0)
    BY <1>1 DEF Done
  <2> HIDE DEF ans
  <2> QED
    BY <1>0, <2>1, <2>2, AtWaha DEF AgreesWith
<1> HIDE DEF total, ans
<1>4. CASE /\ q.tries < TentativasMax(rt)
           /\ req' = [req EXCEPT ![r].tries = @ + 1] /\ UNCHANGED reply
  <2> DEFINE m == [q EXCEPT !.tries = q.tries + 1]
  <2>1. req' = [req EXCEPT ![r] = m] /\ reply' = reply
    BY <1>4 DEF RequestTypeOK
  <2>2. q.tries + 1 <= TentativasMax(rt) /\ q.tries + 1 \in 0..MaxTentativas
    BY <1>0, <1>4, AtWaha, AtLeastOne
  <2>3. /\ m \in RequestRecord /\ m.at = "waha" /\ m.tries = q.tries + 1 /\ m.route = rt
        /\ m.cred = q.cred /\ m.on = q.on /\ m.app = q.app
    BY <1>0, <2>2, AtWaha DEF RequestRecord
  <2> HIDE DEF m
  <2>4. RequestTypeOK' /\ req'[r] = m /\ \A s \in Requests \ {r} : req'[s] = req[s]
    BY <1>2, <2>1, <2>3 DEF RequestTypeOK
  <2>5. effects'[r] < m.tries
    BY <1>0, <1>2, <2>3, AtWaha
  <2>6. RequestOK(r)'
    BY <1>0, <2>2, <2>3, <2>4, <2>5, AtWaha DEF RequestOK, Admitted, Pertence, Issued, accessVars
  <2>7. Serves(r)
    BY <1>0, <1>2, <2>4 DEF Serves, accessVars
  <2>8. Learns
    BY <1>0, <2>3, <2>4 DEF Learns, Known, AccessTypeOK, accessVars
  <2>9. Tells(r) /\ Authorises(r)
    BY <1>0, <2>3, <2>4, AtWaha DEF Tells, Authorises
  <2> QED
    BY <2>6, <2>7, <2>8, <2>9 DEF ServesWell
<1>5. CASE req' = [req EXCEPT ![r].at = "save", ![r].ans = ans] /\ UNCHANGED reply
  <2> DEFINE m == [q EXCEPT !.at = "save", !.ans = ans]
  <2>1. req' = [req EXCEPT ![r] = m] /\ reply' = reply
    BY <1>5 DEF RequestTypeOK
  <2>2. /\ m \in RequestRecord /\ m.at = "save" /\ m.ans = ans /\ m.route = rt
        /\ m.cred = q.cred /\ m.on = q.on /\ m.app = q.app
    BY <1>0, <1>3, AtWaha DEF RequestRecord, AgreesWith
  <2> HIDE DEF m
  <2>3. RequestTypeOK' /\ req'[r] = m /\ \A s \in Requests \ {r} : req'[s] = req[s]
    BY <1>2, <2>1, <2>2 DEF RequestTypeOK
  <2>4. RequestOK(r)'
    BY <1>0, <1>2, <1>3, <2>2, <2>3, AtWaha DEF RequestOK, Admitted, Pertence, Issued, accessVars
  <2>5. Serves(r)
    BY <1>0, <1>2, <2>3 DEF Serves, accessVars
  <2>6. Learns
    BY <1>0, <2>2, <2>3 DEF Learns, Known, AccessTypeOK, accessVars
  <2>7. Tells(r) /\ Authorises(r)
    BY <1>0, <2>2, <2>3, AtWaha DEF Tells, Authorises
  <2> QED
    BY <2>4, <2>5, <2>6, <2>7 DEF ServesWell
<1>6. CASE Responder(r, ans)
  BY <1>0, <1>2, <1>3, <1>6, AtWaha, Responds
<1> QED
  BY <1>1, <1>4, <1>5, <1>6 DEF ans

LEMMA SavingServes ==
  ASSUME AccessTypeOK, RequestTypeOK, RequestsOK, NEW r \in Requests, Salvar(r)
  PROVE  ServesWell(r)
<1> DEFINE total == effects[r]
<1>1. /\ UNCHANGED accessVars /\ AgreesWith(req[r].route, req[r].ans, total)
      /\ total \in 0..MaxTentativas
  BY DEF Salvar, RequestsOK, RequestOK, RequestTypeOK
<1>2. UNCHANGED effects /\ effects' = [effects EXCEPT ![r] = total]
  <2>1. UNCHANGED effects
    BY DEF Salvar, Fail
  <2> QED
    BY <2>1 DEF RequestTypeOK
<1>3. ~(total > effects[r])
  BY <1>1, AtLeastOne
<1> HIDE DEF total
<1>4. CASE Responder(r, req[r].ans)
  BY <1>1, <1>2, <1>3, <1>4, Responds
<1>5. ASSUME NEW e \in {"P2002", "P2025", "database"}, Fail(r, e) PROVE ServesWell(r)
  <2> DEFINE class == Class(e)
  <2>1. class \in Classes /\ class # "2xx" /\ class # "4xx"
    BY <1>5, DatabaseAnswers DEF Classes
  <2>2. Reply(r, class)
    BY <1>5 DEF Fail
  <2> HIDE DEF class
  <2> QED
    BY <1>1, <1>2, <1>3, <2>1, <2>2, Closes DEF AgreesWith
<1> QED
  BY <1>4, <1>5 DEF Salvar

LEMMA FetchServes ==
  ASSUME AccessTypeOK, RequestTypeOK, RequestsOK, NEW r \in Requests, FetchMedia(r)
  PROVE  ServesWell(r)
<1>0. req[r].at = "waha" /\ req[r].route.call = "download" /\ UNCHANGED accessVars
  BY DEF FetchMedia
<1>1. PICK outcome \in Outcome \ {"notJson"}, n \in 0..1 :
        /\ n \in Done(outcome)
        /\ effects' = [effects EXCEPT ![r] = @ + n]
        /\ Responder(r, IF outcome = "2xx" THEN "ok" ELSE "notFound")
  BY DEF FetchMedia
<1> DEFINE total == effects[r] + n
           class == IF outcome = "2xx" THEN "2xx" ELSE Class("notFound")
<1>2. total \in 0..MaxTentativas /\ effects' = [effects EXCEPT ![r] = total]
  <2>1. total \in 0..MaxTentativas
    BY <1>0, AtWaha
  <2> QED
    BY <1>1, <2>1
<1>3. Reply(r, class) /\ class \in Classes /\ (class = "2xx" => outcome = "2xx")
  BY <1>1, ClassIsError DEF Responder, Classes
<1>4. outcome = "2xx" => n = 1
  BY <1>1 DEF Done
<1>5. /\ class = "2xx" => total > 0
      /\ total <= 1
  BY <1>0, <1>3, <1>4, AtWaha
<1> HIDE DEF total, class
<1> QED
  BY <1>0, <1>2, <1>3, <1>5, AtWaha, Closes

LEMMA RequestsServe ==
  ASSUME AccessTypeOK, RequestTypeOK, RequestsOK, NEW r \in Requests, Chegar(r) \/ RequestStep(r)
  PROVE  ServesWell(r)
  BY ArrivalServes, GuardServes, StoringServes, HandlerServes, SyncServes, RawServes,
     SavingServes, FetchServes
  DEF RequestStep

-----------------------------------------------------------------------------
(* The steps of an administrator's call.                                   *)

(* A key that was issued stays so, with its application and its scopes. *)
KeysStay ==
    \A k \in Keys : Issued(k) =>
        Issued(k)' /\ key'[k].app = key[k].app /\ key'[k].scopes = key[k].scopes

Manages(o) ==
    /\ AccessTypeOK'
    /\ UNCHANGED requestVars
    /\ \A p \in Ops \ {o} : op'[p] = op[p]
    /\ KeysStay
    /\ OpOK(o)'
    /\ ~raced' => ~raced /\ ~Overlaps(o)

(* What a call does to its own record. *)
Moves(o, p) ==
    /\ p \in OpRecord
    /\ op' = [op EXCEPT ![o] = p]
    /\ raced' = (raced \/ Overlaps(o))

LEMMA MovesFacts ==
  ASSUME AccessTypeOK, NEW o \in Ops, NEW p, Moves(o, p)
  PROVE  /\ op' \in [Ops -> OpRecord] /\ op'[o] = p
         /\ \A q \in Ops \ {o} : op'[q] = op[q]
         /\ raced' \in BOOLEAN
         /\ ~raced' => ~raced /\ ~Overlaps(o)
  BY DEF AccessTypeOK, Moves

LEMMA AdvanceMoves ==
  ASSUME AccessTypeOK, NEW o \in Ops, NEW to \in {"write", "clear", "done"}, Advance(o, to)
  PROVE  \E p : /\ Moves(o, p) /\ p.at = to
                /\ to # "done" => /\ p.kind = op[o].kind /\ p.k = op[o].k
                                  /\ p.copy = op[o].copy
<1>1. CASE to = "done"
  <2>1. [NewOp EXCEPT !.at = "done"] \in OpRecord /\ [NewOp EXCEPT !.at = "done"].at = "done"
    BY Starts DEF OpRecord, NewOp
  <2>2. Moves(o, [NewOp EXCEPT !.at = "done"])
    BY <1>1, <2>1 DEF Advance, Moves
  <2> QED
    BY <1>1, <2>1, <2>2
<1>2. CASE to # "done"
  <2> DEFINE p == [op[o] EXCEPT !.at = to]
  <2>1. /\ p \in OpRecord /\ p.at = to
        /\ p.kind = op[o].kind /\ p.k = op[o].k /\ p.copy = op[o].copy
    BY <1>2 DEF AccessTypeOK, OpRecord
  <2>2. op' = [op EXCEPT ![o] = p] /\ raced' = (raced \/ Overlaps(o))
    BY <1>2 DEF Advance, AccessTypeOK
  <2> HIDE DEF p
  <2> QED
    BY <2>1, <2>2 DEF Moves
<1> QED
  BY <1>1, <1>2

(* What a step owes to the calls that are alone, and to the cache. *)
LEMMA StaysUndisturbed ==
  ASSUME AccessTypeOK, NEW o \in Ops, Manages(o), Undisturbed, ~raced',
         op'[o].at = "write" /\ op'[o].kind = "update" => app'[op'[o].a] = op'[o].was,
         op'[o].at = "write" /\ op'[o].kind = "revoke" =>
            \E j \in Keys : /\ j # op'[o].k
                            /\ key'[j].app = op'[o].copy.app /\ key'[j].state = "active",
         \/ op'[o].at = "clear"
         \/ \A k \in Keys : ~Known(k)'
         \/ op[o].at # "clear" /\ cache' = cache /\ \A k \in Keys : InForce(k) => InForce(k)',
         ~forced' => AppsKeepKeys'
  PROVE  Undisturbed'
<1>1. /\ \A p \in Ops \ {o} : op'[p] = op[p] /\ op[p].at \in {"new", "done"}
      /\ req' = req
  BY DEF Manages, Overlaps, AccessTypeOK, OpRecord, requestVars
<1>2. OneBusy'
  BY <1>1 DEF OneBusy, Busy
<1>3. ReadHolds'
  BY <1>1 DEF ReadHolds
<1>4. KnownIsInForce'
  <2> SUFFICES ASSUME \A p \in Ops : op'[p].at # "clear", NEW k \in Keys, Known(k)'
               PROVE  InForce(k)'
    BY DEF KnownIsInForce
  <2>1. op[o].at # "clear" /\ cache' = cache /\ \A j \in Keys : InForce(j) => InForce(j)'
    OBVIOUS
  <2>2. \A p \in Ops : op[p].at # "clear"
    BY <1>1, <2>1
  <2>3. Known(k)
    BY <1>1, <2>1 DEF Known
  <2> QED
    BY <2>1, <2>2, <2>3 DEF Undisturbed, KnownIsInForce
<1> QED
  BY <1>2, <1>3, <1>4 DEF Undisturbed

ManagesWell(o) == Manages(o) /\ (Undisturbed /\ ~raced' => Undisturbed')

(* A step that only reads. *)
LEMMA ReadingManages ==
  ASSUME AccessTypeOK, NEW o \in Ops, NEW p, Moves(o, p),
         UNCHANGED <<app, key, cache, forced, requestVars>>, op[o].at # "clear",
         p.at = "count" => p.kind = "revoke",
         p.at \in {"read", "count", "write"} /\ p.kind \in KeyKinds => p.k \in Keys /\ Issued(p.k),
         p.at \in {"count", "write"} /\ p.kind \in KeyKinds => p.copy.app = key[p.k].app,
         p.at = "write" /\ p.kind = "update" => app[p.a] = p.was,
         p.at = "write" /\ p.kind = "revoke" =>
            \E j \in Keys : j # p.k /\ key[j].app = p.copy.app /\ key[j].state = "active"
  PROVE  ManagesWell(o)
<1>1. /\ op' \in [Ops -> OpRecord] /\ op'[o] = p
      /\ \A q \in Ops \ {o} : op'[q] = op[q]
      /\ raced' \in BOOLEAN
      /\ ~raced' => ~raced /\ ~Overlaps(o)
  BY MovesFacts
<1>2. /\ AccessTypeOK' /\ KeysStay
  BY <1>1 DEF AccessTypeOK, KeysStay, Issued
<1>3. OpOK(o)'
  BY <1>1 DEF OpOK, Issued
<1>4. Manages(o)
  BY <1>1, <1>2, <1>3 DEF Manages
<1>5. \A k \in Keys : InForce(k) => InForce(k)'
  BY DEF InForce
<1>6. ASSUME Undisturbed, ~raced' PROVE Undisturbed'
  <2>1. ~forced' => AppsKeepKeys'
    BY <1>6 DEF Undisturbed, AppsKeepKeys
  <2> QED
    BY <1>1, <1>4, <1>5, <1>6, <2>1, StaysUndisturbed
<1> QED
  BY <1>4, <1>6 DEF ManagesWell

LEMMA Asks ==
  ASSUME NEW o \in Ops, Pedir(o)
  PROVE  /\ op[o].at = "new"
         /\ \E kind \in {"update", "remove", "create", "revoke", "force", "rotate"},
               k \in Keys, a \in Apps, v \in BOOLEAN :
             /\ kind \in {"revoke", "force", "rotate"} =>
                    key[k].state # "unused" /\ a = FirstApp
             /\ kind \in {"update", "remove", "create"} => k = NewOp.k
             /\ kind # "update" => v
             /\ op' = [op EXCEPT ![o] = [NewOp EXCEPT !.at = "read", !.kind = kind, !.k = k,
                                                      !.a = a, !.active = v]]
         /\ raced' = (raced \/ Overlaps(o))
         /\ UNCHANGED <<app, key, late, cache, forced, requestVars>>
  BY Zenon DEF Pedir

LEMMA ReadersManage ==
  ASSUME AccessTypeOK, OpsOK, NEW o \in Ops,
         Pedir(o) \/ LerAplicacao(o) \/ LerChave(o) \/ ContarAtivas(o)
  PROVE  ManagesWell(o)
<1> DEFINE c == op[o]
<1>0. c \in OpRecord /\ OpOK(o) /\ op \in [Ops -> OpRecord]
  BY DEF AccessTypeOK, OpsOK
<1>1. CASE Pedir(o)
  <2>1. PICK kind \in {"update", "remove", "create", "revoke", "force", "rotate"},
             k \in Keys, a \in Apps, v \in BOOLEAN :
          /\ kind \in {"revoke", "force", "rotate"} => key[k].state # "unused" /\ a = FirstApp
          /\ kind \in {"update", "remove", "create"} => k = NewOp.k
          /\ kind # "update" => v
          /\ op' = [op EXCEPT ![o] =
                      [NewOp EXCEPT !.at = "read", !.kind = kind, !.k = k, !.a = a, !.active = v]]
    BY <1>1, Asks, Zenon
  <2>2. /\ UNCHANGED <<app, key, cache, forced, requestVars>>
        /\ c.at = "new"
        /\ raced' = (raced \/ Overlaps(o))
    <3>1. /\ op[o].at = "new"
          /\ raced' = (raced \/ Overlaps(o))
          /\ UNCHANGED <<app, key, late, cache, forced, requestVars>>
      BY <1>1, Asks, Zenon
    <3> QED
      BY <3>1
  <2> DEFINE p == [NewOp EXCEPT !.at = "read", !.kind = kind, !.k = k, !.a = a, !.active = v]
  <2>3. p \in OpRecord /\ p.at = "read" /\ p.kind = kind /\ p.k = k
    BY Starts DEF OpRecord, NewOp
  <2>4. Moves(o, p)
    BY <2>1, <2>2, <2>3 DEF Moves
  <2> HIDE DEF p
  <2> QED
    BY <2>1, <2>2, <2>3, <2>4, ReadingManages DEF KeyKinds, Issued
<1>2. ASSUME Advance(o, "done"), UNCHANGED <<app, key, cache, forced, requestVars>>,
             c.at # "clear"
      PROVE  ManagesWell(o)
  <2>1. PICK p : Moves(o, p) /\ p.at = "done"
    BY <1>2, AdvanceMoves
  <2> QED
    BY <1>2, <2>1, ReadingManages
<1>3. CASE LerAplicacao(o)
  <2>1. /\ c.at = "read" /\ c.kind \in {"update", "remove", "create"}
        /\ UNCHANGED <<app, key, cache, forced, requestVars>>
    BY <1>3 DEF LerAplicacao
  <2>2. CASE Advance(o, "done")
    BY <1>2, <2>1, <2>2
  <2>3. CASE /\ op' = [op EXCEPT ![o].at = "write", ![o].was = app[c.a]]
             /\ raced' = (raced \/ Overlaps(o))
    <3> DEFINE p == [c EXCEPT !.at = "write", !.was = app[c.a]]
    <3>1. p \in OpRecord /\ p.at = "write" /\ p.kind = c.kind /\ p.a = c.a /\ p.was = app[c.a]
      BY <1>0 DEF OpRecord, AccessTypeOK
    <3>2. Moves(o, p)
      BY <1>0, <2>3, <3>1 DEF Moves
    <3> HIDE DEF p
    <3> QED
      BY <2>1, <3>1, <3>2, ReadingManages DEF KeyKinds
  <2> QED
    BY <1>3, <2>2, <2>3 DEF LerAplicacao
<1>4. CASE LerChave(o)
  <2>1. /\ c.at = "read" /\ c.kind \in KeyKinds
        /\ UNCHANGED <<app, key, cache, forced, requestVars>>
    BY <1>4 DEF LerChave, KeyKinds
  <2>2. c.k \in Keys /\ Issued(c.k) /\ key[c.k] \in KeyRow
    BY <1>0, <2>1 DEF OpOK, AccessTypeOK
  <2>3. CASE Advance(o, "done")
    BY <1>2, <2>1, <2>3
  <2>4. CASE /\ op' = [op EXCEPT ![o].at = IF c.kind = "revoke" THEN "count" ELSE "write",
                                 ![o].copy = key[c.k]]
             /\ raced' = (raced \/ Overlaps(o))
    <3> DEFINE p == [c EXCEPT !.at = IF c.kind = "revoke" THEN "count" ELSE "write",
                              !.copy = key[c.k]]
    <3>1. /\ p \in OpRecord /\ p.kind = c.kind /\ p.k = c.k /\ p.copy = key[c.k]
          /\ p.at = IF c.kind = "revoke" THEN "count" ELSE "write"
      BY <1>0, <2>2 DEF OpRecord
    <3>2. Moves(o, p)
      BY <1>0, <2>4, <3>1 DEF Moves
    <3> HIDE DEF p
    <3> QED
      BY <2>1, <2>2, <3>1, <3>2, ReadingManages DEF KeyKinds
  <2> QED
    BY <1>4, <2>3, <2>4 DEF LerChave
<1>5. CASE ContarAtivas(o)
  <2>1. /\ c.at = "count" /\ UNCHANGED <<app, key, cache, forced, requestVars>>
    BY <1>5 DEF ContarAtivas
  <2>2. /\ c.kind = "revoke" /\ c.k \in Keys /\ Issued(c.k) /\ c.copy.app = key[c.k].app
    BY <1>0, <2>1 DEF OpOK, KeyKinds
  <2>3. CASE Cardinality(Ativas(c.copy.app)) <= 1
    <3>1. Advance(o, "done")
      BY <1>5, <2>3 DEF ContarAtivas
    <3> QED
      BY <1>2, <2>1, <3>1
  <2>4. CASE ~(Cardinality(Ativas(c.copy.app)) <= 1)
    <3>1. Advance(o, "write")
      BY <1>5, <2>4 DEF ContarAtivas
    <3>2. PICK p : /\ Moves(o, p) /\ p.at = "write"
                   /\ p.kind = c.kind /\ p.k = c.k /\ p.copy = c.copy
      BY <3>1, AdvanceMoves
    <3> DEFINE S == Ativas(c.copy.app)
               k == c.k
    <3>3. ~(Cardinality(S) <= 1)
      BY <2>4
    <3> HIDE DEF S, k
    <3>4. PICK j \in S : j # k
      <4> SUFFICES ASSUME \A j \in S : j = k PROVE FALSE
        OBVIOUS
      <4>1. S = {} \/ S = {k}
        OBVIOUS
      <4>2. Cardinality({}) = 0 /\ Cardinality({k}) = 1
        BY FS_EmptySet, FS_Singleton
      <4> QED
        BY <3>3, <4>1, <4>2
    <3>5. j \in Keys /\ j # c.k /\ key[j].app = c.copy.app /\ key[j].state = "active"
      BY <3>4 DEF S, k, Ativas
    <3>6. \E i \in Keys : i # p.k /\ key[i].app = p.copy.app /\ key[i].state = "active"
      BY <3>2, <3>5
    <3>7. /\ p.k \in Keys /\ Issued(p.k) /\ p.copy.app = key[p.k].app
          /\ Moves(o, p) /\ p.at = "write" /\ p.kind = "revoke"
      BY <2>2, <3>2
    <3> QED
      BY <2>1, <3>6, <3>7, ReadingManages
  <2> QED
    BY <2>3, <2>4
<1> QED
  BY <1>1, <1>3, <1>4, <1>5

(* A step that writes, after which the call clears the cache or is done.   *)
LEMMA WritingManages ==
  ASSUME AccessTypeOK, NEW o \in Ops, NEW p, Moves(o, p), p.at \in {"clear", "done"},
         app' \in [Apps -> States], key' \in [Keys -> KeyRow], cache' = cache,
         forced' \in BOOLEAN, UNCHANGED requestVars, op[o].at # "clear", KeysStay,
         Undisturbed /\ ~raced /\ p.at = "done" => \A k \in Keys : InForce(k) => InForce(k)',
         Undisturbed /\ ~raced /\ ~forced' => AppsKeepKeys'
  PROVE  ManagesWell(o)
<1>1. /\ op' \in [Ops -> OpRecord] /\ op'[o] = p
      /\ \A q \in Ops \ {o} : op'[q] = op[q]
      /\ raced' \in BOOLEAN
      /\ ~raced' => ~raced /\ ~Overlaps(o)
  BY MovesFacts
<1>2. AccessTypeOK'
  BY <1>1 DEF AccessTypeOK
<1>3. OpOK(o)'
  BY <1>1 DEF OpOK
<1>4. Manages(o)
  BY <1>1, <1>2, <1>3 DEF Manages
<1>5. ASSUME Undisturbed, ~raced' PROVE Undisturbed'
  <2>1. ~forced' => AppsKeepKeys'
    BY <1>1, <1>5
  <2>2. \/ op'[o].at = "clear"
        \/ op[o].at # "clear" /\ cache' = cache /\ \A k \in Keys : InForce(k) => InForce(k)'
    BY <1>1, <1>5
  <2>3. op'[o].at # "write"
    BY <1>1
  <2> QED
    BY <1>4, <1>5, <2>1, <2>2, <2>3, StaysUndisturbed
<1> QED
  BY <1>4, <1>5 DEF ManagesWell

LEMMA ApplicationsManage ==
  ASSUME AccessTypeOK, NEW o \in Ops, AtualizarAplicacao(o) \/ ExcluirAplicacao(o)
  PROVE  ManagesWell(o)
<1> DEFINE c == op[o]
           b == op[o].a
<1>0. /\ c \in OpRecord /\ b \in Apps /\ app \in [Apps -> States] /\ key \in [Keys -> KeyRow]
      /\ forced \in BOOLEAN
  BY DEF AccessTypeOK, OpRecord
<1>1. CASE AtualizarAplicacao(o)
  <2> DEFINE new == IF c.active THEN "active" ELSE "inactive"
  <2>1. /\ c.at = "write" /\ c.kind = "update"
        /\ UNCHANGED <<key, cache, forced, requestVars>>
    BY <1>1 DEF AtualizarAplicacao
  <2>2. KeysStay
    BY <2>1 DEF KeysStay, Issued
  <2>3. CASE app[b] = "deleted"
    <3>1. Advance(o, "done") /\ UNCHANGED app
      BY <1>1, <2>3 DEF AtualizarAplicacao
    <3>2. PICK p : Moves(o, p) /\ p.at = "done"
      BY <3>1, AdvanceMoves
    <3>3. \A k \in Keys : InForce(k) => InForce(k)'
      BY <2>1, <3>1 DEF InForce
    <3>4. Undisturbed /\ ~forced' => AppsKeepKeys'
      BY <2>1, <3>1 DEF Undisturbed, AppsKeepKeys
    <3> QED
      BY <1>0, <2>1, <2>2, <3>1, <3>2, <3>3, <3>4, WritingManages
  <2>4. CASE app[b] # "deleted"
    <3>1. /\ app' = [app EXCEPT ![b] = new]
          /\ Advance(o, IF new # c.was THEN "clear" ELSE "done")
      BY <1>1, <2>4 DEF AtualizarAplicacao
    <3>2. PICK to \in {"clear", "done"} : Advance(o, to) /\ (to = "done" => new = c.was)
      BY <3>1
    <3>3. PICK p : Moves(o, p) /\ p.at = to
      BY <3>2, AdvanceMoves
    <3>4. new \in {"active", "inactive"} /\ app' \in [Apps -> States]
      BY <1>0, <3>1 DEF States
    <3>5. Undisturbed /\ p.at = "done" => \A k \in Keys : InForce(k) => InForce(k)'
      <4>1. Undisturbed /\ p.at = "done" => app' = app
        BY <1>0, <2>1, <3>1, <3>2, <3>3 DEF Undisturbed, ReadHolds
      <4> QED
        BY <2>1, <4>1 DEF InForce
    <3>6. Undisturbed /\ ~forced' => AppsKeepKeys'
      BY <1>0, <2>1, <2>4, <3>1, <3>4 DEF Undisturbed, AppsKeepKeys
    <3> QED
      BY <1>0, <2>1, <2>2, <3>3, <3>4, <3>5, <3>6, WritingManages
  <2> QED
    BY <2>3, <2>4
<1>2. CASE ExcluirAplicacao(o)
  <2>1. c.at = "write" /\ UNCHANGED <<cache, forced, requestVars>>
    BY <1>2 DEF ExcluirAplicacao
  <2>2. CASE app[b] = "deleted"
    <3>1. Advance(o, "done") /\ UNCHANGED <<app, key>>
      BY <1>2, <2>2 DEF ExcluirAplicacao
    <3>2. PICK p : Moves(o, p) /\ p.at = "done"
      BY <3>1, AdvanceMoves
    <3>3. KeysStay /\ \A k \in Keys : InForce(k) => InForce(k)'
      BY <2>1, <3>1 DEF InForce, KeysStay, Issued
    <3>4. Undisturbed /\ ~forced' => AppsKeepKeys'
      BY <2>1, <3>1 DEF Undisturbed, AppsKeepKeys
    <3> QED
      BY <1>0, <2>1, <3>1, <3>2, <3>3, <3>4, WritingManages
  <2>3. CASE app[b] # "deleted"
    <3>1. /\ app' = [app EXCEPT ![b] = "deleted"]
          /\ key' = [k \in Keys |-> IF key[k].app = b THEN [key[k] EXCEPT !.state = "deleted"]
                                    ELSE key[k]]
          /\ Advance(o, "clear")
      BY <1>2, <2>3 DEF ExcluirAplicacao
    <3>2. PICK p : Moves(o, p) /\ p.at = "clear"
      BY <3>1, AdvanceMoves
    <3>3. app' \in [Apps -> States]
      BY <1>0, <3>1 DEF States
    <3>4. \A k \in Keys : /\ key'[k] \in KeyRow
                          /\ key'[k].app = key[k].app /\ key'[k].scopes = key[k].scopes
                          /\ key'[k].state \in {key[k].state, "deleted"}
                          /\ key[k].app # b => key'[k] = key[k]
      BY <1>0, <3>1 DEF KeyRow
    <3>5. key' \in [Keys -> KeyRow] /\ KeysStay
      BY <3>1, <3>4 DEF KeysStay, Issued
    <3>6. Undisturbed /\ ~forced' => AppsKeepKeys'
      BY <1>0, <2>1, <3>1, <3>4 DEF Undisturbed, AppsKeepKeys
    <3> QED
      BY <1>0, <2>1, <3>2, <3>3, <3>5, <3>6, WritingManages
  <2> QED
    BY <2>2, <2>3
<1> QED
  BY <1>1, <1>2

LEMMA IssuedFits == \A k \in Keys, a \in Apps :
    /\ Emitida(k, a) \in KeyRow
    /\ Emitida(k, a).state = "active" /\ Emitida(k, a).app = a
  BY AccessAssumption DEF Emitida, KeyRow

(* A step that leaves the keys as they are. *)
LEMMA SameKeys ==
  ASSUME AccessTypeOK, UNCHANGED <<app, key, forced>>
  PROVE  /\ KeysStay
         /\ \A k \in Keys : InForce(k) => InForce(k)'
         /\ Undisturbed /\ ~forced => AppsKeepKeys'
         /\ app' \in [Apps -> States] /\ key' \in [Keys -> KeyRow] /\ forced' \in BOOLEAN
  BY DEF AccessTypeOK, KeysStay, Issued, InForce, Undisturbed, AppsKeepKeys

LEMMA IssuingManages ==
  ASSUME AccessTypeOK, NEW o \in Ops, EmitirChave(o)
  PROVE  ManagesWell(o)
<1> DEFINE b == op[o].a
<1>0. /\ b \in Apps /\ app \in [Apps -> States] /\ key \in [Keys -> KeyRow]
      /\ forced \in BOOLEAN /\ op[o].at = "write"
      /\ UNCHANGED <<app, cache, forced, requestVars>>
  BY DEF AccessTypeOK, OpRecord, EmitirChave
<1>1. PICK p : Moves(o, p) /\ p.at = "done"
  BY AdvanceMoves DEF EmitirChave
<1>2. CASE key' = key
  BY <1>0, <1>1, <1>2, SameKeys, WritingManages
<1>3. CASE \E k \in Keys : key[k] = Unused /\ key' = [key EXCEPT ![k] = Emitida(k, b)]
  <2>1. PICK k \in Keys : key[k] = Unused /\ key' = [key EXCEPT ![k] = Emitida(k, b)]
    BY <1>3
  <2>2. /\ key' \in [Keys -> KeyRow] /\ key'[k].app = b /\ key'[k].state = "active"
        /\ \A j \in Keys \ {k} : key'[j] = key[j]
        /\ key[k].state = "unused"
    BY <1>0, <2>1, IssuedFits DEF Unused
  <2>3. KeysStay
    BY <2>2 DEF KeysStay, Issued
  <2>4. \A j \in Keys : InForce(j) => InForce(j)'
    BY <1>0, <2>2 DEF InForce
  <2>5. Undisturbed /\ ~forced' => AppsKeepKeys'
    <3> SUFFICES ASSUME AppsKeepKeys, NEW a \in Apps, NEW j \in Keys, key'[j].app = a,
                        app[a] # "deleted"
                 PROVE  \E i \in Keys : key'[i].app = a /\ key'[i].state = "active"
      BY <1>0 DEF Undisturbed, AppsKeepKeys
    <3>1. CASE a = b
      BY <2>2, <3>1
    <3>2. CASE a # b
      <4>1. PICK i \in Keys : key[i].app = a /\ key[i].state = "active"
        BY <2>2, <3>2 DEF AppsKeepKeys
      <4> QED
        BY <2>2, <4>1
    <3> QED
      BY <3>1, <3>2
  <2> QED
    BY <1>0, <1>1, <2>2, <2>3, <2>4, <2>5, WritingManages
<1> QED
  BY <1>2, <1>3 DEF EmitirChave

LEMMA RevokingManages ==
  ASSUME AccessTypeOK, OpsOK, NEW o \in Ops, Revogar(o)
  PROVE  ManagesWell(o)
<1> DEFINE c == op[o]
           k == op[o].k
<1>0. /\ app \in [Apps -> States] /\ key \in [Keys -> KeyRow]
      /\ forced \in BOOLEAN /\ c.at = "write" /\ c.kind \in {"revoke", "force"}
      /\ UNCHANGED <<app, cache, requestVars>> /\ forced' = (forced \/ c.kind = "force")
  BY DEF AccessTypeOK, Revogar
<1>1. k \in Keys /\ Issued(k) /\ c.copy.app = key[k].app
  BY <1>0 DEF OpsOK, OpOK, KeyKinds
<1>2. CASE ~Exists(k)
  <2>1. Advance(o, "done") /\ key' = key
    BY <1>2 DEF Revogar
  <2>2. PICK p : Moves(o, p) /\ p.at = "done"
    BY <2>1, AdvanceMoves
  <2>3. /\ KeysStay
        /\ \A j \in Keys : InForce(j) => InForce(j)'
        /\ Undisturbed /\ ~forced' => AppsKeepKeys'
    BY <1>0, <2>1 DEF KeysStay, Issued, InForce, Undisturbed, AppsKeepKeys
  <2> QED
    BY <1>0, <2>1, <2>2, <2>3, WritingManages
<1>3. CASE Exists(k)
  <2>1. Advance(o, "clear") /\ key' = [key EXCEPT ![k].state = "revoked"]
    BY <1>3 DEF Revogar
  <2>2. PICK p : Moves(o, p) /\ p.at = "clear"
    BY <2>1, AdvanceMoves
  <2>3. /\ key' \in [Keys -> KeyRow] /\ key'[k].state = "revoked"
        /\ \A j \in Keys \ {k} : key'[j] = key[j]
        /\ \A j \in Keys : key'[j].app = key[j].app /\ key'[j].scopes = key[j].scopes
    BY <1>0, <1>1, <2>1 DEF KeyRow
  <2>4. KeysStay
    BY <2>3 DEF KeysStay, Issued
  <2>5. Undisturbed /\ ~forced' => AppsKeepKeys'
    <3>0. ~forced' => ~forced /\ c.kind = "revoke"
      BY <1>0
    <3> SUFFICES ASSUME Undisturbed, AppsKeepKeys, c.kind = "revoke",
                        NEW a \in Apps, NEW j \in Keys, key'[j].app = a, app[a] # "deleted"
                 PROVE  \E i \in Keys : key'[i].app = a /\ key'[i].state = "active"
      <4>1. SUFFICES ASSUME Undisturbed, AppsKeepKeys, c.kind = "revoke" PROVE AppsKeepKeys'
        BY <3>0 DEF Undisturbed
      <4> QED
        BY <1>0, <4>1 DEF AppsKeepKeys
    <3>1. PICK i \in Keys : i # k /\ key[i].app = key[k].app /\ key[i].state = "active"
      BY <1>0, <1>1 DEF Undisturbed, ReadHolds
    <3>2. PICK h \in Keys : key[h].app = a /\ key[h].state = "active"
      BY <2>3 DEF AppsKeepKeys
    <3>3. CASE h = k
      BY <2>3, <3>1, <3>2, <3>3
    <3>4. CASE h # k
      BY <2>3, <3>2, <3>4
    <3> QED
      BY <3>3, <3>4
  <2> QED
    BY <1>0, <2>2, <2>3, <2>4, <2>5, WritingManages
<1> QED
  BY <1>2, <1>3

LEMMA RotatingManages ==
  ASSUME AccessTypeOK, OpsOK, NEW o \in Ops, Rotacionar(o)
  PROVE  ManagesWell(o)
<1> DEFINE c == op[o]
           k == op[o].k
<1>0. /\ app \in [Apps -> States] /\ key \in [Keys -> KeyRow] /\ c \in OpRecord
      /\ forced \in BOOLEAN /\ c.at = "write" /\ c.kind = "rotate"
      /\ UNCHANGED <<app, cache, forced, requestVars>>
  BY DEF AccessTypeOK, Rotacionar
<1>1. k \in Keys /\ Issued(k) /\ c.copy.app = key[k].app
  BY <1>0 DEF OpsOK, OpOK, KeyKinds
<1>2. CASE ~Exists(k)
  <2>1. Advance(o, "done") /\ key' = key
    BY <1>2 DEF Rotacionar
  <2>2. PICK p : Moves(o, p) /\ p.at = "done"
    BY <2>1, AdvanceMoves
  <2> QED
    BY <1>0, <2>1, <2>2, SameKeys, WritingManages
<1>3. CASE Exists(k)
  <2> DEFINE row == [c.copy EXCEPT !.state = "active"]
  <2>1. PICK new \in Keys : /\ key[new] = Unused
                            /\ key' = [key EXCEPT ![k].state = "revoked", ![new] = row]
    BY <1>3 DEF Rotacionar
  <2>2. row \in KeyRow /\ row.app = key[k].app /\ row.state = "active"
    BY <1>0, <1>1 DEF OpRecord, KeyRow
  <2> HIDE DEF row
  <2>3. Advance(o, "clear")
    BY <1>3 DEF Rotacionar
  <2>4. PICK p : Moves(o, p) /\ p.at = "clear"
    BY <2>3, AdvanceMoves
  <2>5. new # k /\ key[new].state = "unused"
    BY <1>1, <2>1 DEF Issued, Unused
  <2>6. [key[k] EXCEPT !.state = "revoked"] \in KeyRow
    BY <1>0, <1>1 DEF KeyRow
  <2>7. /\ key' \in [Keys -> KeyRow]
        /\ key'[new] = row /\ key'[k] = [key[k] EXCEPT !.state = "revoked"]
        /\ \A j \in Keys \ {k, new} : key'[j] = key[j]
    BY <1>0, <1>1, <2>1, <2>2, <2>5, <2>6
  <2>8. \A j \in Keys \ {new} : key'[j].app = key[j].app /\ key'[j].scopes = key[j].scopes
    BY <1>0, <1>1, <2>7 DEF KeyRow
  <2>9. KeysStay
    BY <1>0, <1>1, <2>5, <2>7, <2>8 DEF KeysStay, Issued, KeyRow
  <2>10. Undisturbed /\ ~forced' => AppsKeepKeys'
    <3> SUFFICES ASSUME AppsKeepKeys, NEW a \in Apps, NEW j \in Keys, key'[j].app = a,
                        app[a] # "deleted"
                 PROVE  \E i \in Keys : key'[i].app = a /\ key'[i].state = "active"
      BY <1>0 DEF Undisturbed, AppsKeepKeys
    <3>1. CASE a = row.app
      BY <2>2, <2>7, <3>1
    <3>2. CASE a # row.app
      <4>1. PICK i \in Keys : key[i].app = a /\ key[i].state = "active"
        BY <2>7, <2>8, <3>2 DEF AppsKeepKeys
      <4> QED
        BY <2>2, <2>5, <2>7, <3>2, <4>1
    <3> QED
      BY <3>1, <3>2
  <2> QED
    BY <1>0, <2>4, <2>7, <2>9, <2>10, WritingManages
<1> QED
  BY <1>2, <1>3

LEMMA ClearingManages ==
  ASSUME AccessTypeOK, NEW o \in Ops, InvalidateCache(o)
  PROVE  ManagesWell(o)
<1> DEFINE p == [NewOp EXCEPT !.at = "done"]
<1>1. /\ cache' = [k \in Keys |-> "none"] /\ op' = [op EXCEPT ![o] = p]
      /\ raced' = (raced \/ Overlaps(o) \/ \E r \in Requests : req[r].at \in {"valid", "invalid"})
      /\ UNCHANGED <<app, key, forced, requestVars>>
  BY DEF InvalidateCache
<1>2. p \in OpRecord /\ p.at = "done"
  BY Starts DEF OpRecord, NewOp
<1> HIDE DEF p
<1>3. /\ AccessTypeOK' /\ op'[o] = p /\ \A q \in Ops \ {o} : op'[q] = op[q]
  BY <1>1, <1>2 DEF AccessTypeOK
<1>4. KeysStay /\ OpOK(o)'
  BY <1>1, <1>2, <1>3 DEF KeysStay, Issued, OpOK
<1>5. Manages(o)
  BY <1>1, <1>3, <1>4 DEF Manages
<1>6. ~raced' => \A k \in Keys : ~Known(k)'
  BY <1>1 DEF Known, requestVars
<1>7. Undisturbed /\ ~forced' => AppsKeepKeys'
  BY <1>1 DEF Undisturbed, AppsKeepKeys
<1> QED
  BY <1>2, <1>3, <1>5, <1>6, <1>7, StaysUndisturbed DEF ManagesWell

LEMMA OpsManage ==
  ASSUME AccessTypeOK, OpsOK, NEW o \in Ops, Pedir(o) \/ OpStep(o)
  PROVE  ManagesWell(o)
  BY ReadersManage, ApplicationsManage, IssuingManages, RevokingManages, RotatingManages,
     ClearingManages
  DEF OpStep

-----------------------------------------------------------------------------
(* The inductive invariant.                                                *)

LEMMA InvInit ==
  ASSUME Init
  PROVE  IInv
<1>1. /\ app = [a \in Apps |-> "active"]
      /\ key = [k \in Keys |-> IF k \in InitialKeys THEN Emitida(k, FirstApp) ELSE Unused]
      /\ cache = [k \in Keys |-> "none"]
      /\ req = [r \in Requests |-> Idle] /\ reply = [r \in Requests |-> "none"]
      /\ effects = [r \in Requests |-> 0] /\ op = [o \in Ops |-> NewOp]
      /\ ~raced /\ ~forced /\ raced \in BOOLEAN /\ forced \in BOOLEAN
  BY DEF Init
<1>2. /\ \A k \in Keys : key[k] \in KeyRow
      /\ \A k \in Keys : key[k].app \in Apps => key[k].app = FirstApp /\ key[k].state = "active"
  BY <1>1, IssuedFits, Starts, AccessAssumption DEF Unused
<1>3. AccessTypeOK /\ RequestTypeOK
  BY <1>1, <1>2, Starts, AtLeastOne DEF AccessTypeOK, RequestTypeOK, States, Classes
<1>4. RequestsOK
  BY <1>1 DEF RequestsOK, RequestOK, Idle
<1>5. \A o \in Ops : op[o].at = "new"
  BY <1>1 DEF NewOp
<1>6. OpsOK
  BY <1>5 DEF OpsOK, OpOK
<1>7. OneBusy /\ ReadHolds
  BY <1>5 DEF OneBusy, Busy, ReadHolds
<1>8. KnownIsInForce
  BY <1>1 DEF KnownIsInForce, Known, Idle
<1>9. AppsKeepKeys
  BY <1>2 DEF AppsKeepKeys
<1> QED
  BY <1>3, <1>4, <1>6, <1>7, <1>8, <1>9 DEF IInv, Undisturbed

LEMMA RequestsKeep ==
  ASSUME IInv, NEW r \in Requests, ServesWell(r)
  PROVE  IInv'
<1>1. /\ RequestTypeOK'
      /\ \A s \in Requests \ {r} : req'[s] = req[s] /\ effects'[s] = effects[s]
      /\ UNCHANGED <<app, key, op, raced, forced>>
      /\ RequestOK(r)' /\ Learns
  BY DEF ServesWell, Serves
<1>2. AccessTypeOK'
  BY <1>1 DEF IInv, AccessTypeOK, Learns
<1>3. RequestsOK'
  <2> SUFFICES ASSUME NEW s \in Requests \ {r} PROVE RequestOK(s)'
    BY <1>1 DEF RequestsOK
  <2>1. RequestOK(s) /\ req'[s] = req[s] /\ effects'[s] = effects[s] /\ key' = key
    BY <1>1 DEF IInv, RequestsOK
  <2> QED
    BY <2>1 DEF RequestOK, Issued, Admitted, Pertence
<1>4. OpsOK'
  BY <1>1 DEF IInv, OpsOK, OpOK, Issued
<1>5. ASSUME ~raced' PROVE Undisturbed'
  <2>1. Undisturbed
    BY <1>1, <1>5 DEF IInv
  <2>2. OneBusy' /\ ReadHolds'
    BY <1>1, <2>1 DEF Undisturbed, OneBusy, Busy, ReadHolds
  <2>3. KnownIsInForce'
    BY <1>1, <2>1 DEF Undisturbed, KnownIsInForce, Learns, InForce
  <2>4. ~forced' => AppsKeepKeys'
    BY <1>1, <2>1 DEF Undisturbed, AppsKeepKeys
  <2> QED
    BY <2>2, <2>3, <2>4 DEF Undisturbed
<1> QED
  BY <1>1, <1>2, <1>3, <1>4, <1>5 DEF IInv

LEMMA OpsKeep ==
  ASSUME IInv, NEW o \in Ops, ManagesWell(o)
  PROVE  IInv'
<1>1. /\ AccessTypeOK' /\ UNCHANGED requestVars
      /\ \A p \in Ops \ {o} : op'[p] = op[p]
      /\ KeysStay /\ OpOK(o)'
      /\ ~raced' => ~raced
  BY DEF ManagesWell, Manages
<1>2. RequestTypeOK' /\ UNCHANGED <<req, reply, effects>>
  BY <1>1 DEF IInv, RequestTypeOK, requestVars
<1>3. RequestsOK'
  <2> SUFFICES ASSUME NEW s \in Requests PROVE RequestOK(s)'
    BY DEF RequestsOK
  <2>1. RequestOK(s) /\ req'[s] = req[s] /\ effects'[s] = effects[s]
    BY <1>2 DEF IInv, RequestsOK
  <2>2. req[s].at # "idle" /\ req[s].cred \in Keys =>
          /\ Issued(req[s].cred) /\ Issued(req[s].cred)'
          /\ key'[req[s].cred].app = key[req[s].cred].app
          /\ key'[req[s].cred].scopes = key[req[s].cred].scopes
    BY <1>1, <2>1 DEF RequestOK, KeysStay
  <2>3. req[s].at # "idle" /\ Admitted(s) => Admitted(s)'
    BY <2>1, <2>2 DEF Admitted
  <2>4. Pertence(s) => Pertence(s)'
    BY <2>1 DEF Pertence
  <2> QED
    BY <2>1, <2>2, <2>3, <2>4 DEF RequestOK
<1>4. OpsOK'
  <2> SUFFICES ASSUME NEW p \in Ops \ {o} PROVE OpOK(p)'
    BY <1>1 DEF OpsOK
  <2>1. OpOK(p) /\ op'[p] = op[p]
    BY <1>1 DEF IInv, OpsOK
  <2>2. op[p].at \in {"read", "count", "write"} /\ op[p].kind \in KeyKinds =>
          Issued(op[p].k)' /\ key'[op[p].k].app = key[op[p].k].app
    BY <1>1, <2>1 DEF OpOK, KeysStay
  <2> QED
    BY <2>1, <2>2 DEF OpOK
<1>5. ~raced' => Undisturbed'
  BY <1>1 DEF IInv, ManagesWell
<1> QED
  BY <1>1, <1>2, <1>3, <1>4, <1>5 DEF IInv

(* Time only takes from the cache. *)
LEMMA TimeKeeps ==
  ASSUME IInv, (\E k \in Keys : Expirar(k)) \/ Vencer \/ UNCHANGED vars
  PROVE  /\ IInv' /\ UNCHANGED <<req, reply, effects>>
<1>1. /\ UNCHANGED <<app, key, op, raced, forced, requestVars>>
      /\ cache' \in [Keys -> {"none", "yes", "no"}]
      /\ \A k \in Keys : cache'[k] = "yes" => cache[k] = "yes"
  BY DEF IInv, AccessTypeOK, Expirar, Vencer, vars, accessVars
<1>2. UNCHANGED <<req, reply, effects>>
  BY <1>1 DEF requestVars
<1>3. AccessTypeOK' /\ RequestTypeOK' /\ RequestsOK' /\ OpsOK'
  BY <1>1, <1>2
  DEF IInv, AccessTypeOK, RequestTypeOK, RequestsOK, RequestOK, Issued, Admitted, Pertence,
      OpsOK, OpOK
<1>4. ASSUME ~raced' PROVE Undisturbed'
  <2>1. Undisturbed
    BY <1>1, <1>4 DEF IInv
  <2>2. OneBusy' /\ ReadHolds'
    BY <1>1, <2>1 DEF Undisturbed, OneBusy, Busy, ReadHolds
  <2>3. KnownIsInForce'
    BY <1>1, <1>2, <2>1 DEF Undisturbed, KnownIsInForce, Known, InForce
  <2>4. ~forced' => AppsKeepKeys'
    BY <1>1, <2>1 DEF Undisturbed, AppsKeepKeys
  <2> QED
    BY <2>2, <2>3, <2>4 DEF Undisturbed
<1> QED
  BY <1>2, <1>3, <1>4 DEF IInv

(* Every step is one of a request, of an administrator's call, or of time. *)
LEMMA InvStep ==
  ASSUME IInv, [Next]_vars
  PROVE  /\ IInv'
         /\ \/ \E r \in Requests : ServesWell(r)
            \/ UNCHANGED <<req, reply, effects>>
<1>0. AccessTypeOK /\ RequestTypeOK /\ RequestsOK /\ OpsOK
  BY DEF IInv
<1>1. ASSUME NEW r \in Requests, Chegar(r) \/ RequestStep(r)
      PROVE  IInv' /\ ServesWell(r)
  BY <1>0, <1>1, RequestsServe, RequestsKeep
<1>2. ASSUME NEW o \in Ops, Pedir(o) \/ OpStep(o)
      PROVE  IInv' /\ UNCHANGED <<req, reply, effects>>
  <2>1. ManagesWell(o)
    BY <1>0, <1>2, OpsManage
  <2> QED
    BY <2>1, OpsKeep DEF ManagesWell, Manages, requestVars
<1>3. CASE (\E k \in Keys : Expirar(k)) \/ Vencer \/ UNCHANGED vars
  BY <1>3, TimeKeeps
<1> QED
  BY <1>1, <1>2, <1>3 DEF Next

(* In every reachable state a request that is past the guards has a key of *)
(* the application it acts for, with the scope of its route (AuthGuard,    *)
(* api-keys.service.ts authenticate), what was done for it is counted, and *)
(* as long as no two calls of administrators overlapped the cache holds    *)
(* for valid what the database does, or is about to be cleared.            *)
THEOREM AccessInvariant == Spec => []IInv
<1>1. IInv /\ [Next]_vars => IInv'
  BY InvStep
<1> QED
  BY <1>1, InvInit, PTL DEF Spec

(* A key that was revoked, or whose application is deactivated or gone, is *)
(* in the cache only until the call that did it clears it, when no other   *)
(* call and no authentication was under way (invalidateCache).             *)
THEOREM CutNow == Spec => []CutIsImmediate
<1>1. IInv => CutIsImmediate
  BY DEF IInv, Undisturbed, KnownIsInForce, Known, InForce, CutIsImmediate
<1> QED
  BY <1>1, AccessInvariant, PTL

(* An application that had a key keeps one that is not revoked, unless     *)
(* somebody forced it, removed it, or two calls overlapped (revokeApiKey). *)
THEOREM LastKeyStays == Spec => []LastKeyKept
<1>1. IInv => LastKeyKept
  BY DEF IInv, Undisturbed, AppsKeepKeys, LastKeyKept, Ativas
<1> QED
  BY <1>1, AccessInvariant, PTL

(* Whatever is cached, revoked or under way, something is done for a       *)
(* request only if its key is of the application that owns it and has the  *)
(* scope of the route, or if it carries the route's other credential.      *)
THEOREM ActsAreAuthorised == Spec => EffectsAreAuthorised
<1> DEFINE A == \A r \in Requests : effects'[r] > effects[r] => Authorised(r)
<1>1. ASSUME IInv, [Next]_vars PROVE A
  <2> SUFFICES ASSUME NEW r \in Requests, effects'[r] > effects[r] PROVE Authorised(r)
    OBVIOUS
  <2>1. effects[r] \in Nat
    BY <1>1 DEF IInv, RequestTypeOK
  <2>2. effects'[r] # effects[r]
    BY <2>1
  <2>3. PICK s \in Requests : ServesWell(s)
    BY <1>1, <2>2, InvStep
  <2>4. s = r
    BY <2>2, <2>3 DEF ServesWell, Serves
  <2> QED
    BY <2>3, <2>4 DEF ServesWell, Authorises
<1>2. IInv /\ [Next]_vars => [A]_vars
  BY <1>1
<1> QED
  BY <1>2, AccessInvariant, PTL DEF Spec, EffectsAreAuthorised

(* What is not repeated is done once at most, also where a row is written  *)
(* after WAHA's answer and the writing fails.  A 2xx says that it was done,*)
(* or that a session to be deleted was gone; a 4xx of the guards, of the   *)
(* handler or of WAHA that it was not, but for a call that is repeated or  *)
(* a download (AllExceptionsFilter, WahaClient raw, executar).             *)
THEOREM AnswersTell == Spec => AnswerTellsEffects
<1> DEFINE A == \A r \in Requests :
                  req[r].at # "idle" /\ req'[r].at = "idle" =>
                      LET rt == req[r].route IN
                      /\ reply'[r] = "2xx" /\ ~rt.gone => effects'[r] > 0
                      /\ rt.call # "retry" => effects'[r] <= 1
                      /\ rt.call \in {"none", "once"} /\ reply'[r] = "4xx" => effects'[r] = 0
<1>1. ASSUME IInv, [Next]_vars PROVE A
  <2> SUFFICES ASSUME NEW r \in Requests, req[r].at # "idle", req'[r].at = "idle" PROVE Tells(r)
    BY DEF Tells
  <2>1. req'[r] # req[r]
    OBVIOUS
  <2>2. PICK s \in Requests : ServesWell(s)
    BY <1>1, <2>1, InvStep
  <2>3. s = r
    BY <2>1, <2>2 DEF ServesWell, Serves
  <2> QED
    BY <2>2, <2>3 DEF ServesWell
<1>2. IInv /\ [Next]_vars => [A]_vars
  BY <1>1
<1> QED
  BY <1>2, AccessInvariant, PTL DEF Spec, AnswerTellsEffects

-----------------------------------------------------------------------------
LateTypeOK == late \in BOOLEAN

LEMMA TimePasses == ASSUME LateTypeOK, [Next]_vars PROVE LateTypeOK'
<1> USE DEF LateTypeOK
<1>1. ASSUME NEW r \in Requests, Chegar(r) \/ RequestStep(r) PROVE late' = late
  BY <1>1 DEF Chegar, RequestStep, OutroGuard, SemChave, DoCache, BuscarChave, Guardar, Limitar,
              Recusar, Atender, Sincronizar, Raw, Salvar, FetchMedia, accessVars
<1>2. ASSUME NEW o \in Ops, Pedir(o) \/ OpStep(o) PROVE late' = late
  BY <1>2 DEF Pedir, OpStep, LerAplicacao, AtualizarAplicacao, ExcluirAplicacao, EmitirChave,
              LerChave, ContarAtivas, Revogar, Rotacionar, InvalidateCache
<1>3. CASE (\E k \in Keys : Expirar(k)) \/ Vencer \/ UNCHANGED vars
  BY <1>3 DEF Expirar, Vencer, vars, accessVars
<1> QED
  BY <1>1, <1>2, <1>3 DEF Next

(* Every variable keeps its type: the credential, route and application of *)
(* a request, the row a call of an administrator has read; and no request  *)
(* is tried, or takes effect, more often than MAX_TENTATIVAS says          *)
(* (waha.client.ts, raw).                                                  *)
THEOREM TypeCorrect == Spec => []TypeOK
<1>1. Init => LateTypeOK
  BY DEF Init, LateTypeOK
<1>2. LateTypeOK /\ [Next]_vars => LateTypeOK'
  BY TimePasses
<1>3. IInv /\ LateTypeOK => TypeOK
  <2> SUFFICES ASSUME IInv, LateTypeOK PROVE TypeOK
    OBVIOUS
  <2>1. NewOp.k \in Keys
    BY AccessAssumption DEF NewOp
  <2>2. OpRecord = OpState
    BY <2>1 DEF OpRecord, OpState, States
  <2>3. op \in [Ops -> OpState] /\ app \in [Apps -> States] /\ key \in [Keys -> KeyRow]
    BY <2>2 DEF IInv, AccessTypeOK
  <2>4. WahaErrors \subseteq {Traduzir(outcome) : outcome \in Outcome}
    <3>1. /\ Traduzir("404") = "wahaSessionNotFound" /\ Traduzir("422") = "wahaValidation"
          /\ Traduzir("401") = "wahaAuth" /\ Traduzir("odd") = "unknown"
          /\ Traduzir("5xx") = "wahaUnavailable"
      BY DEF Traduzir
    <3> QED
      BY <3>1 DEF WahaErrors, Outcome
  <2>5. \A r \in Requests : req[r] \in RequestState
    BY <2>4 DEF IInv, RequestTypeOK, RequestRecord, RequestState
  <2>6. /\ req \in [Requests -> RequestState]
        /\ reply \in [Requests -> {"none", "2xx", "4xx", "db4xx", "5xx"}]
        /\ effects \in [Requests -> 0..MaxTentativas]
    BY <2>5 DEF IInv, RequestTypeOK, Classes
  <2> QED
    BY <2>3, <2>6 DEF IInv, AccessTypeOK, LateTypeOK, TypeOK, States
<1> QED
  BY <1>1, <1>2, <1>3, AccessInvariant, PTL DEF Spec
=============================================================================
