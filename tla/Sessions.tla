------------------------------ MODULE Sessions ------------------------------
(***************************************************************************)
(* A session of WhatsApp has two copies: the row in the sessions table and *)
(* WAHA's own session.  Calls of the API, the session.status webhook and   *)
(* the reconciliation of every minute keep them together, each in several  *)
(* awaits that interleave with the others and with WAHA's own moves.       *)
(*                                                                         *)
(* The webhook's lock and its repetitions are WebhookIngest's: here an     *)
(* event is handled once, in any order, or is lost.  The limit per         *)
(* application, duplicate labels and audit rows only refuse a call or      *)
(* write elsewhere, and timestamps are left out.                           *)
(*                                                                         *)
(* Operators called Mutant... are not part of the model: each is the       *)
(* definition after it with a plausible bug (see the README).              *)
(***************************************************************************)
EXTENDS Naturals, FiniteSets

CONSTANTS
    Sessions,     \* sessions by name; a name is never used again
    Foreign,      \* those of other systems on the same WAHA
    Calls,        \* calls of the API on an existing session, each made once
    Handlers,     \* webhook requests the gateway serves at the same time
    Passes,       \* instances of the API that run the reconciliation
    Numbers,      \* phone numbers
    NoNumber,
    WahaStatuses, \* statuses WAHA reports
    MaxChanges,   \* bound on WAHA's own moves, per session
    MaxFaults     \* bound on what fails or gets lost, in all

SessionStatus == {"STOPPED", "STARTING", "SCAN_QR_CODE", "PASSKEY_REQUIRED",
                  "PASSKEY_CONFIRMATION_REQUIRED", "WORKING", "FAILED", "UNKNOWN"}

LifeCycle == {"start", "stop", "restart", "logout"}
Ops == LifeCycle \cup {"read", "remove"}

ASSUME SessionsAssumption ==
    /\ Sessions # {} /\ Foreign \subseteq Sessions
    /\ NoNumber \notin Numbers
    /\ {"STARTING", "STOPPED", "SCAN_QR_CODE", "WORKING"} \subseteq WahaStatuses
    /\ WahaStatuses \subseteq STRING
    /\ MaxChanges \in Nat /\ MaxFaults \in Nat

VARIABLES
    row,     \* the sessions table
    remote,  \* WAHA's sessions, with the configuration each has there
    changes, \* WAHA's own moves so far
    events,  \* session.status events on their way
    create,  \* where each creation is
    posted,  \* sessions whose creation WAHA has yet to execute
    call,    \* the calls of the API
    hook,    \* the webhook handlers
    pass,    \* the passes of the reconciliation
    lock,    \* the reconciliation's lock in Redis
    faults   \* what failed so far

vars == <<row, remote, changes, events, create, posted, call, hook, pass, lock, faults>>

Ours == Sessions \ Foreign

(* Statuses this version does not know become UNKNOWN. *)
MapStatus(w) == IF w \in SessionStatus THEN w ELSE "UNKNOWN"

Number == Numbers \cup {NoNumber}

Row == [exists: BOOLEAN, status: SessionStatus, number: Number]
NoRow == [exists |-> FALSE, status |-> "STOPPED", number |-> NoNumber]

(* "ours": stamped by the gateway, webhook as it should be; "stale":       *)
(* stamped, but the webhook's address or secret is out of date.            *)
Remote == [exists: BOOLEAN, status: WahaStatuses, number: Number,
           config: {"ours", "stale", "foreign"}]
NoRemote == [exists |-> FALSE, status |-> "STOPPED", number |-> NoNumber, config |-> "ours"]

Event == [s: Sessions, status: WahaStatuses, number: Number, n: Nat]

CallState == [at: {"new", "waha", "late", "reply", "over"}, op: Ops, s: Sessions,
              seen: SessionStatus, got: Remote]
HookState == [busy: BOOLEAN, ev: Event]
PassState == [at: {"idle", "remotas", "locais", "status", "numero", "orfas"}, s: Sessions,
              todo: SUBSET Sessions, answered: SUBSET Sessions,
              locais: [Sessions -> Row], remotas: [Sessions -> Remote]]

NoSession == CHOOSE s \in Sessions : TRUE
NewCall == [at |-> "new", op |-> "read", s |-> NoSession, seen |-> "STOPPED", got |-> NoRemote]
IdleHook == [busy |-> FALSE, ev |-> [s |-> NoSession, status |-> "STOPPED",
                                     number |-> NoNumber, n |-> 0]]
IdlePass == [at |-> "idle", s |-> NoSession, todo |-> {}, answered |-> {},
             locais |-> [s \in Sessions |-> NoRow], remotas |-> [s \in Sessions |-> NoRemote]]

Init ==
    /\ row = [s \in Sessions |-> NoRow]
    /\ remote = [s \in Sessions |->
                    IF s \in Foreign THEN [NoRemote EXCEPT !.exists = TRUE, !.config = "foreign"]
                    ELSE NoRemote]
    /\ changes = [s \in Sessions |-> 0]
    /\ events = {}
    /\ create = [s \in Sessions |-> IF s \in Foreign THEN "failed" ELSE "new"]
    /\ posted = {}
    /\ call = [c \in Calls |-> NewCall]
    /\ hook = [h \in Handlers |-> IdleHook]
    /\ pass = [p \in Passes |-> IdlePass]
    /\ lock = FALSE
    /\ faults = 0

Fault == faults < MaxFaults /\ faults' = faults + 1

(* An update of a row that is gone throws and changes nothing. *)
UpdateRow(s, r) == row' = IF row[s].exists THEN [row EXCEPT ![s] = r] ELSE row

-----------------------------------------------------------------------------
(* WAHA.                                                                   *)

(* WAHA's session becomes r.  A change of status is an event, which        *)
(* arrives if the webhook is configured as it should be.                   *)
Become(s, r) ==
    LET moves == r.status # remote[s].status
        e == [s |-> s, status |-> r.status, number |-> r.number, n |-> changes[s]]
    IN  /\ remote' = [remote EXCEPT ![s] = r]
        /\ changes' = IF moves THEN [changes EXCEPT ![s] = @ + 1] ELSE changes
        /\ events' = IF moves /\ r.config = "ours" THEN events \cup {e} ELSE events

(* The session moves by itself or by hand of its owner: WORKING is paired  *)
(* with a number, a new QR code means that the pairing is gone.            *)
WahaMuda(s) ==
    /\ s \in Ours /\ remote[s].exists
    /\ changes[s] < MaxChanges
    /\ \E st \in WahaStatuses \ {remote[s].status}, n \in Number :
        /\ st = "WORKING" => n \in Numbers /\ remote[s].number \in {n, NoNumber}
        /\ st = "SCAN_QR_CODE" => n = NoNumber
        /\ st \notin {"WORKING", "SCAN_QR_CODE"} => n = remote[s].number
        /\ Become(s, [remote[s] EXCEPT !.status = st, !.number = n])
    /\ UNCHANGED <<row, create, posted, call, hook, pass, lock, faults>>

(* The session vanishes without the gateway. *)
WahaPerde(s) ==
    /\ Fault
    /\ s \in Ours /\ remote[s].exists
    /\ remote' = [remote EXCEPT ![s] = NoRemote]
    /\ UNCHANGED <<row, changes, events, create, posted, call, hook, pass, lock>>

(* The gateway moves to another host, or its database to another secret. *)
AmbienteMuda(s) ==
    /\ Fault
    /\ s \in Ours /\ remote[s].exists /\ remote[s].config = "ours"
    /\ remote' = [remote EXCEPT ![s].config = "stale"]
    /\ UNCHANGED <<row, changes, events, create, posted, call, hook, pass, lock>>

-----------------------------------------------------------------------------
(* create: the row first, for its id goes into WAHA's metadata.            *)

Criar(s) ==
    /\ create[s] = "new"
    /\ row' = [row EXCEPT ![s] = [exists |-> TRUE, status |-> "STARTING", number |-> NoNumber]]
    /\ create' = [create EXCEPT ![s] = "calling"]
    /\ posted' = posted \cup {s}
    /\ UNCHANGED <<remote, changes, events, call, hook, pass, lock, faults>>

(* WAHA executes the POST, also when the gateway no longer waits for it. *)
WahaCria(s) ==
    /\ s \in posted
    /\ posted' = posted \ {s}
    /\ remote' = [remote EXCEPT ![s] = [NoRemote EXCEPT !.exists = TRUE, !.status = "STARTING"]]
    /\ UNCHANGED <<row, changes, events, create, call, hook, pass, lock, faults>>

CriarOk(s) ==
    /\ create[s] = "calling" /\ s \notin posted
    /\ create' = [create EXCEPT ![s] = "done"]
    /\ UNCHANGED <<row, remote, changes, events, posted, call, hook, pass, lock, faults>>

(* WAHA refuses the creation, or its answer does not come in time. *)
CriarFalha(s) ==
    /\ Fault
    /\ create[s] = "calling"
    /\ create' = [create EXCEPT ![s] = "rollback"]
    /\ posted' \in {posted, posted \ {s}}
    /\ UNCHANGED <<row, remote, changes, events, call, hook, pass, lock>>

(* The row is deleted again; an error of the deletion is swallowed. *)
Desfazer(s) ==
    /\ create[s] = "rollback"
    /\ create' = [create EXCEPT ![s] = "failed"]
    /\ \/ row' = [row EXCEPT ![s] = NoRow] /\ UNCHANGED faults
       \/ Fault /\ UNCHANGED row
    /\ UNCHANGED <<remote, changes, events, posted, call, hook, pass, lock>>

(* The process dies. *)
CrashCreate(s) ==
    /\ Fault
    /\ create[s] \in {"calling", "rollback"}
    /\ create' = [create EXCEPT ![s] = "failed"]
    /\ UNCHANGED <<row, remote, changes, events, posted, call, hook, pass, lock>>

-----------------------------------------------------------------------------
(* Calls on a session: a read, which synchronises the status (findOne,     *)
(* getQr, requestPairingCode), a life-cycle action or the removal.         *)

Step(c, from, to) == call[c].at = from /\ call' = [call EXCEPT ![c].at = to]

Over(c) ==
    /\ call[c].at = "reply"
    /\ call' = [call EXCEPT ![c] = [NewCall EXCEPT !.at = "over"]]

(* findOwned *)
Chamar(c) ==
    /\ call[c].at = "new"
    /\ \E s \in Ours, op \in Ops :
        /\ row[s].exists
        /\ call' = [call EXCEPT ![c] = [NewCall EXCEPT !.at = "waha", !.op = op, !.s = s,
                                                       !.seen = row[s].status]]
    /\ UNCHANGED <<row, remote, changes, events, create, posted, hook, pass, lock, faults>>

(* What WAHA's session is after the call. *)
Executed(op, r) ==
    CASE op \in {"start", "restart"} -> [r EXCEPT !.status = "STARTING"]
      [] op = "stop"   -> [r EXCEPT !.status = "STOPPED"]
      [] op = "logout" -> [r EXCEPT !.status = "SCAN_QR_CODE", !.number = NoNumber]
      [] op = "remove" -> NoRemote
      [] op = "read"   -> r

(* WAHA executes the call; got is its answer, NoRemote for a 404. *)
WahaExecuta(c) ==
    LET s == call[c].s
        after == IF remote[s].exists THEN Executed(call[c].op, remote[s]) ELSE NoRemote
    IN  /\ \/ /\ call[c].at = "waha"
              /\ call' = [call EXCEPT ![c].at = "reply", ![c].got = after]
           \/ /\ call[c].at = "late"
              /\ call' = [call EXCEPT ![c] = [NewCall EXCEPT !.at = "over"]]
        /\ IF after.exists THEN Become(s, after)
           ELSE remote' = [remote EXCEPT ![s] = NoRemote] /\ UNCHANGED <<changes, events>>
        /\ UNCHANGED <<row, create, posted, hook, pass, lock, faults>>

(* The call ends in an error after its last attempt, or the process dies:  *)
(* WAHA may have executed it, and may still.                               *)
ChamadaFalha(c) ==
    /\ Fault
    /\ Step(c, "waha", "late") \/ Over(c)
    /\ UNCHANGED <<row, remote, changes, events, create, posted, hook, pass, lock>>

(* acaoDeCiclo takes the status from WAHA's answer; a logout also unbinds  *)
(* the number.  A 404 ends the call.                                       *)
AcaoDeCiclo(c) ==
    LET s == call[c].s  got == call[c].got
    IN  /\ Over(c) /\ call[c].op \in LifeCycle
        /\ IF got.exists
           THEN UpdateRow(s, [row[s] EXCEPT !.status = MapStatus(got.status),
                                            !.number = IF call[c].op = "logout" THEN NoNumber ELSE @])
           ELSE UNCHANGED row
        /\ UNCHANGED <<remote, changes, events, create, posted, hook, pass, lock, faults>>

(* sincronizarStatus compares with the row it read at the start; a 404 is  *)
(* written as FAILED in any case.                                          *)
SincronizarStatus(c) ==
    LET s == call[c].s
        got == call[c].got
        status == IF got.exists THEN MapStatus(got.status) ELSE "FAILED"
    IN  /\ Over(c) /\ call[c].op = "read"
        /\ IF got.exists /\ status = call[c].seen THEN UNCHANGED row
           ELSE UpdateRow(s, [row[s] EXCEPT !.status = status])
        /\ UNCHANGED <<remote, changes, events, create, posted, hook, pass, lock, faults>>

(* remove: WAHA first, where a 404 is as good, then the row. *)
Remover(c) ==
    /\ Over(c) /\ call[c].op = "remove"
    /\ row' = [row EXCEPT ![call[c].s] = NoRow]
    /\ UNCHANGED <<remote, changes, events, create, posted, hook, pass, lock, faults>>

-----------------------------------------------------------------------------
(* The session.status webhook.                                             *)

(* resolverSessao finds the row, or the event is ignored. *)
ResolverSessao(h) ==
    /\ ~hook[h].busy
    /\ \E e \in events :
        /\ events' = events \ {e}
        /\ hook' = IF row[e.s].exists THEN [hook EXCEPT ![h] = [busy |-> TRUE, ev |-> e]] ELSE hook
    /\ UNCHANGED <<row, remote, changes, create, posted, call, pass, lock, faults>>

MutantRecriarLinha(h) == \* an upsert instead of an update
    LET e == hook[h].ev
    IN  /\ hook[h].busy
        /\ hook' = [hook EXCEPT ![h] = IdleHook]
        /\ row' = [row EXCEPT ![e.s] = [exists |-> TRUE, status |-> MapStatus(e.status),
                                        number |-> e.number]]
        /\ UNCHANGED <<remote, changes, events, create, posted, call, pass, lock, faults>>

(* aoMudarStatus: a WORKING event brings the number.  The notices to the   *)
(* integrator and the panel are left out.                                  *)
AoMudarStatus(h) ==
    LET e == hook[h].ev
        binds == MapStatus(e.status) = "WORKING" /\ e.number # NoNumber
    IN  /\ hook[h].busy
        /\ hook' = [hook EXCEPT ![h] = IdleHook]
        /\ UpdateRow(e.s, [row[e.s] EXCEPT !.status = MapStatus(e.status),
                                           !.number = IF binds THEN e.number ELSE @])
        /\ UNCHANGED <<remote, changes, events, create, posted, call, pass, lock, faults>>

(* Every post of an event fails, or its handler does. *)
EventoPerdido ==
    /\ Fault
    /\ \/ \E e \in events : events' = events \ {e} /\ UNCHANGED hook
       \/ \E h \in Handlers : /\ hook[h].busy
                              /\ hook' = [hook EXCEPT ![h] = IdleHook]
                              /\ UNCHANGED events
    /\ UNCHANGED <<row, remote, changes, create, posted, call, pass, lock>>

-----------------------------------------------------------------------------
(* The reconciliation.                                                     *)

Pass(p, from, r) == pass[p].at = from /\ pass' = [pass EXCEPT ![p] = r]

(* One session of the pass is dealt with; of what the pass read of it only *)
(* that it has a row is used again.                                        *)
Dealt(p, s) ==
    [pass[p] EXCEPT !.at = "locais", !.todo = @ \ {s}, !.s = NoSession,
                    !.locais[s] = [NoRow EXCEPT !.exists = TRUE], !.remotas[s] = NoRemote]

MutantIgnorarFalhas(p) == \* FAILED sessions are left alone
    /\ ~lock /\ lock' = TRUE
    /\ Pass(p, "idle", [IdlePass EXCEPT !.at = "remotas",
                            !.locais = [s \in Sessions |-> IF row[s].status = "FAILED" THEN NoRow ELSE row[s]],
                            !.answered = {s \in Ours : create[s] = "done" /\ row[s].exists}])
    /\ UNCHANGED <<row, remote, changes, events, create, posted, call, hook, faults>>

(* SET NX, and then the rows.  answered is history. *)
LerLocais(p) ==
    /\ ~lock /\ lock' = TRUE
    /\ Pass(p, "idle", [IdlePass EXCEPT !.at = "remotas", !.locais = row,
                            !.answered = {s \in Ours : create[s] = "done" /\ row[s].exists}])
    /\ UNCHANGED <<row, remote, changes, events, create, posted, call, hook, faults>>

(* The lock is never released: it expires, be the pass over or not. *)
LockExpira ==
    /\ lock /\ lock' = FALSE
    /\ UNCHANGED <<row, remote, changes, events, create, posted, call, hook, pass, faults>>

LerRemotas(p) ==
    /\ Pass(p, "remotas", [pass[p] EXCEPT !.at = "locais", !.remotas = remote,
                               !.todo = {s \in Sessions : pass[p].locais[s].exists}])
    /\ UNCHANGED <<row, remote, changes, events, create, posted, call, hook, lock, faults>>

(* A session that is gone from WAHA is marked FAILED. *)
MarcarSumida(p) ==
    \E s \in pass[p].todo :
        /\ ~pass[p].remotas[s].exists
        /\ Pass(p, "locais", IF row[s].exists \/ pass[p].locais[s].status = "FAILED"
                             THEN Dealt(p, s) ELSE IdlePass)
        /\ IF pass[p].locais[s].status # "FAILED"
           THEN UpdateRow(s, [row[s] EXCEPT !.status = "FAILED"]) ELSE UNCHANGED row
        /\ UNCHANGED <<remote, changes, events, create, posted, call, hook, lock, faults>>

MutantNuncaReescrever(p) == \* the webhook is never rewritten
    \E s \in pass[p].todo :
        /\ pass[p].remotas[s].exists
        /\ Pass(p, "locais", [pass[p] EXCEPT !.at = "status", !.s = s])
        /\ UNCHANGED <<row, remote, changes, events, create, posted, call, hook, lock, faults>>

(* corrigirWebhook rewrites a configuration that is not as it should be;   *)
(* it may fail, and the pass goes on.                                      *)
CorrigirWebhook(p) ==
    \E s \in pass[p].todo :
        /\ pass[p].remotas[s].exists
        /\ Pass(p, "locais", [pass[p] EXCEPT !.at = "status", !.s = s])
        /\ \/ /\ remote' = IF remote[s].exists /\ pass[p].remotas[s].config # "ours"
                           THEN [remote EXCEPT ![s].config = "ours"] ELSE remote
              /\ UNCHANGED faults
           \/ pass[p].remotas[s].config # "ours" /\ Fault /\ UNCHANGED remote
        /\ UNCHANGED <<row, changes, events, create, posted, call, hook, lock>>

MutantSoSumidas(p) == \* only missing sessions are corrected
    LET s == pass[p].s
        working == MapStatus(pass[p].remotas[s].status) = "WORKING"
    IN  /\ Pass(p, "status", IF working /\ pass[p].locais[s].number = NoNumber
                             THEN [pass[p] EXCEPT !.at = "numero"] ELSE Dealt(p, s))
        /\ UNCHANGED <<row, remote, changes, events, create, posted, call, hook, lock, faults>>

(* The status, if the two copies the pass read differ.  An update of a row *)
(* that is gone ends the pass.                                             *)
CorrigirStatus(p) ==
    LET s == pass[p].s
        local == pass[p].locais[s]
        status == MapStatus(pass[p].remotas[s].status)
    IN  /\ Pass(p, "status", CASE status # local.status /\ ~row[s].exists -> IdlePass
                               [] status = "WORKING" /\ local.number = NoNumber
                                    /\ (status = local.status \/ row[s].exists)
                                    -> [pass[p] EXCEPT !.at = "numero"]
                               [] OTHER -> Dealt(p, s))
        /\ IF status # local.status THEN UpdateRow(s, [row[s] EXCEPT !.status = status])
           ELSE UNCHANGED row
        /\ UNCHANGED <<remote, changes, events, create, posted, call, hook, lock, faults>>

MutantSoEventos(p) == \* only a WORKING event brings the number
    /\ Pass(p, "numero", Dealt(p, pass[p].s))
    /\ UNCHANGED <<row, remote, changes, events, create, posted, call, hook, lock, faults>>

(* The number, if the list carries it or else /me answers. *)
VincularNumero(p) ==
    LET s == pass[p].s
    IN  \E me \in {pass[p].remotas[s].number, remote[s].number, NoNumber} :
        /\ IF me = NoNumber /\ remote[s].number # NoNumber THEN Fault ELSE UNCHANGED faults
        /\ Pass(p, "numero", IF me = NoNumber \/ row[s].exists THEN Dealt(p, s) ELSE IdlePass)
        /\ IF me # NoNumber THEN UpdateRow(s, [row[s] EXCEPT !.number = me]) ELSE UNCHANGED row
        /\ UNCHANGED <<remote, changes, events, create, posted, call, hook, lock>>

MutantSemCarimbo(p) == \* whatever has no row goes
    {s \in Sessions : pass[p].remotas[s].exists /\ ~pass[p].locais[s].exists}

MutantSemOrfas(p) == {} \* orphans are not looked for

(* Stamped sessions of WAHA without a row. *)
Orfas(p) ==
    {s \in Sessions : /\ pass[p].remotas[s].exists /\ pass[p].remotas[s].config # "foreign"
                      /\ ~pass[p].locais[s].exists}

ComecarOrfas(p) ==
    /\ pass[p].todo = {}
    /\ Pass(p, "locais", [pass[p] EXCEPT !.at = "orfas", !.todo = Orfas(p)])
    /\ UNCHANGED <<row, remote, changes, events, create, posted, call, hook, lock, faults>>

(* deleteSession; its errors are swallowed. *)
RemoverOrfa(p) ==
    \E s \in pass[p].todo :
        /\ Pass(p, "orfas", [pass[p] EXCEPT !.todo = @ \ {s}])
        /\ \/ remote' = [remote EXCEPT ![s] = NoRemote] /\ UNCHANGED faults
           \/ Fault /\ UNCHANGED remote
        /\ UNCHANGED <<row, changes, events, create, posted, call, hook, lock>>

Terminar(p) ==
    /\ pass[p].todo = {}
    /\ Pass(p, "orfas", IdlePass)
    /\ UNCHANGED <<row, remote, changes, events, create, posted, call, hook, lock, faults>>

(* WAHA does not list its sessions, a query fails or the process dies. *)
PassFalha(p) ==
    /\ Fault
    /\ pass[p].at # "idle"
    /\ pass' = [pass EXCEPT ![p] = IdlePass]
    /\ UNCHANGED <<row, remote, changes, events, create, posted, call, hook, lock>>

-----------------------------------------------------------------------------
CreateStep(s) ==
    \/ create[s] = "calling" /\ WahaCria(s)
    \/ CriarOk(s)
    \/ Desfazer(s)

CallStep(c) ==
    \/ call[c].at = "waha" /\ WahaExecuta(c)
    \/ AcaoDeCiclo(c)
    \/ SincronizarStatus(c)
    \/ Remover(c)

PassStep(p) ==
    \/ LerLocais(p)
    \/ LerRemotas(p)
    \/ MarcarSumida(p)
    \/ CorrigirWebhook(p)
    \/ CorrigirStatus(p)
    \/ VincularNumero(p)
    \/ ComecarOrfas(p)
    \/ RemoverOrfa(p)
    \/ Terminar(p)

Next ==
    \/ \E s \in Sessions :
        \/ WahaMuda(s) \/ WahaPerde(s) \/ AmbienteMuda(s)
        \/ Criar(s) \/ WahaCria(s) \/ CreateStep(s) \/ CriarFalha(s) \/ CrashCreate(s)
    \/ \E c \in Calls : Chamar(c) \/ WahaExecuta(c) \/ CallStep(c) \/ ChamadaFalha(c)
    \/ \E h \in Handlers : ResolverSessao(h) \/ AoMudarStatus(h)
    \/ EventoPerdido
    \/ \E p \in Passes : PassStep(p) \/ PassFalha(p)
    \/ LockExpira

Spec == Init /\ [][Next]_vars

(* Node runs the continuation of every settled await, and an await of a    *)
(* call to WAHA settles by its timeout at the latest; the scheduler starts *)
(* a pass each minute and Redis expires the lock.  Nobody has to call.     *)
Fairness ==
    /\ \A s \in Sessions : WF_vars(CreateStep(s))
    /\ \A c \in Calls : WF_vars(CallStep(c))
    /\ \A h \in Handlers : WF_vars(AoMudarStatus(h))
    /\ \A p \in Passes : WF_vars(PassStep(p))
    /\ WF_vars(LockExpira)

FairSpec == Spec /\ Fairness

-----------------------------------------------------------------------------
(* Properties.                                                             *)

TypeOK ==
    /\ row \in [Sessions -> Row]
    /\ remote \in [Sessions -> Remote]
    /\ changes \in [Sessions -> Nat]
    /\ events \subseteq Event
    /\ create \in [Sessions -> {"new", "calling", "rollback", "done", "failed"}]
    /\ posted \subseteq Sessions
    /\ call \in [Calls -> CallState]
    /\ hook \in [Handlers -> HookState]
    /\ pass \in [Passes -> PassState]
    /\ lock \in BOOLEAN
    /\ faults \in 0..MaxFaults

(* Of a foreign session a pass knows at most that WAHA has it. *)
ForeignToPass(f, r) ==
    /\ ~r.locais[f].exists /\ f \notin r.todo
    /\ r.at \in {"status", "numero"} => r.s # f
    /\ r.remotas[f].exists => r.remotas[f].config = "foreign"

(* A foreign session has no row and nobody deals with it. *)
ForeignApart ==
    \A f \in Foreign :
        /\ remote[f] = [NoRemote EXCEPT !.exists = TRUE, !.config = "foreign"]
        /\ ~row[f].exists /\ create[f] = "failed" /\ f \notin posted
        /\ \A c \in Calls : call[c].at \in {"waha", "late", "reply"} => call[c].s # f
        /\ \A p \in Passes : ForeignToPass(f, pass[p])

(* A pass knows the sessions answered before it, and they are no orphans. *)
AnsweredToPass(r) ==
    \A s \in r.answered : r.locais[s].exists /\ (r.at = "orfas" => s \notin r.todo)

AnsweredIsKnown == \A p \in Passes : AnsweredToPass(pass[p])

(* The inductive invariant of the proofs. *)
IInv == TypeOK /\ ForeignApart /\ AnsweredIsKnown

(* A row that was deleted, by its removal or because WAHA refused the      *)
(* session, does not come back, whatever update is still under way.        *)
DeletedStaysDeleted ==
    [][\A s \in Sessions : create[s] # "new" /\ ~row[s].exists => ~row'[s].exists]_vars

(* A session whose creation was answered before a pass read the rows is    *)
(* not deleted from WAHA by that pass, whatever its status is by then.     *)
AnsweredSessionKept ==
    [][\A p \in Passes, s \in Sessions :
        s \in pass[p].answered /\ remote[s].exists /\ ~remote'[s].exists
            => pass'[p] = pass[p]]_vars

(* Sessions of other systems on the same WAHA are left as they are.        *)
ForeignUntouched == [][\A s \in Foreign : remote'[s] = remote[s]]_vars

(* Once WAHA's session and the faults come to rest, the row shows WAHA's   *)
(* status, or FAILED if WAHA has no such session, although events got      *)
(* lost, came late or out of order.                                        *)
StatusesConverge ==
    \A s \in Ours :
        <>[](row[s].exists =>
                row[s].status = IF remote[s].exists THEN MapStatus(remote[s].status) ELSE "FAILED")

(* A session that is never paired with any number but n, and stays        *)
(* WORKING, ends up with n in its row, be its event lost, late or          *)
(* overtaken by a pass.  (One that is paired again with another may keep   *)
(* the old number: a pass fills in a number only where there is none.)     *)
NumberIsBound ==
    \A s \in Ours, n \in Numbers :
        [](remote[s].number \in {n, NoNumber}) =>
            <>[](row[s].exists /\ remote[s].exists /\ remote[s].status = "WORKING" =>
                    row[s].number = n)

(* A session of WAHA without a row does not stay, however it came about.   *)
OrphanIsRemoved ==
    \A s \in Ours : remote[s].exists /\ ~row[s].exists ~> ~remote[s].exists

(* The webhook of every session ends up with the right address and secret. *)
WebhookIsRepaired ==
    \A s \in Ours : <>[](row[s].exists /\ remote[s].exists => remote[s].config = "ours")
=============================================================================
