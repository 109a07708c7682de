--------------------------- MODULE WebhookDelivery ---------------------------
(***************************************************************************)
(* The delivery of events to one endpoint of an integrator.  A delivery is *)
(* a row of webhook_deliveries and jobs in a BullMQ queue: the first when  *)
(* the event is published, another one for each manual resend.  A job      *)
(* posts until the endpoint answers with 2xx or its attempts are used up;  *)
(* the listener of its failures runs beside the next attempt.  Enough      *)
(* exhausted jobs in a row deactivate the endpoint.                        *)
(*                                                                         *)
(* Addresses, secrets, payloads, the filter by event and what a row keeps  *)
(* of an answer are left out, and so is the time between two attempts.     *)
(*                                                                         *)
(* Operators called Mutant... are not part of the model: each is the       *)
(* definition after it with a plausible bug (see the README).              *)
(***************************************************************************)
EXTENDS Naturals, FiniteSets

CONSTANTS
    Deliveries,  \* deliveries of the endpoint
    MaxResends,  \* bound on manual resends, per delivery
    MaxAttempts, \* WEBHOOK_MAX_ATTEMPTS
    Threshold,   \* WEBHOOK_FAILURE_THRESHOLD
    MaxEdits,    \* bound on pauses and reactivations of the endpoint
    MaxFaults    \* bound on what fails, in all

ASSUME DeliveryAssumption ==
    /\ IsFiniteSet(Deliveries)
    /\ MaxResends \in Nat /\ MaxEdits \in Nat /\ MaxFaults \in Nat
    /\ MaxAttempts \in Nat \ {0} /\ Threshold \in Nat \ {0}

VARIABLES
    endpoint, \* the endpoint's row
    row,      \* status of the delivery's row, "none" where there is none
    publish,  \* where the publication of each delivery is
    resend,   \* where its resend is, and how many came before
    job,      \* the jobs in the queue
    notices,  \* failures of jobs the listener is dealing with
    accepted, \* history: deliveries the integrator answered with 2xx
    posts,    \* history: POSTs of each job
    counted,  \* history: jobs that counted as failures since the counter was cleared
    edits,
    faults

vars == <<endpoint, row, publish, resend, job, notices, accepted, posts, counted, edits, faults>>

Jobs == Deliveries \X (0..MaxResends)

DeliveryStatus == {"PENDING", "RETRYING", "SUCCESS", "FAILED", "ABANDONED"}

Endpoint == [exists: BOOLEAN, active: BOOLEAN, failures: Nat, auto: BOOLEAN]

(* stalled: the process died while it was at work on the job. *)
InFlight == {"posting", "ok", "recusa", "saved", "erro", "failing"}
Job == [at: InFlight \cup {"none", "waiting", "done", "failed"}, made: Nat, stalled: BOOLEAN]

Notice == [j: Jobs, made: Nat, at: {"row", "count", "disable"}]

Init ==
    /\ endpoint = [exists |-> TRUE, active |-> TRUE, failures |-> 0, auto |-> FALSE]
    /\ row = [d \in Deliveries |-> "none"]
    /\ publish = [d \in Deliveries |-> "new"]
    /\ resend = [d \in Deliveries |-> [at |-> "no", n |-> 0]]
    /\ job = [j \in Jobs |-> [at |-> "none", made |-> 0, stalled |-> FALSE]]
    /\ notices = {}
    /\ accepted = {}
    /\ posts = [j \in Jobs |-> 0]
    /\ counted = {}
    /\ edits = 0
    /\ faults = 0

Fault == faults < MaxFaults /\ faults' = faults + 1

(* An update of a row that is gone throws. *)
SetStatus(d, st) == row' = IF row[d] = "none" THEN row ELSE [row EXCEPT ![d] = st]

ClearCounter(e) == endpoint' = [e EXCEPT !.failures = 0] /\ counted' = {}

-----------------------------------------------------------------------------
(* publicar, enviarTeste and enfileirar.                                   *)

(* An event goes to active endpoints, a ping to any. *)
Publicar(d) ==
    /\ publish[d] = "new"
    /\ endpoint.exists
    /\ \E ping \in BOOLEAN :
        publish' = [publish EXCEPT ![d] = IF endpoint.active \/ ping THEN "found" ELSE "over"]
    /\ UNCHANGED <<endpoint, row, resend, job, notices, accepted, posts, counted, edits, faults>>

(* The row first; it needs its endpoint. *)
CriarEntrega(d) ==
    /\ publish[d] = "found"
    /\ publish' = [publish EXCEPT ![d] = IF endpoint.exists THEN "row" ELSE "over"]
    /\ row' = IF endpoint.exists THEN [row EXCEPT ![d] = "PENDING"] ELSE row
    /\ UNCHANGED <<endpoint, resend, job, notices, accepted, posts, counted, edits, faults>>

Enfileirar(d) ==
    /\ publish[d] = "row"
    /\ publish' = [publish EXCEPT ![d] = "over"]
    /\ job' = [job EXCEPT ![<<d, 0>>].at = "waiting"]
    /\ UNCHANGED <<endpoint, row, resend, notices, accepted, posts, counted, edits, faults>>

(* A query or the queue fails, which publicar swallows. *)
PublicarFalha(d) ==
    /\ Fault
    /\ publish[d] \in {"found", "row"}
    /\ publish' = [publish EXCEPT ![d] = "over"]
    /\ UNCHANGED <<endpoint, row, resend, job, notices, accepted, posts, counted, edits>>

-----------------------------------------------------------------------------
(* retryDelivery and reenfileirar.                                         *)

RetryDelivery(d) ==
    /\ resend[d].at = "no" /\ resend[d].n < MaxResends
    /\ row[d] # "none"
    /\ resend' = [resend EXCEPT ![d].at = "found"]
    /\ UNCHANGED <<endpoint, row, publish, job, notices, accepted, posts, counted, edits, faults>>

MarcarPendente(d) ==
    /\ resend[d].at = "found"
    /\ resend' = [resend EXCEPT ![d].at = IF row[d] = "none" THEN "no" ELSE "marked"]
    /\ SetStatus(d, "PENDING")
    /\ UNCHANGED <<endpoint, publish, job, notices, accepted, posts, counted, edits, faults>>

(* Another job, whatever the ones before are doing. *)
Reenfileirar(d) ==
    /\ resend[d].at = "marked"
    /\ resend' = [resend EXCEPT ![d] = [at |-> "no", n |-> @.n + 1]]
    /\ job' = [job EXCEPT ![<<d, resend[d].n + 1>>].at = "waiting"]
    /\ UNCHANGED <<endpoint, row, publish, notices, accepted, posts, counted, edits, faults>>

ReenvioFalha(d) ==
    /\ Fault
    /\ resend[d].at # "no"
    /\ resend' = [resend EXCEPT ![d].at = "no"]
    /\ UNCHANGED <<endpoint, row, publish, job, notices, accepted, posts, counted, edits>>

-----------------------------------------------------------------------------
(* entregar.                                                               *)

Move(j, from, to) == job[j].at = from /\ job' = [job EXCEPT ![j].at = to]

(* A worker takes the job and posts. *)
Entregar(j) ==
    /\ Move(j, "waiting", "posting")
    /\ posts' = [posts EXCEPT ![j] = @ + 1]
    /\ UNCHANGED <<endpoint, row, publish, resend, notices, accepted, counted, edits, faults>>

MutantQualquerResposta(j) == \* resposta.ok is not looked at
    /\ \/ Move(j, "posting", "ok") /\ accepted' \in {accepted, accepted \cup {j[1]}}
       \/ Move(j, "posting", "erro") /\ accepted' \in {accepted, accepted \cup {j[1]}}
    /\ UNCHANGED <<endpoint, row, publish, resend, notices, posts, counted, edits, faults>>

(* The answer: 2xx, anything else, or none in time, which says nothing     *)
(* about what the integrator did.                                          *)
Resposta(j) ==
    /\ \/ Move(j, "posting", "ok") /\ accepted' = accepted \cup {j[1]}
       \/ Move(j, "posting", "recusa") /\ UNCHANGED accepted
       \/ Move(j, "posting", "erro") /\ accepted' \in {accepted, accepted \cup {j[1]}}
    /\ UNCHANGED <<endpoint, row, publish, resend, notices, posts, counted, edits, faults>>

(* The update of a success; if it throws, the attempt has failed. *)
SalvarSucesso(j) ==
    /\ \/ /\ Move(j, "ok", IF row[j[1]] = "none" THEN "erro" ELSE "saved")
          /\ SetStatus(j[1], "SUCCESS") /\ UNCHANGED faults
       \/ Move(j, "ok", "erro") /\ Fault /\ UNCHANGED row
    /\ UNCHANGED <<endpoint, publish, resend, notices, accepted, posts, counted, edits>>

(* And so it has if the endpoint's counter cannot be cleared. *)
ZerarContador(j) ==
    /\ \/ /\ Move(j, "saved", IF endpoint.exists THEN "done" ELSE "erro")
          /\ IF endpoint.exists THEN ClearCounter(endpoint) ELSE UNCHANGED <<endpoint, counted>>
          /\ UNCHANGED faults
       \/ Move(j, "saved", "erro") /\ Fault /\ UNCHANGED <<endpoint, counted>>
    /\ UNCHANGED <<row, publish, resend, notices, accepted, posts, edits>>

(* registrarTentativa, once for the status and once more in the catch; its *)
(* errors are swallowed.                                                   *)
RegistrarTentativa(j) ==
    /\ Move(j, "recusa", "erro") \/ Move(j, "erro", "failing")
    /\ \/ SetStatus(j[1], "RETRYING") /\ UNCHANGED faults
       \/ Fault /\ UNCHANGED row
    /\ UNCHANGED <<endpoint, publish, resend, notices, accepted, posts, counted, edits>>

MutantAttempts(j) == IF j[2] = 0 THEN MaxAttempts ELSE 1 \* a resend without the option

(* The attempts a job is queued with. *)
Attempts(j) == MaxAttempts

(* BullMQ counts the attempt, puts the job back or gives it up, and tells  *)
(* the listener.                                                           *)
Falhar(j) ==
    LET made == job[j].made + 1
    IN  /\ job[j].at = "failing"
        /\ job' = [job EXCEPT ![j].at = IF made < Attempts(j) THEN "waiting" ELSE "failed",
                              ![j].made = made]
        /\ notices' = notices \cup {[j |-> j, made |-> made, at |-> "row"]}
        /\ UNCHANGED <<endpoint, row, publish, resend, accepted, posts, counted, edits, faults>>

-----------------------------------------------------------------------------
(* aoFalhar, which nobody waits for, and contabilizarFalha.                *)

(* The process dies.  A job it was at work on is put back once; the second *)
(* time BullMQ gives it up, and the listener hears of it.                  *)
Die ==
    LET lost == {j \in Jobs : job[j].at \in InFlight}
        twice == {j \in lost : job[j].stalled}
    IN  /\ job' = [j \in Jobs |->
                    IF j \in lost
                    THEN [job[j] EXCEPT !.at = IF j \in twice THEN "failed" ELSE "waiting",
                                        !.stalled = TRUE]
                    ELSE job[j]]
        /\ notices' = {[j |-> j, made |-> job[j].made, at |-> "row"] : j \in twice}
        /\ publish' = [d \in Deliveries |-> IF publish[d] = "new" THEN "new" ELSE "over"]
        /\ resend' = [d \in Deliveries |-> [resend[d] EXCEPT !.at = "no"]]
        /\ UNCHANGED <<endpoint, row, accepted, posts, counted, edits>>

Crash == Fault /\ Die

MutantExhausted(n) == n.made + 1 >= Attempts(n.j) \* one attempt early

(* esgotou *)
Exhausted(n) == n.made >= Attempts(n.j)

MutantAoFalhar(n) == \* every failed attempt counts
    /\ n \in notices /\ n.at = "row"
    /\ notices' = (notices \ {n}) \cup {[n EXCEPT !.at = "count"]}
    /\ \/ SetStatus(n.j[1], IF Exhausted(n) THEN "ABANDONED" ELSE "RETRYING")
          /\ UNCHANGED faults
       \/ Fault /\ UNCHANGED row
    /\ UNCHANGED <<endpoint, publish, resend, job, accepted, posts, counted, edits>>

(* An error of the update is swallowed. *)
AoFalhar(n) ==
    /\ n \in notices /\ n.at = "row"
    /\ notices' = (notices \ {n}) \cup
                      IF Exhausted(n) THEN {[n EXCEPT !.at = "count"]} ELSE {}
    /\ \/ SetStatus(n.j[1], IF Exhausted(n) THEN "ABANDONED" ELSE "RETRYING")
          /\ UNCHANGED faults
       \/ Fault /\ UNCHANGED row
    /\ UNCHANGED <<endpoint, publish, resend, job, accepted, posts, counted, edits>>

(* contabilizarFalha.  Nobody catches what it throws, so that a query that *)
(* fails, as it does for an endpoint that is gone, ends the process.       *)
ContarFalha(n) ==
    /\ n \in notices /\ n.at = "count"
    /\ \/ /\ endpoint.exists
          /\ endpoint' = [endpoint EXCEPT !.failures = @ + 1]
          /\ counted' = counted \cup {n.j}
          /\ notices' = (notices \ {n}) \cup
                 IF endpoint.failures + 1 >= Threshold /\ endpoint.active
                 THEN {[n EXCEPT !.at = "disable"]} ELSE {}
          /\ UNCHANGED <<row, publish, resend, job, accepted, posts, edits, faults>>
       \/ ~endpoint.exists /\ Die /\ UNCHANGED faults
       \/ Fault /\ Die

(* Another await later the endpoint is deactivated, whatever it is by then. *)
Desativar(n) ==
    /\ n \in notices /\ n.at = "disable"
    /\ \/ /\ endpoint.exists
          /\ endpoint' = [endpoint EXCEPT !.active = FALSE, !.auto = TRUE]
          /\ notices' = notices \ {n}
          /\ UNCHANGED <<row, publish, resend, job, accepted, posts, counted, edits, faults>>
       \/ ~endpoint.exists /\ Die /\ UNCHANGED faults
       \/ Fault /\ Die

-----------------------------------------------------------------------------
(* The integrator's hand on the endpoint.                                  *)

Edit == edits < MaxEdits /\ edits' = edits + 1

(* update: a reactivation clears the counter and the reason. *)
Reativar ==
    /\ Edit
    /\ endpoint.exists
    /\ ClearCounter([endpoint EXCEPT !.active = TRUE, !.auto = FALSE])
    /\ UNCHANGED <<row, publish, resend, job, notices, accepted, posts, faults>>

Pausar ==
    /\ Edit
    /\ endpoint.exists
    /\ endpoint' = [endpoint EXCEPT !.active = FALSE]
    /\ UNCHANGED <<row, publish, resend, job, notices, accepted, posts, counted, faults>>

(* remove takes the rows of the deliveries with it, not their jobs. *)
Remover ==
    /\ Edit
    /\ endpoint.exists
    /\ endpoint' = [endpoint EXCEPT !.exists = FALSE]
    /\ row' = [d \in Deliveries |-> "none"]
    /\ UNCHANGED <<publish, resend, job, notices, accepted, posts, counted, faults>>

-----------------------------------------------------------------------------
JobStep(j) ==
    \/ Entregar(j) \/ Resposta(j) \/ SalvarSucesso(j) \/ ZerarContador(j)
    \/ RegistrarTentativa(j) \/ Falhar(j)

Listener == \E n \in notices : AoFalhar(n) \/ ContarFalha(n) \/ Desativar(n)

Next ==
    \/ \E d \in Deliveries :
        \/ Publicar(d) \/ CriarEntrega(d) \/ Enfileirar(d) \/ PublicarFalha(d)
        \/ RetryDelivery(d) \/ MarcarPendente(d) \/ Reenfileirar(d) \/ ReenvioFalha(d)
    \/ \E j \in Jobs : JobStep(j)
    \/ Listener
    \/ Reativar \/ Pausar \/ Remover
    \/ Crash

Spec == Init /\ [][Next]_vars

(* The workers take what waits, and every await settles, the POST by its   *)
(* timeout at the latest.                                                  *)
Fairness == \A j \in Jobs : WF_vars(JobStep(j))

FairSpec == Spec /\ Fairness

-----------------------------------------------------------------------------
(* Properties.                                                             *)

(* FAILED is declared, but nothing writes it. *)
Shown == DeliveryStatus \ {"FAILED"}

TypeOK ==
    /\ endpoint \in Endpoint
    /\ row \in [Deliveries -> {"none"} \cup Shown]
    /\ publish \in [Deliveries -> {"new", "found", "row", "over"}]
    /\ resend \in [Deliveries -> [at: {"no", "found", "marked"}, n: 0..MaxResends]]
    /\ job \in [Jobs -> Job]
    /\ notices \subseteq Notice
    /\ accepted \subseteq Deliveries
    /\ posts \in [Jobs -> Nat]
    /\ counted \subseteq Jobs
    /\ edits \in 0..MaxEdits
    /\ faults \in 0..MaxFaults

(* "Sucesso = 2xx": a delivery shown as SUCCESS was answered with 2xx.     *)
SuccessIsTrue == \A d \in Deliveries : row[d] = "SUCCESS" => d \in accepted

(* A job that used up its attempts. *)
UsedUp(j) == job[j].at = "failed" /\ job[j].made >= MaxAttempts

(* "Esgotadas as tentativas -> ABANDONED": a delivery shown as ABANDONED   *)
(* was posted as often as there are attempts, by one of its jobs.          *)
AbandonedWasTried ==
    \A d \in Deliveries : row[d] = "ABANDONED" =>
        \E j \in Jobs : j[1] = d /\ UsedUp(j) /\ posts[j] >= MaxAttempts

(* The endpoint is not deactivated before as many deliveries failed for    *)
(* good as the threshold says, however often each of them was tried.       *)
DisabledAfterFailures ==
    endpoint.auto => Cardinality({j \in Jobs : UsedUp(j)}) >= Threshold

(* What TypeOK does not say of the queue: a job that was not given up has  *)
(* an attempt left, and every attempt was a POST.                          *)
AttemptsArePosts ==
    \A j \in Jobs :
        /\ job[j].made <= MaxAttempts /\ job[j].made <= posts[j]
        /\ job[j].at # "failed" => job[j].made < MaxAttempts
        /\ job[j].at \in InFlight => job[j].made < posts[j]

(* Each job is queued once. *)
QueuedOnce ==
    \A d \in Deliveries :
        /\ publish[d] # "over" => job[<<d, 0>>].at = "none"
        /\ resend[d].at # "no" => resend[d].n < MaxResends
        /\ \A k \in 0..MaxResends : k > resend[d].n /\ k > 0 => job[<<d, k>>].at = "none"

(* A success is saved only after a 2xx. *)
SavingAfterAnswer == \A j \in Jobs : job[j].at \in {"ok", "saved"} => j[1] \in accepted

(* The listener hears of an attempt once, and counts those that were the   *)
(* last of their jobs.                                                     *)
NoticesAreTrue ==
    \A n \in notices :
        /\ n.made <= job[n.j].made
        /\ n.at # "row" => n.made >= MaxAttempts
        /\ n.at = "disable" => Cardinality({j \in Jobs : UsedUp(j)}) >= Threshold
        /\ \A m \in notices : m.j = n.j /\ m.made = n.made => m = n

(* The counter is the number of jobs that used up their attempts and were  *)
(* counted since it was cleared, each once.                                *)
CounterCounts ==
    /\ endpoint.failures = Cardinality(counted)
    /\ \A j \in counted : UsedUp(j)
    /\ \A n \in notices : n.made >= MaxAttempts /\ n.at # "disable" => n.j \notin counted

(* The inductive invariant of the proofs. *)
IInv ==
    /\ TypeOK
    /\ AttemptsArePosts /\ QueuedOnce /\ SavingAfterAnswer /\ NoticesAreTrue /\ CounterCounts
    /\ SuccessIsTrue /\ AbandonedWasTried /\ DisabledAfterFailures

(* A job that waits is seen through: the integrator answers 2xx, or was    *)
(* asked as often as there are attempts, or the process died under it.     *)
JobIsSeenThrough ==
    \A j \in Jobs :
        job[j].at = "waiting" ~> \/ j[1] \in accepted
                                 \/ UsedUp(j) /\ posts[j] >= MaxAttempts
                                 \/ job[j].stalled
=============================================================================
