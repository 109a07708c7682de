------------------------ MODULE WebhookDeliveryProofs ------------------------
(***************************************************************************)
(* What WebhookDelivery guarantees for any deliveries, resends, attempts,  *)
(* threshold, edits and faults.                                            *)
(*                                                                         *)
(* The argument.  A job is given up for its attempts only after as many    *)
(* POSTs (AttemptsArePosts), and stays given up, for it is queued once     *)
(* (QueuedOnce).  The listener hears once of its last attempt, so the      *)
(* counter is the number of distinct jobs that were given up since it was  *)
(* cleared, and what it says when it reaches the threshold stays true of   *)
(* all the jobs given up so far, whatever happens before the deactivation. *)
(***************************************************************************)
EXTENDS WebhookDelivery, FiniteSetTheorems, TLAPS

-----------------------------------------------------------------------------
(* Type correctness.                                                       *)

LEMMA JobFields ==
  ASSUME NEW r \in Job
  PROVE  /\ r.made \in Nat /\ r.stalled \in BOOLEAN
         /\ \A at \in InFlight \cup {"waiting", "done", "failed"} :
                [r EXCEPT !.at = at] \in Job
         /\ \A at \in {"waiting", "failed"}, made \in Nat :
                [r EXCEPT !.at = at, !.made = made] \in Job
         /\ \A at \in {"waiting", "failed"} :
                [r EXCEPT !.at = at, !.stalled = TRUE] \in Job
  BY DEF Job

LEMMA EndpointFields ==
  ASSUME NEW e \in Endpoint
  PROVE  /\ e.exists \in BOOLEAN /\ e.active \in BOOLEAN /\ e.failures \in Nat
         /\ e.auto \in BOOLEAN
         /\ \A f \in Nat : [e EXCEPT !.failures = f] \in Endpoint
         /\ [e EXCEPT !.active = FALSE] \in Endpoint
         /\ [e EXCEPT !.active = FALSE, !.auto = TRUE] \in Endpoint
         /\ [e EXCEPT !.active = TRUE, !.auto = FALSE] \in Endpoint
         /\ [e EXCEPT !.exists = FALSE] \in Endpoint
  BY DEF Endpoint

LEMMA MoveType ==
  ASSUME TypeOK, NEW j \in Jobs, NEW from, NEW to \in InFlight \cup {"done"}, Move(j, from, to)
  PROVE  job' \in [Jobs -> Job]
<1>1. [job[j] EXCEPT !.at = to] \in Job
  BY JobFields DEF TypeOK
<1> QED
  BY <1>1 DEF TypeOK, Move

LEMMA SetStatusType ==
  ASSUME TypeOK, NEW d \in Deliveries, NEW st \in Shown, SetStatus(d, st)
  PROVE  row' \in [Deliveries -> {"none"} \cup Shown]
  BY DEF TypeOK, SetStatus

LEMMA FaultType == TypeOK /\ (Fault \/ UNCHANGED faults) => faults' \in 0..MaxFaults
  BY DeliveryAssumption DEF TypeOK, Fault

LEMMA ClearType ==
  ASSUME NEW e \in Endpoint, ClearCounter(e)
  PROVE  endpoint' \in Endpoint /\ counted' \subseteq Jobs
  BY EndpointFields DEF ClearCounter

LEMMA DieType ==
  ASSUME TypeOK, Die
  PROVE  /\ job' \in [Jobs -> Job]
         /\ notices' \subseteq Notice
         /\ publish' \in [Deliveries -> {"new", "found", "row", "over"}]
         /\ resend' \in [Deliveries -> [at: {"no", "found", "marked"}, n: 0..MaxResends]]
         /\ UNCHANGED <<endpoint, row, accepted, posts, counted, edits>>
<1> USE DEF TypeOK
<1>1. \A j \in Jobs : /\ job[j].made \in Nat /\ job[j] \in Job
                      /\ [job[j] EXCEPT !.at = "waiting", !.stalled = TRUE] \in Job
                      /\ [job[j] EXCEPT !.at = "failed", !.stalled = TRUE] \in Job
  BY JobFields
<1>2. job' \in [Jobs -> Job]
  BY <1>1 DEF Die
<1>3. ASSUME NEW n \in notices' PROVE n \in Notice
  <2>1. PICK j \in Jobs : n = [j |-> j, made |-> job[j].made, at |-> "row"]
    BY DEF Die
  <2> QED
    BY <1>1, <2>1 DEF Notice
<1>4. publish' \in [Deliveries -> {"new", "found", "row", "over"}]
  BY DEF Die
<1>5. resend' \in [Deliveries -> [at: {"no", "found", "marked"}, n: 0..MaxResends]]
  BY DEF Die
<1> QED
  BY <1>2, <1>3, <1>4, <1>5 DEF Die

LEMMA TypeInit == Init => TypeOK
  BY DeliveryAssumption DEF Init, TypeOK, Endpoint, Job

LEMMA TypeStep == TypeOK /\ QueuedOnce /\ [Next]_vars => TypeOK'
<1> SUFFICES ASSUME TypeOK, QueuedOnce, [Next]_vars PROVE TypeOK'
  OBVIOUS
<1> USE DeliveryAssumption DEF TypeOK
<1>1. ASSUME NEW d \in Deliveries, Publicar(d) PROVE TypeOK'
  BY <1>1 DEF Publicar
<1>2. ASSUME NEW d \in Deliveries, CriarEntrega(d) PROVE TypeOK'
  BY <1>2 DEF CriarEntrega, Shown, DeliveryStatus
<1>3. ASSUME NEW d \in Deliveries, Enfileirar(d) PROVE TypeOK'
  <2>1. <<d, 0>> \in Jobs
    BY DEF Jobs
  <2>2. [job[<<d, 0>>] EXCEPT !.at = "waiting"] \in Job
    BY <2>1, JobFields
  <2> QED
    BY <1>3, <2>1, <2>2 DEF Enfileirar
<1>4. ASSUME NEW d \in Deliveries, PublicarFalha(d) PROVE TypeOK'
  BY <1>4 DEF PublicarFalha, Fault
<1>5. ASSUME NEW d \in Deliveries, RetryDelivery(d) PROVE TypeOK'
  BY <1>5 DEF RetryDelivery
<1>6. ASSUME NEW d \in Deliveries, MarcarPendente(d) PROVE TypeOK'
  <2>1. row' \in [Deliveries -> {"none"} \cup Shown]
    BY <1>6, SetStatusType DEF MarcarPendente, Shown, DeliveryStatus
  <2> QED
    BY <1>6, <2>1 DEF MarcarPendente
<1>7. ASSUME NEW d \in Deliveries, Reenfileirar(d) PROVE TypeOK'
  <2>0. resend[d].n \in 0..MaxResends /\ resend[d].n < MaxResends
    BY <1>7 DEF Reenfileirar, QueuedOnce
  <2>1. resend[d].n + 1 \in 0..MaxResends
    BY <2>0
  <2>2. <<d, resend[d].n + 1>> \in Jobs
    BY <2>1 DEF Jobs
  <2>3. [job[<<d, resend[d].n + 1>>] EXCEPT !.at = "waiting"] \in Job
    BY <2>2, JobFields
  <2>4. job' \in [Jobs -> Job]
    BY <1>7, <2>2, <2>3 DEF Reenfileirar
  <2>5. resend' \in [Deliveries -> [at: {"no", "found", "marked"}, n: 0..MaxResends]]
    BY <1>7, <2>1 DEF Reenfileirar
  <2> QED
    BY <1>7, <2>4, <2>5 DEF Reenfileirar
<1>8. ASSUME NEW d \in Deliveries, ReenvioFalha(d) PROVE TypeOK'
  BY <1>8 DEF ReenvioFalha, Fault
<1>9. ASSUME NEW j \in Jobs, Entregar(j) PROVE TypeOK'
  <2>1. job' \in [Jobs -> Job]
    BY <1>9, MoveType DEF Entregar, InFlight
  <2>2. posts' \in [Jobs -> Nat]
    BY <1>9 DEF Entregar
  <2> QED
    BY <1>9, <2>1, <2>2 DEF Entregar
<1>10. ASSUME NEW j \in Jobs, Resposta(j) PROVE TypeOK'
  <2>1. job' \in [Jobs -> Job]
    BY <1>10, MoveType DEF Resposta, InFlight
  <2>2. accepted' \subseteq Deliveries
    BY <1>10 DEF Resposta, Jobs
  <2> QED
    BY <1>10, <2>1, <2>2 DEF Resposta
<1>11. ASSUME NEW j \in Jobs, SalvarSucesso(j) PROVE TypeOK'
  <2>1. job' \in [Jobs -> Job]
    BY <1>11, MoveType DEF SalvarSucesso, InFlight
  <2>2. row' \in [Deliveries -> {"none"} \cup Shown]
    BY <1>11, SetStatusType DEF SalvarSucesso, Jobs, Shown, DeliveryStatus
  <2>3. faults' \in 0..MaxFaults
    BY <1>11, FaultType DEF SalvarSucesso
  <2> QED
    BY <1>11, <2>1, <2>2, <2>3 DEF SalvarSucesso
<1>12. ASSUME NEW j \in Jobs, ZerarContador(j) PROVE TypeOK'
  <2>1. job' \in [Jobs -> Job]
    BY <1>12, MoveType DEF ZerarContador, InFlight
  <2>2. endpoint' \in Endpoint /\ counted' \subseteq Jobs
    BY <1>12, ClearType DEF ZerarContador
  <2>3. faults' \in 0..MaxFaults
    BY <1>12, FaultType DEF ZerarContador
  <2> QED
    BY <1>12, <2>1, <2>2, <2>3 DEF ZerarContador
<1>13. ASSUME NEW j \in Jobs, RegistrarTentativa(j) PROVE TypeOK'
  <2>1. job' \in [Jobs -> Job]
    BY <1>13, MoveType DEF RegistrarTentativa, InFlight
  <2>2. row' \in [Deliveries -> {"none"} \cup Shown]
    BY <1>13, SetStatusType DEF RegistrarTentativa, Jobs, Shown, DeliveryStatus
  <2>3. faults' \in 0..MaxFaults
    BY <1>13, FaultType DEF RegistrarTentativa
  <2> QED
    BY <1>13, <2>1, <2>2, <2>3 DEF RegistrarTentativa
<1>14. ASSUME NEW j \in Jobs, Falhar(j) PROVE TypeOK'
  <2>0. job[j] \in Job /\ job[j].made \in Nat
    BY JobFields
  <2>1. job[j].made + 1 \in Nat
    BY <2>0
  <2>2. \A at \in {"waiting", "failed"} :
           [job[j] EXCEPT !.at = at, !.made = job[j].made + 1] \in Job
    BY <2>1, JobFields
  <2>3. job' \in [Jobs -> Job]
    BY <1>14, <2>2 DEF Falhar
  <2>4. notices' \subseteq Notice
    BY <1>14, <2>1 DEF Falhar, Notice
  <2> QED
    BY <1>14, <2>3, <2>4 DEF Falhar
<1>15. ASSUME NEW n \in notices, AoFalhar(n) PROVE TypeOK'
  <2>1. n \in Notice /\ n.j[1] \in Deliveries
    BY DEF Notice, Jobs
  <2>2. [n EXCEPT !.at = "count"] \in Notice
    BY <2>1 DEF Notice
  <2>3. row' \in [Deliveries -> {"none"} \cup Shown]
    BY <1>15, <2>1, SetStatusType DEF AoFalhar, Shown, DeliveryStatus
  <2>4. faults' \in 0..MaxFaults
    BY <1>15, FaultType DEF AoFalhar
  <2> QED
    BY <1>15, <2>2, <2>3, <2>4 DEF AoFalhar
<1>16. ASSUME NEW n \in notices, ContarFalha(n) PROVE TypeOK'
  <2>1. CASE Die
    BY <1>16, <2>1, DieType, FaultType DEF ContarFalha
  <2>2. CASE ~Die
    <3>1. [n EXCEPT !.at = "disable"] \in Notice /\ n.j \in Jobs
      BY DEF Notice
    <3>0. endpoint.failures \in Nat
      BY EndpointFields
    <3>4. endpoint.failures + 1 \in Nat
      BY <3>0
    <3>2. [endpoint EXCEPT !.failures = endpoint.failures + 1] \in Endpoint
      BY <3>4, EndpointFields
    <3> QED
      BY <1>16, <2>2, <3>1, <3>2 DEF ContarFalha
  <2> QED
    BY <2>1, <2>2
<1>17. ASSUME NEW n \in notices, Desativar(n) PROVE TypeOK'
  <2>1. CASE Die
    BY <1>17, <2>1, DieType, FaultType DEF Desativar
  <2>2. CASE ~Die
    BY <1>17, <2>2, EndpointFields DEF Desativar
  <2> QED
    BY <2>1, <2>2
<1>18. CASE Reativar
  <2>1. endpoint' \in Endpoint /\ counted' \subseteq Jobs
    BY <1>18, ClearType, EndpointFields DEF Reativar
  <2> QED
    BY <1>18, <2>1 DEF Reativar, Edit
<1>19. CASE Pausar
  <2>1. endpoint' \in Endpoint
    BY <1>19, EndpointFields DEF Pausar
  <2> QED
    BY <1>19, <2>1 DEF Pausar, Edit
<1>20. CASE Remover
  <2>1. endpoint' \in Endpoint
    BY <1>20, EndpointFields DEF Remover
  <2> QED
    BY <1>20, <2>1 DEF Remover, Edit
<1>21. CASE Crash
  BY <1>21, DieType, FaultType DEF Crash
<1>22. CASE UNCHANGED vars
  BY <1>22 DEF vars
<1> QED
  BY <1>1, <1>2, <1>3, <1>4, <1>5, <1>6, <1>7, <1>8, <1>9, <1>10, <1>11,
     <1>12, <1>13, <1>14, <1>15, <1>16, <1>17, <1>18, <1>19, <1>20, <1>21,
     <1>22
  DEF Next, JobStep, Listener

-----------------------------------------------------------------------------
(* What the steps do to the jobs.                                          *)

LEMMA NatFacts ==
  ASSUME TypeOK
  PROVE  \A j \in Jobs : job[j].made \in Nat /\ posts[j] \in Nat
  BY JobFields DEF TypeOK

LEMMA MoveFields ==
  ASSUME TypeOK, NEW j \in Jobs, NEW from, NEW to, Move(j, from, to)
  PROVE  /\ job[j].at = from /\ job'[j].at = to
         /\ \A k \in Jobs : job'[k].made = job[k].made /\ (k # j => job'[k] = job[k])
<1>1. job[j] \in Job
  BY DEF TypeOK
<1>2. /\ [job[j] EXCEPT !.at = to].at = to
      /\ [job[j] EXCEPT !.at = to].made = job[j].made
  BY <1>1 DEF Job
<1> QED
  BY <1>1, <1>2 DEF Move, TypeOK

LEMMA EnqueueFields ==
  ASSUME TypeOK, NEW j \in Jobs, job' = [job EXCEPT ![j].at = "waiting"]
  PROVE  /\ job'[j].at = "waiting"
         /\ \A k \in Jobs : job'[k].made = job[k].made /\ (k # j => job'[k] = job[k])
<1>1. job[j] \in Job
  BY DEF TypeOK
<1>2. /\ [job[j] EXCEPT !.at = "waiting"].at = "waiting"
      /\ [job[j] EXCEPT !.at = "waiting"].made = job[j].made
  BY <1>1 DEF Job
<1> QED
  BY <1>1, <1>2 DEF TypeOK

LEMMA FalharFields ==
  ASSUME TypeOK, NEW j \in Jobs, Falhar(j)
  PROVE  /\ job[j].at = "failing" /\ job'[j].made = job[j].made + 1
         /\ job'[j].at = IF job[j].made + 1 < MaxAttempts THEN "waiting" ELSE "failed"
         /\ \A k \in Jobs : k # j => job'[k] = job[k]
<1> DEFINE to == IF job[j].made + 1 < MaxAttempts THEN "waiting" ELSE "failed"
           r == [job[j] EXCEPT !.at = to, !.made = job[j].made + 1]
<1>1. job[j] \in Job
  BY DEF TypeOK
<1>2. r.at = to /\ r.made = job[j].made + 1
  BY <1>1 DEF Job
<1>3. job' = [job EXCEPT ![j] = r] /\ job[j].at = "failing"
  BY <1>1 DEF Falhar, Attempts
<1>4. job'[j] = r
  BY <1>3 DEF TypeOK
<1> HIDE DEF r
<1> QED
  BY <1>2, <1>3, <1>4 DEF TypeOK

LEMMA DieFields ==
  ASSUME TypeOK, Die
  PROVE  \A k \in Jobs :
            /\ job'[k].made = job[k].made
            /\ job[k].at \in InFlight => job'[k].at \in {"waiting", "failed"}
            /\ job[k].at \notin InFlight => job'[k] = job[k]
<1> SUFFICES ASSUME NEW k \in Jobs
             PROVE  /\ job'[k].made = job[k].made
                    /\ job[k].at \in InFlight => job'[k].at \in {"waiting", "failed"}
                    /\ job[k].at \notin InFlight => job'[k] = job[k]
  OBVIOUS
<1>1. job[k] \in Job
  BY DEF TypeOK
<1>2. \A at : /\ [job[k] EXCEPT !.at = at, !.stalled = TRUE].at = at
              /\ [job[k] EXCEPT !.at = at, !.stalled = TRUE].made = job[k].made
  BY <1>1 DEF Job
<1>3. CASE job[k].at \in InFlight
  <2>1. job'[k] \in {[job[k] EXCEPT !.at = "failed", !.stalled = TRUE],
                     [job[k] EXCEPT !.at = "waiting", !.stalled = TRUE]}
    BY <1>3 DEF Die
  <2> QED
    BY <1>2, <1>3, <2>1
<1>4. CASE job[k].at \notin InFlight
  BY <1>4 DEF Die
<1> QED
  BY <1>3, <1>4

LEMMA EnqueuedFresh ==
  ASSUME TypeOK, QueuedOnce, NEW d \in Deliveries, Enfileirar(d) \/ Reenfileirar(d)
  PROVE  \E j \in Jobs : job[j].at = "none" /\ job' = [job EXCEPT ![j].at = "waiting"]
<1>1. CASE Enfileirar(d)
  <2>1. <<d, 0>> \in Jobs
    BY DeliveryAssumption DEF Jobs
  <2>2. job[<<d, 0>>].at = "none"
    BY <1>1 DEF Enfileirar, QueuedOnce
  <2> QED
    BY <1>1, <2>1, <2>2 DEF Enfileirar
<1>2. CASE Reenfileirar(d)
  <2> DEFINE i == resend[d].n + 1
  <2>1. resend[d].n \in 0..MaxResends /\ resend[d].n < MaxResends
    BY <1>2 DEF Reenfileirar, QueuedOnce, TypeOK
  <2>2. i \in 0..MaxResends /\ i > resend[d].n /\ i > 0
    BY <2>1, DeliveryAssumption
  <2>3. <<d, i>> \in Jobs
    BY <2>2 DEF Jobs
  <2>4. job[<<d, i>>].at = "none"
    BY <2>2 DEF QueuedOnce
  <2> QED
    BY <1>2, <2>3, <2>4 DEF Reenfileirar
<1> QED
  BY <1>1, <1>2

-----------------------------------------------------------------------------
(* The inductive invariant, part by part.                                  *)

LEMMA AttemptsStep ==
  TypeOK /\ QueuedOnce /\ AttemptsArePosts /\ [Next]_vars => AttemptsArePosts'
<1> SUFFICES ASSUME TypeOK, QueuedOnce, AttemptsArePosts, [Next]_vars PROVE AttemptsArePosts'
  OBVIOUS
<1>0. \A j \in Jobs : job[j].made \in Nat /\ posts[j] \in Nat
  BY NatFacts
<1> USE <1>0, DeliveryAssumption DEF AttemptsArePosts, InFlight
<1>1. ASSUME NEW d \in Deliveries, Publicar(d) PROVE AttemptsArePosts'
  BY <1>1 DEF Publicar
<1>2. ASSUME NEW d \in Deliveries, CriarEntrega(d) PROVE AttemptsArePosts'
  BY <1>2 DEF CriarEntrega
<1>3. ASSUME NEW d \in Deliveries, Enfileirar(d) PROVE AttemptsArePosts'
  <2>1. PICK j \in Jobs : job[j].at = "none" /\ job' = [job EXCEPT ![j].at = "waiting"]
    BY <1>3, EnqueuedFresh
  <2> QED
    BY <1>3, <2>1, EnqueueFields DEF Enfileirar
<1>4. ASSUME NEW d \in Deliveries, PublicarFalha(d) PROVE AttemptsArePosts'
  BY <1>4 DEF PublicarFalha
<1>5. ASSUME NEW d \in Deliveries, RetryDelivery(d) PROVE AttemptsArePosts'
  BY <1>5 DEF RetryDelivery
<1>6. ASSUME NEW d \in Deliveries, MarcarPendente(d) PROVE AttemptsArePosts'
  BY <1>6 DEF MarcarPendente
<1>7. ASSUME NEW d \in Deliveries, Reenfileirar(d) PROVE AttemptsArePosts'
  <2>1. PICK j \in Jobs : job[j].at = "none" /\ job' = [job EXCEPT ![j].at = "waiting"]
    BY <1>7, EnqueuedFresh
  <2> QED
    BY <1>7, <2>1, EnqueueFields DEF Reenfileirar
<1>8. ASSUME NEW d \in Deliveries, ReenvioFalha(d) PROVE AttemptsArePosts'
  BY <1>8 DEF ReenvioFalha
<1>9. ASSUME NEW j \in Jobs, Entregar(j) PROVE AttemptsArePosts'
  <2>1. \A k \in Jobs : posts'[k] = IF k = j THEN posts[k] + 1 ELSE posts[k]
    BY <1>9 DEF Entregar, TypeOK
  <2> QED
    BY <1>9, <2>1, MoveFields DEF Entregar
<1>10. ASSUME NEW j \in Jobs, Resposta(j) PROVE AttemptsArePosts'
  BY <1>10, MoveFields DEF Resposta
<1>11. ASSUME NEW j \in Jobs, SalvarSucesso(j) PROVE AttemptsArePosts'
  BY <1>11, MoveFields DEF SalvarSucesso
<1>12. ASSUME NEW j \in Jobs, ZerarContador(j) PROVE AttemptsArePosts'
  BY <1>12, MoveFields DEF ZerarContador
<1>13. ASSUME NEW j \in Jobs, RegistrarTentativa(j) PROVE AttemptsArePosts'
  BY <1>13, MoveFields DEF RegistrarTentativa
<1>14. ASSUME NEW j \in Jobs, Falhar(j) PROVE AttemptsArePosts'
  <2>1. job[j].made < posts[j] /\ job[j].made < MaxAttempts
    BY <1>14, FalharFields
  <2>2. posts' = posts
    BY <1>14 DEF Falhar
  <2>3. /\ job'[j].made = job[j].made + 1
        /\ job'[j].at = IF job[j].made + 1 < MaxAttempts THEN "waiting" ELSE "failed"
        /\ \A k \in Jobs : k # j => job'[k] = job[k]
    BY <1>14, FalharFields
  <2> QED
    BY <2>1, <2>2, <2>3
<1>15. ASSUME NEW n \in notices, AoFalhar(n) PROVE AttemptsArePosts'
  BY <1>15 DEF AoFalhar
<1>16. ASSUME NEW n \in notices, ContarFalha(n) PROVE AttemptsArePosts'
  <2>1. CASE Die
    BY <2>1, DieFields, DieType
  <2>2. CASE ~Die
    BY <1>16, <2>2 DEF ContarFalha
  <2> QED
    BY <2>1, <2>2
<1>17. ASSUME NEW n \in notices, Desativar(n) PROVE AttemptsArePosts'
  <2>1. CASE Die
    BY <2>1, DieFields, DieType
  <2>2. CASE ~Die
    BY <1>17, <2>2 DEF Desativar
  <2> QED
    BY <2>1, <2>2
<1>18. CASE Reativar
  BY <1>18 DEF Reativar
<1>19. CASE Pausar
  BY <1>19 DEF Pausar
<1>20. CASE Remover
  BY <1>20 DEF Remover
<1>21. CASE Crash
  BY <1>21, DieFields, DieType DEF Crash
<1>22. CASE UNCHANGED vars
  BY <1>22 DEF vars
<1> QED
  BY <1>1, <1>2, <1>3, <1>4, <1>5, <1>6, <1>7, <1>8, <1>9, <1>10, <1>11,
     <1>12, <1>13, <1>14, <1>15, <1>16, <1>17, <1>18, <1>19, <1>20, <1>21,
     <1>22
  DEF Next, JobStep, Listener

(* What never goes back. *)
Forward ==
  /\ accepted \subseteq accepted'
  /\ \A j \in Jobs :
        job'[j].made >= job[j].made /\ posts'[j] >= posts[j] /\ (UsedUp(j) => UsedUp(j)')


LEMMA ForwardStep ==
  TypeOK /\ QueuedOnce /\ [Next]_vars =>
    Forward
<1> SUFFICES ASSUME TypeOK, QueuedOnce, [Next]_vars
             PROVE  Forward
  OBVIOUS
<1>0. \A j \in Jobs : job[j].made \in Nat /\ posts[j] \in Nat
  BY NatFacts
<1> USE <1>0, DeliveryAssumption DEF Forward, UsedUp, InFlight
<1>1. ASSUME NEW d \in Deliveries, Publicar(d) PROVE Forward
  BY <1>1 DEF Publicar
<1>2. ASSUME NEW d \in Deliveries, CriarEntrega(d) PROVE Forward
  BY <1>2 DEF CriarEntrega
<1>3. ASSUME NEW d \in Deliveries, Enfileirar(d) PROVE Forward
  <2>1. PICK j \in Jobs : job[j].at = "none" /\ job' = [job EXCEPT ![j].at = "waiting"]
    BY <1>3, EnqueuedFresh
  <2>2. \A k \in Jobs : job'[k].made = job[k].made /\ (k # j => job'[k] = job[k])
    BY <2>1, EnqueueFields
  <2>3. posts' = posts /\ accepted' = accepted
    BY <1>3 DEF Enfileirar
  <2> QED
    BY <2>1, <2>2, <2>3
<1>4. ASSUME NEW d \in Deliveries, PublicarFalha(d) PROVE Forward
  BY <1>4 DEF PublicarFalha
<1>5. ASSUME NEW d \in Deliveries, RetryDelivery(d) PROVE Forward
  BY <1>5 DEF RetryDelivery
<1>6. ASSUME NEW d \in Deliveries, MarcarPendente(d) PROVE Forward
  BY <1>6 DEF MarcarPendente
<1>7. ASSUME NEW d \in Deliveries, Reenfileirar(d) PROVE Forward
  <2>1. PICK j \in Jobs : job[j].at = "none" /\ job' = [job EXCEPT ![j].at = "waiting"]
    BY <1>7, EnqueuedFresh
  <2>2. \A k \in Jobs : job'[k].made = job[k].made /\ (k # j => job'[k] = job[k])
    BY <2>1, EnqueueFields
  <2>3. posts' = posts /\ accepted' = accepted
    BY <1>7 DEF Reenfileirar
  <2> QED
    BY <2>1, <2>2, <2>3
<1>8. ASSUME NEW d \in Deliveries, ReenvioFalha(d) PROVE Forward
  BY <1>8 DEF ReenvioFalha
<1>9. ASSUME NEW j \in Jobs, Entregar(j) PROVE Forward
  <2>1. \A k \in Jobs : posts'[k] >= posts[k]
    BY <1>9 DEF Entregar, TypeOK
  <2> QED
    BY <1>9, <2>1, MoveFields DEF Entregar
<1>10. ASSUME NEW j \in Jobs, Resposta(j) PROVE Forward
  BY <1>10, MoveFields DEF Resposta
<1>11. ASSUME NEW j \in Jobs, SalvarSucesso(j) PROVE Forward
  BY <1>11, MoveFields DEF SalvarSucesso
<1>12. ASSUME NEW j \in Jobs, ZerarContador(j) PROVE Forward
  BY <1>12, MoveFields DEF ZerarContador
<1>13. ASSUME NEW j \in Jobs, RegistrarTentativa(j) PROVE Forward
  BY <1>13, MoveFields DEF RegistrarTentativa
<1>14. ASSUME NEW j \in Jobs, Falhar(j) PROVE Forward
  <2>2. posts' = posts /\ accepted' = accepted
    BY <1>14 DEF Falhar
  <2>3. /\ job'[j].made = job[j].made + 1 /\ job[j].at = "failing"
        /\ \A k \in Jobs : k # j => job'[k] = job[k]
    BY <1>14, FalharFields
  <2> QED
    BY <2>2, <2>3
<1>15. ASSUME NEW n \in notices, AoFalhar(n) PROVE Forward
  BY <1>15 DEF AoFalhar
<1>16. ASSUME NEW n \in notices, ContarFalha(n) PROVE Forward
  <2>1. CASE Die
    BY <2>1, DieFields, DieType
  <2>2. CASE ~Die
    BY <1>16, <2>2 DEF ContarFalha
  <2> QED
    BY <2>1, <2>2
<1>17. ASSUME NEW n \in notices, Desativar(n) PROVE Forward
  <2>1. CASE Die
    BY <2>1, DieFields, DieType
  <2>2. CASE ~Die
    BY <1>17, <2>2 DEF Desativar
  <2> QED
    BY <2>1, <2>2
<1>18. CASE Reativar
  BY <1>18 DEF Reativar
<1>19. CASE Pausar
  BY <1>19 DEF Pausar
<1>20. CASE Remover
  BY <1>20 DEF Remover
<1>21. CASE Crash
  BY <1>21, DieFields, DieType DEF Crash
<1>22. CASE UNCHANGED vars
  BY <1>22 DEF vars
<1> QED
  BY <1>1, <1>2, <1>3, <1>4, <1>5, <1>6, <1>7, <1>8, <1>9, <1>10, <1>11,
     <1>12, <1>13, <1>14, <1>15, <1>16, <1>17, <1>18, <1>19, <1>20, <1>21,
     <1>22
  DEF Next, JobStep, Listener

LEMMA JobsFinite == IsFiniteSet(Jobs)
<1>1. IsFiniteSet(0..MaxResends)
  BY DeliveryAssumption, FS_Interval
<1> QED
  BY <1>1, DeliveryAssumption, FS_Product DEF Jobs

LEMMA UsedUpGrows ==
  ASSUME Forward
  PROVE  /\ IsFiniteSet({j \in Jobs : UsedUp(j)})
         /\ Cardinality({j \in Jobs : UsedUp(j)}) \in Nat
         /\ Cardinality({j \in Jobs : UsedUp(j)}') \in Nat
         /\ Cardinality({j \in Jobs : UsedUp(j)}) <= Cardinality({j \in Jobs : UsedUp(j)}')
<1>1. {j \in Jobs : UsedUp(j)} \subseteq {j \in Jobs : UsedUp(j)}'
  BY DEF Forward
<1>2. {j \in Jobs : UsedUp(j)} \subseteq Jobs /\ {j \in Jobs : UsedUp(j)}' \subseteq Jobs
  OBVIOUS
<1>3. IsFiniteSet({j \in Jobs : UsedUp(j)}) /\ IsFiniteSet({j \in Jobs : UsedUp(j)}')
  BY <1>2, JobsFinite, FS_Subset
<1> QED
  BY <1>1, <1>3, FS_Subset, FS_CardinalityType


LEMMA SavingStep ==
  TypeOK /\ QueuedOnce /\ SavingAfterAnswer /\ [Next]_vars =>
    SavingAfterAnswer'
<1> SUFFICES ASSUME TypeOK, QueuedOnce, SavingAfterAnswer, [Next]_vars
             PROVE  SavingAfterAnswer'
  OBVIOUS
<1> USE DEF SavingAfterAnswer, InFlight
<1>1. ASSUME NEW d \in Deliveries, Publicar(d) PROVE SavingAfterAnswer'
  BY <1>1 DEF Publicar
<1>2. ASSUME NEW d \in Deliveries, CriarEntrega(d) PROVE SavingAfterAnswer'
  BY <1>2 DEF CriarEntrega
<1>3. ASSUME NEW d \in Deliveries, Enfileirar(d) PROVE SavingAfterAnswer'
  <2>1. PICK j \in Jobs : job[j].at = "none" /\ job' = [job EXCEPT ![j].at = "waiting"]
    BY <1>3, EnqueuedFresh
  <2> QED
    BY <1>3, <2>1, EnqueueFields DEF Enfileirar
<1>4. ASSUME NEW d \in Deliveries, PublicarFalha(d) PROVE SavingAfterAnswer'
  BY <1>4 DEF PublicarFalha
<1>5. ASSUME NEW d \in Deliveries, RetryDelivery(d) PROVE SavingAfterAnswer'
  BY <1>5 DEF RetryDelivery
<1>6. ASSUME NEW d \in Deliveries, MarcarPendente(d) PROVE SavingAfterAnswer'
  BY <1>6 DEF MarcarPendente
<1>7. ASSUME NEW d \in Deliveries, Reenfileirar(d) PROVE SavingAfterAnswer'
  <2>1. PICK j \in Jobs : job[j].at = "none" /\ job' = [job EXCEPT ![j].at = "waiting"]
    BY <1>7, EnqueuedFresh
  <2> QED
    BY <1>7, <2>1, EnqueueFields DEF Reenfileirar
<1>8. ASSUME NEW d \in Deliveries, ReenvioFalha(d) PROVE SavingAfterAnswer'
  BY <1>8 DEF ReenvioFalha
<1>9. ASSUME NEW j \in Jobs, Entregar(j) PROVE SavingAfterAnswer'
  BY <1>9, MoveFields DEF Entregar
<1>10. ASSUME NEW j \in Jobs, Resposta(j) PROVE SavingAfterAnswer'
  BY <1>10, MoveFields DEF Resposta
<1>11. ASSUME NEW j \in Jobs, SalvarSucesso(j) PROVE SavingAfterAnswer'
  BY <1>11, MoveFields DEF SalvarSucesso
<1>12. ASSUME NEW j \in Jobs, ZerarContador(j) PROVE SavingAfterAnswer'
  BY <1>12, MoveFields DEF ZerarContador
<1>13. ASSUME NEW j \in Jobs, RegistrarTentativa(j) PROVE SavingAfterAnswer'
  BY <1>13, MoveFields DEF RegistrarTentativa
<1>14. ASSUME NEW j \in Jobs, Falhar(j) PROVE SavingAfterAnswer'
  <2>1. accepted' = accepted
    BY <1>14 DEF Falhar
  <2>2. job'[j].at \in {"waiting", "failed"} /\ \A k \in Jobs : k # j => job'[k] = job[k]
    BY <1>14, FalharFields
  <2> QED
    BY <2>1, <2>2
<1>15. ASSUME NEW n \in notices, AoFalhar(n) PROVE SavingAfterAnswer'
  BY <1>15 DEF AoFalhar
<1>16. ASSUME NEW n \in notices, ContarFalha(n) PROVE SavingAfterAnswer'
  <2>1. CASE Die
    BY <2>1, DieFields, DieType
  <2>2. CASE ~Die
    BY <1>16, <2>2 DEF ContarFalha
  <2> QED
    BY <2>1, <2>2
<1>17. ASSUME NEW n \in notices, Desativar(n) PROVE SavingAfterAnswer'
  <2>1. CASE Die
    BY <2>1, DieFields, DieType
  <2>2. CASE ~Die
    BY <1>17, <2>2 DEF Desativar
  <2> QED
    BY <2>1, <2>2
<1>18. CASE Reativar
  BY <1>18 DEF Reativar
<1>19. CASE Pausar
  BY <1>19 DEF Pausar
<1>20. CASE Remover
  BY <1>20 DEF Remover
<1>21. CASE Crash
  BY <1>21, DieFields, DieType DEF Crash
<1>22. CASE UNCHANGED vars
  BY <1>22 DEF vars
<1> QED
  BY <1>1, <1>2, <1>3, <1>4, <1>5, <1>6, <1>7, <1>8, <1>9, <1>10, <1>11,
     <1>12, <1>13, <1>14, <1>15, <1>16, <1>17, <1>18, <1>19, <1>20, <1>21,
     <1>22
  DEF Next, JobStep, Listener

LEMMA QueuedOnceFrame ==
  ASSUME QueuedOnce,
         \A k \in Jobs : job[k].at = "none" => job'[k].at = "none",
         \A e \in Deliveries : publish'[e] # "over" => publish[e] # "over",
         \A e \in Deliveries :
            /\ resend'[e].n = resend[e].n
            /\ resend'[e].at # "no" => resend[e].at # "no" \/ resend[e].n < MaxResends
  PROVE  QueuedOnce'
<1> SUFFICES ASSUME NEW e \in Deliveries
             PROVE  /\ publish'[e] # "over" => job'[<<e, 0>>].at = "none"
                    /\ resend'[e].at # "no" => resend'[e].n < MaxResends
                    /\ \A k \in 0..MaxResends :
                          k > resend'[e].n /\ k > 0 => job'[<<e, k>>].at = "none"
  BY DEF QueuedOnce
<1>1. \A k \in 0..MaxResends : <<e, k>> \in Jobs
  BY DEF Jobs
<1>2. 0 \in 0..MaxResends
  BY DeliveryAssumption
<1>3. publish'[e] # "over" => job'[<<e, 0>>].at = "none"
  BY <1>1, <1>2 DEF QueuedOnce
<1>4. resend'[e].at # "no" => resend'[e].n < MaxResends
  BY DEF QueuedOnce
<1>5. ASSUME NEW k \in 0..MaxResends, k > resend'[e].n, k > 0 PROVE job'[<<e, k>>].at = "none"
  <2>1. job[<<e, k>>].at = "none"
    BY <1>5 DEF QueuedOnce
  <2> QED
    BY <1>1, <2>1
<1> QED
  BY <1>3, <1>4, <1>5


LEMMA QueuedOnceDie == TypeOK /\ QueuedOnce /\ Die => QueuedOnce'
<1> SUFFICES ASSUME TypeOK, QueuedOnce, Die PROVE QueuedOnce'
  OBVIOUS
<1>1. \A k \in Jobs : job[k].at = "none" => job'[k].at = "none"
  BY DieFields DEF InFlight
<1>2. \A e \in Deliveries : publish'[e] # "over" => publish[e] # "over"
  BY DEF Die, TypeOK
<1>3. \A e \in Deliveries : resend'[e].at = "no" /\ resend'[e].n = resend[e].n
  BY DEF Die, TypeOK
<1> QED
  BY <1>1, <1>2, <1>3, QueuedOnceFrame


LEMMA QueuedOnceStep ==
  TypeOK /\ QueuedOnce /\ [Next]_vars =>
    QueuedOnce'
<1> SUFFICES ASSUME TypeOK, QueuedOnce, [Next]_vars
             PROVE  QueuedOnce'
  OBVIOUS
<1>1. ASSUME NEW d \in Deliveries, Publicar(d) PROVE QueuedOnce'
  <2>1. publish[d] # "over"
    BY <1>1 DEF Publicar
  <2>2. \A e \in Deliveries : e # d => publish'[e] = publish[e]
    BY <1>1 DEF Publicar, TypeOK
  <2>3. job' = job /\ resend' = resend
    BY <1>1 DEF Publicar
  <2> QED
    BY <2>1, <2>2, <2>3, QueuedOnceFrame
<1>2. ASSUME NEW d \in Deliveries, CriarEntrega(d) PROVE QueuedOnce'
  <2>1. publish[d] # "over"
    BY <1>2 DEF CriarEntrega
  <2>2. \A e \in Deliveries : e # d => publish'[e] = publish[e]
    BY <1>2 DEF CriarEntrega, TypeOK
  <2>3. job' = job /\ resend' = resend
    BY <1>2 DEF CriarEntrega
  <2> QED
    BY <2>1, <2>2, <2>3, QueuedOnceFrame
<1>3. ASSUME NEW d \in Deliveries, Enfileirar(d) PROVE QueuedOnce'
  <2>1. <<d, 0>> \in Jobs
    BY DeliveryAssumption DEF Jobs
  <2>2. \A k \in Jobs : k # <<d, 0>> => job'[k] = job[k]
    BY <1>3, <2>1, EnqueueFields DEF Enfileirar
  <2>3. publish'[d] = "over" /\ \A e \in Deliveries : e # d => publish'[e] = publish[e]
    BY <1>3 DEF Enfileirar, TypeOK
  <2>4. resend' = resend
    BY <1>3 DEF Enfileirar
  <2>5. \A e \in Deliveries, k \in 0..MaxResends :
           e # d \/ k > 0 => job'[<<e, k>>] = job[<<e, k>>]
    BY <2>2 DEF Jobs
  <2>6. \A e \in Deliveries : publish'[e] # "over" => job'[<<e, 0>>].at = "none"
    BY <2>3, <2>5, DeliveryAssumption DEF QueuedOnce
  <2>7. \A e \in Deliveries, k \in 0..MaxResends :
           k > resend[e].n /\ k > 0 => job'[<<e, k>>].at = "none"
    BY <2>5 DEF QueuedOnce
  <2> QED
    BY <2>4, <2>6, <2>7 DEF QueuedOnce
<1>4. ASSUME NEW d \in Deliveries, PublicarFalha(d) PROVE QueuedOnce'
  <2>1. publish[d] # "over"
    BY <1>4 DEF PublicarFalha
  <2>2. \A e \in Deliveries : e # d => publish'[e] = publish[e]
    BY <1>4 DEF PublicarFalha, TypeOK
  <2>3. job' = job /\ resend' = resend
    BY <1>4 DEF PublicarFalha
  <2> QED
    BY <2>1, <2>2, <2>3, QueuedOnceFrame
<1>5. ASSUME NEW d \in Deliveries, RetryDelivery(d) PROVE QueuedOnce'
  <2>1. resend[d].n < MaxResends
    BY <1>5 DEF RetryDelivery, TypeOK
  <2>2. \A e \in Deliveries : resend'[e].n = resend[e].n /\ (e # d => resend'[e] = resend[e])
    BY <1>5 DEF RetryDelivery, TypeOK
  <2>3. job' = job /\ publish' = publish
    BY <1>5 DEF RetryDelivery
  <2> QED
    BY <2>1, <2>2, <2>3, QueuedOnceFrame
<1>6. ASSUME NEW d \in Deliveries, MarcarPendente(d) PROVE QueuedOnce'
  <2>1. resend[d].at # "no"
    BY <1>6 DEF MarcarPendente, TypeOK
  <2>2. \A e \in Deliveries : resend'[e].n = resend[e].n /\ (e # d => resend'[e] = resend[e])
    BY <1>6 DEF MarcarPendente, TypeOK
  <2>3. job' = job /\ publish' = publish
    BY <1>6 DEF MarcarPendente
  <2> QED
    BY <2>1, <2>2, <2>3, QueuedOnceFrame
<1>7. ASSUME NEW d \in Deliveries, Reenfileirar(d) PROVE QueuedOnce'
  <2> DEFINE i == resend[d].n + 1
  <2>0. resend[d].n \in 0..MaxResends /\ resend[d].n < MaxResends
    BY <1>7 DEF Reenfileirar, TypeOK, QueuedOnce
  <2>1. i \in 0..MaxResends /\ i > 0 /\ i > resend[d].n
    BY <2>0, DeliveryAssumption
  <2>2. <<d, i>> \in Jobs
    BY <2>1 DEF Jobs
  <2>3. \A k \in Jobs : k # <<d, i>> => job'[k] = job[k]
    BY <1>7, <2>2, EnqueueFields DEF Reenfileirar
  <2>4. resend'[d].at = "no" /\ resend'[d].n = i
        /\ \A e \in Deliveries : e # d => resend'[e] = resend[e]
    BY <1>7 DEF Reenfileirar, TypeOK
  <2>5. publish' = publish
    BY <1>7 DEF Reenfileirar
  <2>6. \A e \in Deliveries, k \in 0..MaxResends :
           k > resend'[e].n /\ k > 0 => k > resend[e].n /\ <<e, k>> # <<d, i>>
    BY <2>0, <2>1, <2>4
  <2> HIDE DEF i
  <2>7. \A e \in Deliveries, k \in 0..MaxResends :
           <<e, k>> # <<d, i>> => job'[<<e, k>>] = job[<<e, k>>]
    BY <2>3 DEF Jobs
  <2>8. \A e \in Deliveries, k \in 0..MaxResends :
           k > resend'[e].n /\ k > 0 => job'[<<e, k>>].at = "none"
    BY <2>6, <2>7 DEF QueuedOnce
  <2>9. \A e \in Deliveries : publish'[e] # "over" => job'[<<e, 0>>].at = "none"
    <3>1. 0 \in 0..MaxResends /\ \A e : <<e, 0>> # <<d, i>>
      BY <2>1, DeliveryAssumption
    <3> QED
      BY <2>5, <2>7, <3>1 DEF QueuedOnce
  <2>10. \A e \in Deliveries : resend'[e].at # "no" => resend'[e].n < MaxResends
    BY <2>4 DEF QueuedOnce
  <2> QED
    BY <2>8, <2>9, <2>10 DEF QueuedOnce
<1>8. ASSUME NEW d \in Deliveries, ReenvioFalha(d) PROVE QueuedOnce'
  <2>1. resend'[d].at = "no"
    BY <1>8 DEF ReenvioFalha, TypeOK
  <2>2. \A e \in Deliveries : resend'[e].n = resend[e].n /\ (e # d => resend'[e] = resend[e])
    BY <1>8 DEF ReenvioFalha, TypeOK
  <2>3. job' = job /\ publish' = publish
    BY <1>8 DEF ReenvioFalha
  <2> QED
    BY <2>1, <2>2, <2>3, QueuedOnceFrame
<1>9. ASSUME NEW j \in Jobs, Entregar(j) PROVE QueuedOnce'
  <2>1. \A k \in Jobs : job[k].at = "none" => job'[k].at = "none"
    BY <1>9, MoveFields DEF Entregar
  <2>2. publish' = publish /\ resend' = resend
    BY <1>9 DEF Entregar
  <2> QED
    BY <2>1, <2>2, QueuedOnceFrame
<1>10. ASSUME NEW j \in Jobs, Resposta(j) PROVE QueuedOnce'
  <2>1. \A k \in Jobs : job[k].at = "none" => job'[k].at = "none"
    BY <1>10, MoveFields DEF Resposta
  <2>2. publish' = publish /\ resend' = resend
    BY <1>10 DEF Resposta
  <2> QED
    BY <2>1, <2>2, QueuedOnceFrame
<1>11. ASSUME NEW j \in Jobs, SalvarSucesso(j) PROVE QueuedOnce'
  <2>1. \A k \in Jobs : job[k].at = "none" => job'[k].at = "none"
    BY <1>11, MoveFields DEF SalvarSucesso
  <2>2. publish' = publish /\ resend' = resend
    BY <1>11 DEF SalvarSucesso
  <2> QED
    BY <2>1, <2>2, QueuedOnceFrame
<1>12. ASSUME NEW j \in Jobs, ZerarContador(j) PROVE QueuedOnce'
  <2>1. \A k \in Jobs : job[k].at = "none" => job'[k].at = "none"
    BY <1>12, MoveFields DEF ZerarContador
  <2>2. publish' = publish /\ resend' = resend
    BY <1>12 DEF ZerarContador
  <2> QED
    BY <2>1, <2>2, QueuedOnceFrame
<1>13. ASSUME NEW j \in Jobs, RegistrarTentativa(j) PROVE QueuedOnce'
  <2>1. \A k \in Jobs : job[k].at = "none" => job'[k].at = "none"
    BY <1>13, MoveFields DEF RegistrarTentativa
  <2>2. publish' = publish /\ resend' = resend
    BY <1>13 DEF RegistrarTentativa
  <2> QED
    BY <2>1, <2>2, QueuedOnceFrame
<1>14. ASSUME NEW j \in Jobs, Falhar(j) PROVE QueuedOnce'
  <2>1. \A k \in Jobs : job[k].at = "none" => job'[k].at = "none"
    BY <1>14, FalharFields
  <2>2. publish' = publish /\ resend' = resend
    BY <1>14 DEF Falhar
  <2> QED
    BY <2>1, <2>2, QueuedOnceFrame
<1>15. ASSUME NEW n \in notices, AoFalhar(n) PROVE QueuedOnce'
  <2>1. job' = job /\ publish' = publish /\ resend' = resend
    BY <1>15 DEF AoFalhar
  <2> QED
    BY <2>1, QueuedOnceFrame
<1>16. ASSUME NEW n \in notices, ContarFalha(n) PROVE QueuedOnce'
  <2>1. CASE Die
    BY <2>1, QueuedOnceDie
  <2>2. CASE ~Die
    <3>1. job' = job /\ publish' = publish /\ resend' = resend
      BY <1>16, <2>2 DEF ContarFalha
    <3> QED
      BY <3>1, QueuedOnceFrame
  <2> QED
    BY <2>1, <2>2
<1>17. ASSUME NEW n \in notices, Desativar(n) PROVE QueuedOnce'
  <2>1. CASE Die
    BY <2>1, QueuedOnceDie
  <2>2. CASE ~Die
    <3>1. job' = job /\ publish' = publish /\ resend' = resend
      BY <1>17, <2>2 DEF Desativar
    <3> QED
      BY <3>1, QueuedOnceFrame
  <2> QED
    BY <2>1, <2>2
<1>18. CASE Reativar
  <2>1. job' = job /\ publish' = publish /\ resend' = resend
    BY <1>18 DEF Reativar
  <2> QED
    BY <2>1, QueuedOnceFrame
<1>19. CASE Pausar
  <2>1. job' = job /\ publish' = publish /\ resend' = resend
    BY <1>19 DEF Pausar
  <2> QED
    BY <2>1, QueuedOnceFrame
<1>20. CASE Remover
  <2>1. job' = job /\ publish' = publish /\ resend' = resend
    BY <1>20 DEF Remover
  <2> QED
    BY <2>1, QueuedOnceFrame
<1>21. CASE Crash
  BY <1>21, QueuedOnceDie DEF Crash
<1>22. CASE UNCHANGED vars
  <2>1. job' = job /\ publish' = publish /\ resend' = resend
    BY <1>22 DEF vars
  <2> QED
    BY <2>1, QueuedOnceFrame
<1> QED
  BY <1>1, <1>2, <1>3, <1>4, <1>5, <1>6, <1>7, <1>8, <1>9, <1>10, <1>11,
     <1>12, <1>13, <1>14, <1>15, <1>16, <1>17, <1>18, <1>19, <1>20, <1>21,
     <1>22
  DEF Next, JobStep, Listener

LEMMA RowFields ==
  ASSUME TypeOK, NEW d \in Deliveries, NEW st, SetStatus(d, st)
  PROVE  \A e \in Deliveries : row'[e] = row[e] \/ (e = d /\ row'[e] = st)
  BY DEF TypeOK, SetStatus


LEMMA SuccessStep ==
  TypeOK /\ SavingAfterAnswer /\ SuccessIsTrue /\ [Next]_vars =>
    SuccessIsTrue'
<1> SUFFICES ASSUME TypeOK, SavingAfterAnswer, SuccessIsTrue, [Next]_vars
             PROVE  SuccessIsTrue'
  OBVIOUS
<1> USE DEF SuccessIsTrue
<1>1. ASSUME NEW d \in Deliveries, Publicar(d) PROVE SuccessIsTrue'
  BY <1>1 DEF Publicar
<1>2. ASSUME NEW d \in Deliveries, CriarEntrega(d) PROVE SuccessIsTrue'
  BY <1>2 DEF CriarEntrega, TypeOK
<1>3. ASSUME NEW d \in Deliveries, Enfileirar(d) PROVE SuccessIsTrue'
  BY <1>3 DEF Enfileirar
<1>4. ASSUME NEW d \in Deliveries, PublicarFalha(d) PROVE SuccessIsTrue'
  BY <1>4 DEF PublicarFalha
<1>5. ASSUME NEW d \in Deliveries, RetryDelivery(d) PROVE SuccessIsTrue'
  BY <1>5 DEF RetryDelivery
<1>6. ASSUME NEW d \in Deliveries, MarcarPendente(d) PROVE SuccessIsTrue'
  BY <1>6, RowFields DEF MarcarPendente, Jobs
<1>7. ASSUME NEW d \in Deliveries, Reenfileirar(d) PROVE SuccessIsTrue'
  BY <1>7 DEF Reenfileirar
<1>8. ASSUME NEW d \in Deliveries, ReenvioFalha(d) PROVE SuccessIsTrue'
  BY <1>8 DEF ReenvioFalha
<1>9. ASSUME NEW j \in Jobs, Entregar(j) PROVE SuccessIsTrue'
  BY <1>9 DEF Entregar
<1>10. ASSUME NEW j \in Jobs, Resposta(j) PROVE SuccessIsTrue'
  BY <1>10 DEF Resposta
<1>11. ASSUME NEW j \in Jobs, SalvarSucesso(j) PROVE SuccessIsTrue'
  <2>1. j[1] \in Deliveries
    BY DEF Jobs
  <2>2. j[1] \in accepted /\ accepted' = accepted
    BY <1>11, MoveFields DEF SalvarSucesso, SavingAfterAnswer
  <2> QED
    BY <1>11, <2>1, <2>2, RowFields DEF SalvarSucesso
<1>12. ASSUME NEW j \in Jobs, ZerarContador(j) PROVE SuccessIsTrue'
  BY <1>12 DEF ZerarContador
<1>13. ASSUME NEW j \in Jobs, RegistrarTentativa(j) PROVE SuccessIsTrue'
  BY <1>13, RowFields DEF RegistrarTentativa, Jobs
<1>14. ASSUME NEW j \in Jobs, Falhar(j) PROVE SuccessIsTrue'
  BY <1>14 DEF Falhar
<1>15. ASSUME NEW n \in notices, AoFalhar(n) PROVE SuccessIsTrue'
  <2>1. n.j[1] \in Deliveries
    BY DEF TypeOK, Notice, Jobs
  <2> QED
    BY <1>15, <2>1, RowFields DEF AoFalhar
<1>16. ASSUME NEW n \in notices, ContarFalha(n) PROVE SuccessIsTrue'
  BY <1>16, DieType DEF ContarFalha
<1>17. ASSUME NEW n \in notices, Desativar(n) PROVE SuccessIsTrue'
  BY <1>17, DieType DEF Desativar
<1>18. CASE Reativar
  BY <1>18 DEF Reativar
<1>19. CASE Pausar
  BY <1>19 DEF Pausar
<1>20. CASE Remover
  BY <1>20 DEF Remover, TypeOK
<1>21. CASE Crash
  BY <1>21, DieType DEF Crash
<1>22. CASE UNCHANGED vars
  BY <1>22 DEF vars
<1> QED
  BY <1>1, <1>2, <1>3, <1>4, <1>5, <1>6, <1>7, <1>8, <1>9, <1>10, <1>11,
     <1>12, <1>13, <1>14, <1>15, <1>16, <1>17, <1>18, <1>19, <1>20, <1>21,
     <1>22
  DEF Next, JobStep, Listener

(* The job of a notice of a last attempt used up its attempts. *)
LEMMA NoticeUsedUp ==
  ASSUME TypeOK, AttemptsArePosts, NoticesAreTrue, NEW n \in notices, n.made >= MaxAttempts
  PROVE  /\ n.j \in Jobs /\ n.j[1] \in Deliveries
         /\ UsedUp(n.j) /\ posts[n.j] >= MaxAttempts
         /\ job[n.j].made = MaxAttempts /\ n.made = MaxAttempts
<1>1. n.j \in Jobs /\ n.made \in Nat
  BY DEF TypeOK, Notice
<1>2. job[n.j].made \in Nat /\ posts[n.j] \in Nat
  BY <1>1, NatFacts
<1>3. n.made <= job[n.j].made /\ job[n.j].made <= MaxAttempts /\ job[n.j].made <= posts[n.j]
      /\ (job[n.j].at # "failed" => job[n.j].made < MaxAttempts)
  BY <1>1 DEF NoticesAreTrue, AttemptsArePosts
<1>4. n.j[1] \in Deliveries
  BY <1>1 DEF Jobs
<1> QED
  BY <1>1, <1>2, <1>3, <1>4, DeliveryAssumption DEF UsedUp

(* What was abandoned justly stays so. *)
LEMMA TriedForward ==
  ASSUME TypeOK, TypeOK', Forward, NEW d \in Deliveries,
         \E j \in Jobs : j[1] = d /\ UsedUp(j) /\ posts[j] >= MaxAttempts
  PROVE  (\E j \in Jobs : j[1] = d /\ UsedUp(j) /\ posts[j] >= MaxAttempts)'
<1>1. PICK j \in Jobs : j[1] = d /\ UsedUp(j) /\ posts[j] >= MaxAttempts
  OBVIOUS
<1>2. posts[j] \in Nat /\ posts'[j] \in Nat /\ posts'[j] >= posts[j] /\ UsedUp(j)'
  BY <1>1 DEF TypeOK, Forward
<1>3. posts'[j] >= MaxAttempts
  BY <1>1, <1>2, DeliveryAssumption
<1> QED
  BY <1>1, <1>2, <1>3

(* Only the listener abandons, after a last attempt. *)
Abandonment ==
  \A d \in Deliveries : row'[d] = "ABANDONED" =>
    row[d] = "ABANDONED" \/ \E n \in notices : Exhausted(n) /\ n.j[1] = d


LEMMA AbandonmentStep ==
  TypeOK /\ [Next]_vars =>
    Abandonment
<1> SUFFICES ASSUME TypeOK, [Next]_vars
             PROVE  Abandonment
  OBVIOUS
<1> USE DEF Abandonment
<1>1. ASSUME NEW d \in Deliveries, Publicar(d) PROVE Abandonment
  BY <1>1 DEF Publicar
<1>2. ASSUME NEW d \in Deliveries, CriarEntrega(d) PROVE Abandonment
  BY <1>2 DEF CriarEntrega, TypeOK
<1>3. ASSUME NEW d \in Deliveries, Enfileirar(d) PROVE Abandonment
  BY <1>3 DEF Enfileirar
<1>4. ASSUME NEW d \in Deliveries, PublicarFalha(d) PROVE Abandonment
  BY <1>4 DEF PublicarFalha
<1>5. ASSUME NEW d \in Deliveries, RetryDelivery(d) PROVE Abandonment
  BY <1>5 DEF RetryDelivery
<1>6. ASSUME NEW d \in Deliveries, MarcarPendente(d) PROVE Abandonment
  BY <1>6, RowFields DEF MarcarPendente
<1>7. ASSUME NEW d \in Deliveries, Reenfileirar(d) PROVE Abandonment
  BY <1>7 DEF Reenfileirar
<1>8. ASSUME NEW d \in Deliveries, ReenvioFalha(d) PROVE Abandonment
  BY <1>8 DEF ReenvioFalha
<1>9. ASSUME NEW j \in Jobs, Entregar(j) PROVE Abandonment
  BY <1>9 DEF Entregar
<1>10. ASSUME NEW j \in Jobs, Resposta(j) PROVE Abandonment
  BY <1>10 DEF Resposta
<1>11. ASSUME NEW j \in Jobs, SalvarSucesso(j) PROVE Abandonment
  <2>1. j[1] \in Deliveries
    BY DEF Jobs
  <2> QED
    BY <1>11, <2>1, RowFields DEF SalvarSucesso
<1>12. ASSUME NEW j \in Jobs, ZerarContador(j) PROVE Abandonment
  BY <1>12 DEF ZerarContador
<1>13. ASSUME NEW j \in Jobs, RegistrarTentativa(j) PROVE Abandonment
  <2>1. j[1] \in Deliveries
    BY DEF Jobs
  <2> QED
    BY <1>13, <2>1, RowFields DEF RegistrarTentativa
<1>14. ASSUME NEW j \in Jobs, Falhar(j) PROVE Abandonment
  BY <1>14 DEF Falhar
<1>15. ASSUME NEW n \in notices, AoFalhar(n) PROVE Abandonment
  <2>1. n.j[1] \in Deliveries
    BY DEF TypeOK, Notice, Jobs
  <2>2. \A d \in Deliveries :
           row'[d] = row[d] \/ (n.j[1] = d /\ (row'[d] = "ABANDONED" => Exhausted(n)))
    BY <1>15, <2>1, RowFields DEF AoFalhar
  <2> QED
    BY <1>15, <2>2
<1>16. ASSUME NEW n \in notices, ContarFalha(n) PROVE Abandonment
  BY <1>16, DieType DEF ContarFalha
<1>17. ASSUME NEW n \in notices, Desativar(n) PROVE Abandonment
  BY <1>17, DieType DEF Desativar
<1>18. CASE Reativar
  BY <1>18 DEF Reativar
<1>19. CASE Pausar
  BY <1>19 DEF Pausar
<1>20. CASE Remover
  BY <1>20 DEF Remover, TypeOK
<1>21. CASE Crash
  BY <1>21, DieType DEF Crash
<1>22. CASE UNCHANGED vars
  BY <1>22 DEF vars
<1> QED
  BY <1>1, <1>2, <1>3, <1>4, <1>5, <1>6, <1>7, <1>8, <1>9, <1>10, <1>11,
     <1>12, <1>13, <1>14, <1>15, <1>16, <1>17, <1>18, <1>19, <1>20, <1>21,
     <1>22
  DEF Next, JobStep, Listener

LEMMA AbandonedStep ==
  ASSUME TypeOK, TypeOK', Forward, Abandonment, AttemptsArePosts, NoticesAreTrue, AbandonedWasTried
  PROVE  AbandonedWasTried'
<1> SUFFICES ASSUME NEW d \in Deliveries, row'[d] = "ABANDONED"
             PROVE  (\E j \in Jobs : j[1] = d /\ UsedUp(j) /\ posts[j] >= MaxAttempts)'
  BY DEF AbandonedWasTried
<1> SUFFICES \E j \in Jobs : j[1] = d /\ UsedUp(j) /\ posts[j] >= MaxAttempts
  BY TriedForward
<1>1. CASE row[d] = "ABANDONED"
  BY <1>1 DEF AbandonedWasTried
<1>2. CASE \E n \in notices : Exhausted(n) /\ n.j[1] = d
  <2>1. PICK n \in notices : Exhausted(n) /\ n.j[1] = d
    BY <1>2
  <2> QED
    BY <2>1, NoticeUsedUp DEF Exhausted, Attempts
<1> QED
  BY <1>1, <1>2 DEF Abandonment


(* As many jobs used up their attempts as the threshold says. *)
ThresholdMet == Cardinality({j \in Jobs : UsedUp(j)}) >= Threshold

LEMMA ThresholdForward == ASSUME Forward, ThresholdMet PROVE ThresholdMet'
  BY UsedUpGrows, DeliveryAssumption DEF ThresholdMet

Deactivation ==
  endpoint'.auto => endpoint.auto \/ \E n \in notices : n.at = "disable"


LEMMA DeactivationStep ==
  TypeOK /\ [Next]_vars =>
    Deactivation
<1> SUFFICES ASSUME TypeOK, [Next]_vars
             PROVE  Deactivation
  OBVIOUS
<1> USE DEF Deactivation
<1>1. ASSUME NEW d \in Deliveries, Publicar(d) PROVE Deactivation
  BY <1>1 DEF Publicar
<1>2. ASSUME NEW d \in Deliveries, CriarEntrega(d) PROVE Deactivation
  BY <1>2 DEF CriarEntrega
<1>3. ASSUME NEW d \in Deliveries, Enfileirar(d) PROVE Deactivation
  BY <1>3 DEF Enfileirar
<1>4. ASSUME NEW d \in Deliveries, PublicarFalha(d) PROVE Deactivation
  BY <1>4 DEF PublicarFalha
<1>5. ASSUME NEW d \in Deliveries, RetryDelivery(d) PROVE Deactivation
  BY <1>5 DEF RetryDelivery
<1>6. ASSUME NEW d \in Deliveries, MarcarPendente(d) PROVE Deactivation
  BY <1>6 DEF MarcarPendente
<1>7. ASSUME NEW d \in Deliveries, Reenfileirar(d) PROVE Deactivation
  BY <1>7 DEF Reenfileirar
<1>8. ASSUME NEW d \in Deliveries, ReenvioFalha(d) PROVE Deactivation
  BY <1>8 DEF ReenvioFalha
<1>9. ASSUME NEW j \in Jobs, Entregar(j) PROVE Deactivation
  BY <1>9 DEF Entregar
<1>10. ASSUME NEW j \in Jobs, Resposta(j) PROVE Deactivation
  BY <1>10 DEF Resposta
<1>11. ASSUME NEW j \in Jobs, SalvarSucesso(j) PROVE Deactivation
  BY <1>11 DEF SalvarSucesso
<1>12. ASSUME NEW j \in Jobs, ZerarContador(j) PROVE Deactivation
  BY <1>12 DEF ZerarContador, ClearCounter, Endpoint, TypeOK
<1>13. ASSUME NEW j \in Jobs, RegistrarTentativa(j) PROVE Deactivation
  BY <1>13 DEF RegistrarTentativa
<1>14. ASSUME NEW j \in Jobs, Falhar(j) PROVE Deactivation
  BY <1>14 DEF Falhar
<1>15. ASSUME NEW n \in notices, AoFalhar(n) PROVE Deactivation
  BY <1>15 DEF AoFalhar
<1>16. ASSUME NEW n \in notices, ContarFalha(n) PROVE Deactivation
  <2>1. CASE Die
    BY <2>1, DieType
  <2>2. CASE ~Die
    BY <1>16, <2>2 DEF ContarFalha, Endpoint, TypeOK
  <2> QED
    BY <2>1, <2>2
<1>17. ASSUME NEW n \in notices, Desativar(n) PROVE Deactivation
  BY <1>17 DEF Desativar
<1>18. CASE Reativar
  BY <1>18 DEF Reativar, ClearCounter, Endpoint, TypeOK
<1>19. CASE Pausar
  BY <1>19 DEF Pausar, ClearCounter, Endpoint, TypeOK
<1>20. CASE Remover
  BY <1>20 DEF Remover, ClearCounter, Endpoint, TypeOK
<1>21. CASE Crash
  BY <1>21, DieType DEF Crash
<1>22. CASE UNCHANGED vars
  BY <1>22 DEF vars
<1> QED
  BY <1>1, <1>2, <1>3, <1>4, <1>5, <1>6, <1>7, <1>8, <1>9, <1>10, <1>11,
     <1>12, <1>13, <1>14, <1>15, <1>16, <1>17, <1>18, <1>19, <1>20, <1>21,
     <1>22
  DEF Next, JobStep, Listener

LEMMA DisabledStep ==
  ASSUME TypeOK, Forward, Deactivation, NoticesAreTrue, DisabledAfterFailures
  PROVE  DisabledAfterFailures'
<1> SUFFICES ASSUME endpoint'.auto PROVE ThresholdMet'
  BY DEF DisabledAfterFailures, ThresholdMet
<1>1. ThresholdMet
  BY DEF Deactivation, NoticesAreTrue, DisabledAfterFailures, ThresholdMet
<1> QED
  BY <1>1, ThresholdForward


-----------------------------------------------------------------------------
(* The listener and the counter.                                           *)

LEMMA CountedFinite == ASSUME TypeOK PROVE IsFiniteSet(counted) /\ Cardinality(counted) \in Nat
  BY JobsFinite, FS_Subset, FS_CardinalityType DEF TypeOK

LEMMA ClearCounts ==
  ASSUME NEW e \in Endpoint, ClearCounter(e)
  PROVE  endpoint'.failures = Cardinality(counted') /\ counted' = {}
  BY FS_EmptySet DEF ClearCounter, Endpoint

LEMMA CountedUsedUp ==
  ASSUME TypeOK, CounterCounts, Forward, NEW j \in counted
  PROVE  UsedUp(j) /\ UsedUp(j)'
  BY DEF CounterCounts, Forward, TypeOK

(* Where the listener is told nothing new and counts nothing. *)
LEMMA CounterFrame ==
  ASSUME TypeOK, CounterCounts, Forward,
         endpoint'.failures = Cardinality(counted'), counted' \subseteq counted,
         notices' \subseteq notices
  PROVE  CounterCounts'
<1>1. \A j \in counted' : UsedUp(j)'
  BY CountedUsedUp
<1>2. \A n \in notices' : n.made >= MaxAttempts /\ n.at # "disable" => n.j \notin counted'
  BY DEF CounterCounts
<1> QED
  BY <1>1, <1>2 DEF CounterCounts

LEMMA NoticesFrame ==
  ASSUME TypeOK, TypeOK', NoticesAreTrue, Forward, notices' \subseteq notices
  PROVE  NoticesAreTrue'
<1> SUFFICES ASSUME NEW n \in notices'
             PROVE  /\ n.made <= job'[n.j].made
                    /\ n.at # "row" => n.made >= MaxAttempts
                    /\ n.at = "disable" => ThresholdMet'
                    /\ \A m \in notices' : m.j = n.j /\ m.made = n.made => m = n
  BY DEF NoticesAreTrue, ThresholdMet
<1>1. n \in Notice /\ n.j \in Jobs /\ n.made \in Nat
  BY DEF TypeOK, Notice
<1>2. /\ n.made <= job[n.j].made
      /\ n.at # "row" => n.made >= MaxAttempts
      /\ n.at = "disable" => ThresholdMet
      /\ \A m \in notices : m.j = n.j /\ m.made = n.made => m = n
  BY DEF NoticesAreTrue, ThresholdMet
<1>3. job[n.j].made \in Nat /\ job'[n.j].made \in Nat /\ job'[n.j].made >= job[n.j].made
  BY <1>1, JobFields DEF TypeOK, Forward
<1>4. n.made <= job'[n.j].made
  BY <1>1, <1>2, <1>3
<1> QED
  BY <1>2, <1>4, ThresholdForward

LEMMA DieNotices ==
  ASSUME TypeOK, AttemptsArePosts, Die
  PROVE  \A n \in notices' :
            /\ n.j \in Jobs /\ n.made = job[n.j].made /\ n.made < MaxAttempts /\ n.at = "row"
            /\ \A m \in notices' : m.j = n.j => m = n
<1>1. \A n \in notices' : \E j \in Jobs :
         /\ job[j].at \in InFlight
         /\ n = [j |-> j, made |-> job[j].made, at |-> "row"]
  BY DEF Die
<1>2. \A n \in notices' :
         /\ n.j \in Jobs /\ job[n.j].at \in InFlight
         /\ n = [j |-> n.j, made |-> job[n.j].made, at |-> "row"]
  BY <1>1
<1>3. \A n \in notices' : n.made = job[n.j].made /\ n.at = "row"
  BY <1>2
<1>4. \A j \in Jobs : job[j].at \in InFlight => job[j].made < MaxAttempts
  BY DEF AttemptsArePosts, InFlight
<1>5. \A n \in notices', m \in notices' : m.j = n.j => m = n
  BY <1>2
<1> QED
  BY <1>2, <1>3, <1>4, <1>5

LEMMA NoticesDie ==
  ASSUME TypeOK, AttemptsArePosts, Die PROVE NoticesAreTrue'
<1>1. \A n \in notices' : n.made <= job'[n.j].made
  BY DieNotices, DieFields, NatFacts
<1> QED
  BY <1>1, DieNotices DEF NoticesAreTrue

LEMMA CounterDie ==
  ASSUME TypeOK, AttemptsArePosts, CounterCounts, Forward, Die PROVE CounterCounts'
<1>1. endpoint' = endpoint /\ counted' = counted
  BY DieType
<1>2. \A n \in notices' : ~(n.made >= MaxAttempts)
  <2> SUFFICES ASSUME NEW n \in notices' PROVE ~(n.made >= MaxAttempts)
    OBVIOUS
  <2>1. n.j \in Jobs /\ n.made = job[n.j].made /\ n.made < MaxAttempts
    BY DieNotices
  <2>2. n.made \in Nat
    BY <2>1, NatFacts
  <2> QED
    BY <2>1, <2>2, DeliveryAssumption
<1>3. \A j \in counted' : UsedUp(j)'
  BY <1>1, CountedUsedUp
<1> QED
  BY <1>1, <1>2, <1>3 DEF CounterCounts


(* A notice in the place of another: only its stage is new. *)
LEMMA StageFields ==
  ASSUME NEW n \in Notice, NEW at
  PROVE  /\ [n EXCEPT !.at = at].j = n.j /\ [n EXCEPT !.at = at].made = n.made
         /\ [n EXCEPT !.at = at].at = at
  BY DEF Notice

LEMMA NoticesReplace ==
  ASSUME TypeOK, TypeOK', NoticesAreTrue, Forward,
         NEW n \in notices, NEW at \in {"count", "disable"}, n.made >= MaxAttempts, at = "disable" => ThresholdMet',
         notices' \subseteq (notices \ {n}) \cup {[n EXCEPT !.at = at]}
  PROVE  NoticesAreTrue'
<1> DEFINE new == [n EXCEPT !.at = at]
<1>1. new.j = n.j /\ new.made = n.made /\ new.at = at
  BY StageFields DEF TypeOK
<1>2. \A m \in notices : m.j \in Jobs /\ m.made \in Nat
  BY DEF TypeOK, Notice
<1>3. \A m \in notices : m.made <= job'[m.j].made
  <2> SUFFICES ASSUME NEW m \in notices PROVE m.made <= job'[m.j].made
    OBVIOUS
  <2>1. m.j \in Jobs /\ m.made \in Nat /\ m.made <= job[m.j].made
    BY <1>2 DEF NoticesAreTrue
  <2>2. job[m.j].made \in Nat /\ job'[m.j].made \in Nat /\ job'[m.j].made >= job[m.j].made
    BY <2>1, JobFields DEF TypeOK, Forward
  <2> QED
    BY <2>1, <2>2
<1>4. \A m \in notices : m.at = "disable" => ThresholdMet'
  BY ThresholdForward DEF NoticesAreTrue, ThresholdMet
<1>5. \A m \in notices' : m = new \/ (m \in notices /\ m # n)
  OBVIOUS
<1> HIDE DEF new
<1>6. \A k \in notices', m \in notices' : m.j = k.j /\ m.made = k.made => m = k
  BY <1>1, <1>5 DEF NoticesAreTrue
<1>7. \A m \in notices' : m.made <= job'[m.j].made
  BY <1>1, <1>3, <1>5
<1>8. \A m \in notices' : m.at # "row" => m.made >= MaxAttempts
  BY <1>1, <1>5 DEF NoticesAreTrue
<1>9. \A m \in notices' : m.at = "disable" => ThresholdMet'
  BY <1>1, <1>4, <1>5
<1> QED
  BY <1>6, <1>7, <1>8, <1>9 DEF NoticesAreTrue, ThresholdMet

LEMMA FalharNotices ==
  ASSUME TypeOK, TypeOK', NoticesAreTrue, CounterCounts, Forward, NEW j \in Jobs, Falhar(j)
  PROVE  NoticesAreTrue' /\ CounterCounts'
<1> DEFINE new == [j |-> j, made |-> job[j].made + 1, at |-> "row"]
<1>1. notices' = notices \cup {new} /\ counted' = counted /\ endpoint' = endpoint
  BY DEF Falhar
<1>2. new.j = j /\ new.made = job[j].made + 1 /\ new.at = "row"
  OBVIOUS
<1>3. \A m \in notices : m.j \in Jobs /\ m.made \in Nat /\ m.made <= job[m.j].made
  BY DEF TypeOK, Notice, NoticesAreTrue
<1>4. \A k \in Jobs : /\ job[k].made \in Nat /\ job'[k].made \in Nat
                      /\ job'[k].made >= job[k].made
  BY JobFields DEF TypeOK, Forward
<1>5. job'[j].made = job[j].made + 1 /\ job[j].at = "failing"
  BY FalharFields
<1>6. \A m \in notices : m.j = j => m.made # new.made
  BY <1>2, <1>3, <1>4
<1>7. \A m \in notices' : m.made <= job'[m.j].made
  <2>1. \A m \in notices : m.made <= job'[m.j].made
    BY <1>3, <1>4
  <2>2. new.made <= job'[new.j].made
    BY <1>2, <1>4, <1>5
  <2> QED
    BY <1>1, <2>1, <2>2
<1>8. j \notin counted
  BY <1>5, CountedUsedUp DEF UsedUp
<1>9. \A m \in notices' : m = new \/ m \in notices
  BY <1>1
<1> HIDE DEF new
<1>10. \A k \in notices', m \in notices' : m.j = k.j /\ m.made = k.made => m = k
  BY <1>2, <1>6, <1>9 DEF NoticesAreTrue
<1>11. \A m \in notices' : m.at # "row" => m.made >= MaxAttempts
  BY <1>2, <1>9 DEF NoticesAreTrue
<1>12. \A m \in notices' : m.at = "disable" => ThresholdMet'
  BY <1>2, <1>9, ThresholdForward DEF NoticesAreTrue, ThresholdMet
<1>13. NoticesAreTrue'
  BY <1>7, <1>10, <1>11, <1>12 DEF NoticesAreTrue, ThresholdMet
<1>14. \A m \in notices' : m.made >= MaxAttempts /\ m.at # "disable" => m.j \notin counted'
  BY <1>1, <1>2, <1>8, <1>9 DEF CounterCounts
<1>15. endpoint'.failures = Cardinality(counted') /\ \A k \in counted' : UsedUp(k)'
  BY <1>1, CountedUsedUp DEF CounterCounts
<1>16. CounterCounts'
  BY <1>14, <1>15 DEF CounterCounts
<1> QED
  BY <1>13, <1>16

LEMMA AoFalharNotices ==
  ASSUME TypeOK, TypeOK', NoticesAreTrue, CounterCounts, Forward, NEW n \in notices, AoFalhar(n)
  PROVE  NoticesAreTrue' /\ CounterCounts'
<1> DEFINE new == [n EXCEPT !.at = "count"]
<1>0. counted' = counted /\ endpoint' = endpoint /\ n.at = "row"
  BY DEF AoFalhar
<1>1. CASE ~Exhausted(n)
  <2>1. notices' \subseteq notices
    BY <1>1 DEF AoFalhar
  <2>2. endpoint'.failures = Cardinality(counted')
    BY <1>0 DEF CounterCounts
  <2> QED
    BY <1>0, <2>1, <2>2, NoticesFrame, CounterFrame
<1>2. CASE Exhausted(n)
  <2>1. notices' = (notices \ {n}) \cup {new} /\ n.made >= MaxAttempts
    BY <1>2 DEF AoFalhar, Exhausted, Attempts
  <2>2. NoticesAreTrue'
    BY <2>1, NoticesReplace
  <2>3. new.j = n.j
    BY StageFields DEF TypeOK
  <2>4. n.j \notin counted'
    BY <1>0, <2>1 DEF CounterCounts
  <2>5. \A m \in notices' : m.made >= MaxAttempts /\ m.at # "disable" => m.j \notin counted'
    BY <1>0, <2>1, <2>3, <2>4 DEF CounterCounts
  <2>6. endpoint'.failures = Cardinality(counted') /\ \A k \in counted' : UsedUp(k)'
    BY <1>0, CountedUsedUp DEF CounterCounts
  <2> QED
    BY <2>2, <2>5, <2>6 DEF CounterCounts
<1> QED
  BY <1>1, <1>2

LEMMA ContarNotices ==
  ASSUME TypeOK, TypeOK', AttemptsArePosts, NoticesAreTrue, CounterCounts, Forward,
         NEW n \in notices, ContarFalha(n), ~Die
  PROVE  NoticesAreTrue' /\ CounterCounts'
<1> DEFINE new == [n EXCEPT !.at = "disable"]
<1>1. /\ n.at = "count" /\ counted' = counted \cup {n.j}
      /\ endpoint' = [endpoint EXCEPT !.failures = endpoint.failures + 1]
      /\ notices' = (notices \ {n}) \cup
             IF endpoint.failures + 1 >= Threshold /\ endpoint.active THEN {new} ELSE {}
  BY DEF ContarFalha
<1>2. n.made >= MaxAttempts /\ n.j \notin counted
  BY <1>1 DEF NoticesAreTrue, CounterCounts
<1>3. n.j \in Jobs /\ UsedUp(n.j) /\ n.made = MaxAttempts
  BY <1>2, NoticeUsedUp
<1>4. endpoint'.failures = endpoint.failures + 1
  BY <1>1 DEF TypeOK, Endpoint
<1>5. Cardinality(counted') = Cardinality(counted) + 1
  BY <1>1, <1>2, CountedFinite, FS_AddElement
<1>6. endpoint'.failures = Cardinality(counted')
  BY <1>4, <1>5 DEF CounterCounts
<1>7. \A k \in counted' : UsedUp(k)'
  BY <1>1, <1>3, CountedUsedUp DEF Forward
<1>8. endpoint.failures + 1 >= Threshold => ThresholdMet'
  <2>1. {j \in Jobs : UsedUp(j)}' \subseteq Jobs /\ counted' \subseteq {j \in Jobs : UsedUp(j)}'
    BY <1>7 DEF TypeOK
  <2>2. Cardinality(counted') <= Cardinality({j \in Jobs : UsedUp(j)}')
    BY <2>1, JobsFinite, FS_Subset
  <2>3. Cardinality(counted') \in Nat /\ Cardinality({j \in Jobs : UsedUp(j)}') \in Nat
    BY <2>1, JobsFinite, FS_Subset, FS_CardinalityType
  <2> QED
    BY <1>4, <1>6, <2>2, <2>3, DeliveryAssumption DEF ThresholdMet
<1>9. NoticesAreTrue'
  <2>1. CASE endpoint.failures + 1 >= Threshold
    <3>1. notices' \subseteq (notices \ {n}) \cup {new}
      BY <1>1
    <3> QED
      BY <1>2, <1>8, <2>1, <3>1, NoticesReplace
  <2>2. CASE ~(endpoint.failures + 1 >= Threshold)
    <3>1. notices' \subseteq notices
      BY <1>1, <2>2
    <3> QED
      BY <3>1, NoticesFrame
  <2> QED
    BY <2>1, <2>2
<1>10. new.at = "disable"
  BY StageFields DEF TypeOK
<1>11. \A m \in notices' : m.at # "disable" => m \in notices /\ m # n
  BY <1>1, <1>10
<1>12. \A m \in notices : m.made >= MaxAttempts /\ m # n => m.j # n.j
  BY <1>3, NoticeUsedUp DEF NoticesAreTrue
<1>13. \A m \in notices' : m.made >= MaxAttempts /\ m.at # "disable" => m.j \notin counted'
  BY <1>1, <1>11, <1>12 DEF CounterCounts
<1> QED
  BY <1>6, <1>7, <1>9, <1>13 DEF CounterCounts


LEMMA ListenerStep ==
  TypeOK /\ QueuedOnce /\ AttemptsArePosts /\ NoticesAreTrue /\ CounterCounts /\ [Next]_vars =>
    NoticesAreTrue' /\ CounterCounts'
<1> SUFFICES ASSUME TypeOK, QueuedOnce, AttemptsArePosts, NoticesAreTrue, CounterCounts, [Next]_vars
             PROVE  NoticesAreTrue' /\ CounterCounts'
  OBVIOUS
<1>0. TypeOK' /\ Forward
  BY TypeStep, ForwardStep
<1>1. ASSUME NEW d \in Deliveries, Publicar(d) PROVE NoticesAreTrue' /\ CounterCounts'
  <2>1. notices' \subseteq notices /\ counted' = counted /\ endpoint'.failures = endpoint.failures
    BY <1>1 DEF Publicar
  <2>2. endpoint'.failures = Cardinality(counted') /\ counted' \subseteq counted
    BY <2>1 DEF CounterCounts
  <2> QED
    BY <1>0, <2>1, <2>2, CounterFrame, NoticesFrame
<1>2. ASSUME NEW d \in Deliveries, CriarEntrega(d) PROVE NoticesAreTrue' /\ CounterCounts'
  <2>1. notices' \subseteq notices /\ counted' = counted /\ endpoint'.failures = endpoint.failures
    BY <1>2 DEF CriarEntrega
  <2>2. endpoint'.failures = Cardinality(counted') /\ counted' \subseteq counted
    BY <2>1 DEF CounterCounts
  <2> QED
    BY <1>0, <2>1, <2>2, CounterFrame, NoticesFrame
<1>3. ASSUME NEW d \in Deliveries, Enfileirar(d) PROVE NoticesAreTrue' /\ CounterCounts'
  <2>1. notices' \subseteq notices /\ counted' = counted /\ endpoint'.failures = endpoint.failures
    BY <1>3 DEF Enfileirar
  <2>2. endpoint'.failures = Cardinality(counted') /\ counted' \subseteq counted
    BY <2>1 DEF CounterCounts
  <2> QED
    BY <1>0, <2>1, <2>2, CounterFrame, NoticesFrame
<1>4. ASSUME NEW d \in Deliveries, PublicarFalha(d) PROVE NoticesAreTrue' /\ CounterCounts'
  <2>1. notices' \subseteq notices /\ counted' = counted /\ endpoint'.failures = endpoint.failures
    BY <1>4 DEF PublicarFalha
  <2>2. endpoint'.failures = Cardinality(counted') /\ counted' \subseteq counted
    BY <2>1 DEF CounterCounts
  <2> QED
    BY <1>0, <2>1, <2>2, CounterFrame, NoticesFrame
<1>5. ASSUME NEW d \in Deliveries, RetryDelivery(d) PROVE NoticesAreTrue' /\ CounterCounts'
  <2>1. notices' \subseteq notices /\ counted' = counted /\ endpoint'.failures = endpoint.failures
    BY <1>5 DEF RetryDelivery
  <2>2. endpoint'.failures = Cardinality(counted') /\ counted' \subseteq counted
    BY <2>1 DEF CounterCounts
  <2> QED
    BY <1>0, <2>1, <2>2, CounterFrame, NoticesFrame
<1>6. ASSUME NEW d \in Deliveries, MarcarPendente(d) PROVE NoticesAreTrue' /\ CounterCounts'
  <2>1. notices' \subseteq notices /\ counted' = counted /\ endpoint'.failures = endpoint.failures
    BY <1>6 DEF MarcarPendente
  <2>2. endpoint'.failures = Cardinality(counted') /\ counted' \subseteq counted
    BY <2>1 DEF CounterCounts
  <2> QED
    BY <1>0, <2>1, <2>2, CounterFrame, NoticesFrame
<1>7. ASSUME NEW d \in Deliveries, Reenfileirar(d) PROVE NoticesAreTrue' /\ CounterCounts'
  <2>1. notices' \subseteq notices /\ counted' = counted /\ endpoint'.failures = endpoint.failures
    BY <1>7 DEF Reenfileirar
  <2>2. endpoint'.failures = Cardinality(counted') /\ counted' \subseteq counted
    BY <2>1 DEF CounterCounts
  <2> QED
    BY <1>0, <2>1, <2>2, CounterFrame, NoticesFrame
<1>8. ASSUME NEW d \in Deliveries, ReenvioFalha(d) PROVE NoticesAreTrue' /\ CounterCounts'
  <2>1. notices' \subseteq notices /\ counted' = counted /\ endpoint'.failures = endpoint.failures
    BY <1>8 DEF ReenvioFalha
  <2>2. endpoint'.failures = Cardinality(counted') /\ counted' \subseteq counted
    BY <2>1 DEF CounterCounts
  <2> QED
    BY <1>0, <2>1, <2>2, CounterFrame, NoticesFrame
<1>9. ASSUME NEW j \in Jobs, Entregar(j) PROVE NoticesAreTrue' /\ CounterCounts'
  <2>1. notices' \subseteq notices /\ counted' = counted /\ endpoint'.failures = endpoint.failures
    BY <1>9 DEF Entregar
  <2>2. endpoint'.failures = Cardinality(counted') /\ counted' \subseteq counted
    BY <2>1 DEF CounterCounts
  <2> QED
    BY <1>0, <2>1, <2>2, CounterFrame, NoticesFrame
<1>10. ASSUME NEW j \in Jobs, Resposta(j) PROVE NoticesAreTrue' /\ CounterCounts'
  <2>1. notices' \subseteq notices /\ counted' = counted /\ endpoint'.failures = endpoint.failures
    BY <1>10 DEF Resposta
  <2>2. endpoint'.failures = Cardinality(counted') /\ counted' \subseteq counted
    BY <2>1 DEF CounterCounts
  <2> QED
    BY <1>0, <2>1, <2>2, CounterFrame, NoticesFrame
<1>11. ASSUME NEW j \in Jobs, SalvarSucesso(j) PROVE NoticesAreTrue' /\ CounterCounts'
  <2>1. notices' \subseteq notices /\ counted' = counted /\ endpoint'.failures = endpoint.failures
    BY <1>11 DEF SalvarSucesso
  <2>2. endpoint'.failures = Cardinality(counted') /\ counted' \subseteq counted
    BY <2>1 DEF CounterCounts
  <2> QED
    BY <1>0, <2>1, <2>2, CounterFrame, NoticesFrame
<1>12. ASSUME NEW j \in Jobs, ZerarContador(j) PROVE NoticesAreTrue' /\ CounterCounts'
  <2>1. notices' = notices /\ counted' \subseteq counted
    BY <1>12 DEF ZerarContador, ClearCounter
  <2>2. CASE ClearCounter(endpoint)
    <3>1. endpoint'.failures = Cardinality(counted')
      BY <2>2, ClearCounts DEF TypeOK
    <3> QED
      BY <1>0, <2>1, <3>1, CounterFrame, NoticesFrame
  <2>3. CASE ~ClearCounter(endpoint)
    <3>1. endpoint'.failures = Cardinality(counted')
      BY <1>12, <2>3 DEF ZerarContador, CounterCounts
    <3> QED
      BY <1>0, <2>1, <3>1, CounterFrame, NoticesFrame
  <2> QED
    BY <2>2, <2>3
<1>13. ASSUME NEW j \in Jobs, RegistrarTentativa(j) PROVE NoticesAreTrue' /\ CounterCounts'
  <2>1. notices' \subseteq notices /\ counted' = counted /\ endpoint'.failures = endpoint.failures
    BY <1>13 DEF RegistrarTentativa
  <2>2. endpoint'.failures = Cardinality(counted') /\ counted' \subseteq counted
    BY <2>1 DEF CounterCounts
  <2> QED
    BY <1>0, <2>1, <2>2, CounterFrame, NoticesFrame
<1>14. ASSUME NEW j \in Jobs, Falhar(j) PROVE NoticesAreTrue' /\ CounterCounts'
  BY <1>14, <1>0, FalharNotices
<1>15. ASSUME NEW n \in notices, AoFalhar(n) PROVE NoticesAreTrue' /\ CounterCounts'
  BY <1>15, <1>0, AoFalharNotices
<1>16. ASSUME NEW n \in notices, ContarFalha(n) PROVE NoticesAreTrue' /\ CounterCounts'
  <2>1. CASE Die
    BY <1>0, <2>1, NoticesDie, CounterDie
  <2>2. CASE ~Die
    BY <1>16, <1>0, <2>2, ContarNotices
  <2> QED
    BY <2>1, <2>2
<1>17. ASSUME NEW n \in notices, Desativar(n) PROVE NoticesAreTrue' /\ CounterCounts'
  <2>1. CASE Die
    BY <1>0, <2>1, NoticesDie, CounterDie
  <2>2. CASE ~Die
    <3>1. notices' \subseteq notices /\ counted' = counted /\ endpoint'.failures = endpoint.failures
      BY <1>17, <2>2 DEF Desativar, Endpoint, TypeOK
    <3>2. endpoint'.failures = Cardinality(counted') /\ counted' \subseteq counted
      BY <3>1 DEF CounterCounts
    <3> QED
      BY <1>0, <3>1, <3>2, CounterFrame, NoticesFrame
  <2> QED
    BY <2>1, <2>2
<1>18. CASE Reativar
  <2>1. notices' = notices /\ counted' \subseteq counted
    BY <1>18 DEF Reativar, ClearCounter
  <2>2. [endpoint EXCEPT !.active = TRUE, !.auto = FALSE] \in Endpoint
    BY EndpointFields DEF TypeOK
  <2>3. endpoint'.failures = Cardinality(counted')
    BY <1>18, <2>2, ClearCounts DEF Reativar
  <2> QED
    BY <1>0, <2>1, <2>3, CounterFrame, NoticesFrame
<1>19. CASE Pausar
  <2>1. notices' \subseteq notices /\ counted' = counted /\ endpoint'.failures = endpoint.failures
    BY <1>19 DEF Pausar, Endpoint, TypeOK
  <2>2. endpoint'.failures = Cardinality(counted') /\ counted' \subseteq counted
    BY <2>1 DEF CounterCounts
  <2> QED
    BY <1>0, <2>1, <2>2, CounterFrame, NoticesFrame
<1>20. CASE Remover
  <2>1. notices' \subseteq notices /\ counted' = counted /\ endpoint'.failures = endpoint.failures
    BY <1>20 DEF Remover, Endpoint, TypeOK
  <2>2. endpoint'.failures = Cardinality(counted') /\ counted' \subseteq counted
    BY <2>1 DEF CounterCounts
  <2> QED
    BY <1>0, <2>1, <2>2, CounterFrame, NoticesFrame
<1>21. CASE Crash
  <2>1. Die
    BY <1>21 DEF Crash
  <2> QED
    BY <1>0, <2>1, NoticesDie, CounterDie
<1>22. CASE UNCHANGED vars
  <2>1. notices' \subseteq notices /\ counted' = counted /\ endpoint'.failures = endpoint.failures
    BY <1>22 DEF vars
  <2>2. endpoint'.failures = Cardinality(counted') /\ counted' \subseteq counted
    BY <2>1 DEF CounterCounts
  <2> QED
    BY <1>0, <2>1, <2>2, CounterFrame, NoticesFrame
<1> QED
  BY <1>1, <1>2, <1>3, <1>4, <1>5, <1>6, <1>7, <1>8, <1>9, <1>10, <1>11,
     <1>12, <1>13, <1>14, <1>15, <1>16, <1>17, <1>18, <1>19, <1>20, <1>21,
     <1>22
  DEF Next, JobStep, Listener

-----------------------------------------------------------------------------
(* The theorems.                                                           *)

LEMMA InvInit == Init => IInv
<1> SUFFICES ASSUME Init PROVE IInv
  OBVIOUS
<1>1. TypeOK
  BY TypeInit
<1>2. AttemptsArePosts /\ QueuedOnce /\ SavingAfterAnswer
  BY DeliveryAssumption DEF Init, AttemptsArePosts, QueuedOnce, SavingAfterAnswer, InFlight, Jobs
<1>3. NoticesAreTrue /\ CounterCounts
  BY FS_EmptySet DEF Init, NoticesAreTrue, CounterCounts
<1>4. SuccessIsTrue /\ AbandonedWasTried /\ DisabledAfterFailures
  BY DEF Init, SuccessIsTrue, AbandonedWasTried, DisabledAfterFailures
<1> QED
  BY <1>1, <1>2, <1>3, <1>4 DEF IInv

LEMMA InvStep == IInv /\ [Next]_vars => IInv'
<1> SUFFICES ASSUME IInv, [Next]_vars PROVE IInv'
  OBVIOUS
<1> USE DEF IInv
<1>1. TypeOK' /\ Forward /\ QueuedOnce' /\ AttemptsArePosts' /\ SavingAfterAnswer'
  BY TypeStep, ForwardStep, QueuedOnceStep, AttemptsStep, SavingStep
<1>2. NoticesAreTrue' /\ CounterCounts'
  BY ListenerStep
<1>3. SuccessIsTrue'
  BY SuccessStep
<1>4. AbandonedWasTried'
  BY <1>1, AbandonmentStep, AbandonedStep
<1>5. DisabledAfterFailures'
  BY <1>1, DeactivationStep, DisabledStep
<1> QED
  BY <1>1, <1>2, <1>3, <1>4, <1>5

(* The variables keep their types, and everything that is said of them     *)
(* above is an invariant.                                                  *)
THEOREM Invariant == Spec => []IInv
  BY InvInit, InvStep, PTL DEF Spec

(* The variables keep their types. *)
THEOREM TypeCorrect == Spec => []TypeOK
<1>1. IInv => TypeOK
  BY DEF IInv
<1> QED
  BY <1>1, Invariant, PTL

(* A delivery shown as SUCCESS was answered with 2xx. *)
THEOREM SuccessShown == Spec => []SuccessIsTrue
<1>1. IInv => SuccessIsTrue
  BY DEF IInv
<1> QED
  BY <1>1, Invariant, PTL

(* A delivery shown as ABANDONED was posted as often as there are          *)
(* attempts, by one of its jobs.                                           *)
THEOREM AbandonedTried == Spec => []AbandonedWasTried
<1>1. IInv => AbandonedWasTried
  BY DEF IInv
<1> QED
  BY <1>1, Invariant, PTL

(* An endpoint is deactivated only after as many deliveries failed for     *)
(* good as the threshold says.                                             *)
THEOREM DisabledJustly == Spec => []DisabledAfterFailures
<1>1. IInv => DisabledAfterFailures
  BY DEF IInv
<1> QED
  BY <1>1, Invariant, PTL

=============================================================================
