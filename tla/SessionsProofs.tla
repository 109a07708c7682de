--------------------------- MODULE SessionsProofs ---------------------------
(***************************************************************************)
(* What Sessions guarantees for any sessions, calls, handlers, passes and  *)
(* faults.                                                                 *)
(*                                                                         *)
(* The argument.  Only Criar makes a row, once per session, and every      *)
(* other write asks for the row it updates: so a deleted row stays away.   *)
(* What a pass deletes from WAHA it listed as stamped and without a row    *)
(* among the rows it had read before; IInv carries the two facts about     *)
(* those readings that the theorems need, for foreign sessions and for     *)
(* sessions whose creation was over.                                       *)
(***************************************************************************)
EXTENDS Sessions, TLAPS

-----------------------------------------------------------------------------
(* The records the variables hold.                                         *)

LEMMA NoSessionType == NoSession \in Sessions
  BY SessionsAssumption DEF NoSession

LEMMA MapStatusType == ASSUME NEW w PROVE MapStatus(w) \in SessionStatus
  BY DEF MapStatus, SessionStatus

LEMMA StartTypes ==
  /\ NoRow \in Row /\ NoRemote \in Remote /\ NewCall \in CallState
  /\ [NewCall EXCEPT !.at = "over"] \in CallState
  /\ IdleHook \in HookState /\ IdlePass \in PassState
<1>1. NoRow \in Row
  BY DEF NoRow, Row, SessionStatus, Number
<1>2. NoRemote \in Remote
  BY SessionsAssumption DEF NoRemote, Remote, Number
<1>3. NewCall \in CallState /\ [NewCall EXCEPT !.at = "over"] \in CallState
  BY <1>2, NoSessionType DEF NewCall, CallState, SessionStatus, Ops
<1>4. IdleHook \in HookState
  BY NoSessionType, SessionsAssumption DEF IdleHook, HookState, Event, Number
<1>5. IdlePass \in PassState
  BY <1>1, <1>2, NoSessionType DEF IdlePass, PassState
<1> QED
  BY <1>1, <1>2, <1>3, <1>4, <1>5

LEMMA RowUpdate ==
  ASSUME NEW r \in Row
  PROVE  /\ r.exists \in BOOLEAN /\ r.status \in SessionStatus /\ r.number \in Number
         /\ \A st \in SessionStatus : [r EXCEPT !.status = st] \in Row
         /\ \A n \in Number : [r EXCEPT !.number = n] \in Row
         /\ \A st \in SessionStatus, n \in Number :
                [r EXCEPT !.status = st, !.number = n] \in Row
  BY DEF Row

LEMMA RemoteUpdate ==
  ASSUME NEW r \in Remote
  PROVE  /\ r.exists \in BOOLEAN /\ r.status \in WahaStatuses /\ r.number \in Number
         /\ \A st \in WahaStatuses : [r EXCEPT !.status = st] \in Remote
         /\ \A st \in WahaStatuses, n \in Number :
                [r EXCEPT !.status = st, !.number = n] \in Remote
         /\ \A k \in {"ours", "stale", "foreign"} : [r EXCEPT !.config = k] \in Remote
  BY DEF Remote

LEMMA BecomeType ==
  ASSUME TypeOK, NEW s \in Sessions, NEW r \in Remote, Become(s, r)
  PROVE  /\ remote' \in [Sessions -> Remote]
         /\ changes' \in [Sessions -> Nat]
         /\ events' \subseteq Event
<1>1. [s |-> s, status |-> r.status, number |-> r.number, n |-> changes[s]] \in Event
  BY DEF TypeOK, Event, Remote
<1> QED
  BY <1>1 DEF TypeOK, Become

LEMMA ExecutedType ==
  ASSUME NEW op \in Ops, NEW r \in Remote
  PROVE  Executed(op, r) \in Remote
<1>1. NoNumber \in Number
  BY DEF Number
<1>2. \A st \in {"STARTING", "STOPPED"} : [r EXCEPT !.status = st] \in Remote
  BY SessionsAssumption DEF Remote
<1>3. [r EXCEPT !.status = "SCAN_QR_CODE", !.number = NoNumber] \in Remote
  BY <1>1, SessionsAssumption DEF Remote
<1> QED
  BY <1>2, <1>3, StartTypes DEF Executed, Ops, LifeCycle

LEMMA DealtType ==
  ASSUME TypeOK, NEW p \in Passes, NEW s \in Sessions
  PROVE  Dealt(p, s) \in PassState
<1>1. pass[p] \in PassState
  BY DEF TypeOK
<1>2. [NoRow EXCEPT !.exists = TRUE] \in Row
  BY DEF NoRow, Row, SessionStatus, Number
<1> QED
  BY <1>1, <1>2, NoSessionType, StartTypes DEF Dealt, PassState

-----------------------------------------------------------------------------
(* Type correctness.                                                       *)

LEMMA TypeInit == Init => TypeOK
<1> SUFFICES ASSUME Init PROVE TypeOK
  OBVIOUS
<1>1. [NoRemote EXCEPT !.exists = TRUE, !.config = "foreign"] \in Remote
  BY SessionsAssumption DEF NoRemote, Remote, Number
<1>2. remote \in [Sessions -> Remote]
  BY <1>1, StartTypes DEF Init
<1>3. row \in [Sessions -> Row] /\ call \in [Calls -> CallState]
  BY StartTypes DEF Init
<1>4. hook \in [Handlers -> HookState] /\ pass \in [Passes -> PassState]
  BY StartTypes DEF Init
<1>5. /\ changes = [s \in Sessions |-> 0] /\ events = {}
      /\ create = [s \in Sessions |-> IF s \in Foreign THEN "failed" ELSE "new"]
      /\ posted = {} /\ lock = FALSE /\ faults = 0
  BY DEF Init
<1>6. changes \in [Sessions -> Nat]
  BY <1>5
<1>7. create \in [Sessions -> {"new", "calling", "rollback", "done", "failed"}]
  BY <1>5
<1>8. events \subseteq Event /\ posted \subseteq Sessions /\ lock \in BOOLEAN
  BY <1>5
<1>9. faults \in 0..MaxFaults
  BY <1>5, SessionsAssumption
<1> QED
  BY <1>2, <1>3, <1>4, <1>6, <1>7, <1>8, <1>9 DEF TypeOK

LEMMA TypeStep == TypeOK /\ [Next]_vars => TypeOK'
<1> SUFFICES ASSUME TypeOK, [Next]_vars PROVE TypeOK'
  OBVIOUS
<1> USE SessionsAssumption DEF TypeOK
<1>1. ASSUME NEW s \in Sessions, WahaMuda(s) PROVE TypeOK'
  <2>1. PICK st \in WahaStatuses, n \in Number :
           Become(s, [remote[s] EXCEPT !.status = st, !.number = n])
    BY <1>1 DEF WahaMuda
  <2>2. [remote[s] EXCEPT !.status = st, !.number = n] \in Remote
    BY RemoteUpdate
  <2> QED
    BY <1>1, <2>1, <2>2, BecomeType DEF WahaMuda
<1>2. ASSUME NEW s \in Sessions, WahaPerde(s) PROVE TypeOK'
  BY <1>2, StartTypes DEF WahaPerde, Fault
<1>3. ASSUME NEW s \in Sessions, AmbienteMuda(s) PROVE TypeOK'
  <2>1. [remote[s] EXCEPT !.config = "stale"] \in Remote
    BY RemoteUpdate
  <2> QED
    BY <1>3, <2>1 DEF AmbienteMuda, Fault
<1>4. ASSUME NEW s \in Sessions, Criar(s) PROVE TypeOK'
  <2>1. [exists |-> TRUE, status |-> "STARTING", number |-> NoNumber] \in Row
    BY DEF Row, SessionStatus, Number
  <2> QED
    BY <1>4, <2>1 DEF Criar
<1>5. ASSUME NEW s \in Sessions, WahaCria(s) PROVE TypeOK'
  <2>1. [NoRemote EXCEPT !.exists = TRUE, !.status = "STARTING"] \in Remote
    BY SessionsAssumption DEF NoRemote, Remote, Number
  <2> QED
    BY <1>5, <2>1 DEF WahaCria
<1>6. ASSUME NEW s \in Sessions, CriarOk(s) PROVE TypeOK'
  BY <1>6 DEF CriarOk
<1>7. ASSUME NEW s \in Sessions, CriarFalha(s) PROVE TypeOK'
  BY <1>7 DEF CriarFalha, Fault
<1>8. ASSUME NEW s \in Sessions, Desfazer(s) PROVE TypeOK'
  BY <1>8, StartTypes DEF Desfazer, Fault
<1>9. ASSUME NEW s \in Sessions, CrashCreate(s) PROVE TypeOK'
  BY <1>9 DEF CrashCreate, Fault
<1>10. ASSUME NEW c \in Calls, Chamar(c) PROVE TypeOK'
  <2>1. PICK s \in Ours, op \in Ops :
           call' = [call EXCEPT ![c] = [NewCall EXCEPT !.at = "waha", !.op = op, !.s = s,
                                                       !.seen = row[s].status]]
    BY <1>10 DEF Chamar
  <2>2. row[s].status \in SessionStatus
    BY RowUpdate DEF Ours
  <2>3. [NewCall EXCEPT !.at = "waha", !.op = op, !.s = s, !.seen = row[s].status] \in CallState
    BY <2>2, StartTypes DEF NewCall, CallState, Ours
  <2> QED
    BY <1>10, <2>1, <2>3 DEF Chamar
<1>11. ASSUME NEW c \in Calls, WahaExecuta(c) PROVE TypeOK'
  <2> DEFINE s == call[c].s
             after == IF remote[s].exists THEN Executed(call[c].op, remote[s]) ELSE NoRemote
  <2>1. s \in Sessions /\ call[c].op \in Ops /\ after \in Remote
    BY StartTypes, ExecutedType DEF CallState
  <2>2. /\ [call[c] EXCEPT !.at = "reply", !.got = after] \in CallState
        /\ [NewCall EXCEPT !.at = "over"] \in CallState
    BY <2>1, StartTypes DEF CallState, NewCall
  <2>3. call' \in [Calls -> CallState]
    BY <1>11, <2>2 DEF WahaExecuta
  <2>4. /\ remote' \in [Sessions -> Remote]
        /\ changes' \in [Sessions -> Nat]
        /\ events' \subseteq Event
    <3>1. CASE after.exists
      BY <1>11, <2>1, <3>1, BecomeType DEF WahaExecuta
    <3>2. CASE ~after.exists
      BY <1>11, <2>1, <3>2, StartTypes DEF WahaExecuta
    <3> QED
      BY <3>1, <3>2
  <2> QED
    BY <1>11, <2>3, <2>4 DEF WahaExecuta
<1>12. ASSUME NEW c \in Calls, ChamadaFalha(c) PROVE TypeOK'
  <2>1. call' \in [Calls -> CallState]
    BY <1>12, StartTypes DEF ChamadaFalha, Over, CallState, NewCall, Step
  <2> QED
    BY <1>12, <2>1 DEF ChamadaFalha, Fault
<1>13. ASSUME NEW c \in Calls, AcaoDeCiclo(c) PROVE TypeOK'
  <2>1. call' \in [Calls -> CallState]
    BY <1>13, StartTypes DEF AcaoDeCiclo, Over, CallState, NewCall
  <2>2. call[c].s \in Sessions
    BY DEF CallState
  <2>3. ASSUME NEW n \in Number
        PROVE  [row[call[c].s] EXCEPT !.status = MapStatus(call[c].got.status), !.number = n] \in Row
    BY <2>2, RowUpdate, MapStatusType
  <2>4. row[call[c].s].number \in Number /\ NoNumber \in Number
    BY <2>2, RowUpdate DEF Number
  <2>5. row' \in [Sessions -> Row]
    BY <1>13, <2>2, <2>3, <2>4 DEF AcaoDeCiclo, UpdateRow
  <2> QED
    BY <1>13, <2>1, <2>5 DEF AcaoDeCiclo
<1>14. ASSUME NEW c \in Calls, SincronizarStatus(c) PROVE TypeOK'
  <2>1. call' \in [Calls -> CallState]
    BY <1>14, StartTypes DEF SincronizarStatus, Over, CallState, NewCall
  <2>2. call[c].s \in Sessions
    BY DEF CallState
  <2>3. ASSUME NEW st \in SessionStatus
        PROVE  [row[call[c].s] EXCEPT !.status = st] \in Row
    BY <2>2, RowUpdate
  <2>4. "FAILED" \in SessionStatus
    BY DEF SessionStatus
  <2>5. row' \in [Sessions -> Row]
    BY <1>14, <2>2, <2>3, <2>4, MapStatusType DEF SincronizarStatus, UpdateRow
  <2> QED
    BY <1>14, <2>1, <2>5 DEF SincronizarStatus
<1>15. ASSUME NEW c \in Calls, Remover(c) PROVE TypeOK'
  <2>1. call' \in [Calls -> CallState]
    BY <1>15, StartTypes DEF Remover, Over, CallState, NewCall
  <2>2. call[c].s \in Sessions
    BY DEF CallState
  <2> QED
    BY <1>15, <2>1, <2>2, StartTypes DEF Remover
<1>16. ASSUME NEW h \in Handlers, ResolverSessao(h) PROVE TypeOK'
  <2>1. hook' \in [Handlers -> HookState]
    BY <1>16 DEF ResolverSessao, HookState
  <2> QED
    BY <1>16, <2>1 DEF ResolverSessao
<1>17. ASSUME NEW h \in Handlers, AoMudarStatus(h) PROVE TypeOK'
  <2>1. hook[h].ev \in Event
    BY DEF HookState
  <2>2. hook[h].ev.s \in Sessions /\ hook[h].ev.number \in Number
    BY <2>1 DEF Event
  <2>3. ASSUME NEW n \in Number
        PROVE  [row[hook[h].ev.s] EXCEPT !.status = MapStatus(hook[h].ev.status), !.number = n] \in Row
    BY <2>2, RowUpdate, MapStatusType
  <2>4. row[hook[h].ev.s].number \in Number
    BY <2>2, RowUpdate
  <2>5. row' \in [Sessions -> Row]
    BY <1>17, <2>2, <2>3, <2>4 DEF AoMudarStatus, UpdateRow
  <2> QED
    BY <1>17, <2>5, StartTypes DEF AoMudarStatus
<1>18. CASE EventoPerdido
  BY <1>18, StartTypes DEF EventoPerdido, Fault
<1>19. ASSUME NEW p \in Passes, LerLocais(p) PROVE TypeOK'
  <2>1. [IdlePass EXCEPT !.at = "remotas", !.locais = row,
           !.answered = {s \in Ours : create[s] = "done" /\ row[s].exists}] \in PassState
    BY StartTypes DEF PassState, IdlePass, Ours
  <2> QED
    BY <1>19, <2>1 DEF LerLocais, Pass
<1>20. ASSUME NEW p \in Passes, LerRemotas(p) PROVE TypeOK'
  <2>1. [pass[p] EXCEPT !.at = "locais", !.remotas = remote,
           !.todo = {s \in Sessions : pass[p].locais[s].exists}] \in PassState
    BY DEF PassState
  <2> QED
    BY <1>20, <2>1 DEF LerRemotas, Pass
<1>21. ASSUME NEW p \in Passes, MarcarSumida(p) PROVE TypeOK'
  <2>1. PICK s \in pass[p].todo :
           /\ pass' = [pass EXCEPT ![p] = IF row[s].exists \/ pass[p].locais[s].status = "FAILED"
                                          THEN Dealt(p, s) ELSE IdlePass]
           /\ row' \in {row, [row EXCEPT ![s] = [row[s] EXCEPT !.status = "FAILED"]]}
    BY <1>21 DEF MarcarSumida, Pass, UpdateRow
  <2>2. s \in Sessions
    BY DEF PassState
  <2>3. pass' \in [Passes -> PassState]
    BY <2>1, <2>2, DealtType, StartTypes
  <2>4. [row[s] EXCEPT !.status = "FAILED"] \in Row
    BY <2>2, RowUpdate DEF SessionStatus
  <2>5. row' \in [Sessions -> Row]
    BY <2>1, <2>2, <2>4
  <2> QED
    BY <1>21, <2>3, <2>5 DEF MarcarSumida
<1>22. ASSUME NEW p \in Passes, CorrigirWebhook(p) PROVE TypeOK'
  <2>1. PICK s \in pass[p].todo :
           /\ pass' = [pass EXCEPT ![p] = [pass[p] EXCEPT !.at = "status", !.s = s]]
           /\ remote' \in {remote, [remote EXCEPT ![s] = [remote[s] EXCEPT !.config = "ours"]]}
           /\ faults' \in {faults, faults + 1} /\ (faults' # faults => faults < MaxFaults)
    BY <1>22 DEF CorrigirWebhook, Pass, Fault
  <2>2. s \in Sessions
    BY DEF PassState
  <2>3. [pass[p] EXCEPT !.at = "status", !.s = s] \in PassState
    BY <2>2 DEF PassState
  <2>4. [remote[s] EXCEPT !.config = "ours"] \in Remote
    BY <2>2, RemoteUpdate
  <2>5. pass' \in [Passes -> PassState]
    BY <2>1, <2>3
  <2>6. remote' \in [Sessions -> Remote]
    BY <2>1, <2>2, <2>4
  <2>7. faults' \in 0..MaxFaults
    BY <2>1, SessionsAssumption
  <2> QED
    BY <1>22, <2>5, <2>6, <2>7 DEF CorrigirWebhook
<1>23. ASSUME NEW p \in Passes, CorrigirStatus(p) PROVE TypeOK'
  <2>1. pass[p].s \in Sessions
    BY DEF PassState
  <2>2. [pass[p] EXCEPT !.at = "numero"] \in PassState
    BY DEF PassState
  <2>3. pass' \in [Passes -> PassState]
    BY <1>23, <2>1, <2>2, DealtType, StartTypes DEF CorrigirStatus, Pass
  <2>4. [row[pass[p].s] EXCEPT !.status = MapStatus(pass[p].remotas[pass[p].s].status)] \in Row
    BY <2>1, RowUpdate, MapStatusType
  <2>5. row' \in [Sessions -> Row]
    BY <1>23, <2>1, <2>4 DEF CorrigirStatus, UpdateRow
  <2> QED
    BY <1>23, <2>3, <2>5 DEF CorrigirStatus
<1>24. ASSUME NEW p \in Passes, VincularNumero(p) PROVE TypeOK'
  <2>1. pass[p].s \in Sessions
    BY DEF PassState
  <2>2. PICK me \in {pass[p].remotas[pass[p].s].number, remote[pass[p].s].number, NoNumber} :
           /\ faults' \in {faults, faults + 1} /\ (faults' # faults => faults < MaxFaults)
           /\ pass' = [pass EXCEPT ![p] = IF me = NoNumber \/ row[pass[p].s].exists
                                          THEN Dealt(p, pass[p].s) ELSE IdlePass]
           /\ row' \in {row, [row EXCEPT ![pass[p].s] = [row[pass[p].s] EXCEPT !.number = me]]}
    BY <1>24 DEF VincularNumero, Pass, UpdateRow, Fault
  <2>3. pass[p].remotas[pass[p].s] \in Remote
    BY <2>1 DEF PassState
  <2>4. me \in Number
    BY <2>1, <2>2, <2>3, RemoteUpdate DEF Number
  <2>5. pass' \in [Passes -> PassState]
    BY <2>1, <2>2, DealtType, StartTypes
  <2>6. [row[pass[p].s] EXCEPT !.number = me] \in Row
    BY <2>1, <2>4, RowUpdate
  <2>7. row' \in [Sessions -> Row]
    BY <2>1, <2>2, <2>6
  <2>8. faults' \in 0..MaxFaults
    BY <2>2, SessionsAssumption
  <2> QED
    BY <1>24, <2>5, <2>7, <2>8 DEF VincularNumero
<1>25. ASSUME NEW p \in Passes, ComecarOrfas(p) PROVE TypeOK'
  <2>1. [pass[p] EXCEPT !.at = "orfas", !.todo = Orfas(p)] \in PassState
    BY DEF PassState, Orfas
  <2> QED
    BY <1>25, <2>1 DEF ComecarOrfas, Pass
<1>26. ASSUME NEW p \in Passes, RemoverOrfa(p) PROVE TypeOK'
  <2>1. PICK s \in pass[p].todo :
           /\ pass' = [pass EXCEPT ![p] = [pass[p] EXCEPT !.todo = @ \ {s}]]
           /\ remote' \in {remote, [remote EXCEPT ![s] = NoRemote]}
           /\ faults' \in {faults, faults + 1} /\ (faults' # faults => faults < MaxFaults)
    BY <1>26 DEF RemoverOrfa, Pass, Fault
  <2>2. [pass[p] EXCEPT !.todo = @ \ {s}] \in PassState /\ s \in Sessions
    BY DEF PassState
  <2>3. pass' \in [Passes -> PassState]
    BY <2>1, <2>2
  <2>4. remote' \in [Sessions -> Remote]
    BY <2>1, <2>2, StartTypes
  <2>5. faults' \in 0..MaxFaults
    BY <2>1, SessionsAssumption
  <2> QED
    BY <1>26, <2>3, <2>4, <2>5 DEF RemoverOrfa
<1>27. ASSUME NEW p \in Passes, Terminar(p) PROVE TypeOK'
  BY <1>27, StartTypes DEF Terminar, Pass
<1>28. ASSUME NEW p \in Passes, PassFalha(p) PROVE TypeOK'
  BY <1>28, StartTypes DEF PassFalha, Fault
<1>29. CASE LockExpira
  BY <1>29 DEF LockExpira
<1>30. CASE UNCHANGED vars
  BY <1>30 DEF vars
<1> QED
  BY <1>1, <1>2, <1>3, <1>4, <1>5, <1>6, <1>7, <1>8, <1>9, <1>10, <1>11,
     <1>12, <1>13, <1>14, <1>15, <1>16, <1>17, <1>18, <1>19, <1>20, <1>21,
     <1>22, <1>23, <1>24, <1>25, <1>26, <1>27, <1>28, <1>29, <1>30
  DEF Next, CreateStep, CallStep, PassStep

(* Every variable keeps its type: the row never shows a status the code    *)
(* does not know, whatever WAHA reports.                                   *)
THEOREM TypeCorrect == Spec => []TypeOK
  BY TypeInit, TypeStep, PTL DEF Spec

-----------------------------------------------------------------------------
(* What a pass has read.                                                   *)

LEMMA StartFields ==
  /\ [NewCall EXCEPT !.at = "over"].at = "over"
  /\ [NoRemote EXCEPT !.exists = TRUE, !.config = "foreign"].config = "foreign"
  BY DEF NewCall, NoRemote

LEMMA IdleToPass ==
  /\ \A f \in Foreign : ForeignToPass(f, IdlePass)
  /\ AnsweredToPass(IdlePass)
  BY SessionsAssumption
  DEF ForeignToPass, AnsweredToPass, IdlePass, NoRow, NoRemote

LEMMA DealtToPass ==
  ASSUME TypeOK, NEW p \in Passes, NEW s \in Sessions
  PROVE  /\ \A f \in Foreign : f # s /\ ForeignToPass(f, pass[p])
                => ForeignToPass(f, Dealt(p, s))
         /\ AnsweredToPass(pass[p]) => AnsweredToPass(Dealt(p, s))
<1>1. pass[p] \in PassState
  BY DEF TypeOK
<1>2. ASSUME NEW f \in Foreign, f # s, ForeignToPass(f, pass[p])
      PROVE  ForeignToPass(f, Dealt(p, s))
  BY <1>1, <1>2, SessionsAssumption DEF ForeignToPass, Dealt, PassState
<1>3. ASSUME AnsweredToPass(pass[p]) PROVE AnsweredToPass(Dealt(p, s))
  BY <1>1, <1>3 DEF AnsweredToPass, Dealt, PassState, NoRow
<1> QED
  BY <1>2, <1>3

-----------------------------------------------------------------------------
(* The inductive invariant.                                                *)

LEMMA InvInit == Init => IInv
<1> SUFFICES ASSUME Init PROVE IInv
  OBVIOUS
<1>1. ForeignApart
  BY IdleToPass, SessionsAssumption DEF Init, ForeignApart, NoRow, NewCall
<1>2. AnsweredIsKnown
  BY IdleToPass DEF Init, AnsweredIsKnown
<1> QED
  BY <1>1, <1>2, TypeInit DEF IInv

LEMMA ForeignStep == TypeOK /\ ForeignApart /\ [Next]_vars => ForeignApart'
<1> SUFFICES ASSUME TypeOK, ForeignApart, [Next]_vars PROVE ForeignApart'
  OBVIOUS
<1> USE SessionsAssumption DEF ForeignApart, TypeOK, Ours
<1>1. ASSUME NEW s \in Sessions, WahaMuda(s) PROVE ForeignApart'
  BY <1>1 DEF WahaMuda, Become
<1>2. ASSUME NEW s \in Sessions, WahaPerde(s) PROVE ForeignApart'
  BY <1>2 DEF WahaPerde, Fault
<1>3. ASSUME NEW s \in Sessions, AmbienteMuda(s) PROVE ForeignApart'
  BY <1>3 DEF AmbienteMuda, Fault
<1>4. ASSUME NEW s \in Sessions, Criar(s) PROVE ForeignApart'
  BY <1>4 DEF Criar
<1>5. ASSUME NEW s \in Sessions, WahaCria(s) PROVE ForeignApart'
  BY <1>5 DEF WahaCria
<1>6. ASSUME NEW s \in Sessions, CriarOk(s) PROVE ForeignApart'
  BY <1>6 DEF CriarOk
<1>7. ASSUME NEW s \in Sessions, CriarFalha(s) PROVE ForeignApart'
  BY <1>7 DEF CriarFalha, Fault
<1>8. ASSUME NEW s \in Sessions, Desfazer(s) PROVE ForeignApart'
  BY <1>8 DEF Desfazer, Fault, NoRow
<1>9. ASSUME NEW s \in Sessions, CrashCreate(s) PROVE ForeignApart'
  BY <1>9 DEF CrashCreate, Fault
<1>10. ASSUME NEW c \in Calls, Chamar(c) PROVE ForeignApart'
  BY <1>10 DEF Chamar, NewCall
<1>11. ASSUME NEW c \in Calls, WahaExecuta(c) PROVE ForeignApart'
  <2>1. /\ call[c].at \in {"waha", "late"}
        /\ \A f \in Foreign : call[c].s # f
    BY <1>11 DEF WahaExecuta
  <2>2. \A f \in Foreign : remote'[f] = remote[f]
    BY <1>11, <2>1 DEF WahaExecuta, Become
  <2>3. PICK g : call' \in {[call EXCEPT ![c] = [call[c] EXCEPT !.at = "reply", !.got = g]],
                           [call EXCEPT ![c] = [NewCall EXCEPT !.at = "over"]]}
    <3> DEFINE after == IF remote[call[c].s].exists
                        THEN Executed(call[c].op, remote[call[c].s]) ELSE NoRemote
    <3>1. \/ call' = [call EXCEPT ![c].at = "reply", ![c].got = after]
          \/ call' = [call EXCEPT ![c] = [NewCall EXCEPT !.at = "over"]]
      BY <1>11 DEF WahaExecuta
    <3> HIDE DEF after
    <3> QED
      BY <3>1
  <2>4. ASSUME NEW f \in Foreign, NEW d \in Calls
        PROVE  (call[d].at \in {"waha", "late", "reply"} => call[d].s # f)'
    <3>1. [call[c] EXCEPT !.at = "reply", !.got = g].s = call[c].s
      BY DEF CallState
    <3>2. CASE d # c
      BY <2>3, <3>2
    <3>3. CASE d = c
      <4>1. call'[c] \in {[call[c] EXCEPT !.at = "reply", !.got = g],
                         [NewCall EXCEPT !.at = "over"]}
        BY <2>3
      <4>2. call'[c].s = call[c].s \/ call'[c].at = "over"
        BY <3>1, <4>1, StartFields
      <4> QED
        BY <2>1, <3>3, <4>2
    <3> QED
      BY <3>2, <3>3
  <2> QED
    BY <1>11, <2>2, <2>4 DEF WahaExecuta
<1>12. ASSUME NEW c \in Calls, ChamadaFalha(c) PROVE ForeignApart'
  <2>1. ASSUME NEW f \in Foreign, NEW d \in Calls
        PROVE  (call[d].at \in {"waha", "late", "reply"} => call[d].s # f)'
    BY <1>12 DEF ChamadaFalha, Step, Over, CallState, NewCall
  <2> QED
    BY <1>12, <2>1 DEF ChamadaFalha
<1>13. ASSUME NEW c \in Calls, AcaoDeCiclo(c) PROVE ForeignApart'
  BY <1>13 DEF AcaoDeCiclo, UpdateRow, Over, NewCall
<1>14. ASSUME NEW c \in Calls, SincronizarStatus(c) PROVE ForeignApart'
  BY <1>14 DEF SincronizarStatus, UpdateRow, Over, NewCall
<1>15. ASSUME NEW c \in Calls, Remover(c) PROVE ForeignApart'
  BY <1>15 DEF Remover, Over, NoRow, NewCall
<1>16. ASSUME NEW h \in Handlers, ResolverSessao(h) PROVE ForeignApart'
  BY <1>16 DEF ResolverSessao
<1>17. ASSUME NEW h \in Handlers, AoMudarStatus(h) PROVE ForeignApart'
  BY <1>17 DEF AoMudarStatus, UpdateRow, IdleHook
<1>18. CASE EventoPerdido
  BY <1>18 DEF EventoPerdido, Fault, IdleHook
<1>19. ASSUME NEW p \in Passes, LerLocais(p) PROVE ForeignApart'
  <2>1. ASSUME NEW f \in Foreign
        PROVE  ForeignToPass(f, [IdlePass EXCEPT !.at = "remotas", !.locais = row,
                  !.answered = {s \in Ours : create[s] = "done" /\ row[s].exists}])
    BY DEF ForeignToPass, IdlePass, NoRemote
  <2> QED
    BY <1>19, <2>1 DEF LerLocais, Pass
<1>20. ASSUME NEW p \in Passes, LerRemotas(p) PROVE ForeignApart'
  <2>0. \A f \in Foreign : remote[f].config = "foreign"
    BY StartFields
  <2>1. ASSUME NEW f \in Foreign
        PROVE  ForeignToPass(f, [pass[p] EXCEPT !.at = "locais", !.remotas = remote,
                  !.todo = {s \in Sessions : pass[p].locais[s].exists}])
    BY <2>0 DEF ForeignToPass, PassState
  <2> QED
    BY <1>20, <2>1 DEF LerRemotas, Pass
<1>21. ASSUME NEW p \in Passes, MarcarSumida(p) PROVE ForeignApart'
  <2>1. PICK s \in pass[p].todo :
           /\ pass[p].at = "locais"
           /\ pass' = [pass EXCEPT ![p] = IF row[s].exists \/ pass[p].locais[s].status = "FAILED"
                                          THEN Dealt(p, s) ELSE IdlePass]
           /\ row' \in {row, [row EXCEPT ![s] = [row[s] EXCEPT !.status = "FAILED"]]}
    BY <1>21 DEF MarcarSumida, Pass, UpdateRow
  <2>2. s \in Sessions
    BY DEF PassState
  <2>3. ASSUME NEW f \in Foreign
        PROVE  f # s /\ ForeignToPass(f, IdlePass) /\ ForeignToPass(f, Dealt(p, s))
    BY <2>2, IdleToPass, DealtToPass DEF ForeignToPass
  <2>4. ASSUME NEW f \in Foreign
        PROVE  (\A q \in Passes : ForeignToPass(f, pass[q]))' /\ row'[f] = row[f]
    BY <2>1, <2>2, <2>3
  <2> QED
    BY <1>21, <2>4 DEF MarcarSumida
<1>22. ASSUME NEW p \in Passes, CorrigirWebhook(p) PROVE ForeignApart'
  <2>1. PICK s \in pass[p].todo :
           /\ pass' = [pass EXCEPT ![p] = [pass[p] EXCEPT !.at = "status", !.s = s]]
           /\ remote' \in {remote, [remote EXCEPT ![s] = [remote[s] EXCEPT !.config = "ours"]]}
    BY <1>22 DEF CorrigirWebhook, Pass
  <2>2. ASSUME NEW f \in Foreign
        PROVE  f # s /\ ForeignToPass(f, [pass[p] EXCEPT !.at = "status", !.s = s])
    BY DEF ForeignToPass, PassState
  <2>3. ASSUME NEW f \in Foreign
        PROVE  (\A q \in Passes : ForeignToPass(f, pass[q]))' /\ remote'[f] = remote[f]
    BY <2>1, <2>2
  <2> QED
    BY <1>22, <2>3 DEF CorrigirWebhook
<1>23. ASSUME NEW p \in Passes, CorrigirStatus(p) PROVE ForeignApart'
  <2>1. pass[p].s \in Sessions
    BY DEF PassState
  <2>2. ASSUME NEW f \in Foreign, pass[p].at \in {"status", "numero"}
        PROVE  /\ ForeignToPass(f, IdlePass)
               /\ ForeignToPass(f, Dealt(p, pass[p].s))
               /\ ForeignToPass(f, [pass[p] EXCEPT !.at = "numero"])
    BY <2>1, <2>2, IdleToPass, DealtToPass DEF ForeignToPass, PassState
  <2>3. ASSUME NEW f \in Foreign
        PROVE  (\A q \in Passes : ForeignToPass(f, pass[q]))' /\ ~row'[f].exists
    BY <1>23, <2>1, <2>2 DEF CorrigirStatus, Pass, UpdateRow
  <2> QED
    BY <1>23, <2>3 DEF CorrigirStatus
<1>24. ASSUME NEW p \in Passes, VincularNumero(p) PROVE ForeignApart'
  <2>1. pass[p].s \in Sessions
    BY DEF PassState
  <2>2. ASSUME NEW f \in Foreign, pass[p].at \in {"status", "numero"}
        PROVE  /\ ForeignToPass(f, IdlePass)
               /\ ForeignToPass(f, Dealt(p, pass[p].s))
               /\ ForeignToPass(f, [pass[p] EXCEPT !.at = "numero"])
    BY <2>1, <2>2, IdleToPass, DealtToPass DEF ForeignToPass, PassState
  <2>3. ASSUME NEW f \in Foreign
        PROVE  (\A q \in Passes : ForeignToPass(f, pass[q]))' /\ ~row'[f].exists
    BY <1>24, <2>1, <2>2 DEF VincularNumero, Pass, UpdateRow
  <2> QED
    BY <1>24, <2>3 DEF VincularNumero
<1>25. ASSUME NEW p \in Passes, ComecarOrfas(p) PROVE ForeignApart'
  <2>1. ASSUME NEW f \in Foreign
        PROVE  ForeignToPass(f, [pass[p] EXCEPT !.at = "orfas", !.todo = Orfas(p)])
    BY DEF ForeignToPass, PassState, Orfas
  <2> QED
    BY <1>25, <2>1 DEF ComecarOrfas, Pass
<1>26. ASSUME NEW p \in Passes, RemoverOrfa(p) PROVE ForeignApart'
  <2>1. PICK s \in pass[p].todo :
           /\ pass' = [pass EXCEPT ![p] = [pass[p] EXCEPT !.todo = @ \ {s}]]
           /\ remote' \in {remote, [remote EXCEPT ![s] = NoRemote]}
    BY <1>26 DEF RemoverOrfa, Pass
  <2>2. ASSUME NEW f \in Foreign
        PROVE  f # s /\ ForeignToPass(f, [pass[p] EXCEPT !.todo = @ \ {s}])
    BY DEF ForeignToPass, PassState
  <2>3. ASSUME NEW f \in Foreign
        PROVE  (\A q \in Passes : ForeignToPass(f, pass[q]))' /\ remote'[f] = remote[f]
    BY <2>1, <2>2
  <2> QED
    BY <1>26, <2>3 DEF RemoverOrfa
<1>27. ASSUME NEW p \in Passes, Terminar(p) PROVE ForeignApart'
  BY <1>27, IdleToPass DEF Terminar, Pass
<1>28. ASSUME NEW p \in Passes, PassFalha(p) PROVE ForeignApart'
  BY <1>28, IdleToPass DEF PassFalha
<1>29. CASE LockExpira
  BY <1>29 DEF LockExpira
<1>30. CASE UNCHANGED vars
  BY <1>30 DEF vars
<1> QED
  BY <1>1, <1>2, <1>3, <1>4, <1>5, <1>6, <1>7, <1>8, <1>9, <1>10, <1>11,
     <1>12, <1>13, <1>14, <1>15, <1>16, <1>17, <1>18, <1>19, <1>20, <1>21,
     <1>22, <1>23, <1>24, <1>25, <1>26, <1>27, <1>28, <1>29, <1>30
  DEF Next, CreateStep, CallStep, PassStep

LEMMA AnsweredStep == TypeOK /\ AnsweredIsKnown /\ [Next]_vars => AnsweredIsKnown'
<1> SUFFICES ASSUME TypeOK, AnsweredIsKnown, [Next]_vars PROVE AnsweredIsKnown'
  OBVIOUS
<1> USE DEF AnsweredIsKnown, TypeOK
<1>1. ASSUME NEW s \in Sessions, WahaMuda(s) PROVE AnsweredIsKnown'
  BY <1>1 DEF WahaMuda
<1>2. ASSUME NEW s \in Sessions, WahaPerde(s) PROVE AnsweredIsKnown'
  BY <1>2 DEF WahaPerde
<1>3. ASSUME NEW s \in Sessions, AmbienteMuda(s) PROVE AnsweredIsKnown'
  BY <1>3 DEF AmbienteMuda
<1>4. ASSUME NEW s \in Sessions, Criar(s) PROVE AnsweredIsKnown'
  BY <1>4 DEF Criar
<1>5. ASSUME NEW s \in Sessions, WahaCria(s) PROVE AnsweredIsKnown'
  BY <1>5 DEF WahaCria
<1>6. ASSUME NEW s \in Sessions, CriarOk(s) PROVE AnsweredIsKnown'
  BY <1>6 DEF CriarOk
<1>7. ASSUME NEW s \in Sessions, CriarFalha(s) PROVE AnsweredIsKnown'
  BY <1>7 DEF CriarFalha
<1>8. ASSUME NEW s \in Sessions, Desfazer(s) PROVE AnsweredIsKnown'
  BY <1>8 DEF Desfazer
<1>9. ASSUME NEW s \in Sessions, CrashCreate(s) PROVE AnsweredIsKnown'
  BY <1>9 DEF CrashCreate
<1>10. ASSUME NEW c \in Calls, Chamar(c) PROVE AnsweredIsKnown'
  BY <1>10 DEF Chamar
<1>11. ASSUME NEW c \in Calls, WahaExecuta(c) PROVE AnsweredIsKnown'
  BY <1>11 DEF WahaExecuta
<1>12. ASSUME NEW c \in Calls, ChamadaFalha(c) PROVE AnsweredIsKnown'
  BY <1>12 DEF ChamadaFalha
<1>13. ASSUME NEW c \in Calls, AcaoDeCiclo(c) PROVE AnsweredIsKnown'
  BY <1>13 DEF AcaoDeCiclo
<1>14. ASSUME NEW c \in Calls, SincronizarStatus(c) PROVE AnsweredIsKnown'
  BY <1>14 DEF SincronizarStatus
<1>15. ASSUME NEW c \in Calls, Remover(c) PROVE AnsweredIsKnown'
  BY <1>15 DEF Remover
<1>16. ASSUME NEW h \in Handlers, ResolverSessao(h) PROVE AnsweredIsKnown'
  BY <1>16 DEF ResolverSessao
<1>17. ASSUME NEW h \in Handlers, AoMudarStatus(h) PROVE AnsweredIsKnown'
  BY <1>17 DEF AoMudarStatus
<1>18. CASE EventoPerdido
  BY <1>18 DEF EventoPerdido
<1>19. ASSUME NEW p \in Passes, LerLocais(p) PROVE AnsweredIsKnown'
  <2>1. AnsweredToPass([IdlePass EXCEPT !.at = "remotas", !.locais = row,
                         !.answered = {s \in Ours : create[s] = "done" /\ row[s].exists}])
    BY DEF AnsweredToPass, IdlePass
  <2> QED
    BY <1>19, <2>1 DEF LerLocais, Pass
<1>20. ASSUME NEW p \in Passes, LerRemotas(p) PROVE AnsweredIsKnown'
  <2>1. AnsweredToPass([pass[p] EXCEPT !.at = "locais", !.remotas = remote,
                         !.todo = {s \in Sessions : pass[p].locais[s].exists}])
    BY DEF AnsweredToPass, PassState
  <2> QED
    BY <1>20, <2>1 DEF LerRemotas, Pass
<1>21. ASSUME NEW p \in Passes, MarcarSumida(p) PROVE AnsweredIsKnown'
  <2>1. PICK s \in pass[p].todo :
           pass' = [pass EXCEPT ![p] = IF row[s].exists \/ pass[p].locais[s].status = "FAILED"
                                       THEN Dealt(p, s) ELSE IdlePass]
    BY <1>21 DEF MarcarSumida, Pass
  <2> QED
    BY <2>1, IdleToPass, DealtToPass DEF PassState
<1>22. ASSUME NEW p \in Passes, CorrigirWebhook(p) PROVE AnsweredIsKnown'
  <2>1. PICK s \in pass[p].todo :
           pass[p].at = "locais" /\ pass' = [pass EXCEPT ![p] = [pass[p] EXCEPT !.at = "status", !.s = s]]
    BY <1>22 DEF CorrigirWebhook, Pass
  <2>2. AnsweredToPass([pass[p] EXCEPT !.at = "status", !.s = s])
    BY DEF AnsweredToPass, PassState
  <2> QED
    BY <2>1, <2>2
<1>23. ASSUME NEW p \in Passes, CorrigirStatus(p) PROVE AnsweredIsKnown'
  <2>1. /\ AnsweredToPass(IdlePass)
        /\ AnsweredToPass(Dealt(p, pass[p].s))
        /\ AnsweredToPass([pass[p] EXCEPT !.at = "numero"])
    <3>1. AnsweredToPass(IdlePass) /\ AnsweredToPass(Dealt(p, pass[p].s))
      BY IdleToPass, DealtToPass DEF PassState
    <3>2. AnsweredToPass([pass[p] EXCEPT !.at = "numero"])
      BY DEF AnsweredToPass, PassState
    <3> QED
      BY <3>1, <3>2
  <2> QED
    BY <1>23, <2>1 DEF CorrigirStatus, Pass
<1>24. ASSUME NEW p \in Passes, VincularNumero(p) PROVE AnsweredIsKnown'
  <2>1. AnsweredToPass(IdlePass) /\ AnsweredToPass(Dealt(p, pass[p].s))
    BY IdleToPass, DealtToPass DEF PassState
  <2> QED
    BY <1>24, <2>1 DEF VincularNumero, Pass
<1>25. ASSUME NEW p \in Passes, ComecarOrfas(p) PROVE AnsweredIsKnown'
  <2>1. AnsweredToPass([pass[p] EXCEPT !.at = "orfas", !.todo = Orfas(p)])
    BY DEF AnsweredToPass, PassState, Orfas
  <2> QED
    BY <1>25, <2>1 DEF ComecarOrfas, Pass
<1>26. ASSUME NEW p \in Passes, RemoverOrfa(p) PROVE AnsweredIsKnown'
  <2>1. PICK s \in pass[p].todo :
           pass' = [pass EXCEPT ![p] = [pass[p] EXCEPT !.todo = @ \ {s}]]
    BY <1>26 DEF RemoverOrfa, Pass
  <2>2. AnsweredToPass([pass[p] EXCEPT !.todo = @ \ {s}])
    BY DEF AnsweredToPass, PassState
  <2> QED
    BY <2>1, <2>2
<1>27. ASSUME NEW p \in Passes, Terminar(p) PROVE AnsweredIsKnown'
  BY <1>27, IdleToPass DEF Terminar, Pass
<1>28. ASSUME NEW p \in Passes, PassFalha(p) PROVE AnsweredIsKnown'
  BY <1>28, IdleToPass DEF PassFalha
<1>29. CASE LockExpira
  BY <1>29 DEF LockExpira
<1>30. CASE UNCHANGED vars
  BY <1>30 DEF vars
<1> QED
  BY <1>1, <1>2, <1>3, <1>4, <1>5, <1>6, <1>7, <1>8, <1>9, <1>10, <1>11,
     <1>12, <1>13, <1>14, <1>15, <1>16, <1>17, <1>18, <1>19, <1>20, <1>21,
     <1>22, <1>23, <1>24, <1>25, <1>26, <1>27, <1>28, <1>29, <1>30
  DEF Next, CreateStep, CallStep, PassStep

LEMMA InvStep == IInv /\ [Next]_vars => IInv'
  BY TypeStep, ForeignStep, AnsweredStep DEF IInv

-----------------------------------------------------------------------------
(* The theorems.                                                           *)

(* In every reachable state no call, creation or pass deals with a foreign *)
(* session, and a pass that is under way knows, and does not take for an   *)
(* orphan, every session whose creation was over when it read the rows.    *)
THEOREM InvCorrect == Spec => []IInv
  BY InvInit, InvStep, PTL DEF Spec

(* No handler, pass or call that is still under way brings back a row that *)
(* was deleted.                                                            *)
THEOREM DeletedStays == Spec => DeletedStaysDeleted
<1> DEFINE A == \A s \in Sessions : create[s] # "new" /\ ~row[s].exists => ~row'[s].exists
<1>1. TypeOK /\ [Next]_vars => [A]_vars
  <2> SUFFICES ASSUME TypeOK, [Next]_vars, NEW s \in Sessions,
                      create[s] # "new", ~row[s].exists
               PROVE  ~row'[s].exists
    BY DEF vars
  <2> USE DEF TypeOK
  <2>1. ASSUME NEW t \in Sessions, WahaMuda(t) PROVE ~row'[s].exists
    BY <2>1 DEF WahaMuda
  <2>2. ASSUME NEW t \in Sessions, WahaPerde(t) PROVE ~row'[s].exists
    BY <2>2 DEF WahaPerde
  <2>3. ASSUME NEW t \in Sessions, AmbienteMuda(t) PROVE ~row'[s].exists
    BY <2>3 DEF AmbienteMuda
  <2>4. ASSUME NEW t \in Sessions, Criar(t) PROVE ~row'[s].exists
    BY <2>4 DEF Criar
  <2>5. ASSUME NEW t \in Sessions, WahaCria(t) PROVE ~row'[s].exists
    BY <2>5 DEF WahaCria
  <2>6. ASSUME NEW t \in Sessions, CriarOk(t) PROVE ~row'[s].exists
    BY <2>6 DEF CriarOk
  <2>7. ASSUME NEW t \in Sessions, CriarFalha(t) PROVE ~row'[s].exists
    BY <2>7 DEF CriarFalha
  <2>8. ASSUME NEW t \in Sessions, Desfazer(t) PROVE ~row'[s].exists
    BY <2>8 DEF Desfazer, NoRow
  <2>9. ASSUME NEW t \in Sessions, CrashCreate(t) PROVE ~row'[s].exists
    BY <2>9 DEF CrashCreate
  <2>10. ASSUME NEW c \in Calls, Chamar(c) PROVE ~row'[s].exists
    BY <2>10 DEF Chamar
  <2>11. ASSUME NEW c \in Calls, WahaExecuta(c) PROVE ~row'[s].exists
    BY <2>11 DEF WahaExecuta
  <2>12. ASSUME NEW c \in Calls, ChamadaFalha(c) PROVE ~row'[s].exists
    BY <2>12 DEF ChamadaFalha
  <2>13. ASSUME NEW c \in Calls, AcaoDeCiclo(c) PROVE ~row'[s].exists
    BY <2>13 DEF AcaoDeCiclo, UpdateRow
  <2>14. ASSUME NEW c \in Calls, SincronizarStatus(c) PROVE ~row'[s].exists
    BY <2>14 DEF SincronizarStatus, UpdateRow
  <2>15. ASSUME NEW c \in Calls, Remover(c) PROVE ~row'[s].exists
    BY <2>15 DEF Remover, NoRow
  <2>16. ASSUME NEW h \in Handlers, ResolverSessao(h) PROVE ~row'[s].exists
    BY <2>16 DEF ResolverSessao
  <2>17. ASSUME NEW h \in Handlers, AoMudarStatus(h) PROVE ~row'[s].exists
    BY <2>17 DEF AoMudarStatus, UpdateRow
  <2>18. CASE EventoPerdido
    BY <2>18 DEF EventoPerdido
  <2>19. ASSUME NEW p \in Passes, LerLocais(p) PROVE ~row'[s].exists
    BY <2>19 DEF LerLocais
  <2>20. ASSUME NEW p \in Passes, LerRemotas(p) PROVE ~row'[s].exists
    BY <2>20 DEF LerRemotas
  <2>21. ASSUME NEW p \in Passes, MarcarSumida(p) PROVE ~row'[s].exists
    BY <2>21 DEF MarcarSumida, UpdateRow
  <2>22. ASSUME NEW p \in Passes, CorrigirWebhook(p) PROVE ~row'[s].exists
    BY <2>22 DEF CorrigirWebhook
  <2>23. ASSUME NEW p \in Passes, CorrigirStatus(p) PROVE ~row'[s].exists
    BY <2>23 DEF CorrigirStatus, UpdateRow
  <2>24. ASSUME NEW p \in Passes, VincularNumero(p) PROVE ~row'[s].exists
    BY <2>24 DEF VincularNumero, UpdateRow
  <2>25. ASSUME NEW p \in Passes, ComecarOrfas(p) PROVE ~row'[s].exists
    BY <2>25 DEF ComecarOrfas
  <2>26. ASSUME NEW p \in Passes, RemoverOrfa(p) PROVE ~row'[s].exists
    BY <2>26 DEF RemoverOrfa
  <2>27. ASSUME NEW p \in Passes, Terminar(p) PROVE ~row'[s].exists
    BY <2>27 DEF Terminar
  <2>28. ASSUME NEW p \in Passes, PassFalha(p) PROVE ~row'[s].exists
    BY <2>28 DEF PassFalha
  <2>29. CASE LockExpira
    BY <2>29 DEF LockExpira
  <2>30. CASE UNCHANGED vars
    BY <2>30 DEF vars
  <2> QED
    BY <2>1, <2>2, <2>3, <2>4, <2>5, <2>6, <2>7, <2>8, <2>9, <2>10, <2>11,
       <2>12, <2>13, <2>14, <2>15, <2>16, <2>17, <2>18, <2>19, <2>20, <2>21,
       <2>22, <2>23, <2>24, <2>25, <2>26, <2>27, <2>28, <2>29, <2>30
    DEF Next, CreateStep, CallStep, PassStep
<1> QED
  BY <1>1, TypeCorrect, PTL DEF Spec, DeletedStaysDeleted

(* Sessions of other systems on the same WAHA stay as they are.            *)
THEOREM ForeignKept == Spec => ForeignUntouched
<1> DEFINE A == \A s \in Foreign : remote'[s] = remote[s]
<1>1. IInv /\ [Next]_vars => [A]_vars
  BY InvStep DEF IInv, ForeignApart
<1> QED
  BY <1>1, InvCorrect, PTL DEF Spec, ForeignUntouched

(* A pass deletes no session whose creation had been answered before it    *)
(* read the rows.                                                          *)
THEOREM AnsweredKept == Spec => AnsweredSessionKept
<1> DEFINE A == \A p \in Passes, s \in Sessions :
                 s \in pass[p].answered /\ remote[s].exists /\ ~remote'[s].exists
                     => pass'[p] = pass[p]
<1>1. IInv /\ [Next]_vars => [A]_vars
  <2> SUFFICES ASSUME IInv, [Next]_vars, NEW q \in Passes, NEW z \in Sessions,
                      z \in pass[q].answered, remote[z].exists, ~remote'[z].exists
               PROVE  pass'[q] = pass[q]
    BY DEF vars
  <2> USE DEF IInv, TypeOK
  <2>1. ASSUME NEW t \in Sessions, WahaMuda(t) PROVE pass'[q] = pass[q]
    BY <2>1 DEF WahaMuda, Become
  <2>2. ASSUME NEW t \in Sessions, WahaPerde(t) PROVE pass'[q] = pass[q]
    BY <2>2 DEF WahaPerde, Fault
  <2>3. ASSUME NEW t \in Sessions, AmbienteMuda(t) PROVE pass'[q] = pass[q]
    BY <2>3 DEF AmbienteMuda, Fault
  <2>4. ASSUME NEW t \in Sessions, Criar(t) PROVE pass'[q] = pass[q]
    BY <2>4 DEF Criar
  <2>5. ASSUME NEW t \in Sessions, WahaCria(t) PROVE pass'[q] = pass[q]
    BY <2>5 DEF WahaCria
  <2>6. ASSUME NEW t \in Sessions, CriarOk(t) PROVE pass'[q] = pass[q]
    BY <2>6 DEF CriarOk
  <2>7. ASSUME NEW t \in Sessions, CriarFalha(t) PROVE pass'[q] = pass[q]
    BY <2>7 DEF CriarFalha, Fault
  <2>8. ASSUME NEW t \in Sessions, Desfazer(t) PROVE pass'[q] = pass[q]
    BY <2>8 DEF Desfazer, Fault
  <2>9. ASSUME NEW t \in Sessions, CrashCreate(t) PROVE pass'[q] = pass[q]
    BY <2>9 DEF CrashCreate, Fault
  <2>10. ASSUME NEW c \in Calls, Chamar(c) PROVE pass'[q] = pass[q]
    BY <2>10 DEF Chamar
  <2>11. ASSUME NEW c \in Calls, WahaExecuta(c) PROVE pass'[q] = pass[q]
    BY <2>11 DEF WahaExecuta, Become
  <2>12. ASSUME NEW c \in Calls, ChamadaFalha(c) PROVE pass'[q] = pass[q]
    BY <2>12 DEF ChamadaFalha, Fault
  <2>13. ASSUME NEW c \in Calls, AcaoDeCiclo(c) PROVE pass'[q] = pass[q]
    BY <2>13 DEF AcaoDeCiclo
  <2>14. ASSUME NEW c \in Calls, SincronizarStatus(c) PROVE pass'[q] = pass[q]
    BY <2>14 DEF SincronizarStatus
  <2>15. ASSUME NEW c \in Calls, Remover(c) PROVE pass'[q] = pass[q]
    BY <2>15 DEF Remover
  <2>16. ASSUME NEW h \in Handlers, ResolverSessao(h) PROVE pass'[q] = pass[q]
    BY <2>16 DEF ResolverSessao
  <2>17. ASSUME NEW h \in Handlers, AoMudarStatus(h) PROVE pass'[q] = pass[q]
    BY <2>17 DEF AoMudarStatus
  <2>18. CASE EventoPerdido
    BY <2>18 DEF EventoPerdido, Fault
  <2>19. ASSUME NEW p \in Passes, LerLocais(p) PROVE pass'[q] = pass[q]
    BY <2>19 DEF LerLocais
  <2>20. ASSUME NEW p \in Passes, LerRemotas(p) PROVE pass'[q] = pass[q]
    BY <2>20 DEF LerRemotas
  <2>21. ASSUME NEW p \in Passes, MarcarSumida(p) PROVE pass'[q] = pass[q]
    BY <2>21 DEF MarcarSumida
  <2>22. ASSUME NEW p \in Passes, CorrigirWebhook(p) PROVE pass'[q] = pass[q]
    <3>1. \E s \in Sessions :
             remote' \in {remote, [remote EXCEPT ![s] = [remote[s] EXCEPT !.config = "ours"]]}
      BY <2>22 DEF CorrigirWebhook, PassState
    <3>2. remote[z] \in Remote
      OBVIOUS
    <3>3. remote'[z].exists = remote[z].exists
      BY <3>1, <3>2 DEF Remote
    <3> QED
      BY <3>3
  <2>23. ASSUME NEW p \in Passes, CorrigirStatus(p) PROVE pass'[q] = pass[q]
    BY <2>23 DEF CorrigirStatus
  <2>24. ASSUME NEW p \in Passes, VincularNumero(p) PROVE pass'[q] = pass[q]
    BY <2>24 DEF VincularNumero, Fault
  <2>25. ASSUME NEW p \in Passes, ComecarOrfas(p) PROVE pass'[q] = pass[q]
    BY <2>25 DEF ComecarOrfas
  <2>26. ASSUME NEW p \in Passes, RemoverOrfa(p) PROVE pass'[q] = pass[q]
    <3>1. PICK s \in pass[p].todo :
             /\ pass[p].at = "orfas"
             /\ pass' = [pass EXCEPT ![p] = [pass[p] EXCEPT !.todo = @ \ {s}]]
             /\ remote' \in {remote, [remote EXCEPT ![s] = NoRemote]}
      BY <2>26 DEF RemoverOrfa, Pass
    <3>2. z = s
      BY <3>1
    <3> QED
      BY <3>1, <3>2 DEF AnsweredIsKnown, AnsweredToPass
  <2>27. ASSUME NEW p \in Passes, Terminar(p) PROVE pass'[q] = pass[q]
    BY <2>27 DEF Terminar
  <2>28. ASSUME NEW p \in Passes, PassFalha(p) PROVE pass'[q] = pass[q]
    BY <2>28 DEF PassFalha, Fault
  <2>29. CASE LockExpira
    BY <2>29 DEF LockExpira
  <2>30. CASE UNCHANGED vars
    BY <2>30 DEF vars
  <2> QED
    BY <2>1, <2>2, <2>3, <2>4, <2>5, <2>6, <2>7, <2>8, <2>9, <2>10, <2>11,
       <2>12, <2>13, <2>14, <2>15, <2>16, <2>17, <2>18, <2>19, <2>20, <2>21,
       <2>22, <2>23, <2>24, <2>25, <2>26, <2>27, <2>28, <2>29, <2>30
    DEF Next, CreateStep, CallStep, PassStep
<1> QED
  BY <1>1, InvCorrect, PTL DEF Spec, AnsweredSessionKept
=============================================================================
