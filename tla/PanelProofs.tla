----------------------------- MODULE PanelProofs -----------------------------
(***************************************************************************)
(* What the screens of keys and secrets guarantee for any number of them   *)
(* and any number of lost answers and changes of route.                    *)
(*                                                                         *)
(* The argument.  A request that issues is sent while no dialog covers the *)
(* screen, so that no secret is on display; and unless a second one is     *)
(* sent beside it none comes on display before its own (NothingShown).     *)
(* So an answer never takes the place of a secret, and the dialog closes   *)
(* only over one that was confirmed.  A row revokes by force only after    *)
(* its own refusal (ForceIsWarned), and a rotation leaves its new key      *)
(* active, since there is one for each request that is sent (SupplyLasts). *)
(***************************************************************************)
EXTENDS Panel, FiniteSetTheorems, TLAPS

Pedido ==
    [op : {Nenhuma, "revogar", "rotacionar", "emitir", "segredo"}, forca : BOOLEAN,
     at : {"livre", "enviado", "ok", "ultima"}, nova : Keys \cup {Nenhuma}, viva : BOOLEAN]

KeysTypeOK ==
    /\ chave \in [Keys -> {"livre", "ativa", "revogada"}]
    /\ pedido \in [Slots -> Pedido]
    /\ confirma \in [k : Keys \cup {Nenhuma}, modo : {Nenhuma, "revogar", "rotacionar"}]
    /\ forcar \subseteq Keys
    /\ segredo \in [k : Keys \cup {Nenhuma}, confirmou : BOOLEAN]
    /\ historico \in [avisadas : SUBSET Keys, resolvidas : SUBSET Keys, juntas : BOOLEAN]

Existe(k) == k \in Keys /\ chave[k] # "livre"

(* What a request carries where it stands. *)
PedidoOK(s) ==
    LET p == pedido[s] IN
    /\ p.at = "livre" => p = Repouso
    /\ p.at = "enviado" => p.nova = Nenhuma
    /\ p.at = "ultima" => p.op = "revogar"
    /\ p.at = "ok" /\ Emite(p.op) => p.nova \in Keys
    /\ p.op \in {"revogar", "rotacionar", "segredo"} => Existe(s)

PedidosOK == \A s \in Slots : PedidoOK(s)

ConfirmaOK == confirma # SemConfirma => Existe(confirma.k) /\ confirma.modo # Nenhuma

(* Force is for a row that was warned. *)
ForceIsWarned ==
    /\ forcar \subseteq historico.avisadas
    /\ \A s \in Slots : pedido[s].forca => s \in historico.avisadas

Enviados == {s \in Emitindo : pedido[s].at = "enviado"}

SupplyLasts == Cardinality(Enviados) <= Cardinality(Livres)

OneIssue == ~historico.juntas => \A s, t \in Emitindo : s = t

NothingShown == ~historico.juntas /\ Emitindo # {} => segredo = SemSegredo

ConfirmedIsResolved ==
    ~historico.juntas /\ segredo.confirmou => segredo.k \in historico.resolvidas

IInv ==
    /\ KeysTypeOK
    /\ PedidosOK
    /\ ConfirmaOK
    /\ ForceIsWarned
    /\ SupplyLasts
    /\ OneIssue
    /\ NothingShown
    /\ ConfirmedIsResolved
    /\ SecretConfirmed
-----------------------------------------------------------------------------
LEMMA NamesDiffer == Nenhuma \notin Keys /\ Emissao \notin Keys /\ Nenhuma \notin Slots
  BY PanelAssumption DEF Slots

LEMMA SlotsAreFinite ==
  /\ IsFiniteSet(Slots) /\ IsFiniteSet(Enviados) /\ IsFiniteSet(Livres)
  /\ Enviados \subseteq Slots /\ Livres \subseteq Keys
<1>1. IsFiniteSet(Slots)
  BY PanelAssumption, FS_AddElement DEF Slots
<1>2. Enviados \subseteq Slots /\ Livres \subseteq Keys
  BY DEF Enviados, Emitindo, Livres
<1> QED
  BY <1>1, <1>2, PanelAssumption, FS_Subset

LEMMA InvInit == Init => IInv
<1> SUFFICES ASSUME Init PROVE IInv
  OBVIOUS
<1>1. /\ chave = [k \in Keys |-> IF k \in Iniciais THEN "ativa" ELSE "livre"]
      /\ pedido = [s \in Slots |-> Repouso]
      /\ confirma = SemConfirma /\ forcar = {} /\ segredo = SemSegredo
      /\ historico = [avisadas |-> {}, resolvidas |-> {}, juntas |-> FALSE]
  BY DEF Init
<1>2. KeysTypeOK
  BY <1>1 DEF KeysTypeOK, Pedido, Repouso, SemConfirma, SemSegredo
<1>3. PedidosOK /\ ConfirmaOK /\ ForceIsWarned
  BY <1>1 DEF PedidosOK, PedidoOK, ConfirmaOK, ForceIsWarned, Repouso, Emite, Nenhuma
<1>4. Emitindo = {}
  BY <1>1 DEF Emitindo, Emite, Repouso, Nenhuma
<1>5. SupplyLasts
  <2>1. Enviados = {}
    BY <1>4 DEF Enviados
  <2> QED
    BY <2>1, SlotsAreFinite, FS_EmptySet, FS_CardinalityType DEF SupplyLasts
<1>6. OneIssue /\ NothingShown /\ ConfirmedIsResolved
  BY <1>1, <1>4 DEF OneIssue, NothingShown, ConfirmedIsResolved, SemSegredo
<1>7. SecretConfirmed
  BY <1>1 DEF SecretConfirmed
<1> QED
  BY <1>2, <1>3, <1>5, <1>6, <1>7 DEF IInv

-----------------------------------------------------------------------------
(* A request is sent while nothing is on display.                          *)

LEMMA EnviarKeeps ==
  ASSUME IInv, NEW s \in Slots, NEW op \in {"revogar", "rotacionar", "emitir", "segredo"},
         NEW forca \in BOOLEAN, Enviar(s, op, forca), segredo = SemSegredo,
         op # "emitir" => Existe(s),
         forca => s \in historico.avisadas,
         UNCHANGED <<chave, confirma, forcar, segredo>>
  PROVE  IInv'
<1> DEFINE novo == [pedido[s] EXCEPT !.op = op, !.forca = forca, !.at = "enviado"]
<1>0. /\ KeysTypeOK /\ PedidosOK /\ ConfirmaOK /\ ForceIsWarned /\ SupplyLasts
      /\ OneIssue /\ NothingShown /\ ConfirmedIsResolved /\ SecretConfirmed
  BY DEF IInv
<1>1. /\ pedido[s] = Repouso
      /\ pedido' = [pedido EXCEPT ![s] = novo]
      /\ historico' = [historico EXCEPT !.juntas = @ \/ (Emite(op) /\ Emitindo # {})]
      /\ Emite(op) => Cardinality(Livres) > Cardinality(Enviados)
      /\ chave' = chave /\ confirma' = confirma /\ forcar' = forcar /\ segredo' = segredo
  BY <1>0 DEF Enviar, Enviados, KeysTypeOK
<1>2. /\ novo \in Pedido /\ novo.op = op /\ novo.forca = forca /\ novo.at = "enviado"
      /\ novo.nova = Nenhuma
  <2>1. Repouso \in Pedido /\ DOMAIN Repouso = {"op", "forca", "at", "nova", "viva"}
    BY DEF Repouso, Pedido
  <2>2. /\ pedido[s] = Repouso /\ Repouso.nova = Nenhuma
        /\ novo = [Repouso EXCEPT !.op = op, !.forca = forca, !.at = "enviado"]
    BY <1>1 DEF Repouso
  <2> HIDE DEF novo
  <2> QED
    BY <2>1, <2>2 DEF Pedido
<1> HIDE DEF novo
<1>3. KeysTypeOK'
  BY <1>0, <1>1, <1>2 DEF KeysTypeOK
<1>4. /\ historico'.avisadas = historico.avisadas
      /\ historico'.resolvidas = historico.resolvidas
      /\ historico'.juntas = (historico.juntas \/ (Emite(op) /\ Emitindo # {}))
  BY <1>0, <1>1 DEF KeysTypeOK
<1>5. Emitindo' = IF Emite(op) THEN Emitindo \cup {s} ELSE Emitindo
  BY <1>0, <1>1, <1>2 DEF KeysTypeOK, Emitindo, Repouso, Emite, Nenhuma
<1>6. PedidosOK'
  BY <1>0, <1>1, <1>2, NamesDiffer DEF KeysTypeOK, PedidosOK, PedidoOK, Existe, Emite
<1>7. ConfirmaOK' /\ ForceIsWarned'
  BY <1>0, <1>1, <1>2, <1>4 DEF KeysTypeOK, ConfirmaOK, ForceIsWarned, Existe
<1>8. SupplyLasts'
  <2>1. Livres' = Livres
    BY <1>1 DEF Livres
  <2>2. Enviados' = (IF Emite(op) THEN Enviados \cup {s} ELSE Enviados) /\ s \notin Enviados
    BY <1>0, <1>1, <1>2, <1>5 DEF KeysTypeOK, Enviados, Emitindo, Repouso
  <2>3. /\ Cardinality(Enviados) \in Nat /\ Cardinality(Livres) \in Nat
        /\ Cardinality(Enviados \cup {s}) = Cardinality(Enviados) + 1
    BY <2>2, SlotsAreFinite, FS_CardinalityType, FS_AddElement
  <2> QED
    BY <1>0, <1>1, <2>1, <2>2, <2>3 DEF SupplyLasts
<1>9. OneIssue' /\ NothingShown'
  BY <1>0, <1>1, <1>4, <1>5 DEF OneIssue, NothingShown
<1>10. ConfirmedIsResolved'
  BY <1>0, <1>1, <1>4 DEF ConfirmedIsResolved
<1>11. SecretConfirmed'
  BY <1>0, <1>1, <1>2, <1>4, <1>5
  DEF SecretConfirmed, KeysTypeOK, Emitindo, Repouso, Emite, Nenhuma
<1> QED
  BY <1>3, <1>6, <1>7, <1>8, <1>9, <1>10, <1>11 DEF IInv

-----------------------------------------------------------------------------
(* The API has done what was asked, and the answer gets there or does not. *)

LEMMA EfetuarKeeps ==
  ASSUME IInv, NEW s \in Slots, pedido[s].at = "enviado",
         NEW velhas \in SUBSET Keys, \A k \in velhas : chave[k] # "livre",
         NEW nova \in Livres \cup {Nenhuma}, NEW at \in {"ok", "perdida", "ultima"},
         at = "ultima" => pedido[s].op = "revogar",
         at = "ok" /\ Emite(pedido[s].op) => nova \in Livres,
         Emite(pedido[s].op) \/ nova = Nenhuma,
         Efetuar(s, velhas, nova, at),
         UNCHANGED <<confirma, forcar, segredo>>
  PROVE  IInv'
<1> DEFINE perdida == at = "perdida" \/ ~pedido[s].viva
           novo == IF perdida THEN Repouso ELSE [pedido[s] EXCEPT !.at = at, !.nova = nova]
<1>0. /\ KeysTypeOK /\ PedidosOK /\ ConfirmaOK /\ ForceIsWarned /\ SupplyLasts
      /\ OneIssue /\ NothingShown /\ ConfirmedIsResolved /\ SecretConfirmed
      /\ nova \in Keys \cup {Nenhuma}
  BY SlotsAreFinite DEF IInv
<1>1. /\ chave' = [k \in Keys |-> IF k = nova THEN "ativa"
                                  ELSE IF k \in velhas THEN "revogada" ELSE chave[k]]
      /\ pedido' = [pedido EXCEPT ![s] = novo]
      /\ historico' = [historico EXCEPT
                          !.resolvidas = IF perdida THEN @ \cup ({nova} \ {Nenhuma}) ELSE @]
      /\ confirma' = confirma /\ forcar' = forcar /\ segredo' = segredo
  BY <1>0 DEF Efetuar, KeysTypeOK
<1>a. perdida => novo = Repouso
  OBVIOUS
<1>2. /\ novo \in Pedido
      /\ ~perdida => /\ novo.op = pedido[s].op /\ novo.forca = pedido[s].forca
                     /\ novo.at = at /\ novo.nova = nova
  <2>1. CASE perdida
    BY <2>1, <1>a DEF Pedido, Repouso
  <2>2. CASE ~perdida
    <3>1. /\ novo = [pedido[s] EXCEPT !.at = at, !.nova = nova] /\ pedido[s] \in Pedido
          /\ at \in {"ok", "ultima"}
      BY <2>2, <1>0 DEF KeysTypeOK
    <3> HIDE DEF novo, perdida
    <3> QED
      BY <2>2, <3>1, <1>0 DEF Pedido
  <2> QED
    BY <2>1, <2>2
<1> HIDE DEF novo
<1>3. KeysTypeOK'
  BY <1>0, <1>1, <1>2 DEF KeysTypeOK
<1>4. /\ historico'.avisadas = historico.avisadas
      /\ historico'.juntas = historico.juntas
      /\ historico.resolvidas \subseteq historico'.resolvidas
      /\ perdida /\ nova # Nenhuma => nova \in historico'.resolvidas
  BY <1>0, <1>1 DEF KeysTypeOK
<1>b. \A k \in Keys : chave[k] # "livre" => chave'[k] # "livre"
  BY <1>0, <1>1 DEF KeysTypeOK
<1>5. Emitindo' = IF perdida THEN Emitindo \ {s} ELSE Emitindo
  <2>1. pedido'[s] = novo /\ \A t \in Slots \ {s} : pedido'[t] = pedido[t]
    BY <1>0, <1>1 DEF KeysTypeOK
  <2>2. Emitindo \ {s} = Emitindo' \ {s}
    BY <2>1 DEF Emitindo
  <2>3. s \in Emitindo' <=> ~perdida /\ s \in Emitindo
    <3> HIDE DEF perdida
    <3> QED
      BY <2>1, <1>2, <1>a DEF Emitindo, Repouso, Emite, Nenhuma
  <2> QED
    BY <2>2, <2>3
<1>6. PedidosOK'
  <2>1. ASSUME NEW t \in Slots, t # s PROVE PedidoOK(t)'
    BY <1>0, <1>1, <1>b, <2>1 DEF KeysTypeOK, PedidosOK, PedidoOK, Existe
  <2>2. PedidoOK(s)'
    <3>1. pedido'[s] = novo /\ PedidoOK(s)
      BY <1>0, <1>1 DEF KeysTypeOK, PedidosOK
    <3>2. CASE novo = Repouso
      BY <3>1, <3>2, <1>b DEF PedidoOK, Repouso, Emite, Nenhuma
    <3>3. CASE ~perdida
      BY <3>1, <3>3, <1>2, <1>b, SlotsAreFinite DEF PedidoOK, Existe
    <3> QED
      BY <1>a, <3>2, <3>3
  <2> QED
    BY <2>1, <2>2 DEF PedidosOK
<1>7. ConfirmaOK' /\ ForceIsWarned'
  <2>1. ConfirmaOK'
    BY <1>0, <1>1, <1>b DEF ConfirmaOK, Existe
  <2>2. novo.forca => pedido[s].forca
    <3>1. Repouso.forca = FALSE
      BY DEF Repouso
    <3> HIDE DEF perdida
    <3>2. CASE perdida
      BY <3>1, <3>2, <1>a
    <3>3. CASE ~perdida
      BY <3>3, <1>2
    <3> QED
      BY <3>2, <3>3
  <2>3. \A t \in Slots : pedido'[t].forca => pedido[t].forca
    BY <1>0, <1>1, <2>2 DEF KeysTypeOK
  <2> QED
    BY <1>0, <1>1, <1>4, <2>1, <2>3 DEF ForceIsWarned
<1>8. SupplyLasts'
  <2>1. Livres' = Livres \ {nova}
    BY <1>0, <1>1 DEF Livres, KeysTypeOK
  <2>2. Enviados' = Enviados \ {s} /\ (s \in Enviados <=> Emite(pedido[s].op))
    BY <1>0, <1>1, <1>2, <1>5 DEF KeysTypeOK, Enviados, Emitindo, Repouso, Emite, Nenhuma
  <2>3. /\ Cardinality(Enviados) \in Nat /\ Cardinality(Livres) \in Nat
        /\ Cardinality(Enviados') = IF s \in Enviados THEN Cardinality(Enviados) - 1
                                                    ELSE Cardinality(Enviados)
        /\ Cardinality(Livres') = IF nova \in Livres THEN Cardinality(Livres) - 1
                                                    ELSE Cardinality(Livres)
    BY <2>1, <2>2, SlotsAreFinite, FS_CardinalityType, FS_RemoveElement
  <2>4. nova \in Livres => s \in Enviados
    BY <2>2, NamesDiffer, SlotsAreFinite
  <2> QED
    BY <1>0, <2>3, <2>4 DEF SupplyLasts
<1>9. OneIssue' /\ NothingShown' /\ ConfirmedIsResolved'
  BY <1>0, <1>1, <1>4, <1>5 DEF OneIssue, NothingShown, ConfirmedIsResolved
<1>10. SecretConfirmed'
  <2> SUFFICES ASSUME ~historico.juntas, NEW k \in Keys \ Iniciais, chave'[k] # "livre"
               PROVE  \/ k = segredo.k
                      \/ k \in historico'.resolvidas
                      \/ \E t \in Emitindo' : pedido'[t].nova = k
    BY <1>1, <1>4 DEF SecretConfirmed
  <2>1. CASE k = nova
    <3>1. CASE perdida
      BY <2>1, <3>1, <1>4, NamesDiffer
    <3>2. CASE ~perdida
      <4>1. Emite(pedido[s].op) /\ s \in Emitindo'
        BY <2>1, <3>2, <1>5, NamesDiffer DEF Emitindo
      <4>2. pedido'[s].nova = nova
        BY <1>0, <1>1, <3>2, <1>2, <4>1 DEF KeysTypeOK, Repouso, Emite, novo
      <4> QED
        BY <2>1, <4>1, <4>2
    <3> QED
      BY <3>1, <3>2
  <2>2. CASE k # nova
    <3>1. chave[k] # "livre"
      BY <1>1, <2>2 DEF KeysTypeOK
    <3>2. CASE k = segredo.k \/ k \in historico.resolvidas
      BY <3>2, <1>4
    <3>3. CASE \E t \in Emitindo : pedido[t].nova = k
      <4>1. PICK t \in Emitindo : pedido[t].nova = k
        BY <3>3
      <4>2. t # s
        BY <1>0, <4>1, NamesDiffer DEF PedidosOK, PedidoOK
      <4> QED
        BY <1>0, <1>1, <1>5, <4>1, <4>2 DEF KeysTypeOK, Emitindo
    <3> QED
      BY <1>0, <3>1, <3>2, <3>3 DEF SecretConfirmed
  <2> QED
    BY <2>1, <2>2
<1> QED
  BY <1>3, <1>6, <1>7, <1>8, <1>9, <1>10 DEF IInv

-----------------------------------------------------------------------------
(* A dialog, an answer or a box changes neither a key nor an owner.        *)

LEMMA DialogsKeep ==
  ASSUME IInv, UNCHANGED <<chave, pedido, segredo, historico>>, KeysTypeOK', ConfirmaOK',
         forcar' \subseteq forcar
  PROVE  IInv'
<1>1. /\ Livres' = Livres /\ Emitindo' = Emitindo /\ Enviados' = Enviados
      /\ PedidosOK' = PedidosOK /\ SupplyLasts' = SupplyLasts /\ OneIssue' = OneIssue
      /\ NothingShown' = NothingShown /\ ConfirmedIsResolved' = ConfirmedIsResolved
      /\ SecretConfirmed' = SecretConfirmed
  BY DEF Livres, Emitindo, Enviados, PedidosOK, PedidoOK, Existe, SupplyLasts, OneIssue,
         NothingShown, ConfirmedIsResolved, SecretConfirmed
<1>2. ForceIsWarned'
  BY DEF IInv, ForceIsWarned
<1> QED
  BY <1>1, <1>2 DEF IInv

LEMMA AbrirConfirmaKeeps ==
  ASSUME IInv, NEW k \in Keys, NEW modo \in {"revogar", "rotacionar"}, AbrirConfirma(k, modo)
  PROVE  IInv'
<1>1. /\ chave[k] = "ativa" /\ confirma' = [k |-> k, modo |-> modo]
      /\ UNCHANGED <<chave, pedido, forcar, segredo, historico>>
  BY DEF AbrirConfirma
<1>2. KeysTypeOK' /\ ConfirmaOK'
  BY <1>1 DEF IInv, KeysTypeOK, ConfirmaOK, Existe, Nenhuma
<1> QED
  BY <1>1, <1>2, DialogsKeep

LEMMA CancelarKeeps == ASSUME IInv, Cancelar PROVE IInv'
<1>1. /\ confirma' = SemConfirma /\ forcar' \subseteq forcar
      /\ UNCHANGED <<chave, pedido, segredo, historico>>
  BY DEF Cancelar
<1>2. KeysTypeOK' /\ ConfirmaOK'
  BY <1>1 DEF IInv, KeysTypeOK, ConfirmaOK, SemConfirma
<1> QED
  BY <1>1, <1>2, DialogsKeep

LEMMA ConfirmarKeeps == ASSUME IInv, NEW k \in Keys, Confirmar(k) PROVE IInv'
<1> DEFINE forca == confirma.modo = "revogar" /\ k \in forcar
<1>1. /\ confirma.k = k /\ segredo = SemSegredo /\ Enviar(k, confirma.modo, forca)
      /\ UNCHANGED <<chave, confirma, forcar, segredo>>
  BY DEF Confirmar
<1>2. /\ Existe(k) /\ k \in Slots /\ confirma.modo \in {"revogar", "rotacionar"}
  BY <1>1, NamesDiffer DEF IInv, KeysTypeOK, ConfirmaOK, SemConfirma, Slots
<1>3. forca \in BOOLEAN /\ (forca => k \in historico.avisadas)
  BY DEF IInv, ForceIsWarned
<1> HIDE DEF forca
<1> QED
  BY <1>1, <1>2, <1>3, EnviarKeeps

LEMMA EmitirKeeps == ASSUME IInv, Emitir PROVE IInv'
<1>1. /\ segredo = SemSegredo /\ Enviar(Emissao, "emitir", FALSE) /\ Emissao \in Slots
      /\ UNCHANGED <<chave, confirma, forcar, segredo>>
  BY DEF Emitir, Descoberta, Slots
<1> QED
  BY <1>1, EnviarKeeps

LEMMA RotacionarSegredoKeeps == ASSUME IInv, NEW k \in Keys, RotacionarSegredo(k) PROVE IInv'
<1>1. /\ segredo = SemSegredo /\ Enviar(k, "segredo", FALSE) /\ k \in Slots /\ Existe(k)
      /\ UNCHANGED <<chave, confirma, forcar, segredo>>
  BY DEF RotacionarSegredo, Descoberta, Slots, Existe
<1> QED
  BY <1>1, EnviarKeeps

LEMMA MarcarKeeps == ASSUME IInv, Marcar PROVE IInv'
<1>1. /\ segredo.k \in Keys /\ segredo \in [k : Keys \cup {Nenhuma}, confirmou : BOOLEAN]
      /\ ~segredo.confirmou
      /\ segredo' = [segredo EXCEPT !.confirmou = TRUE]
      /\ historico \in [avisadas : SUBSET Keys, resolvidas : SUBSET Keys, juntas : BOOLEAN]
      /\ historico' = [historico EXCEPT !.resolvidas = @ \cup {segredo.k}]
      /\ UNCHANGED <<chave, pedido, confirma, forcar>>
  BY DEF Marcar, IInv, KeysTypeOK
<1>2. /\ segredo'.k = segredo.k /\ historico'.avisadas = historico.avisadas
      /\ historico'.resolvidas = historico.resolvidas \cup {segredo.k}
      /\ historico'.juntas = historico.juntas
      /\ historico' \in [avisadas : SUBSET Keys, resolvidas : SUBSET Keys, juntas : BOOLEAN]
      /\ segredo' \in [k : Keys \cup {Nenhuma}, confirmou : BOOLEAN]
  BY <1>1
<1>3. KeysTypeOK' /\ PedidosOK' /\ ConfirmaOK' /\ ForceIsWarned'
  BY <1>1, <1>2 DEF IInv, KeysTypeOK, PedidosOK, PedidoOK, ConfirmaOK, Existe, ForceIsWarned
<1>4. Livres' = Livres /\ Emitindo' = Emitindo /\ Enviados' = Enviados
  BY <1>1 DEF Livres, Emitindo, Enviados
<1>5. SupplyLasts' /\ OneIssue' /\ ConfirmedIsResolved'
  BY <1>2, <1>4 DEF IInv, SupplyLasts, OneIssue, ConfirmedIsResolved
<1>6. NothingShown'
  BY <1>1, <1>2, <1>4, NamesDiffer DEF IInv, NothingShown, SemSegredo
<1>7. SecretConfirmed'
  BY <1>1, <1>2, <1>4 DEF IInv, SecretConfirmed
<1> QED
  BY <1>3, <1>5, <1>6, <1>7 DEF IInv

LEMMA ConcluirKeeps == ASSUME IInv, Concluir PROVE IInv'
<1>1. /\ segredo.k \in Keys /\ segredo.confirmou /\ segredo' = SemSegredo
      /\ UNCHANGED <<chave, pedido, confirma, forcar, historico>>
  BY DEF Concluir, IInv, KeysTypeOK
<1>2. /\ KeysTypeOK' /\ PedidosOK' /\ ConfirmaOK' /\ ForceIsWarned'
  BY <1>1 DEF IInv, KeysTypeOK, PedidosOK, PedidoOK, ConfirmaOK, Existe, ForceIsWarned, SemSegredo
<1>3. Livres' = Livres /\ Emitindo' = Emitindo /\ Enviados' = Enviados
  BY <1>1 DEF Livres, Emitindo, Enviados
<1>4. SupplyLasts' /\ OneIssue' /\ NothingShown' /\ ConfirmedIsResolved'
  BY <1>1, <1>3 DEF IInv, SupplyLasts, OneIssue, NothingShown, ConfirmedIsResolved, SemSegredo
<1>5. SecretConfirmed'
  BY <1>1, <1>3 DEF IInv, SecretConfirmed, ConfirmedIsResolved
<1> QED
  BY <1>2, <1>4, <1>5 DEF IInv

-----------------------------------------------------------------------------
(* An answer reaches the screen that waits for it.                         *)

LEMMA ReceberKeeps == ASSUME IInv, NEW s \in Slots, Receber(s) PROVE IInv'
<1> DEFINE p == pedido[s]
<1>0. /\ KeysTypeOK /\ PedidosOK /\ ConfirmaOK /\ ForceIsWarned /\ SupplyLasts
      /\ OneIssue /\ NothingShown /\ ConfirmedIsResolved /\ SecretConfirmed
      /\ p \in Pedido /\ PedidoOK(s)
  BY DEF IInv, KeysTypeOK, PedidosOK
<1>1. /\ p.at \in {"ok", "ultima"}
      /\ pedido' = [pedido EXCEPT ![s] = Repouso]
      /\ confirma' = IF p.at = "ok" /\ confirma.k = s THEN SemConfirma ELSE confirma
      /\ segredo' = IF Emite(p.op) THEN [segredo EXCEPT !.k = p.nova] ELSE segredo
      /\ chave' = chave
  BY DEF Receber
<1>2. /\ historico'.avisadas = IF p.at = "ultima" THEN historico.avisadas \cup {s}
                                                 ELSE historico.avisadas
      /\ historico'.resolvidas = historico.resolvidas
      /\ historico'.juntas = historico.juntas
      /\ p.at = "ultima" => s \in Keys
      /\ historico' \in [avisadas : SUBSET Keys, resolvidas : SUBSET Keys, juntas : BOOLEAN]
  BY <1>0 DEF Receber, KeysTypeOK, PedidoOK, Existe
<1>3. forcar' \subseteq forcar \cup (IF p.at = "ultima" THEN {s} ELSE {})
  BY DEF Receber
<1>4. pedido'[s] = Repouso /\ \A t \in Slots \ {s} : pedido'[t] = pedido[t]
  BY <1>0, <1>1 DEF KeysTypeOK
<1>5. Emite(p.op) => p.nova \in Keys /\ s \in Emitindo
  BY <1>0, <1>1 DEF PedidoOK, Emite, Emitindo
<1>6. Livres' = Livres /\ Emitindo' = Emitindo \ {s} /\ Enviados' = Enviados
  <2>1. Livres' = Livres
    BY <1>1 DEF Livres
  <2>2. Emitindo' = Emitindo \ {s}
    BY <1>4 DEF Emitindo, Repouso, Emite, Nenhuma
  <2>3. s \notin Enviados
    BY <1>1 DEF Enviados
  <2> QED
    BY <2>1, <2>2, <2>3, <1>4 DEF Enviados, Emitindo
<1>7. KeysTypeOK'
  <2>1. Repouso \in Pedido
    BY DEF Repouso, Pedido
  <2>2. confirma' \in [k : Keys \cup {Nenhuma}, modo : {Nenhuma, "revogar", "rotacionar"}]
    BY <1>0, <1>1 DEF KeysTypeOK, SemConfirma
  <2>3. segredo' \in [k : Keys \cup {Nenhuma}, confirmou : BOOLEAN]
    BY <1>0, <1>1, <1>5 DEF KeysTypeOK
  <2>4. forcar' \subseteq Keys
    BY <1>0, <1>2, <1>3 DEF KeysTypeOK
  <2> HIDE DEF p
  <2> QED
    BY <1>0, <1>1, <1>2, <2>1, <2>2, <2>3, <2>4 DEF KeysTypeOK
<1>8. PedidosOK' /\ ConfirmaOK'
  <2>1. PedidoOK(s)'
    BY <1>4 DEF PedidoOK, Repouso, Emite, Nenhuma
  <2>2. ASSUME NEW t \in Slots \ {s} PROVE PedidoOK(t)'
    BY <1>0, <1>1, <1>4 DEF PedidosOK, PedidoOK, Existe
  <2>3. ConfirmaOK'
    BY <1>0, <1>1 DEF ConfirmaOK, Existe
  <2> QED
    BY <2>1, <2>2, <2>3 DEF PedidosOK
<1>9. ForceIsWarned'
  <2>1. ~Repouso.forca
    BY DEF Repouso
  <2> QED
    BY <1>0, <1>2, <1>3, <1>4, <2>1 DEF ForceIsWarned
<1>10. SupplyLasts' /\ OneIssue'
  BY <1>0, <1>2, <1>6 DEF SupplyLasts, OneIssue
<1>11. CASE Emite(p.op)
  <2>1. ~historico.juntas => segredo = SemSegredo /\ Emitindo' = {}
    BY <1>0, <1>5, <1>6, <1>11 DEF NothingShown, OneIssue
  <2>2. ~historico.juntas => segredo'.k = p.nova /\ ~segredo'.confirmou
    BY <1>1, <1>11, <2>1 DEF SemSegredo
  <2>3. NothingShown' /\ ConfirmedIsResolved'
    BY <1>2, <2>1, <2>2 DEF NothingShown, ConfirmedIsResolved
  <2>4. SecretConfirmed'
    <3> SUFFICES ASSUME ~historico.juntas, NEW k \in Keys \ Iniciais, chave[k] # "livre"
                 PROVE  k = segredo'.k \/ k \in historico'.resolvidas
      BY <1>1, <1>2 DEF SecretConfirmed
    <3>1. k # segredo.k
      BY <2>1, NamesDiffer DEF SemSegredo
    <3>2. (\E t \in Emitindo : pedido[t].nova = k) => k = p.nova
      BY <1>0, <1>5, <1>11 DEF OneIssue
    <3> QED
      BY <1>0, <1>2, <2>2, <3>1, <3>2 DEF SecretConfirmed
  <2> QED
    BY <1>7, <1>8, <1>9, <1>10, <2>3, <2>4 DEF IInv
<1>12. CASE ~Emite(p.op)
  <2>1. segredo' = segredo /\ Emitindo' = Emitindo /\ s \notin Emitindo
    BY <1>1, <1>6, <1>12 DEF Emitindo
  <2>2. NothingShown' /\ ConfirmedIsResolved'
    BY <1>0, <1>2, <2>1 DEF NothingShown, ConfirmedIsResolved
  <2>3. SecretConfirmed'
    <3>1. \A t \in Emitindo : pedido'[t] = pedido[t]
      BY <1>4, <2>1 DEF Emitindo
    <3> HIDE DEF p
    <3>2. SUFFICES ASSUME ~historico.juntas, NEW k \in Keys \ Iniciais, chave[k] # "livre"
                   PROVE  \/ k = segredo.k \/ k \in historico.resolvidas
                          \/ \E t \in Emitindo : pedido'[t].nova = k
      BY <1>1, <1>2, <2>1 DEF SecretConfirmed
    <3> QED
      BY <1>0, <3>1, <3>2 DEF SecretConfirmed
  <2> QED
    BY <1>7, <1>8, <1>9, <1>10, <2>2, <2>3 DEF IInv
<1> QED
  BY <1>11, <1>12

(* The screen goes, and with it what it showed and was told.               *)
LEMMA NavegarKeeps == ASSUME IInv, Navegar PROVE IInv'
<1> DEFINE respondidos == {s \in Slots : pedido[s].at \in {"ok", "ultima"}}
           vistas == ({segredo.k} \cup {pedido[s].nova : s \in respondidos}) \ {Nenhuma}
<1>0. /\ KeysTypeOK /\ PedidosOK /\ ConfirmaOK /\ ForceIsWarned /\ SupplyLasts
      /\ OneIssue /\ NothingShown /\ ConfirmedIsResolved /\ SecretConfirmed
  BY DEF IInv
<1>1. /\ pedido' = [s \in Slots |-> IF pedido[s].at = "enviado"
                                    THEN [pedido[s] EXCEPT !.viva = FALSE] ELSE Repouso]
      /\ confirma' = SemConfirma /\ forcar' = {} /\ segredo' = SemSegredo
      /\ historico' = [historico EXCEPT !.resolvidas = @ \cup vistas]
      /\ chave' = chave
  BY DEF Navegar
<1>2. vistas \subseteq Keys
  BY <1>0 DEF KeysTypeOK, Pedido
<1>3. /\ historico' \in [avisadas : SUBSET Keys, resolvidas : SUBSET Keys, juntas : BOOLEAN]
      /\ historico'.avisadas = historico.avisadas /\ historico'.juntas = historico.juntas
      /\ historico'.resolvidas = historico.resolvidas \cup vistas
  <2> HIDE DEF vistas
  <2> QED
    BY <1>0, <1>1, <1>2 DEF KeysTypeOK
<1>4. ASSUME NEW s \in Slots
      PROVE  /\ pedido'[s] \in Pedido
             /\ \/ pedido'[s] = Repouso /\ pedido[s].at # "enviado"
                \/ /\ pedido[s].at = "enviado"
                   /\ pedido'[s].at = "enviado"
                   /\ pedido'[s].op = pedido[s].op
                   /\ pedido'[s].forca = pedido[s].forca
                   /\ pedido'[s].nova = pedido[s].nova
  <2>1. pedido[s] \in Pedido /\ Repouso \in Pedido
    BY <1>0 DEF KeysTypeOK, Repouso, Pedido
  <2>2. pedido'[s] = IF pedido[s].at = "enviado"
                     THEN [pedido[s] EXCEPT !.viva = FALSE] ELSE Repouso
    BY <1>1
  <2> QED
    BY <2>1, <2>2 DEF Pedido
<1>5. KeysTypeOK'
  <2>1. pedido' \in [Slots -> Pedido]
    BY <1>1, <1>4
  <2> QED
    BY <1>0, <1>1, <1>3, <2>1 DEF KeysTypeOK, SemConfirma, SemSegredo
<1>6. PedidosOK'
  <2> SUFFICES ASSUME NEW s \in Slots PROVE PedidoOK(s)'
    BY DEF PedidosOK
  <2>1. CASE pedido'[s] = Repouso
    BY <2>1 DEF PedidoOK, Repouso, Emite, Nenhuma
  <2>2. CASE pedido'[s] # Repouso
    BY <1>0, <1>1, <1>4, <2>2 DEF PedidosOK, PedidoOK, Existe
  <2> QED
    BY <2>1, <2>2
<1>7. ConfirmaOK'
  BY <1>1 DEF ConfirmaOK
<1>8. ForceIsWarned'
  <2>1. ~Repouso.forca
    BY DEF Repouso
  <2>2. ASSUME NEW s \in Slots, pedido'[s].forca PROVE pedido[s].forca
    BY <1>4, <2>1, <2>2
  <2> QED
    BY <1>0, <1>1, <1>3, <2>2 DEF ForceIsWarned
<1>9. Livres' = Livres /\ Emitindo' = Enviados /\ Enviados' = Enviados
  <2>1. ~Emite(Repouso.op)
    BY DEF Repouso, Emite, Nenhuma
  <2>2. Livres' = Livres
    BY <1>1 DEF Livres
  <2>3. ASSUME NEW s \in Slots PROVE s \in Emitindo' <=> s \in Enviados
    BY <1>4, <2>1 DEF Emitindo, Enviados
  <2>4. Emitindo' = Enviados
    BY <2>3 DEF Emitindo, Enviados
  <2>5. \A s \in Enviados : pedido'[s].at = "enviado"
    BY <1>1, <1>4 DEF Enviados, Emitindo, Repouso
  <2> QED
    BY <2>2, <2>4, <2>5 DEF Enviados
<1>10. SupplyLasts' /\ OneIssue' /\ NothingShown' /\ ConfirmedIsResolved'
  <2>1. Enviados \subseteq Emitindo
    BY DEF Enviados
  <2>2. ~SemSegredo.confirmou
    BY DEF SemSegredo
  <2> QED
    BY <1>0, <1>1, <1>3, <1>9, <2>1, <2>2
    DEF SupplyLasts, OneIssue, NothingShown, ConfirmedIsResolved
<1>11. SecretConfirmed'
  <2> SUFFICES ASSUME ~historico.juntas, NEW k \in Keys \ Iniciais, chave[k] # "livre"
               PROVE  k \in historico'.resolvidas
    BY <1>1, <1>3 DEF SecretConfirmed
  <2>1. CASE k = segredo.k
    BY <1>3, <2>1, NamesDiffer
  <2>2. CASE k \in historico.resolvidas
    BY <1>3, <2>2
  <2>3. CASE \E s \in Emitindo : pedido[s].nova = k
    <3>1. PICK s \in Emitindo : pedido[s].nova = k
      BY <2>3
    <3>2. s \in respondidos
      <4>1. PedidoOK(s) /\ pedido[s] \in Pedido /\ Emite(pedido[s].op) /\ s \in Slots
        BY <1>0 DEF PedidosOK, KeysTypeOK, Emitindo
      <4> QED
        BY <3>1, <4>1, NamesDiffer DEF PedidoOK, Pedido, Repouso
    <3> QED
      BY <1>3, <3>1, <3>2, NamesDiffer
  <2> QED
    BY <1>0, <2>1, <2>2, <2>3 DEF SecretConfirmed
<1> QED
  BY <1>5, <1>6, <1>7, <1>8, <1>10, <1>11 DEF IInv

-----------------------------------------------------------------------------
(* What the API does with a request.                                       *)

(* There is a key left for every request that issues one. *)
LEMMA SupplyIsThere ==
  ASSUME IInv, NEW s \in Slots, pedido[s].at = "enviado", Emite(pedido[s].op)
  PROVE  (CHOOSE k \in Livres : TRUE) \in Livres
<1>1. s \in Enviados
  BY DEF Enviados, Emitindo
<1>2. Cardinality(Enviados) \in Nat /\ Cardinality(Livres) \in Nat
  BY SlotsAreFinite, FS_CardinalityType
<1>3. Cardinality(Enviados) # 0
  BY <1>1, SlotsAreFinite, FS_EmptySet
<1>4. Livres # {}
  BY <1>2, <1>3, FS_EmptySet DEF IInv, SupplyLasts
<1> QED
  BY <1>4

(* The keys that a request cuts off, the one that it issues, and how it    *)
(* ends: without a new key only the row's own is cut off, by a revocation. *)
LEMMA ProcessarEffects ==
  ASSUME IInv, NEW s \in Slots, Processar(s)
  PROVE  /\ pedido[s].at = "enviado"
         /\ UNCHANGED <<confirma, forcar, segredo>>
         /\ \E velhas \in SUBSET Keys, nova \in Livres \cup {Nenhuma}, at \in {"ok", "perdida", "ultima"} :
              /\ \A k \in velhas : chave[k] # "livre"
              /\ at = "ultima" => pedido[s].op = "revogar"
              /\ at = "ok" /\ Emite(pedido[s].op) => nova \in Livres
              /\ Emite(pedido[s].op) \/ nova = Nenhuma
              /\ nova = Nenhuma =>
                   \/ velhas = {}
                   \/ velhas = {s} /\ (pedido[s].forca \/ Ativas # {s})
              /\ Efetuar(s, velhas, nova, at)
<1> DEFINE Feito(velhas, nova, at) ==
             /\ \A k \in velhas : chave[k] # "livre"
             /\ at = "ultima" => pedido[s].op = "revogar"
             /\ at = "ok" /\ Emite(pedido[s].op) => nova \in Livres
             /\ Emite(pedido[s].op) \/ nova = Nenhuma
             /\ nova = Nenhuma =>
                  \/ velhas = {}
                  \/ velhas = {s} /\ (pedido[s].forca \/ Ativas # {s})
             /\ Efetuar(s, velhas, nova, at)
           nova0 == CHOOSE k \in Livres : TRUE
           Irmas == {k \in Keys : chave[k] # "livre" /\ dona[k] = dona[s]}
<1>1. pedido[s].at = "enviado" /\ UNCHANGED <<confirma, forcar, segredo>>
  BY DEF Processar
<1>2. PICK at \in {"ok", "perdida"} :
        \/ Emite(pedido[s].op) /\ EmitirNova(s, at)
        \/ /\ pedido[s].op = "revogar"
           /\ IF ~pedido[s].forca /\ Ativas = {s}
              THEN Efetuar(s, {}, Nenhuma, IF at = "ok" THEN "ultima" ELSE at)
              ELSE Efetuar(s, {s}, Nenhuma, at)
        \/ /\ at = "perdida" /\ Efetuar(s, {}, Nenhuma, at)
  BY DEF Processar
<1>3. pedido[s].op \in {"revogar", "rotacionar", "segredo"} => Existe(s)
  BY DEF IInv, PedidosOK, PedidoOK
<1>4. \E velhas \in SUBSET Keys, nova \in Livres \cup {Nenhuma}, t \in {"ok", "perdida", "ultima"} :
        Feito(velhas, nova, t)
  <2>1. CASE Emite(pedido[s].op) /\ EmitirNova(s, at)
    <3>1. nova0 \in Livres /\ nova0 # Nenhuma
      BY <1>1, <2>1, SupplyIsThere, NamesDiffer DEF Livres
    <3>2. \E velhas \in SUBSET Keys :
            (\A k \in velhas : chave[k] # "livre") /\ Efetuar(s, velhas, nova0, at)
      <4> HIDE DEF nova0
      <4>1. CASE pedido[s].op = "emitir"
        <5>1. Efetuar(s, {}, nova0, at)
          BY <2>1, <4>1 DEF EmitirNova, nova0
        <5> QED
          BY <5>1
      <4>2. CASE pedido[s].op = "rotacionar"
        <5>1. Efetuar(s, {s}, nova0, at)
          BY <2>1, <4>2 DEF EmitirNova, nova0
        <5> QED
          BY <1>3, <4>2, <5>1 DEF Existe
      <4>3. CASE pedido[s].op \notin {"emitir", "rotacionar"}
        <5>1. Efetuar(s, Irmas, nova0, at)
          BY <2>1, <4>3 DEF EmitirNova, nova0
        <5> QED
          BY <5>1
      <4> QED
        BY <4>1, <4>2, <4>3
    <3>3. PICK velhas \in SUBSET Keys :
            (\A k \in velhas : chave[k] # "livre") /\ Efetuar(s, velhas, nova0, at)
      BY <3>2
    <3>4. Feito(velhas, nova0, at)
      BY <2>1, <3>1, <3>3
    <3> HIDE DEF Feito, nova0
    <3> QED
      BY <3>1, <3>4
  <2>2. CASE /\ pedido[s].op = "revogar"
             /\ IF ~pedido[s].forca /\ Ativas = {s}
                THEN Efetuar(s, {}, Nenhuma, IF at = "ok" THEN "ultima" ELSE at)
                ELSE Efetuar(s, {s}, Nenhuma, at)
    <3>1. Existe(s) /\ ~Emite(pedido[s].op)
      BY <1>3, <2>2 DEF Emite
    <3>2. CASE ~pedido[s].forca /\ Ativas = {s}
      <4>1. PICK t \in {"perdida", "ultima"} : Efetuar(s, {}, Nenhuma, t)
        BY <2>2, <3>2
      <4>2. Feito({}, Nenhuma, t)
        BY <2>2, <3>1, <4>1
      <4> HIDE DEF Feito
      <4> QED
        BY <4>2
    <3>3. CASE pedido[s].forca \/ Ativas # {s}
      <4>1. Feito({s}, Nenhuma, at) /\ {s} \in SUBSET Keys
        BY <2>2, <3>1, <3>3 DEF Existe
      <4> HIDE DEF Feito
      <4> QED
        BY <4>1
    <3> QED
      BY <3>2, <3>3
  <2>3. CASE at = "perdida" /\ Efetuar(s, {}, Nenhuma, at)
    <3>1. Feito({}, Nenhuma, at)
      BY <2>3
    <3> HIDE DEF Feito
    <3> QED
      BY <3>1
  <2> QED
    BY <1>2, <2>1, <2>2, <2>3
<1> QED
  BY <1>1, <1>4

LEMMA ProcessarKeeps == ASSUME IInv, NEW s \in Slots, Processar(s) PROVE IInv'
  BY ProcessarEffects, EfetuarKeeps

-----------------------------------------------------------------------------
(* What a step that has to do with the session leaves alone.               *)
LEMMA SessionLeavesKeys ==
  ASSUME \/ MudarWaha \/ Notificar \/ ReceberEvento
         \/ Buscar \/ ResponderBusca \/ ReceberBusca
         \/ AbrirQr \/ RenovarQr \/ GetQr \/ ReceberQr
         \/ Consultar \/ FindOne \/ ReceberConsulta \/ FecharQr
         \/ \E op \in {"criar", "start", "stop", "restart", "logout", "excluir"} : Agir(op)
         \/ ExecutarAcao \/ ReceberAcao
         \/ UNCHANGED vars
  PROVE  UNCHANGED chaves
<1>1. CASE MudarWaha \/ Notificar \/ ReceberEvento \/ Buscar \/ ResponderBusca \/ ReceberBusca
  BY <1>1 DEF MudarWaha, Notificar, ReceberEvento, Buscar, ResponderBusca, ReceberBusca
<1>2. CASE AbrirQr \/ RenovarQr \/ GetQr \/ ReceberQr
  BY <1>2 DEF AbrirQr, RenovarQr, GetQr, ReceberQr
<1>3. CASE Consultar \/ FindOne \/ ReceberConsulta \/ FecharQr
  BY <1>3 DEF Consultar, FindOne, ReceberConsulta, FecharQr
<1>4. CASE \E op \in {"criar", "start", "stop", "restart", "logout", "excluir"} : Agir(op)
  BY <1>4 DEF Agir
<1>5. CASE ExecutarAcao \/ ReceberAcao
  BY <1>5 DEF ExecutarAcao, ReceberAcao
<1>6. CASE UNCHANGED vars
  BY <1>6 DEF vars
<1> QED
  BY <1>1, <1>2, <1>3, <1>4, <1>5, <1>6

LEMMA UnchangedKeeps == ASSUME IInv, UNCHANGED chaves PROVE IInv'
<1>1. UNCHANGED <<chave, pedido, confirma, forcar, segredo, historico>>
  BY DEF chaves
<1>2. KeysTypeOK' /\ ConfirmaOK'
  BY <1>1 DEF IInv, KeysTypeOK, ConfirmaOK, Existe
<1> QED
  BY <1>1, <1>2, DialogsKeep

(* Only the API changes a key. *)
LEMMA InvStep ==
  ASSUME IInv, [Next]_vars
  PROVE  IInv' /\ (chave' = chave \/ \E s \in Slots : Processar(s))
<1>1. CASE \/ MudarWaha \/ Notificar \/ ReceberEvento
           \/ Buscar \/ ResponderBusca \/ ReceberBusca
           \/ AbrirQr \/ RenovarQr \/ GetQr \/ ReceberQr
           \/ Consultar \/ FindOne \/ ReceberConsulta \/ FecharQr
           \/ \E op \in {"criar", "start", "stop", "restart", "logout", "excluir"} : Agir(op)
           \/ ExecutarAcao \/ ReceberAcao
           \/ UNCHANGED vars
  <2>1. UNCHANGED chaves
    BY <1>1, SessionLeavesKeys
  <2> QED
    BY <2>1, UnchangedKeeps DEF chaves
<1>2. ASSUME NEW k \in Keys, NEW modo \in {"revogar", "rotacionar"}, AbrirConfirma(k, modo)
      PROVE  IInv' /\ chave' = chave
  BY <1>2, AbrirConfirmaKeeps DEF AbrirConfirma
<1>3. ASSUME NEW k \in Keys, Confirmar(k) PROVE IInv' /\ chave' = chave
  BY <1>3, ConfirmarKeeps DEF Confirmar
<1>4. ASSUME NEW k \in Keys, RotacionarSegredo(k) PROVE IInv' /\ chave' = chave
  BY <1>4, RotacionarSegredoKeeps DEF RotacionarSegredo
<1>5. CASE Cancelar
  BY <1>5, CancelarKeeps DEF Cancelar
<1>6. CASE Emitir
  BY <1>6, EmitirKeeps DEF Emitir
<1>7. CASE Marcar
  BY <1>7, MarcarKeeps DEF Marcar
<1>8. CASE Concluir
  BY <1>8, ConcluirKeeps DEF Concluir
<1>9. ASSUME NEW s \in Slots, Processar(s) PROVE IInv'
  BY <1>9, ProcessarKeeps
<1>10. ASSUME NEW s \in Slots, Receber(s) PROVE IInv' /\ chave' = chave
  BY <1>10, ReceberKeeps DEF Receber
<1>11. CASE Navegar
  BY <1>11, NavegarKeeps DEF Navegar
<1> QED
  BY <1>1, <1>2, <1>3, <1>4, <1>5, <1>6, <1>7, <1>8, <1>9, <1>10, <1>11 DEF Next

-----------------------------------------------------------------------------
(* In every reachable state a request has a key left to issue, the rows    *)
(* that revoke by force were warned, and while a single secret is being    *)
(* issued none is on display (apps/web/src/routes/aplicacoes.tsx and       *)
(* webhooks.tsx, components/ui/dialogo-segredo-unico.tsx).                 *)
THEOREM KeysInvariant == Spec => []IInv
<1>1. IInv /\ [Next]_vars => IInv'
  BY InvStep
<1> QED
  BY <1>1, InvInit, PTL DEF Spec

(* A secret that was issued is on display, was confirmed, or its answer or *)
(* its screen was cut off, unless two were issued at once: "o fechamento   *)
(* acidental precisa ser impossivel" (DialogoSegredoUnico).                *)
THEOREM SecretsConfirmed == Spec => []SecretConfirmed
<1>1. IInv => SecretConfirmed
  BY DEF IInv
<1> QED
  BY <1>1, KeysInvariant, PTL

(* The last active key is revoked only after its own revocation was        *)
(* refused and the operator told (aplicacoes.tsx: "O segundo clique        *)
(* reenvia com force").                                                    *)
THEOREM LastKeyIsWarned == Spec => LastKeyWarned
<1> DEFINE A == \A k \in Keys :
                  /\ Ativas = {k} /\ chave'[k] = "revogada" /\ {n \in Keys : chave'[n] = "ativa"} = {}
                  => k \in historico.avisadas
<1>1. ASSUME IInv, [Next]_vars PROVE A
  <2> SUFFICES ASSUME NEW k \in Keys, Ativas = {k}, chave'[k] = "revogada",
                      {n \in Keys : chave'[n] = "ativa"} = {}
               PROVE  k \in historico.avisadas
    OBVIOUS
  <2>1. chave[k] = "ativa"
    BY DEF Ativas
  <2>2. PICK s \in Slots : Processar(s)
    BY <1>1, <2>1, InvStep
  <2>3. PICK velhas \in SUBSET Keys, nova \in Livres \cup {Nenhuma}, at \in {"ok", "perdida", "ultima"} :
          /\ \A n \in velhas : chave[n] # "livre"
          /\ at = "ultima" => pedido[s].op = "revogar"
          /\ at = "ok" /\ Emite(pedido[s].op) => nova \in Livres
          /\ Emite(pedido[s].op) \/ nova = Nenhuma
          /\ nova = Nenhuma =>
               \/ velhas = {}
               \/ velhas = {s} /\ (pedido[s].forca \/ Ativas # {s})
          /\ Efetuar(s, velhas, nova, at)
    <3> HIDE DEF A
    <3> QED
      BY <1>1, <2>2, ProcessarEffects
  <2>4. chave' = [n \in Keys |-> IF n = nova THEN "ativa"
                                ELSE IF n \in velhas THEN "revogada" ELSE chave[n]]
    BY <2>3 DEF Efetuar
  <2>5. nova = Nenhuma
    BY <2>4 DEF Livres
  <2>6. k \in velhas
    BY <2>1, <2>4
  <2>7. k = s /\ pedido[s].forca
    BY <2>3, <2>5, <2>6
  <2> QED
    BY <1>1, <2>7 DEF IInv, ForceIsWarned
<1>2. IInv /\ [Next]_vars => [A]_vars
  BY <1>1
<1> QED
  BY <1>2, KeysInvariant, PTL DEF Spec, LastKeyWarned

-----------------------------------------------------------------------------
(* Types.                                                                  *)

SessionTypeOK ==
    /\ tela \in UNION Roteiros /\ imprevistos \in 0..MaxImprevistos
    /\ waha \in Status /\ linha \in Status /\ eventos \subseteq {"painel", "dialogo"}
    /\ vista \in Status \cup {Nenhuma} /\ busca \in Status \cup {Nenhuma, "pedida"}
    /\ fase \in {"fechado", "carregando", "aguardando", "conectado", "erro"}
    /\ qr \in [{"pedido", "codigo", "conectada", "falha"} -> Nat]
    /\ consulta \in {Nenhuma, "pedida", "conectada"}

LEMMA SessionTypeStep == SessionTypeOK /\ [Next]_vars => SessionTypeOK'
<1> SUFFICES ASSUME SessionTypeOK, [Next]_vars PROVE SessionTypeOK'
  OBVIOUS
<1>0. /\ imprevistos' = imprevistos \/ Imprevisto => imprevistos' \in 0..MaxImprevistos
      /\ {"ausente", "SCAN_QR_CODE", "WORKING", "STOPPED"} \subseteq Status
  <2>1. MaxImprevistos \in Nat /\ imprevistos \in 0..MaxImprevistos
    BY PanelAssumption DEF SessionTypeOK
  <2> QED
    BY <2>1, PanelAssumption DEF Imprevisto
<1> USE <1>0 DEF SessionTypeOK
<1>1. CASE MudarWaha
  BY <1>1 DEF MudarWaha
<1>2. CASE Notificar
  BY <1>2 DEF Notificar, Publicar
<1>3. CASE ReceberEvento
  BY <1>3 DEF ReceberEvento, Invalidar, Conectar
<1>4. CASE Buscar \/ ResponderBusca \/ ReceberBusca
  <2>1. CASE Buscar
    BY <2>1 DEF Buscar
  <2>2. CASE ResponderBusca
    BY <2>2 DEF ResponderBusca
  <2>3. CASE ReceberBusca
    BY <2>3 DEF ReceberBusca
  <2> QED
    BY <1>4, <2>1, <2>2, <2>3
<1>5. CASE AbrirQr \/ RenovarQr
  BY <1>5 DEF AbrirQr, RenovarQr, BuscarQr
<1>6. CASE GetQr
  <2>1. ASSUME NEW r \in {"codigo", "conectada", "falha"}, qr.pedido > 0,
               qr' = [qr EXCEPT !.pedido = @ - 1, ![r] = @ + 1]
        PROVE  qr' \in [{"pedido", "codigo", "conectada", "falha"} -> Nat]
    BY <2>1
  <2>2. qr' \in [{"pedido", "codigo", "conectada", "falha"} -> Nat]
    <3>1. CASE \E r \in {"codigo", "conectada", "falha"} : qr' = [qr EXCEPT !.pedido = @ - 1, ![r] = @ + 1]
      BY <1>6, <2>1, <3>1 DEF GetQr
    <3> QED
      BY <1>6, <3>1 DEF GetQr
  <2> QED
    BY <1>6, <2>2 DEF GetQr
<1>7. CASE ReceberQr
  BY <1>7 DEF ReceberQr
<1>8. CASE Consultar \/ FindOne
  <2>1. CASE Consultar
    BY <2>1 DEF Consultar
  <2>2. CASE FindOne
    BY <2>2 DEF FindOne
  <2> QED
    BY <1>8, <2>1, <2>2
<1>9. CASE ReceberConsulta
  BY <1>9 DEF ReceberConsulta, Invalidar, Conectar
<1>10. CASE FecharQr
  BY <1>10 DEF FecharQr, SemQr
<1>11. ASSUME NEW op \in {"criar", "start", "stop", "restart", "logout", "excluir"}, Agir(op)
       PROVE  SessionTypeOK'
  BY <1>11 DEF Agir
<1>12. CASE ExecutarAcao
  BY <1>12 DEF ExecutarAcao, Efeitos, Publicar
<1>13. CASE ReceberAcao
  BY <1>13 DEF ReceberAcao, Invalidar, BuscarQr
<1>14. CASE (\E s \in Slots : Processar(s))
  BY <1>14 DEF Processar, sessao
<1>15. CASE UNCHANGED <<tela, imprevistos, sessao>>
  BY <1>15 DEF sessao
<1>16. CASE Navegar
  BY <1>16 DEF Navegar, SemQr
<1>17. CASE UNCHANGED vars
  BY <1>17 DEF vars, sessao
<1>18. CASE \/ \E k \in Keys, modo \in {"revogar", "rotacionar"} : AbrirConfirma(k, modo)
            \/ \E k \in Keys : Confirmar(k) \/ RotacionarSegredo(k)
            \/ Cancelar \/ Emitir \/ Marcar \/ Concluir
            \/ \E s \in Slots : Receber(s)
  <2>1. UNCHANGED <<tela, imprevistos, sessao>>
    BY <1>18 DEF AbrirConfirma, Confirmar, RotacionarSegredo, Cancelar, Emitir, Marcar, Concluir,
                 Receber
  <2> QED
    BY <1>15, <2>1
<1> QED
  BY <1>1, <1>2, <1>3, <1>4, <1>5, <1>6, <1>7, <1>8, <1>9, <1>10, <1>11, <1>12, <1>13, <1>14,
     <1>16, <1>17, <1>18 DEF Next

(* Every variable keeps its type; in particular no late answer makes a     *)
(* count of QR codes negative, and nothing but a status of WAHA, or none,  *)
(* is ever shown.                                                          *)
THEOREM TypeCorrect == Spec => []TypeOK
<1>1. Init => SessionTypeOK
  BY PanelAssumption DEF Init, SessionTypeOK, SemQr
<1>2. SessionTypeOK /\ [Next]_vars => SessionTypeOK'
  BY SessionTypeStep
<1>3. IInv /\ SessionTypeOK => TypeOK
  BY DEF IInv, KeysTypeOK, SessionTypeOK, TypeOK
<1> QED
  BY <1>1, <1>2, <1>3, KeysInvariant, PTL DEF Spec
=============================================================================
