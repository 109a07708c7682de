------------------------------- MODULE Panel -------------------------------
(***************************************************************************)
(* The screens of the panel that act.  A session's list and detail with    *)
(* the dialog of its QR code, fed by polls, by events that may be lost and *)
(* by answers that come late; and the screens that revoke, rotate and      *)
(* issue keys and secrets, which are shown once.                           *)
(***************************************************************************)
EXTENDS Naturals, FiniteSets, Functions

CONSTANTS
    Roteiros,       \* the sets of screens an operator may move between
    Status,         \* of a session; "ausente" is one that does not exist
    Keys, Iniciais, \* the secrets that are ever issued, and those there are at first
    MaxPedidos,     \* the requests of QR codes under way
    MaxImprevistos  \* the changes of status at WAHA, mutations of a session,
                    \* requests that fail and changes of route, in all

Nenhuma == "nenhuma"
Emissao == "emissao"    \* the form that issues
Slots == Keys \cup {Emissao}

ASSUME PanelAssumption ==
    /\ {"ausente", "SCAN_QR_CODE", "WORKING", "STOPPED"} \subseteq Status
    /\ Nenhuma \notin Status \cup Slots /\ Emissao \notin Keys
    /\ Iniciais \subseteq Keys /\ IsFiniteSet(Keys)
    /\ {MaxPedidos, MaxImprevistos} \subseteq Nat

VARIABLES
    tela,           \* the screen that is mounted
    imprevistos,
    waha, linha,    \* the session's status at WAHA, and in its row
    eventos,        \* the streams an event is on its way on
    vista, busca,   \* what the screen shows of the session, and its query
    fase,           \* of DialogoQr
    qr, consulta,   \* its requests: how many QR codes, and the periodic look
    acao,           \* the mutation of the menu, or of the form that creates
    chave, dona,    \* the keys in the database; a secret that an endpoint has or
                    \* had belongs to the endpoint, named by its first one
    pedido,         \* the mutations of each key's row and of the form
    confirma,       \* the dialog of a row: whose, and what it asks
    forcar,         \* the rows that will revoke by force
    segredo,        \* DialogoSegredoUnico: the secret it shows, and its box
    historico       \* history: the keys refused as the last one, the secrets
                    \* confirmed or cut off, and whether two were issued at once

sessao == <<waha, linha, eventos, vista, busca, fase, qr, consulta, acao>>
chaves == <<chave, dona, pedido, confirma, forcar, segredo, historico>>
vars == <<tela, imprevistos, sessao, chaves>>

TelasDeSessao == {"sessoes", "detalhe"}
TelasDeSegredo == {"aplicacao", "webhooks"}

Repouso == [op |-> Nenhuma, forca |-> FALSE, at |-> "livre", nova |-> Nenhuma, viva |-> TRUE]
SemQr == [r \in {"pedido", "codigo", "conectada", "falha"} |-> 0]
SemConfirma == [k |-> Nenhuma, modo |-> Nenhuma]
SemSegredo == [k |-> Nenhuma, confirmou |-> FALSE]

Init ==
    /\ tela \in UNION Roteiros
    /\ imprevistos = 0
    /\ waha \in IF tela \in TelasDeSessao THEN {"ausente", "SCAN_QR_CODE"} ELSE {"ausente"}
    /\ linha = waha /\ eventos = {}
    /\ vista = Nenhuma /\ busca = Nenhuma
    /\ fase = "fechado" /\ qr = SemQr /\ consulta = Nenhuma
    /\ acao = Nenhuma
    /\ chave = [k \in Keys |-> IF k \in Iniciais THEN "ativa" ELSE "livre"]
    /\ dona = [k \in Keys |-> k]
    /\ pedido = [s \in Slots |-> Repouso]
    /\ confirma = SemConfirma /\ forcar = {} /\ segredo = SemSegredo
    /\ historico = [avisadas |-> {}, resolvidas |-> {}, juntas |-> FALSE]

Imprevisto ==
    /\ imprevistos < MaxImprevistos
    /\ imprevistos' = imprevistos + 1

-----------------------------------------------------------------------------
(* The session and what the panel hears of it.                             *)

MudarWaha ==
    /\ waha # "ausente" /\ Imprevisto
    /\ waha' \in Status \ {"ausente", waha}
    /\ UNCHANGED <<tela, linha, eventos, vista, busca, fase, qr, consulta, acao, chaves>>

(* Each stream may be down when an event is published, for up to 30        *)
(* seconds, and nothing is repeated; the dialog has a stream of its own.   *)
Publicar(s) ==
    \E fluxos \in SUBSET ({"painel"} \cup (IF fase # "fechado" /\ s = "WORKING" THEN {"dialogo"} ELSE {})) :
        eventos' = eventos \cup fluxos

(* A webhook is handled and published on the bus; or the reconciliation    *)
(* writes the row, which publishes nothing.                                *)
Notificar ==
    /\ linha # waha
    /\ linha' = waha
    /\ Publicar(waha)
    /\ UNCHANGED <<tela, imprevistos, waha, vista, busca, fase, qr, consulta, acao, chaves>>

(* invalidateQueries: a query under way starts again, unless it is the     *)
(* first one.                                                              *)
Invalidar ==
    busca' = IF tela \in TelasDeSessao /\ (vista # Nenhuma \/ busca = Nenhuma) THEN "pedida" ELSE busca

Conectar == IF fase = "fechado" THEN fase ELSE "conectado"

(* tratar, of the panel's stream or of the dialog's own. *)
ReceberEvento ==
    /\ \E f \in eventos :
        /\ eventos' = eventos \ {f}
        /\ fase' = IF f = "dialogo" THEN Conectar ELSE fase
    /\ Invalidar
    /\ UNCHANGED <<tela, imprevistos, waha, linha, vista, qr, consulta, acao, chaves>>

-----------------------------------------------------------------------------
(* The query of the list, or of the detail.                                *)

MutantSemIntervalo == \* refetchInterval is left out
    /\ tela \in TelasDeSessao /\ busca = Nenhuma /\ vista = Nenhuma
    /\ busca' = "pedida"
    /\ UNCHANGED <<tela, imprevistos, waha, linha, eventos, vista, fase, qr, consulta, acao, chaves>>

(* At first, every 20 or 15 seconds, and when the window gets the focus. *)
Buscar ==
    /\ tela \in TelasDeSessao /\ busca = Nenhuma
    /\ busca' = "pedida"
    /\ UNCHANGED <<tela, imprevistos, waha, linha, eventos, vista, fase, qr, consulta, acao, chaves>>

(* The list reads the rows; the detail synchronises its own with WAHA. *)
ResponderBusca ==
    /\ busca = "pedida"
    /\ \/ /\ linha' = IF tela = "detalhe" THEN waha ELSE linha
          /\ busca' = linha'
          /\ UNCHANGED imprevistos
       \/ /\ Imprevisto
          /\ busca' = Nenhuma
          /\ UNCHANGED linha
    /\ UNCHANGED <<tela, waha, eventos, vista, fase, qr, consulta, acao, chaves>>

(* After an error, and a 404 is one, the old data stay on the screen. *)
ReceberBusca ==
    /\ busca \in Status
    /\ vista' = IF tela = "detalhe" /\ busca = "ausente" /\ vista # Nenhuma THEN vista ELSE busca
    /\ busca' = Nenhuma
    /\ UNCHANGED <<tela, imprevistos, waha, linha, eventos, fase, qr, consulta, acao, chaves>>

-----------------------------------------------------------------------------
(* DialogoQr.                                                              *)

EmVoo == FoldFunction(+, 0, qr)

BuscarQr == qr' = [qr EXCEPT !.pedido = @ + 1]

(* precisaConectar *)
AbrirQr ==
    /\ tela \in TelasDeSessao /\ fase = "fechado" /\ vista \in {"SCAN_QR_CODE", "STARTING"}
    /\ EmVoo < MaxPedidos
    /\ fase' = "carregando"
    /\ BuscarQr
    /\ UNCHANGED <<tela, imprevistos, waha, linha, eventos, vista, busca, consulta, acao, chaves>>

(* The code is 17 seconds old, or "Tentar novamente"; the pairing code, in *)
(* whose place nothing is renewed, is left out.                            *)
RenovarQr ==
    /\ fase \in {"aguardando", "erro"} /\ EmVoo < MaxPedidos
    /\ BuscarQr
    /\ UNCHANGED <<tela, imprevistos, waha, linha, eventos, vista, busca, fase, consulta, acao, chaves>>

(* getQr synchronises the row, and has a code only for SCAN_QR_CODE. *)
GetQr ==
    /\ qr.pedido > 0
    /\ \/ /\ linha' = waha
          /\ LET r == CASE waha = "SCAN_QR_CODE" -> "codigo"
                        [] waha = "WORKING"      -> "conectada"
                        [] OTHER                 -> "falha"
             IN qr' = [qr EXCEPT !.pedido = @ - 1, ![r] = @ + 1]
          /\ UNCHANGED imprevistos
       \/ /\ Imprevisto
          /\ qr' = [qr EXCEPT !.pedido = @ - 1, !.falha = @ + 1]
          /\ UNCHANGED linha
    /\ UNCHANGED <<tela, waha, eventos, vista, busca, fase, consulta, acao, chaves>>

(* buscarQr goes on, whatever the dialog has come to meanwhile. *)
ReceberQr ==
    /\ \E r \in {"codigo", "conectada", "falha"} :
        /\ qr[r] > 0
        /\ qr' = [qr EXCEPT ![r] = @ - 1]
        /\ fase' = CASE fase = "fechado"  -> fase
                     [] r = "codigo"      -> "aguardando"
                     [] r = "conectada"   -> "conectado"
                     [] OTHER             -> "erro"
    /\ UNCHANGED <<tela, imprevistos, waha, linha, eventos, vista, busca, consulta, acao, chaves>>

MutantSoAguardando == \* the safety net is only there while a code is shown
    /\ fase = "aguardando" /\ consulta = Nenhuma
    /\ consulta' = "pedida"
    /\ UNCHANGED <<tela, imprevistos, waha, linha, eventos, vista, busca, fase, qr, acao, chaves>>

(* The safety net, every 5 seconds. *)
Consultar ==
    /\ fase \notin {"fechado", "conectado"} /\ consulta = Nenhuma
    /\ consulta' = "pedida"
    /\ UNCHANGED <<tela, imprevistos, waha, linha, eventos, vista, busca, fase, qr, acao, chaves>>

(* An answer that is not WORKING, or an error, changes nothing. *)
FindOne ==
    /\ consulta = "pedida"
    /\ \/ /\ linha' = waha
          /\ consulta' = IF waha = "WORKING" THEN "conectada" ELSE Nenhuma
          /\ UNCHANGED imprevistos
       \/ /\ Imprevisto
          /\ consulta' = Nenhuma
          /\ UNCHANGED linha
    /\ UNCHANGED <<tela, waha, eventos, vista, busca, fase, qr, acao, chaves>>

ReceberConsulta ==
    /\ consulta = "conectada"
    /\ consulta' = Nenhuma
    /\ Invalidar
    /\ fase' = Conectar
    /\ UNCHANGED <<tela, imprevistos, waha, linha, eventos, vista, qr, acao, chaves>>

(* The list unmounts it, and with it go its answers; the detail does not. *)
FecharQr ==
    /\ fase # "fechado"
    /\ fase' = "fechado"
    /\ eventos' = eventos \ {"dialogo"}
    /\ IF tela = "sessoes" THEN qr' = SemQr /\ consulta' = Nenhuma ELSE UNCHANGED <<qr, consulta>>
    /\ UNCHANGED <<tela, imprevistos, waha, linha, vista, busca, acao, chaves>>

-----------------------------------------------------------------------------
(* MenuDeAcoes, and the form of a new session.                             *)

(* What WAHA may have made of the session by the time it answers. *)
Efeitos(op) ==
    CASE op = "excluir" -> {"ausente"}
      [] op = "stop"    -> {"STOPPED"}
      [] op = "logout"  -> {"SCAN_QR_CODE", "STOPPED"}
      [] OTHER          -> Status \ {"ausente", "STOPPED"}

Agir(op) ==
    /\ tela \in TelasDeSessao /\ fase = "fechado" /\ acao = Nenhuma
    /\ CASE op = "criar" -> tela = "sessoes" /\ vista = "ausente"
         [] op = "start" -> vista \notin {Nenhuma, "ausente", "WORKING"}
         [] op = "stop"  -> vista \notin {Nenhuma, "ausente", "STOPPED"}
         [] OTHER        -> vista \notin {Nenhuma, "ausente"}
    /\ Imprevisto
    /\ acao' = op
    /\ UNCHANGED <<tela, waha, linha, eventos, vista, busca, fase, qr, consulta, chaves>>

(* The row takes WAHA's answer; or it is refused, or does not get there. *)
ExecutarAcao ==
    /\ acao \in {"criar", "start", "stop", "restart", "logout", "excluir"}
    /\ \/ /\ (acao = "criar") = (waha = "ausente")
          /\ waha' \in Efeitos(acao)
          /\ linha' = waha'
          /\ IF acao = "excluir" THEN UNCHANGED eventos ELSE Publicar(waha')
          /\ acao' = IF acao = "criar" THEN "criada" ELSE "feita"
       \/ /\ acao' = Nenhuma
          /\ UNCHANGED <<waha, linha, eventos>>
    /\ UNCHANGED <<tela, imprevistos, vista, busca, fase, qr, consulta, chaves>>

(* A session that was created opens its QR code. *)
ReceberAcao ==
    /\ acao \in {"criada", "feita"}
    /\ acao' = Nenhuma
    /\ Invalidar
    /\ IF acao = "criada" /\ tela = "sessoes" /\ fase = "fechado"
       THEN fase' = "carregando" /\ BuscarQr
       ELSE UNCHANGED <<fase, qr>>
    /\ UNCHANGED <<tela, imprevistos, waha, linha, eventos, vista, consulta, chaves>>

-----------------------------------------------------------------------------
(* Keys and secrets.  A row offers its actions while its key is active; a  *)
(* dialog that is open already stays, whatever becomes of the key.         *)

Livres == {k \in Keys : chave[k] = "livre"}
Ativas == {k \in Keys : chave[k] = "ativa"}
Emite(op) == op \in {"rotacionar", "emitir", "segredo"}
Emitindo == {s \in Slots : Emite(pedido[s].op)}

(* No dialog covers the screen. *)
Descoberta == confirma = SemConfirma /\ segredo = SemSegredo

Enviar(s, op, forca) ==
    /\ pedido[s] = Repouso
    /\ Emite(op) => Cardinality(Livres) > Cardinality({t \in Emitindo : pedido[t].at = "enviado"})
    /\ pedido' = [pedido EXCEPT ![s].op = op, ![s].forca = forca, ![s].at = "enviado"]
    /\ historico' = [historico EXCEPT !.juntas = @ \/ (Emite(op) /\ Emitindo # {})]

AbrirConfirma(k, modo) ==
    /\ tela = "aplicacao" /\ chave[k] = "ativa" /\ Descoberta
    /\ confirma' = [k |-> k, modo |-> modo]
    /\ UNCHANGED <<tela, imprevistos, sessao, chave, dona, pedido, forcar, segredo, historico>>

MutantForcaComum(k) == \* the flag is kept by the screen, not by the row
    /\ confirma.k = k /\ segredo = SemSegredo
    /\ Enviar(k, confirma.modo, confirma.modo = "revogar" /\ forcar # {})
    /\ UNCHANGED <<tela, imprevistos, sessao, chave, dona, confirma, forcar, segredo>>

(* The button is disabled while a mutation of its row is pending. *)
Confirmar(k) ==
    /\ confirma.k = k /\ segredo = SemSegredo
    /\ Enviar(k, confirma.modo, confirma.modo = "revogar" /\ k \in forcar)
    /\ UNCHANGED <<tela, imprevistos, sessao, chave, dona, confirma, forcar, segredo>>

(* "Cancelar" forgets less than any other way to close the dialog. *)
Cancelar ==
    /\ confirma # SemConfirma
    /\ confirma' = SemConfirma
    /\ forcar' \in {forcar \ {confirma.k}} \cup (IF segredo = SemSegredo THEN {forcar} ELSE {})
    /\ UNCHANGED <<tela, imprevistos, sessao, chave, dona, pedido, segredo, historico>>

(* The form of a key, or of an endpoint. *)
Emitir ==
    /\ tela \in TelasDeSegredo /\ Descoberta
    /\ Enviar(Emissao, "emitir", FALSE)
    /\ UNCHANGED <<tela, imprevistos, sessao, chave, dona, confirma, forcar, segredo>>

(* An endpoint's secret is rotated with one click, and again with another  *)
(* one: the button stays enabled.                                          *)
RotacionarSegredo(s) ==
    /\ tela = "webhooks" /\ chave[s] # "livre" /\ Descoberta
    /\ Enviar(s, "segredo", FALSE)
    /\ UNCHANGED <<tela, imprevistos, sessao, chave, dona, confirma, forcar, segredo>>

(* The API cuts keys off and issues one.  An answer that is lost, or that  *)
(* no screen waits for, takes the new secret with it.                      *)
Efetuar(s, velhas, nova, at) ==
    LET perdida == at = "perdida" \/ ~pedido[s].viva IN
    /\ chave' = [k \in Keys |-> IF k = nova THEN "ativa" ELSE IF k \in velhas THEN "revogada" ELSE chave[k]]
    /\ pedido' = [pedido EXCEPT ![s] = IF perdida THEN Repouso ELSE [@ EXCEPT !.at = at, !.nova = nova]]
    /\ historico' = [historico EXCEPT !.resolvidas = IF perdida THEN @ \cup ({nova} \ {Nenhuma}) ELSE @]

EmitirNova(s, at) ==
    LET nova == CHOOSE k \in Livres : TRUE IN
    CASE pedido[s].op = "emitir"     -> Efetuar(s, {}, nova, at) /\ UNCHANGED dona
      [] pedido[s].op = "rotacionar" -> Efetuar(s, {s}, nova, at) /\ UNCHANGED dona
      [] OTHER -> /\ Efetuar(s, {k \in Keys : chave[k] # "livre" /\ dona[k] = dona[s]}, nova, at)
                  /\ dona' = [dona EXCEPT ![nova] = dona[s]]

(* A request that is refused or fails ends like one whose answer is lost. *)
Processar(s) ==
    LET p == pedido[s] IN
    /\ p.at = "enviado"
    /\ \E at \in {"ok", "perdida"} :
        /\ IF at = "perdida" /\ p.viva THEN Imprevisto ELSE UNCHANGED imprevistos
        /\ \/ Emite(p.op) /\ EmitirNova(s, at)
           \/ /\ p.op = "revogar" /\ UNCHANGED dona
              /\ IF ~p.forca /\ Ativas = {s}
                 THEN Efetuar(s, {}, Nenhuma, IF at = "ok" THEN "ultima" ELSE at)
                 ELSE Efetuar(s, {s}, Nenhuma, at)
           \/ /\ at = "perdida" /\ UNCHANGED dona
              /\ Efetuar(s, {}, Nenhuma, at)
    /\ UNCHANGED <<tela, sessao, confirma, forcar, segredo>>

(* onSuccess and onError.  A new secret takes the place of one that is     *)
(* shown; its box stays as it is.                                          *)
Receber(s) ==
    LET p == pedido[s] IN
    /\ p.at \in {"ok", "ultima"}
    /\ pedido' = [pedido EXCEPT ![s] = Repouso]
    /\ confirma' = IF p.at = "ok" /\ confirma.k = s THEN SemConfirma ELSE confirma
    /\ forcar' = CASE p.at = "ultima"    -> forcar \cup {s}
                   [] p.op = "revogar"   -> forcar \ {s}
                   [] OTHER              -> forcar
    /\ segredo' = IF Emite(p.op) THEN [segredo EXCEPT !.k = p.nova] ELSE segredo
    /\ historico' = [historico EXCEPT !.avisadas = IF p.at = "ultima" THEN @ \cup {s} ELSE @]
    /\ UNCHANGED <<tela, imprevistos, sessao, chave, dona>>

(* The box "Guardei este valor". *)
Marcar ==
    /\ segredo.k # Nenhuma /\ ~segredo.confirmou
    /\ segredo' = [segredo EXCEPT !.confirmou = TRUE]
    /\ historico' = [historico EXCEPT !.resolvidas = @ \cup {segredo.k}]
    /\ UNCHANGED <<tela, imprevistos, sessao, chave, dona, pedido, confirma, forcar>>

MutantDestravado == \* Escape closes it like any other dialog
    /\ segredo.k # Nenhuma
    /\ segredo' = SemSegredo
    /\ UNCHANGED <<tela, imprevistos, sessao, chave, dona, pedido, confirma, forcar, historico>>

(* travado: nothing but "Concluir" closes it. *)
Concluir ==
    /\ segredo.k # Nenhuma /\ segredo.confirmou
    /\ segredo' = SemSegredo
    /\ UNCHANGED <<tela, imprevistos, sessao, chave, dona, pedido, confirma, forcar, historico>>

-----------------------------------------------------------------------------
(* Another route, by a link or by the browser, whatever dialog is open:    *)
(* the screen is unmounted with its state, and what it asked for goes on.  *)
Navegar ==
    LET respondidos == {s \in Slots : pedido[s].at \in {"ok", "ultima"}} IN
    /\ Imprevisto
    /\ \E r \in Roteiros : tela \in r /\ tela' \in r \ {tela}
    /\ vista' = Nenhuma /\ busca' = Nenhuma
    /\ fase' = "fechado" /\ qr' = SemQr /\ consulta' = Nenhuma /\ eventos' = eventos \ {"dialogo"}
    /\ pedido' = [s \in Slots |-> IF pedido[s].at = "enviado" THEN [pedido[s] EXCEPT !.viva = FALSE] ELSE Repouso]
    /\ confirma' = SemConfirma /\ forcar' = {} /\ segredo' = SemSegredo
    /\ historico' = [historico EXCEPT
                        !.resolvidas = @ \cup (({segredo.k} \cup {pedido[s].nova : s \in respondidos}) \ {Nenhuma})]
    /\ UNCHANGED <<waha, linha, acao, chave, dona>>

-----------------------------------------------------------------------------
Next ==
    \/ MudarWaha \/ Notificar \/ ReceberEvento
    \/ Buscar \/ ResponderBusca \/ ReceberBusca
    \/ AbrirQr \/ RenovarQr \/ GetQr \/ ReceberQr
    \/ Consultar \/ FindOne \/ ReceberConsulta \/ FecharQr
    \/ \E op \in {"criar", "start", "stop", "restart", "logout", "excluir"} : Agir(op)
    \/ ExecutarAcao \/ ReceberAcao
    \/ \E k \in Keys, modo \in {"revogar", "rotacionar"} : AbrirConfirma(k, modo)
    \/ \E k \in Keys : Confirmar(k) \/ RotacionarSegredo(k)
    \/ Cancelar \/ Emitir \/ Marcar \/ Concluir
    \/ \E s \in Slots : Processar(s) \/ Receber(s)
    \/ Navegar

Spec == Init /\ [][Next]_vars

(* Timers fire, requests end, and React handles their answers. *)
Fairness ==
    /\ WF_vars(Buscar) /\ WF_vars(ResponderBusca) /\ WF_vars(ReceberBusca)
    /\ WF_vars(Consultar) /\ WF_vars(FindOne) /\ WF_vars(ReceberConsulta)
    /\ WF_vars(GetQr) /\ WF_vars(ReceberQr)

FairSpec == Spec /\ Fairness

-----------------------------------------------------------------------------
(* Properties.                                                             *)

TypeOK ==
    /\ tela \in UNION Roteiros /\ imprevistos \in 0..MaxImprevistos
    /\ waha \in Status /\ linha \in Status /\ eventos \subseteq {"painel", "dialogo"}
    /\ vista \in Status \cup {Nenhuma} /\ busca \in Status \cup {Nenhuma, "pedida"}
    /\ fase \in {"fechado", "carregando", "aguardando", "conectado", "erro"}
    /\ qr \in [{"pedido", "codigo", "conectada", "falha"} -> Nat]
    /\ consulta \in {Nenhuma, "pedida", "conectada"}
    /\ chave \in [Keys -> {"livre", "ativa", "revogada"}]
    /\ confirma.k \in Keys \cup {Nenhuma} /\ forcar \subseteq Keys
    /\ segredo \in [k : Keys \cup {Nenhuma}, confirmou : BOOLEAN]

(* "Esta tela detecta a conexão automaticamente": if the session is        *)
(* connected for good, the dialog that is left open comes to say so and    *)
(* goes on saying so, whichever events, answers and codes were lost or     *)
(* late, and whatever went wrong with the code.                            *)
ConnectionIsSeen ==
    <>[](fase # "fechado" /\ waha = "WORKING") => <>[](fase = "conectado")

(* The list and the detail end up showing the row, although events are     *)
(* lost and answers are overtaken, if nobody goes on opening and closing   *)
(* the dialog, which starts the query over each time; but the detail goes  *)
(* on showing a session that was deleted.                                  *)
ScreenConverges ==
    \A s \in Status, aberto \in BOOLEAN :
        <>[](/\ tela \in TelasDeSessao /\ linha = s /\ aberto = (fase # "fechado")
             /\ tela = "detalhe" => s # "ausente")
            => <>[](vista = s)

(* "O segundo clique reenvia com force": the last active key is revoked    *)
(* only after its own revocation was refused once and the operator told,   *)
(* whatever was done to other keys, asked for, cancelled or left before.   *)
LastKeyWarned ==
    [][\A k \in Keys :
        /\ Ativas = {k} /\ chave'[k] = "revogada" /\ {n \in Keys : chave'[n] = "ativa"} = {}
        => k \in historico.avisadas]_vars

(* "O fechamento acidental precisa ser impossível": a secret that was      *)
(* issued is on display, or was confirmed, or its answer or its screen was *)
(* cut off; unless two were issued at once, which may replace one another. *)
SecretConfirmed ==
    \/ historico.juntas
    \/ \A k \in Keys \ Iniciais :
        chave[k] # "livre" =>
            \/ k = segredo.k
            \/ k \in historico.resolvidas
            \/ \E s \in Emitindo : pedido[s].nova = k
=============================================================================
