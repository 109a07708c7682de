----------------------------- MODULE PanelAuth -----------------------------
(***************************************************************************)
(* The sign-in of the panel: refresh tokens and their families in Redis,   *)
(* the refresh token that the tabs of a browser share in localStorage, and *)
(* in each tab the requests and the one renewal that serves those that are *)
(* answered 401.  An access token may expire at any time, so that the    *)
(* guard may refuse any request.                                           *)
(***************************************************************************)
EXTENDS Naturals, FiniteSets, Functions

CONSTANTS
    Tabs,
    MaxRequests,    \* the requests all tabs have under way at once
    Tokens,         \* the refresh tokens that are ever issued
    Calls,          \* the calls of login, refresh and logout under way at once
    MaxFaults       \* how often something expires, throws, is cut off or reloaded

NoToken == "no token"
NoTab == "no tab"

ASSUME PanelAuthAssumption ==
    /\ NoToken \notin Tokens /\ NoTab \notin Tabs
    /\ MaxRequests \in Nat /\ MaxFaults \in Nat

VARIABLES
    token,      \* admin:refresh: in Redis
    families,   \* admin:family: in Redis; a family is named by its first token
    call,       \* the API's side of a call
    storage,    \* the refresh token in localStorage
    page,       \* a tab's screen and renewal
    requests,   \* how many of a tab's requests are under way: for the first
                \* time, once more after a renewal, or waiting for one
    faults,     \* how many there were
    disturbed,  \* history: something that may cost a session happened
    ended       \* history: the families that were logged out

serverVars == <<token, families, call>>
browserVars == <<storage, page, requests>>
history == <<faults, disturbed, ended>>
vars == <<serverVars, browserVars, history>>

NoCall == [kind |-> "none", at |-> "start", t |-> NoToken, f |-> NoToken,
           new |-> NoToken, tab |-> NoTab]

(* A tab is opened: App verifies before it shows anything. *)
Opened == [screen |-> "verificando", flight |-> "none"]

Quiet == [sent |-> 0, repeated |-> 0, waiting |-> 0]

Init ==
    /\ token = [t \in Tokens |-> [state |-> "unused", family |-> NoToken]]
    /\ families = {}
    /\ call = [c \in Calls |-> NoCall]
    /\ storage = NoToken
    /\ page = [b \in Tabs |-> Opened]
    /\ requests = [b \in Tabs |-> Quiet]
    /\ faults = 0
    /\ disturbed = FALSE
    /\ ended = {}

-----------------------------------------------------------------------------
(* The API.                                                                *)

Go(c, at) == call' = [call EXCEPT ![c].at = at]

(* It is over, and the answer is on its way. *)
End(c, at) == call' = [call EXCEPT ![c].at = at, ![c].f = NoToken]

(* A refresh that has used up its family's token and has yet to write one. *)
Renewing(c, f) ==
    call[c].kind = "refresh" /\ call[c].f = f /\ call[c].at \in {"family", "issue"}

MutantConsumir(c) == \* GET, and a DEL that is left out
    /\ call[c].kind \in {"refresh", "logout"} /\ call[c].at = "start"
    /\ LET t == call[c].t IN
        IF token[t].state = "live"
        THEN call' = [call EXCEPT ![c].f = token[t].family,
                                  ![c].at = IF call[c].kind = "refresh" THEN "family" ELSE "del"]
        ELSE Go(c, IF call[c].kind = "refresh" THEN "refused" ELSE "ok")
    /\ UNCHANGED <<token, families, browserVars, history>>

(* GETDEL of refresh and logout.  A logout of an unknown token is content. *)
Consumir(c) ==
    /\ call[c].kind \in {"refresh", "logout"} /\ call[c].at = "start"
    /\ LET t == call[c].t
           refresh == call[c].kind = "refresh"
       IN IF token[t].state = "live"
          THEN /\ token' = [token EXCEPT ![t].state = "gone"]
               /\ call' = [call EXCEPT ![c].f = token[t].family,
                                       ![c].at = IF refresh THEN "family" ELSE "del"]
          ELSE /\ Go(c, IF refresh THEN "refused" ELSE "ok")
               /\ UNCHANGED token
    /\ UNCHANGED <<families, browserVars, history>>

ConferirFamilia(c) ==
    /\ call[c].kind = "refresh" /\ call[c].at = "family"
    /\ IF call[c].f \in families THEN Go(c, "issue") ELSE End(c, "refused")
    /\ UNCHANGED <<token, families, browserVars, history>>

Login(c) ==
    /\ call[c].kind = "login" /\ call[c].at = "start"
    /\ \E verdict \in {"issue", "refused"} : Go(c, verdict)
    /\ UNCHANGED <<token, families, browserVars, history>>

MutantFamilia(c, new) == \* the family of an earlier session of the user goes on
    CASE call[c].kind # "login"          -> call[c].f
      [] families = {} /\ ended # {}     -> CHOOSE f \in ended : TRUE
      [] OTHER                           -> new

(* A login starts a family of its own. *)
Familia(c, new) == IF call[c].kind = "login" THEN new ELSE call[c].f

(* issueTokens, first SETEX. *)
GravarToken(c) ==
    /\ call[c].at = "issue"
    /\ \E t \in Tokens : token[t].state = "unused"
    /\ LET new == CHOOSE t \in Tokens : token[t].state = "unused"
           f == Familia(c, new)
       IN /\ token' = [token EXCEPT ![new] = [state |-> "live", family |-> f]]
          /\ call' = [call EXCEPT ![c].new = new, ![c].f = f, ![c].at = "stored"]
    /\ UNCHANGED <<families, browserVars, history>>

(* issueTokens, second SETEX: the family is written whether it is still    *)
(* there or not.                                                           *)
GravarFamilia(c) ==
    /\ call[c].at = "stored"
    /\ families' = families \cup {call[c].f}
    /\ End(c, "ok")
    /\ UNCHANGED <<token, browserVars, history>>

RevokeFamily(c) ==
    /\ call[c].at = "del"
    /\ families' = families \ {call[c].f}
    /\ ended' = ended \cup {call[c].f}
    /\ End(c, "ok")
    /\ UNCHANGED <<faults, token, disturbed, browserVars>>

Fault ==
    /\ faults < MaxFaults
    /\ faults' = faults + 1
    /\ disturbed' = TRUE

(* The limit of tries is used up, or something throws. *)
Falhar(c) ==
    /\ call[c].kind # "none" /\ call[c].at \notin {"ok", "refused"}
    /\ End(c, "refused")
    /\ Fault
    /\ UNCHANGED <<token, families, ended, browserVars>>

(* TTLs.  Each new token renews its family's, so that tokens go first. *)
Expirar(t) ==
    /\ \/ /\ token[t].state = "live"
          /\ token' = [token EXCEPT ![t].state = "gone"]
          /\ UNCHANGED families
       \/ /\ t \in families
          /\ \A u \in Tokens : token[u].family = t => token[u].state # "live"
          /\ families' = families \ {t}
          /\ UNCHANGED token
    /\ Fault
    /\ UNCHANGED <<call, ended, browserVars>>

-----------------------------------------------------------------------------
(* A tab.                                                                  *)

(* fetch: a POST of this tab with a refresh token is on its way. *)
Post(b, kind, t) ==
    /\ \E c \in Calls :
        /\ call[c] = NoCall
        /\ call' = [call EXCEPT ![c] = [NoCall EXCEPT !.kind = kind, !.t = t, !.tab = b]]

(* renovar, when no renewal is in flight.  Whatever comes back, another    *)
(* tab that presents the same token gets the other answer.                 *)
Renovar(b) ==
    /\ Post(b, "refresh", storage)
    /\ disturbed' = (disturbed \/ \E c \in Calls : /\ call[c].kind = "refresh"
                                                  /\ call[c].t = storage
                                                  /\ call[c].tab # b)

(* Every tab reads the same storage; App starts with the refresh token.    *)
RestaurarSessao(b) ==
    /\ page[b] = Opened
    /\ IF storage = NoToken
       THEN /\ page' = [page EXCEPT ![b].screen = "entrada"]
            /\ UNCHANGED <<call, disturbed>>
       ELSE /\ page' = [page EXCEPT ![b].flight = "flying"]
            /\ Renovar(b)
    /\ UNCHANGED <<faults, token, families, storage, requests, ended>>

UnderWay(b) == requests[b].sent + requests[b].repeated + requests[b].waiting

AllUnderWay == FoldFunction(+, 0, [b \in Tabs |-> UnderWay(b)])

(* api: a request goes out. *)
Enviar(b) ==
    /\ page[b].screen = "painel" /\ AllUnderWay < MaxRequests
    /\ requests' = [requests EXCEPT ![b].sent = @ + 1]
    /\ UNCHANGED <<serverVars, storage, page, history>>

(* api, any answer but 401, or a network error; and a 401 without a refresh*)
(* token, or after the renewal (jaRenovou): an error like any other, the   *)
(* screen stays.                                                           *)
Responder(b) ==
    /\ \/ /\ requests[b].sent > 0
          /\ requests' = [requests EXCEPT ![b].sent = @ - 1]
       \/ /\ requests[b].repeated > 0
          /\ requests' = [requests EXCEPT ![b].repeated = @ - 1]
    /\ UNCHANGED <<serverVars, storage, page, history>>

(* 'perdida': App clears the session and shows the login. *)
Perdida(b) ==
    /\ storage' = NoToken
    /\ page' = [page EXCEPT ![b].screen = "entrada"]

MutantRecusada(b) == \* each request starts its own renewal
    /\ requests[b].sent > 0 /\ storage # NoToken
    /\ requests' = [requests EXCEPT ![b].sent = @ - 1, ![b].waiting = @ + 1]
    /\ page' = [page EXCEPT ![b].flight = "flying"]
    /\ Renovar(b)
    /\ UNCHANGED <<faults, token, families, storage, ended>>

(* api, the 401 of a first try while there is a refresh token. *)
Recusada(b) ==
    LET flight == page[b].flight IN
    /\ requests[b].sent > 0 /\ storage # NoToken
    /\ \/ /\ flight \in {"none", "flying"}
          /\ requests' = [requests EXCEPT ![b].sent = @ - 1, ![b].waiting = @ + 1]
          /\ page' = [page EXCEPT ![b].flight = "flying"]
          /\ IF flight = "none" THEN Renovar(b) ELSE UNCHANGED <<call, disturbed>>
          /\ UNCHANGED storage
       \/ /\ flight = "renewed"
          /\ requests' = [requests EXCEPT ![b].sent = @ - 1, ![b].repeated = @ + 1]
          /\ UNCHANGED <<call, storage, page, disturbed>>
       \/ /\ flight = "failed"
          /\ requests' = [requests EXCEPT ![b].sent = @ - 1]
          /\ Perdida(b)
          /\ UNCHANGED <<call, disturbed>>
    /\ UNCHANGED <<faults, token, families, ended>>

(* The renewal is answered 200: definir, and those that wait repeat their  *)
(* request.                                                                *)
Renovada(b, new) ==
    /\ storage' = new
    /\ page' = [page EXCEPT ![b] = [screen |-> IF @.screen = "verificando" THEN "painel"
                                               ELSE @.screen,
                                    flight |-> "renewed"]]
    /\ requests' = [requests EXCEPT ![b].repeated = @ + requests[b].waiting, ![b].waiting = 0]

(* It is not, or fails: limpar, and those that wait report the loss. *)
NaoRenovada(b) ==
    /\ storage' = NoToken
    /\ page' = [page EXCEPT ![b] =
                    [screen |-> IF @.screen = "verificando" \/ requests[b].waiting > 0 THEN "entrada"
                                ELSE @.screen,
                     flight |-> "failed"]]
    /\ requests' = [requests EXCEPT ![b].waiting = 0]

(* The next tick: renovacaoEmVoo = null. *)
Soltar(b) ==
    /\ page[b].flight \in {"renewed", "failed"}
    /\ page' = [page EXCEPT ![b].flight = "none"]
    /\ UNCHANGED <<serverVars, storage, requests, history>>

(* The calls of a tab nobody listens to any more go on. *)
Orphaned(b) == [c \in Calls |-> IF call[c].tab = b THEN [call[c] EXCEPT !.tab = NoTab]
                                ELSE call[c]]

Reopen(b) ==
    /\ page' = [page EXCEPT ![b] = Opened]
    /\ requests' = [requests EXCEPT ![b] = Quiet]

(* The user reloads the page. *)
Recarregar(b) ==
    /\ page[b] # Opened /\ faults < MaxFaults
    /\ Reopen(b)
    /\ call' = Orphaned(b)
    /\ faults' = faults + 1
    /\ disturbed' = (disturbed \/ page[b].flight = "flying")
    /\ UNCHANGED <<token, families, storage, ended>>

(* Login: the button is disabled while a login is under way. *)
Entrar(b) ==
    /\ page[b].screen = "entrada"
    /\ \A c \in Calls : ~(call[c].kind = "login" /\ call[c].tab = b)
    /\ Post(b, "login", NoToken)
    /\ UNCHANGED <<token, families, browserVars, history>>

(* sair: the session is cleared before the API is told; then a reload. *)
Sair(b) ==
    /\ page[b].screen = "painel"
    /\ storage' = NoToken
    /\ IF storage = NoToken
       THEN /\ Reopen(b)
            /\ call' = Orphaned(b)
       ELSE /\ Post(b, "logout", storage)
            /\ UNCHANGED <<page, requests>>
    /\ disturbed' = (disturbed \/ page[b].flight # "none"
                               \/ \E x \in Tabs \ {b} : page[x].screen # "entrada")
    /\ UNCHANGED <<faults, token, families, ended>>

(* What a tab does with the answer to a call, or with its failure. *)
Receber(b, kind, ok, new) ==
    CASE kind = "refresh" -> IF ok THEN Renovada(b, new) ELSE NaoRenovada(b)
      [] kind = "login"   -> IF ok
                             THEN /\ storage' = new
                                  /\ page' = [page EXCEPT ![b].screen = "painel"]
                                  /\ UNCHANGED requests
                             ELSE UNCHANGED browserVars
      [] OTHER            -> Reopen(b) /\ UNCHANGED storage

Answer(c) ==
    LET b == call[c].tab IN
    /\ call[c].at \in {"ok", "refused"}
    /\ IF b = NoTab
       THEN /\ call' = [call EXCEPT ![c] = NoCall]
            /\ UNCHANGED <<browserVars, disturbed>>
       ELSE /\ Receber(b, call[c].kind, call[c].at = "ok", call[c].new)
            /\ call' = [IF call[c].kind = "logout" THEN Orphaned(b) ELSE call
                            EXCEPT ![c] = NoCall]
            /\ disturbed' = (disturbed \/ (/\ call[c].kind = "logout"
                                           /\ page[b].flight = "flying"))
    /\ UNCHANGED <<faults, token, families, ended>>

(* The connection breaks: before the API heard of the call, or after. *)
Perder(c) ==
    LET b == call[c].tab IN
    /\ b # NoTab
    /\ Receber(b, call[c].kind, FALSE, NoToken)
    /\ \/ call' = [IF call[c].kind = "logout" THEN Orphaned(b) ELSE call
                        EXCEPT ![c].tab = NoTab]
       \/ /\ call[c].at = "start"
          /\ call' = [IF call[c].kind = "logout" THEN Orphaned(b) ELSE call
                        EXCEPT ![c] = NoCall]
    /\ Fault
    /\ UNCHANGED <<token, families, ended>>

-----------------------------------------------------------------------------
Next ==
    \/ \E c \in Calls :
        \/ Consumir(c) \/ ConferirFamilia(c) \/ Login(c) \/ GravarToken(c)
        \/ GravarFamilia(c) \/ RevokeFamily(c) \/ Falhar(c) \/ Answer(c) \/ Perder(c)
    \/ \E t \in Tokens : Expirar(t)
    \/ \E b \in Tabs :
        \/ RestaurarSessao(b) \/ Enviar(b) \/ Responder(b) \/ Recusada(b)
        \/ Soltar(b) \/ Recarregar(b) \/ Entrar(b) \/ Sair(b)

Spec == Init /\ [][Next]_vars

-----------------------------------------------------------------------------
(* Properties.                                                             *)

TypeOK ==
    /\ token \in [Tokens -> [state : {"unused", "live", "gone"}, family : Tokens \cup {NoToken}]]
    /\ families \subseteq Tokens
    /\ call \in [Calls -> [kind : {"none", "login", "refresh", "logout"},
                           at : {"start", "family", "issue", "stored", "del", "ok", "refused"},
                           t : Tokens \cup {NoToken}, f : Tokens \cup {NoToken},
                           new : Tokens \cup {NoToken}, tab : Tabs \cup {NoTab}]]
    /\ storage \in Tokens \cup {NoToken}
    /\ page \in [Tabs -> [screen : {"verificando", "entrada", "painel"},
                          flight : {"none", "flying", "renewed", "failed"}]]
    /\ requests \in [Tabs -> [sent : Nat, repeated : Nat, waiting : Nat]]
    /\ faults \in 0..MaxFaults
    /\ disturbed \in BOOLEAN
    /\ ended \subseteq Tokens

(* Rotation: however many tabs, reloads and lost answers, a family has one *)
(* token that is good for a renewal, or one renewal about to write it.     *)
OneTokenPerFamily ==
    \A f \in Tokens :
        Cardinality({t \in Tokens : token[t].state = "live" /\ token[t].family = f})
      + Cardinality({c \in Calls : Renewing(c, f)}) <= 1

(* "A primeira renova, as demais aguardam": requests that find their token *)
(* expired together never cost the session.  A tab goes back to the login  *)
(* only after something that is not its own doing alone: an expiry, a      *)
(* refusal, a broken connection, a reload in the middle of a renewal, a    *)
(* logout, or another tab that presents the same token.                    *)
SessionLostForCause ==
    [][\A b \in Tabs :
        /\ page[b].screen = "painel" \/ page[b].flight = "flying"
        /\ page'[b].screen = "entrada"
        => disturbed']_vars

(* A family that a logout revoked stays so, whatever renewals and logins   *)
(* were or come under way.  (A logout that meets a renewal finds its token *)
(* used up, and revokes nothing.)                                          *)
LogoutHolds == ended \cap families = {}
=============================================================================
