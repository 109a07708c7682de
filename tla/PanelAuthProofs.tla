-------------------------- MODULE PanelAuthProofs --------------------------
(***************************************************************************)
(* What PanelAuth guarantees for any number of tabs, requests, calls,      *)
(* tokens and faults.                                                      *)
(*                                                                         *)
(* The argument.  A call that used up a token of a family holds the        *)
(* family, until it writes the next token or revokes the family; IInv says *)
(* that a family has one live token or one holder, not both (OneHolder),   *)
(* and that the token a call has just written is known to nobody else      *)
(* until it is answered (AnswersAreSecret).  So nobody can hold a family   *)
(* of which a call is about to write the second key: what a logout deletes *)
(* is not written again.                                                   *)
(*                                                                         *)
(* As long as nothing disturbed the browser, the token in its storage is   *)
(* live or one renewal is using it, no other call presents a token that a  *)
(* renewal does, and every renewal succeeds (Calm).                        *)
(***************************************************************************)
EXTENDS PanelAuth, FiniteSetTheorems, TLAPS

Call == [kind : {"none", "login", "refresh", "logout"},
         at : {"start", "family", "issue", "stored", "del", "ok", "refused"},
         t : Tokens \cup {NoToken}, f : Tokens \cup {NoToken},
         new : Tokens \cup {NoToken}, tab : Tabs \cup {NoTab}]

Record == [state : {"unused", "live", "gone"}, family : Tokens \cup {NoToken}]

Page == [screen : {"verificando", "entrada", "painel"},
         flight : {"none", "flying", "renewed", "failed"}]

Requests == [sent : Nat, repeated : Nat, waiting : Nat]

ServerTypeOK ==
    /\ token \in [Tokens -> Record]
    /\ families \subseteq Tokens
    /\ call \in [Calls -> Call]
    /\ storage \in Tokens \cup {NoToken}
    /\ ended \subseteq Tokens

BrowserTypeOK ==
    /\ page \in [Tabs -> Page]
    /\ requests \in [Tabs -> Requests]
    /\ disturbed \in BOOLEAN

(* What each kind of call carries where it stands. *)
CallOK(k) ==
    /\ k.kind = "none" => k = NoCall
    /\ k.kind \in {"refresh", "logout"} => k.t \in Tokens
    /\ k.at = "family" => k.kind = "refresh"
    /\ k.at = "del" => k.kind = "logout"
    /\ k.at \in {"issue", "stored"} => k.kind \in {"login", "refresh"}
    /\ k.at = "issue" /\ k.kind = "login" => k.f = NoToken
    /\ k.at = "issue" /\ k.kind = "refresh" => k.f \in Tokens
    /\ k.at \in {"family", "del"} => k.f \in Tokens
    /\ k.at \in {"start", "ok", "refused"} => k.f = NoToken
    /\ k.at \in {"start", "family", "issue", "del"} => k.new = NoToken
    /\ k.at = "stored" => k.f \in Tokens /\ k.new \in Tokens

CallsOK == \A c \in Calls : CallOK(call[c])

(* Whatever is named somewhere was issued; a live token has a family. *)
Issued(t) == t \in Tokens => token[t].state # "unused"

NamedIsIssued ==
    /\ Issued(storage)
    /\ \A c \in Calls : Issued(call[c].t) /\ Issued(call[c].f) /\ Issued(call[c].new)
    /\ \A t \in Tokens : Issued(token[t].family)
    /\ \A t \in ended : Issued(t)
    /\ \A t \in Tokens :
        /\ token[t].state = "unused" => token[t].family = NoToken
        /\ token[t].state = "live" => token[t].family \in Tokens

(* The call used up a token of its family and has not let go of it. *)
Holds(k) == (k.kind = "refresh" /\ k.at \in {"family", "issue"}) \/ k.at = "del"

Live(t) == token[t].state = "live"

OneHolder ==
    /\ \A t, u \in Tokens :
        Live(t) /\ Live(u) /\ token[t].family = token[u].family => t = u
    /\ \A c, d \in Calls :
        Holds(call[c]) /\ Holds(call[d]) /\ call[c].f = call[d].f => c = d
    /\ \A c \in Calls, t \in Tokens :
        Holds(call[c]) /\ Live(t) => token[t].family # call[c].f

(* Nobody else knows the token a call is to be answered with. *)
AnswersAreSecret ==
    \A c \in Calls : call[c].new \in Tokens =>
        /\ storage # call[c].new
        /\ \A d \in Calls : call[d].t # call[c].new
        /\ \A d \in Calls \ {c} : call[d].new # call[c].new

(* Until a call has written its second key, its new token is the family. *)
StoredIsAlone ==
    \A c \in Calls : call[c].at = "stored" =>
        /\ \A t \in Tokens : Live(t) /\ token[t].family = call[c].f => t = call[c].new
        /\ \A d \in Calls : Holds(call[d]) => call[d].f # call[c].f

EndedIsOver ==
    \A f \in ended :
        /\ f \notin families
        /\ \A t \in Tokens : Live(t) => token[t].family # f
        /\ \A c \in Calls : Holds(call[c]) \/ call[c].at = "stored" => call[c].f # f

ServerInv ==
    /\ ServerTypeOK
    /\ CallsOK
    /\ NamedIsIssued
    /\ OneHolder
    /\ AnswersAreSecret
    /\ StoredIsAlone
    /\ EndedIsOver

Refresh(c) == call[c].kind = "refresh"

(* A tab that renews has one call for it. *)
OneRenewal ==
    /\ \A c \in Calls : Refresh(c) =>
        call[c].tab \in Tabs /\ page[call[c].tab].flight = "flying"
    /\ \A c, d \in Calls :
        Refresh(c) /\ Refresh(d) /\ call[c].tab = call[d].tab => c = d

(* A live token's family is there, or about to be. *)
LiveHasFamily ==
    \A t \in Tokens : Live(t) =>
        \/ token[t].family \in families
        \/ \E c \in Calls : /\ call[c].at = "stored" /\ call[c].new = t
                            /\ call[c].f = token[t].family

RenewalsSucceed ==
    \A c \in Calls :
        /\ Refresh(c) =>
            /\ call[c].at = "start" => call[c].t \in Tokens /\ Live(call[c].t)
            /\ call[c].at = "family" => call[c].f \in families
            /\ call[c].at # "refused"
        /\ call[c].kind \in {"login", "refresh"} /\ call[c].at \in {"stored", "ok"} =>
            call[c].new \in Tokens /\ Live(call[c].new)

(* No other call presents the token of a renewal, and no logout the one in *)
(* storage.                                                                *)
NobodyInterferes ==
    /\ \A c, d \in Calls :
        Refresh(c) /\ call[d].kind \in {"refresh", "logout"} /\ call[d].t = call[c].t => c = d
    /\ \A d \in Calls : call[d].kind = "logout" => call[d].t # storage \/ storage = NoToken

StorageIsGood ==
    storage \in Tokens => Live(storage) \/ \E c \in Calls : Refresh(c) /\ call[c].t = storage

TabIsQuiet(b) ==
    /\ page[b].flight # "failed"
    /\ page[b].screen = "entrada" => page[b].flight = "none"
    /\ page[b].screen # "painel" => requests[b].sent = 0

ScreensAreQuiet == \A b \in Tabs : TabIsQuiet(b)

Orderly ==
    /\ OneRenewal
    /\ LiveHasFamily
    /\ RenewalsSucceed
    /\ NobodyInterferes
    /\ StorageIsGood

Calm == Orderly /\ ScreensAreQuiet

IInv ==
    /\ ServerInv
    /\ BrowserTypeOK
    /\ ~disturbed => Calm

-----------------------------------------------------------------------------
(* What the steps of a tab may do to the calls: drop some, stop listening  *)
(* to some, and post one with the token in storage or with none.           *)

Browsing ==
    /\ UNCHANGED <<token, families, ended>>
    /\ call' \in [Calls -> Call]
    /\ \A c \in Calls :
        /\ CallOK(call'[c])
        /\ \/ \A field \in {"kind", "at", "t", "f", "new"} : call'[c][field] = call[c][field]
           \/ /\ call'[c].at = "start" /\ call'[c].f = NoToken /\ call'[c].new = NoToken
              /\ call'[c].t \in {storage, NoToken}
    /\ \/ storage' \in {storage, NoToken}
       \/ \E c \in Calls : storage' = call[c].new /\ call'[c] = NoCall

LEMMA NamesApart == NoToken \notin Tokens /\ NoTab \notin Tabs
  BY PanelAuthAssumption

LEMMA BrowsingKeeps == ServerInv /\ Browsing => ServerInv'
<1> SUFFICES ASSUME ServerInv, Browsing PROVE ServerInv'
  OBVIOUS
<1> USE NamesApart DEF ServerInv, ServerTypeOK, Browsing
<1>0. ASSUME NEW c \in Calls
      PROVE  \/ /\ call'[c].kind = call[c].kind /\ call'[c].at = call[c].at
                /\ call'[c].t = call[c].t /\ call'[c].f = call[c].f
                /\ call'[c].new = call[c].new
             \/ /\ call'[c].at = "start" /\ call'[c].f = NoToken /\ call'[c].new = NoToken
                /\ call'[c].t \in {storage, NoToken}
  OBVIOUS
<1>1. ServerTypeOK'
  BY DEF Call
<1>2. CallsOK'
  BY DEF CallsOK
<1>3. NamedIsIssued'
  BY <1>0, <1>1 DEF NamedIsIssued, Issued
<1>4. OneHolder'
  BY <1>0 DEF OneHolder, Holds, Live
<1>5. AnswersAreSecret'
  BY <1>0 DEF AnswersAreSecret, NoCall, Call
<1>6. StoredIsAlone'
  BY <1>0 DEF StoredIsAlone, Holds, Live
<1>7. EndedIsOver'
  BY <1>0 DEF EndedIsOver, Holds, Live
<1> QED
  BY <1>1, <1>2, <1>3, <1>4, <1>5, <1>6, <1>7

LEMMA NoCallType == NoCall \in Call /\ CallOK(NoCall)
  BY NamesApart DEF NoCall, Call, CallOK

(* What a tab posts. *)
LEMMA PostBrowses ==
  ASSUME ServerInv, NEW b \in Tabs, NEW kind \in {"refresh", "login", "logout"},
         NEW t \in {storage, NoToken}, Post(b, kind, t), t \in Tokens \/ kind = "login",
         UNCHANGED <<token, families, ended>>, storage' \in {storage, NoToken}
  PROVE  Browsing
<1>1. PICK c \in Calls :
        /\ call[c] = NoCall
        /\ call' = [call EXCEPT ![c] = [NoCall EXCEPT !.kind = kind, !.t = t, !.tab = b]]
  BY DEF Post
<1>2. [NoCall EXCEPT !.kind = kind, !.t = t, !.tab = b] \in Call
  BY NamesApart DEF ServerInv, ServerTypeOK, Call, NoCall
<1>3. CallOK([NoCall EXCEPT !.kind = kind, !.t = t, !.tab = b])
  BY DEF CallOK, NoCall
<1>4. call' \in [Calls -> Call]
  BY <1>1, <1>2 DEF ServerInv, ServerTypeOK
<1>5. ASSUME NEW d \in Calls PROVE d # c => call'[d] = call[d]
  BY <1>1 DEF ServerInv, ServerTypeOK
<1>6. call'[c] = [NoCall EXCEPT !.kind = kind, !.t = t, !.tab = b]
  BY <1>1 DEF ServerInv, ServerTypeOK
<1>7. \A d \in Calls : CallOK(call'[d])
  BY <1>3, <1>5, <1>6 DEF ServerInv, CallsOK
<1>8. ASSUME NEW d \in Calls
      PROVE  \/ \A field \in {"kind", "at", "t", "f", "new"} : call'[d][field] = call[d][field]
             \/ /\ call'[d].at = "start" /\ call'[d].f = NoToken /\ call'[d].new = NoToken
                /\ call'[d].t \in {storage, NoToken}
  <2>1. CASE d # c
    BY <1>5, <2>1
  <2>2. CASE d = c
    BY <1>6, <2>2 DEF NoCall
  <2> QED
    BY <2>1, <2>2
<1> QED
  BY <1>4, <1>7, <1>8 DEF Browsing

(* What a tab that is opened again, or answered, leaves of the calls. *)
Dropping ==
    /\ UNCHANGED <<token, families, ended>>
    /\ call' \in [Calls -> Call]
    /\ \A c \in Calls : call'[c] \in {call[c], [call[c] EXCEPT !.tab = NoTab], NoCall}
    /\ \/ storage' \in {storage, NoToken}
       \/ \E c \in Calls : storage' = call[c].new /\ call'[c] = NoCall

LEMMA DroppingBrowses == ServerInv /\ Dropping => Browsing
<1> SUFFICES ASSUME ServerInv, Dropping PROVE Browsing
  OBVIOUS
<1>1. ASSUME NEW c \in Calls
      PROVE  /\ CallOK(call'[c])
             /\ \/ \A field \in {"kind", "at", "t", "f", "new"} : call'[c][field] = call[c][field]
                \/ /\ call'[c].at = "start" /\ call'[c].f = NoToken /\ call'[c].new = NoToken
                   /\ call'[c].t \in {storage, NoToken}
  <2>1. call[c] \in Call /\ CallOK(call[c])
    BY DEF ServerInv, ServerTypeOK, CallsOK
  <2>2. CASE call'[c] = call[c]
    BY <2>1, <2>2
  <2>3. CASE call'[c] = [call[c] EXCEPT !.tab = NoTab]
    <3>1. \A field \in {"kind", "at", "t", "f", "new"} : call'[c][field] = call[c][field]
      BY <2>1, <2>3 DEF Call
    <3>2. CASE call[c].kind = "none"
      BY <2>1, <2>3, <3>1, <3>2 DEF CallOK, NoCall
    <3>3. CASE call[c].kind # "none"
      BY <2>1, <3>1, <3>3 DEF CallOK
    <3> QED
      BY <3>1, <3>2, <3>3
  <2>4. CASE call'[c] = NoCall
    BY <2>4, NoCallType DEF NoCall
  <2> QED
    BY <2>2, <2>3, <2>4 DEF Dropping
<1> QED
  BY <1>1 DEF Browsing, Dropping

LEMMA OrphanedDrops ==
  ASSUME NEW b \in Tabs, call \in [Calls -> Call]
  PROVE  /\ Orphaned(b) \in [Calls -> Call]
         /\ \A c \in Calls : Orphaned(b)[c] \in {call[c], [call[c] EXCEPT !.tab = NoTab]}
  BY DEF Orphaned, Call

(* The answer to a call, or its loss, leaves in storage what was there, or *)
(* nothing, or the new token of the call.                                  *)
LEMMA ReceberStores ==
  ASSUME NEW b, NEW kind, NEW ok, NEW new, Receber(b, kind, ok, new)
  PROVE  storage' \in {storage, NoToken, new}
  BY DEF Receber, Renovada, NaoRenovada, Reopen, browserVars

LEMMA AnswerBrowses ==
  ASSUME ServerInv, NEW c \in Calls, Answer(c)
  PROVE  Browsing
<1> DEFINE b == call[c].tab
           kept == IF call[c].kind = "logout" THEN Orphaned(b) ELSE call
<1>0. call \in [Calls -> Call] /\ b \in Tabs \cup {NoTab}
  BY DEF ServerInv, ServerTypeOK, Call
<1>1. UNCHANGED <<token, families, ended>>
  BY DEF Answer
<1>2. CASE b = NoTab
  <2>1. call' = [call EXCEPT ![c] = NoCall] /\ storage' = storage
    BY <1>2 DEF Answer, browserVars
  <2> QED
    BY <1>0, <1>1, <2>1, NoCallType, DroppingBrowses DEF Dropping
<1>3. CASE b # NoTab
  <2>1. /\ Receber(b, call[c].kind, call[c].at = "ok", call[c].new)
        /\ call' = [kept EXCEPT ![c] = NoCall]
    BY <1>3 DEF Answer
  <2>2. /\ kept \in [Calls -> Call]
        /\ \A d \in Calls : kept[d] \in {call[d], [call[d] EXCEPT !.tab = NoTab]}
    BY <1>0, <1>3, OrphanedDrops
  <2> HIDE DEF kept
  <2>3. /\ call' \in [Calls -> Call] /\ call'[c] = NoCall
        /\ \A d \in Calls : call'[d] \in {call[d], [call[d] EXCEPT !.tab = NoTab], NoCall}
    BY <2>1, <2>2, NoCallType
  <2>4. storage' \in {storage, NoToken} \/ storage' = call[c].new
    BY <2>1, ReceberStores
  <2> QED
    BY <1>1, <2>3, <2>4, DroppingBrowses DEF Dropping
<1> QED
  BY <1>2, <1>3

LEMMA PerderBrowses ==
  ASSUME ServerInv, NEW c \in Calls, Perder(c)
  PROVE  Browsing
<1> DEFINE b == call[c].tab
           kept == IF call[c].kind = "logout" THEN Orphaned(b) ELSE call
<1>0. call \in [Calls -> Call] /\ b \in Tabs
  BY DEF ServerInv, ServerTypeOK, Call, Perder
<1>1. UNCHANGED <<token, families, ended>> /\ storage' \in {storage, NoToken}
  BY ReceberStores DEF Perder
<1>2. /\ kept \in [Calls -> Call]
      /\ \A d \in Calls : kept[d] \in {call[d], [call[d] EXCEPT !.tab = NoTab]}
  BY <1>0, OrphanedDrops
<1>3. \/ call' = [kept EXCEPT ![c].tab = NoTab]
      \/ call' = [kept EXCEPT ![c] = NoCall]
  BY DEF Perder
<1> HIDE DEF kept
<1>4. [kept[c] EXCEPT !.tab = NoTab] \in {[call[c] EXCEPT !.tab = NoTab]} \cap Call
  BY <1>0, <1>2 DEF Call
<1>5. /\ call' \in [Calls -> Call]
      /\ \A d \in Calls : call'[d] \in {call[d], [call[d] EXCEPT !.tab = NoTab], NoCall}
  <2>1. CASE call' = [kept EXCEPT ![c].tab = NoTab]
    <3>1. call' = [kept EXCEPT ![c] = [kept[c] EXCEPT !.tab = NoTab]]
      BY <1>2, <2>1
    <3> QED
      BY <1>2, <1>4, <3>1
  <2>2. CASE call' = [kept EXCEPT ![c] = NoCall]
    BY <1>2, <2>2, NoCallType
  <2> QED
    BY <1>3, <2>1, <2>2
<1> QED
  BY <1>1, <1>5, DroppingBrowses DEF Dropping

LEMMA TabsBrowse ==
  ASSUME ServerInv, NEW b \in Tabs,
         \/ RestaurarSessao(b) \/ Enviar(b) \/ Responder(b) \/ Recusada(b)
         \/ Soltar(b) \/ Recarregar(b) \/ Entrar(b) \/ Sair(b)
  PROVE  Browsing
<1>0. call \in [Calls -> Call] /\ storage \in Tokens \cup {NoToken}
  BY DEF ServerInv, ServerTypeOK
<1>1. CASE /\ UNCHANGED <<token, families, ended, call>>
           /\ storage' \in {storage, NoToken}
  BY <1>0, <1>1, DroppingBrowses DEF Dropping
<1>2. CASE RestaurarSessao(b)
  <2>1. CASE storage = NoToken
    BY <1>1, <1>2, <2>1 DEF RestaurarSessao
  <2>2. CASE storage # NoToken
    <3>1. /\ Post(b, "refresh", storage) /\ storage \in Tokens
          /\ UNCHANGED <<token, families, ended, storage>>
      BY <1>0, <1>2, <2>2 DEF RestaurarSessao, Renovar
    <3> QED
      BY <3>1, PostBrowses
  <2> QED
    BY <2>1, <2>2
<1>3. CASE Enviar(b) \/ Responder(b) \/ Soltar(b)
  BY <1>1, <1>3 DEF Enviar, Responder, Soltar, serverVars, history
<1>4. CASE Recusada(b)
  <2>1. \/ Post(b, "refresh", storage)
        \/ UNCHANGED call
    BY <1>4 DEF Recusada, Renovar
  <2>2. /\ UNCHANGED <<token, families, ended>> /\ storage' \in {storage, NoToken}
        /\ storage \in Tokens
    BY <1>0, <1>4 DEF Recusada, Perdida
  <2>3. CASE Post(b, "refresh", storage)
    BY <2>2, <2>3, PostBrowses
  <2> QED
    BY <1>1, <2>1, <2>2, <2>3
<1>5. CASE Recarregar(b)
  <2>1. call' = Orphaned(b) /\ UNCHANGED <<token, families, storage, ended>>
    BY <1>5 DEF Recarregar
  <2> QED
    BY <1>0, <2>1, OrphanedDrops, DroppingBrowses DEF Dropping
<1>6. CASE Entrar(b)
  <2>1. Post(b, "login", NoToken) /\ UNCHANGED <<token, families, storage, ended>>
    BY <1>6 DEF Entrar, browserVars, history
  <2> QED
    BY <2>1, PostBrowses
<1>7. CASE Sair(b)
  <2>1. UNCHANGED <<token, families, ended>> /\ storage' = NoToken
    BY <1>7 DEF Sair
  <2>2. call' = Orphaned(b) \/ (storage \in Tokens /\ Post(b, "logout", storage))
    BY <1>0, <1>7 DEF Sair
  <2>3. CASE call' = Orphaned(b)
    BY <1>0, <2>1, <2>3, OrphanedDrops, DroppingBrowses DEF Dropping
  <2>4. CASE storage \in Tokens /\ Post(b, "logout", storage)
    BY <2>1, <2>4, PostBrowses
  <2> QED
    BY <2>2, <2>3, <2>4
<1> QED
  BY <1>2, <1>3, <1>4, <1>5, <1>6, <1>7

LEMMA ServerInit == Init => ServerInv
<1> SUFFICES ASSUME Init PROVE ServerInv
  OBVIOUS
<1>1. \A c \in Calls : call[c] = NoCall
  BY DEF Init
<1>2. \A t \in Tokens : token[t] = [state |-> "unused", family |-> NoToken]
  BY DEF Init
<1>3. ServerTypeOK
  BY NoCallType DEF Init, ServerTypeOK, Record
<1>4. CallsOK
  BY <1>1, NoCallType DEF CallsOK
<1>5. NamedIsIssued
  BY <1>1, <1>2, NamesApart DEF NamedIsIssued, Issued, Init, NoCall
<1>6. OneHolder
  BY <1>1, <1>2 DEF OneHolder, Holds, Live, NoCall
<1>7. AnswersAreSecret
  BY <1>1, NamesApart DEF AnswersAreSecret, NoCall
<1>8. StoredIsAlone
  BY <1>1 DEF StoredIsAlone, NoCall
<1>9. EndedIsOver
  BY DEF EndedIsOver, Init
<1> QED
  BY <1>3, <1>4, <1>5, <1>6, <1>7, <1>8, <1>9 DEF ServerInv

-----------------------------------------------------------------------------
(* The steps of the API.                                                   *)

(* A step of one call that names nothing new and takes hold of nothing.  A *)
(* family that is written is the call's own; one that is ended was held.   *)
LEMMA CallStep ==
  ASSUME ServerInv, NEW c \in Calls, NEW k \in Call, CallOK(k),
         call' = [call EXCEPT ![c] = k],
         UNCHANGED <<token, storage>>,
         k.t = call[c].t, k.new = call[c].new, k.f \in {call[c].f, NoToken},
         Holds(k) => Holds(call[c]) /\ k.f = call[c].f,
         k.at = "stored" => call[c].at = "stored" /\ k.f = call[c].f,
         \A f \in families' : \/ f \in families /\ (f \in ended' => f \in ended)
                              \/ call[c].at = "stored" /\ f = call[c].f /\ ended' = ended,
         \A f \in ended' : \/ f \in ended
                           \/ call[c].at = "del" /\ ~Holds(k) /\ f = call[c].f
  PROVE  ServerInv'
<1> USE NamesApart DEF ServerInv, ServerTypeOK
<1>0. /\ call'[c] = k
      /\ \A d \in Calls \ {c} : call'[d] = call[d]
      /\ call[c].at \in {"stored", "del"} => call[c].f \in Tokens
  BY DEF CallsOK, CallOK
<1>1. ServerTypeOK'
  <2>1. families' \subseteq Tokens /\ ended' \subseteq Tokens
    BY <1>0
  <2> QED
    BY <2>1
<1>2. CallsOK'
  BY <1>0 DEF CallsOK
<1>3. NamedIsIssued'
  BY <1>0 DEF NamedIsIssued, Issued
<1>4. \A d \in Calls : Holds(call'[d]) => Holds(call[d]) /\ call'[d].f = call[d].f
  BY <1>0
<1>5. \A d \in Calls : call'[d].at = "stored" => /\ call[d].at = "stored"
                                                 /\ call'[d].f = call[d].f
                                                 /\ call'[d].new = call[d].new
  BY <1>0
<1>6. OneHolder'
  BY <1>4 DEF OneHolder, Live
<1>7. AnswersAreSecret'
  BY <1>0 DEF AnswersAreSecret
<1>8. StoredIsAlone'
  BY <1>4, <1>5 DEF StoredIsAlone, Live
<1>9. EndedIsOver'
  <2> SUFFICES ASSUME NEW f \in ended'
               PROVE  /\ f \notin families'
                      /\ \A t \in Tokens : Live(t) => token[t].family # f
                      /\ \A d \in Calls : Holds(call'[d]) \/ call'[d].at = "stored"
                                            => call'[d].f # f
    BY DEF EndedIsOver, Live
  <2>1. CASE f \in ended
    <3>1. f \notin families'
      BY <2>1 DEF EndedIsOver
    <3> QED
      BY <1>4, <1>5, <2>1, <3>1 DEF EndedIsOver
  <2>2. CASE f \notin ended
    <3>1. call[c].at = "del" /\ ~Holds(k) /\ f = call[c].f /\ Holds(call[c])
      BY <2>2 DEF Holds
    <3>2. f \notin families'
      BY <2>2, <3>1
    <3>3. \A d \in Calls : Holds(call'[d]) => call'[d].f # f
      BY <1>0, <1>4, <3>1 DEF OneHolder
    <3>4. \A d \in Calls : call'[d].at = "stored" => call'[d].f # f
      BY <1>5, <3>1 DEF StoredIsAlone
    <3> QED
      BY <3>1, <3>2, <3>3, <3>4 DEF OneHolder
  <2> QED
    BY <2>1, <2>2
<1> QED
  BY <1>1, <1>2, <1>3, <1>6, <1>7, <1>8, <1>9

LEMMA ConsumirKeeps ==
  ASSUME ServerInv, NEW c \in Calls, Consumir(c)
  PROVE  ServerInv'
<1> DEFINE t == call[c].t
           k == call[c]
           refresh == k.kind = "refresh"
<1>0. /\ k \in Call /\ CallOK(k) /\ k.kind \in {"refresh", "logout"} /\ k.at = "start"
      /\ call \in [Calls -> Call]
      /\ UNCHANGED <<families, storage, ended>>
  BY DEF ServerInv, ServerTypeOK, CallsOK, Consumir, browserVars, history
<1>1. CASE ~(token[t].state = "live")
  <2> DEFINE m == [k EXCEPT !.at = IF refresh THEN "refused" ELSE "ok"]
  <2>1. call' = [call EXCEPT ![c] = m] /\ UNCHANGED token
    BY <1>0, <1>1 DEF Consumir, Go
  <2>2. m \in Call /\ m.t = k.t /\ m.new = k.new /\ m.f = k.f /\ m.kind = k.kind
        /\ m.at \in {"refused", "ok"}
    BY <1>0 DEF Call
  <2>3. CallOK(m) /\ ~Holds(m)
    BY <1>0, <2>2 DEF CallOK, Holds
  <2> HIDE DEF m
  <2> QED
    BY <1>0, <2>1, <2>2, <2>3, CallStep
<1>2. CASE token[t].state = "live"
  <2> USE NamesApart DEF ServerInv, ServerTypeOK
  <2> DEFINE m == [k EXCEPT !.f = token[t].family,
                            !.at = IF refresh THEN "family" ELSE "del"]
  <2>1. /\ token' = [token EXCEPT ![t].state = "gone"]
        /\ call' = [call EXCEPT ![c] = m]
    BY <1>0, <1>2 DEF Consumir
  <2>2. t \in Tokens
    BY <1>0 DEF CallOK
  <2>3. /\ m \in Call /\ m.t = k.t /\ m.new = k.new /\ m.kind = k.kind
        /\ m.f = token[t].family
        /\ m.at = IF refresh THEN "family" ELSE "del"
    BY <1>0, <2>2 DEF Call, Record
  <2>4. token[t].family \in Tokens /\ token[t].family # NoToken
    BY <1>2, <2>2 DEF NamedIsIssued
  <2>5. CallOK(m) /\ Holds(m)
    BY <1>0, <2>3, <2>4 DEF CallOK, Holds
  <2>6. /\ call'[c] = m /\ \A d \in Calls \ {c} : call'[d] = call[d]
    BY <1>0, <2>1, <2>3
  <2> HIDE DEF m, t
  <2>7. /\ token'[t].state = "gone" /\ token'[t].family = token[t].family
        /\ \A u \in Tokens \ {t} : token'[u] = token[u]
    BY <2>1, <2>2 DEF Record
  <2>8. ServerTypeOK'
    BY <1>0, <2>1, <2>2, <2>3 DEF Record
  <2>9. CallsOK'
    BY <2>5, <2>6 DEF CallsOK
  <2>10. NamedIsIssued'
    BY <1>0, <2>2, <2>3, <2>4, <2>6, <2>7 DEF NamedIsIssued, Issued
  <2>11. \A u \in Tokens : Live(u)' => u # t /\ Live(u) /\ token'[u] = token[u]
    BY <2>7 DEF Live
  <2>12. Live(t)
    BY <1>2 DEF Live, t
  <2>13. OneHolder'
    BY <2>2, <2>3, <2>6, <2>11, <2>12 DEF OneHolder
  <2>14. AnswersAreSecret'
    BY <1>0, <2>3, <2>6 DEF AnswersAreSecret
  <2>15. StoredIsAlone'
    <3>1. \A d \in Calls : call'[d].at = "stored" => d # c
      BY <2>3, <2>6 DEF Holds
    <3>2. \A d \in Calls : call[d].at = "stored" => call[d].f # token[t].family
      <4> SUFFICES ASSUME NEW d \in Calls, call[d].at = "stored", call[d].f = token[t].family
                   PROVE FALSE
        OBVIOUS
      <4>1. t = call[d].new
        BY <2>2, <2>12 DEF StoredIsAlone
      <4> QED
        BY <2>2, <4>1 DEF AnswersAreSecret, t
    <3> QED
      BY <2>3, <2>6, <2>11, <3>1, <3>2 DEF StoredIsAlone
  <2>16. EndedIsOver'
    BY <1>0, <2>2, <2>3, <2>5, <2>6, <2>11, <2>12 DEF EndedIsOver
  <2> QED
    BY <2>8, <2>9, <2>10, <2>13, <2>14, <2>15, <2>16
<1> QED
  BY <1>1, <1>2

LEMMA GravarTokenKeeps ==
  ASSUME ServerInv, NEW c \in Calls, GravarToken(c)
  PROVE  ServerInv'
<1> DEFINE new == CHOOSE t \in Tokens : token[t].state = "unused"
           f == Familia(c, new)
           k == call[c]
           m == [k EXCEPT !.new = new, !.f = f, !.at = "stored"]
<1> USE NamesApart DEF ServerInv, ServerTypeOK
<1>1. /\ token' = [token EXCEPT ![new] = [state |-> "live", family |-> f]]
      /\ call' = [call EXCEPT ![c] = m]
      /\ k.at = "issue" /\ k \in Call /\ CallOK(k)
      /\ UNCHANGED <<families, storage, ended>>
  BY DEF GravarToken, browserVars, history, CallsOK
<1>2. new \in Tokens /\ token[new].state = "unused"
  BY DEF GravarToken
<1>3. k.kind \in {"login", "refresh"}
  BY <1>1 DEF CallOK
<1>4. /\ f = IF k.kind = "login" THEN new ELSE k.f
      /\ f \in Tokens /\ f # NoToken
  BY <1>1, <1>2, <1>3 DEF Familia, CallOK
<1> HIDE DEF new, f
<1>5. /\ m \in Call /\ m.kind = k.kind /\ m.at = "stored" /\ m.new = new /\ m.f = f
      /\ m.t = k.t /\ m.tab = k.tab
  BY <1>1, <1>2, <1>4 DEF Call
<1>6. CallOK(m) /\ ~Holds(m)
  BY <1>1, <1>2, <1>3, <1>4, <1>5 DEF CallOK, Holds
<1> HIDE DEF m
<1>7. /\ call'[c] = m
      /\ \A d \in Calls \ {c} : call'[d] = call[d]
  BY <1>1
<1>8. /\ token'[new].state = "live" /\ token'[new].family = f
      /\ \A u \in Tokens \ {new} : token'[u] = token[u]
  BY <1>1, <1>2
<1>9. ServerTypeOK'
  BY <1>1, <1>2, <1>4, <1>5 DEF Record
<1>10. CallsOK'
  BY <1>6, <1>7 DEF CallsOK
(* Nothing knew the new token, and the call had its family to itself. *)
<1>11. /\ storage # new /\ new \notin ended
       /\ \A d \in Calls : call[d].t # new /\ call[d].f # new /\ call[d].new # new
       /\ \A u \in Tokens : token[u].family # new
  BY <1>2 DEF NamedIsIssued, Issued
<1>12. /\ \A u \in Tokens : Live(u) => token[u].family # f
       /\ \A d \in Calls \ {c} : Holds(call[d]) \/ call[d].at = "stored" => call[d].f # f
       /\ f \notin ended
  <2>1. CASE k.kind = "login"
    BY <1>4, <1>11, <2>1
  <2>2. CASE k.kind = "refresh"
    <3>1. Holds(call[c]) /\ f = call[c].f
      BY <1>1, <1>4, <2>2 DEF Holds
    <3> QED
      BY <3>1 DEF OneHolder, StoredIsAlone, EndedIsOver
  <2> QED
    BY <1>3, <2>1, <2>2
<1>13. NamedIsIssued'
  BY <1>1, <1>2, <1>4, <1>5, <1>7, <1>8 DEF NamedIsIssued, Issued
<1>14. \A u \in Tokens : Live(u)' => \/ u = new /\ token'[u].family = f
                                     \/ Live(u) /\ token'[u].family = token[u].family
  BY <1>8 DEF Live
<1>15. \A d \in Calls : Holds(call'[d]) => d # c /\ call'[d] = call[d]
  BY <1>6, <1>7
<1>16. OneHolder'
  BY <1>12, <1>14, <1>15 DEF OneHolder
<1>17. AnswersAreSecret'
  BY <1>1, <1>5, <1>7, <1>11 DEF AnswersAreSecret
<1>18. StoredIsAlone'
  BY <1>5, <1>7, <1>12, <1>14, <1>15 DEF StoredIsAlone
<1>19. EndedIsOver'
  BY <1>1, <1>5, <1>7, <1>12, <1>14, <1>15 DEF EndedIsOver
<1> QED
  BY <1>9, <1>10, <1>13, <1>16, <1>17, <1>18, <1>19

LEMMA ExpirarKeeps ==
  ASSUME ServerInv, NEW t \in Tokens, Expirar(t)
  PROVE  ServerInv'
<1> USE NamesApart DEF ServerInv, ServerTypeOK
<1>1. /\ token' \in [Tokens -> Record]
      /\ \A u \in Tokens : /\ token'[u].family = token[u].family
                           /\ Live(u)' => Live(u)
                           /\ \/ token'[u].state = token[u].state
                              \/ token[u].state = "live" /\ token'[u].state = "gone"
  <2>1. CASE token[t].state = "live" /\ token' = [token EXCEPT ![t].state = "gone"]
    <3>1. token' = [token EXCEPT ![t] = [token[t] EXCEPT !.state = "gone"]]
      BY <2>1
    <3>2. /\ token[t] \in Record
          /\ token'[t].state = "gone" /\ token'[t].family = token[t].family
          /\ token'[t] \in Record
          /\ \A u \in Tokens \ {t} : token'[u] = token[u]
      BY <3>1 DEF Record
    <3> QED
      BY <2>1, <3>1, <3>2 DEF Live
  <2>2. CASE token' = token
    BY <2>2 DEF Live
  <2> QED
    BY <2>1, <2>2 DEF Expirar
<1>2. families' \subseteq families /\ UNCHANGED <<call, storage, ended>>
  BY DEF Expirar, browserVars
<1>3. ServerTypeOK'
  BY <1>1, <1>2
<1>4. CallsOK'
  BY <1>2 DEF CallsOK
<1>5. NamedIsIssued'
  BY <1>1, <1>2 DEF NamedIsIssued, Issued
<1>6. OneHolder'
  BY <1>1, <1>2 DEF OneHolder
<1>7. AnswersAreSecret'
  BY <1>2 DEF AnswersAreSecret
<1>8. StoredIsAlone'
  BY <1>1, <1>2 DEF StoredIsAlone
<1>9. EndedIsOver'
  BY <1>1, <1>2 DEF EndedIsOver
<1> QED
  BY <1>3, <1>4, <1>5, <1>6, <1>7, <1>8, <1>9

LEMMA CallsKeep ==
  ASSUME ServerInv, NEW c \in Calls,
         \/ ConferirFamilia(c) \/ Login(c) \/ GravarFamilia(c) \/ RevokeFamily(c) \/ Falhar(c)
  PROVE  ServerInv'
<1> DEFINE k == call[c]
<1>0. k \in Call /\ CallOK(k) /\ call \in [Calls -> Call]
  BY DEF ServerInv, ServerTypeOK, CallsOK
<1>1. ASSUME End(c, "ok") \/ End(c, "refused"),
             token' = token, storage' = storage,
             \A f \in families' : \/ f \in families /\ (f \in ended' => f \in ended)
                                  \/ call[c].at = "stored" /\ f = call[c].f /\ ended' = ended,
             \A f \in ended' : \/ f \in ended
                               \/ call[c].at = "del" /\ f = call[c].f,
             call[c].kind # "none"
      PROVE  ServerInv'
  <2>1. PICK at \in {"ok", "refused"} : call' = [call EXCEPT ![c].at = at, ![c].f = NoToken]
    BY <1>1 DEF End
  <2> DEFINE m == [k EXCEPT !.at = at, !.f = NoToken]
  <2>2. call' = [call EXCEPT ![c] = m]
    BY <1>0, <2>1
  <2>3. /\ m \in Call /\ m.kind = k.kind /\ m.at = at /\ m.t = k.t /\ m.f = NoToken
        /\ m.new = k.new
    BY <1>0 DEF Call
  <2>4. CallOK(m) /\ ~Holds(m) /\ m.at # "stored"
    BY <1>0, <1>1, <2>3 DEF CallOK, Holds
  <2> HIDE DEF m
  <2> QED
    BY <1>1, <2>2, <2>3, <2>4, CallStep
<1>2. CASE ConferirFamilia(c)
  <2>1. k.kind = "refresh" /\ k.at = "family" /\ UNCHANGED <<token, families, storage, ended>>
    BY <1>2 DEF ConferirFamilia, browserVars, history
  <2>2. CASE k.f \in families
    <3> DEFINE m == [k EXCEPT !.at = "issue"]
    <3>1. call' = [call EXCEPT ![c] = m]
      BY <1>0, <1>2, <2>2 DEF ConferirFamilia, Go
    <3>2. /\ m \in Call /\ m.kind = k.kind /\ m.at = "issue" /\ m.t = k.t /\ m.f = k.f
          /\ m.new = k.new
      BY <1>0 DEF Call
    <3>3. CallOK(m) /\ Holds(k) /\ Holds(m)
      BY <1>0, <2>1, <3>2 DEF CallOK, Holds
    <3> HIDE DEF m
    <3> QED
      BY <2>1, <3>1, <3>2, <3>3, CallStep
  <2>3. CASE k.f \notin families
    <3>1. End(c, "refused")
      BY <1>2, <2>3 DEF ConferirFamilia
    <3> QED
      BY <1>1, <2>1, <3>1
  <2> QED
    BY <2>2, <2>3
<1>3. CASE Login(c)
  <2>1. PICK verdict \in {"issue", "refused"} : Go(c, verdict)
    BY <1>3 DEF Login
  <2>2. k.kind = "login" /\ k.at = "start" /\ UNCHANGED <<token, families, storage, ended>>
    BY <1>3 DEF Login, browserVars, history
  <2> DEFINE m == [k EXCEPT !.at = verdict]
  <2>3. call' = [call EXCEPT ![c] = m]
    BY <1>0, <2>1 DEF Go
  <2>4. /\ m \in Call /\ m.kind = k.kind /\ m.at = verdict /\ m.t = k.t /\ m.f = k.f
        /\ m.new = k.new
    BY <1>0 DEF Call
  <2>5. CallOK(m) /\ ~Holds(m) /\ m.at # "stored"
    BY <1>0, <2>2, <2>4 DEF CallOK, Holds
  <2> HIDE DEF m
  <2> QED
    BY <2>2, <2>3, <2>4, <2>5, CallStep
<1>4. CASE GravarFamilia(c)
  <2>1. /\ k.at = "stored" /\ families' = families \cup {k.f}
        /\ End(c, "ok")
        /\ UNCHANGED <<token, storage, ended>>
    BY <1>4 DEF GravarFamilia, browserVars, history
  <2>2. k.kind # "none"
    BY <1>0, <2>1 DEF CallOK
  <2> QED
    BY <1>1, <2>1, <2>2
<1>5. CASE RevokeFamily(c)
  <2>1. /\ k.at = "del" /\ families' = families \ {k.f} /\ ended' = ended \cup {k.f}
        /\ End(c, "ok") /\ UNCHANGED <<token, storage>>
    BY <1>5 DEF RevokeFamily, browserVars
  <2>2. k.kind # "none"
    BY <1>0, <2>1 DEF CallOK
  <2> QED
    BY <1>1, <2>1, <2>2
<1>6. CASE Falhar(c)
  <2>1. /\ k.kind # "none"
        /\ End(c, "refused")
        /\ UNCHANGED <<token, families, storage, ended>>
    BY <1>6 DEF Falhar, browserVars
  <2> QED
    BY <1>1, <2>1
<1> QED
  BY <1>2, <1>3, <1>4, <1>5, <1>6

LEMMA ServerStep == ServerInv /\ [Next]_vars => ServerInv'
<1> SUFFICES ASSUME ServerInv, [Next]_vars PROVE ServerInv'
  OBVIOUS
<1>1. CASE UNCHANGED vars
  <2>1. call' = call /\ storage' = storage /\ UNCHANGED <<token, families, ended>>
    BY <1>1 DEF vars, serverVars, browserVars, history
  <2> QED
    BY <2>1, DroppingBrowses, BrowsingKeeps DEF Dropping, ServerInv, ServerTypeOK
<1>2. ASSUME NEW c \in Calls,
             \/ Consumir(c) \/ ConferirFamilia(c) \/ Login(c) \/ GravarToken(c)
             \/ GravarFamilia(c) \/ RevokeFamily(c) \/ Falhar(c) \/ Answer(c) \/ Perder(c)
      PROVE  ServerInv'
  BY <1>2, ConsumirKeeps, CallsKeep, GravarTokenKeeps, AnswerBrowses, PerderBrowses, BrowsingKeeps
<1>3. ASSUME NEW t \in Tokens, Expirar(t)
      PROVE  ServerInv'
  BY <1>3, ExpirarKeeps
<1>4. ASSUME NEW b \in Tabs,
             \/ RestaurarSessao(b) \/ Enviar(b) \/ Responder(b) \/ Recusada(b)
             \/ Soltar(b) \/ Recarregar(b) \/ Entrar(b) \/ Sair(b)
      PROVE  ServerInv'
  BY <1>4, TabsBrowse, BrowsingKeeps
<1> QED
  BY <1>1, <1>2, <1>3, <1>4 DEF Next

(* Whatever a call names was issued, a family has one token or one holder, *)
(* a new token is known to its call alone, and what was ended stays so.    *)
THEOREM ServerInvariant == Spec => []ServerInv
<1>1. Init => ServerInv
  BY ServerInit
<1>2. ServerInv /\ [Next]_vars => ServerInv'
  BY ServerStep
<1> QED
  BY <1>1, <1>2, PTL DEF Spec

(* Refresh-token rotation (admin-auth.service.ts refresh): a family never  *)
(* has two tokens that can be used, nor one beside a renewal about to      *)
(* write the next.                                                         *)
THEOREM OneToken == Spec => []OneTokenPerFamily
<1>1. ServerInv => OneTokenPerFamily
  <2> SUFFICES ASSUME ServerInv, NEW f \in Tokens
               PROVE  Cardinality({t \in Tokens : token[t].state = "live" /\ token[t].family = f})
                    + Cardinality({c \in Calls : Renewing(c, f)}) <= 1
    BY DEF OneTokenPerFamily
  <2> DEFINE L == {t \in Tokens : token[t].state = "live" /\ token[t].family = f}
             R == {c \in Calls : Renewing(c, f)}
  <2>1. \A t, u \in L : t = u
    BY DEF ServerInv, OneHolder, Live
  <2>2. \A c \in R : Holds(call[c]) /\ call[c].f = f
    BY DEF Renewing, Holds
  <2>3. /\ \A c, d \in R : c = d
        /\ \A c \in R : \A t \in L : FALSE
    BY <2>2 DEF ServerInv, OneHolder, Live
  <2> HIDE DEF L, R
  <2>4. L = {} \/ R = {}
    BY <2>3
  <2>5. L = {} \/ \E t : L = {t}
    BY <2>1
  <2>6. R = {} \/ \E c : R = {c}
    BY <2>3
  <2>7. Cardinality({}) = 0 /\ \A e : Cardinality({e}) = 1
    BY FS_EmptySet, FS_Singleton
  <2>8. Cardinality(L) + Cardinality(R) <= 1
    BY <2>4, <2>5, <2>6, <2>7
  <2> QED
    BY <2>8 DEF L, R
<1> QED
  BY <1>1, ServerInvariant, PTL

(* What a logout revoked (admin-auth.service.ts logout) is not written     *)
(* back by a renewal or login of any tab, at any distance.                 *)
THEOREM LogoutStays == Spec => []LogoutHolds
<1>1. ServerInv => LogoutHolds
  BY DEF ServerInv, EndedIsOver, LogoutHolds
<1> QED
  BY <1>1, ServerInvariant, PTL

-----------------------------------------------------------------------------
(* The tabs.                                                               *)

(* A step of one tab leaves the others as they are. *)
Beside(b) ==
    /\ page' \in [Tabs -> Page] /\ requests' \in [Tabs -> Requests]
    /\ \A x \in Tabs \ {b} : page'[x] = page[x] /\ requests'[x] = requests[x]

LEMMA Unchanged ==
  ASSUME BrowserTypeOK, NEW b \in Tabs, page' = page, requests' = requests
  PROVE  Beside(b)
  BY DEF BrowserTypeOK, Beside

LEMMA RenovadaBeside ==
  ASSUME BrowserTypeOK, NEW b \in Tabs, NEW new, Renovada(b, new)
  PROVE  /\ Beside(b)
         /\ page'[b].flight = "renewed"
         /\ page'[b].screen = IF page[b].screen = "verificando" THEN "painel" ELSE page[b].screen
         /\ requests'[b].sent = requests[b].sent
<1> DEFINE r == requests[b]
           p == [screen |-> IF page[b].screen = "verificando" THEN "painel" ELSE page[b].screen,
                 flight |-> "renewed"]
           q == [r EXCEPT !.repeated = r.repeated + r.waiting, !.waiting = 0]
<1>0. /\ r \in Requests /\ page[b] \in Page
      /\ r.repeated + r.waiting \in Nat
  BY DEF BrowserTypeOK, Requests
<1>1. p \in Page /\ q \in Requests /\ q.sent = r.sent
  BY <1>0 DEF Page, Requests
<1>2. page' = [page EXCEPT ![b] = p]
  BY DEF Renovada, BrowserTypeOK
<1>3. requests' = [requests EXCEPT ![b] = q]
  BY DEF Renovada, BrowserTypeOK
<1> HIDE DEF p, q
<1>4. /\ p.flight = "renewed"
      /\ p.screen = IF page[b].screen = "verificando" THEN "painel" ELSE page[b].screen
  BY DEF p
<1> QED
  BY <1>1, <1>2, <1>3, <1>4 DEF Beside, BrowserTypeOK

LEMMA NaoRenovadaBeside ==
  ASSUME BrowserTypeOK, NEW b \in Tabs, NaoRenovada(b)
  PROVE  Beside(b)
<1> USE DEF BrowserTypeOK, Page, Requests
<1> DEFINE p == [screen |-> IF page[b].screen = "verificando" \/ requests[b].waiting > 0
                            THEN "entrada" ELSE page[b].screen,
                 flight |-> "failed"]
           q == [requests[b] EXCEPT !.waiting = 0]
<1>1. p \in Page /\ q \in Requests
  OBVIOUS
<1>2. page' = [page EXCEPT ![b] = p]
  BY DEF NaoRenovada
<1>3. requests' = [requests EXCEPT ![b] = q]
  BY DEF NaoRenovada
<1> HIDE DEF p, q
<1> QED
  BY <1>1, <1>2, <1>3 DEF Beside

LEMMA ReopenBeside ==
  ASSUME BrowserTypeOK, NEW b \in Tabs, Reopen(b)
  PROVE  Beside(b) /\ page'[b] = Opened /\ requests'[b] = Quiet
<1>1. Opened \in Page /\ Quiet \in Requests
  BY DEF Opened, Quiet, Page, Requests
<1> QED
  BY <1>1 DEF BrowserTypeOK, Reopen, Beside

(* One field of a tab's page or requests. *)
LEMMA ScreenBeside ==
  ASSUME BrowserTypeOK, NEW b \in Tabs, NEW s \in {"verificando", "entrada", "painel"},
         page' = [page EXCEPT ![b].screen = s]
  PROVE  /\ page' \in [Tabs -> Page] /\ \A x \in Tabs \ {b} : page'[x] = page[x]
         /\ page'[b].screen = s /\ page'[b].flight = page[b].flight
<1>1. page' = [page EXCEPT ![b] = [page[b] EXCEPT !.screen = s]]
  BY DEF BrowserTypeOK
<1> QED
  BY <1>1 DEF BrowserTypeOK, Page

LEMMA FlightBeside ==
  ASSUME BrowserTypeOK, NEW b \in Tabs, NEW s \in {"none", "flying"},
         page' = [page EXCEPT ![b].flight = s]
  PROVE  /\ page' \in [Tabs -> Page] /\ \A x \in Tabs \ {b} : page'[x] = page[x]
         /\ page'[b].flight = s /\ page'[b].screen = page[b].screen
<1>1. page' = [page EXCEPT ![b] = [page[b] EXCEPT !.flight = s]]
  BY DEF BrowserTypeOK
<1> QED
  BY <1>1 DEF BrowserTypeOK, Page

LEMMA RequestsBeside ==
  ASSUME BrowserTypeOK, NEW b \in Tabs,
         \/ requests' = [requests EXCEPT ![b].sent = @ + 1]
         \/ requests[b].sent > 0 /\ requests' = [requests EXCEPT ![b].sent = @ - 1]
         \/ requests[b].repeated > 0 /\ requests' = [requests EXCEPT ![b].repeated = @ - 1]
         \/ requests[b].sent > 0
            /\ requests' = [requests EXCEPT ![b].sent = @ - 1, ![b].waiting = @ + 1]
         \/ requests[b].sent > 0
            /\ requests' = [requests EXCEPT ![b].sent = @ - 1, ![b].repeated = @ + 1]
  PROVE  /\ requests' \in [Tabs -> Requests]
         /\ \A x \in Tabs \ {b} : requests'[x] = requests[x]
         /\ requests'[b].sent > requests[b].sent
              => requests' = [requests EXCEPT ![b].sent = @ + 1]
<1> DEFINE r == requests[b]
<1>0. /\ r \in Requests /\ requests \in [Tabs -> Requests]
      /\ r.sent \in Nat /\ r.repeated \in Nat /\ r.waiting \in Nat
  BY DEF BrowserTypeOK, Requests
<1>1. ASSUME NEW q \in Requests, requests' = [requests EXCEPT ![b] = q], q.sent <= r.sent
      PROVE  /\ requests' \in [Tabs -> Requests]
             /\ \A x \in Tabs \ {b} : requests'[x] = requests[x]
             /\ ~(requests'[b].sent > requests[b].sent)
  <2>1. q.sent \in Nat
    BY DEF Requests
  <2> QED
    BY <1>0, <1>1, <2>1
<1>2. CASE requests' = [requests EXCEPT ![b].sent = @ + 1]
  <2> DEFINE q == [r EXCEPT !.sent = @ + 1]
  <2>1. requests' = [requests EXCEPT ![b] = q] /\ q \in Requests
    BY <1>0, <1>2 DEF Requests
  <2> QED
    BY <1>0, <1>2, <2>1
<1>3. CASE r.sent > 0 /\ requests' = [requests EXCEPT ![b].sent = @ - 1]
  <2> DEFINE q == [r EXCEPT !.sent = @ - 1]
  <2>1. requests' = [requests EXCEPT ![b] = q] /\ q \in Requests /\ q.sent <= r.sent
    BY <1>0, <1>3 DEF Requests
  <2> QED
    BY <1>1, <2>1
<1>4. CASE r.repeated > 0 /\ requests' = [requests EXCEPT ![b].repeated = @ - 1]
  <2> DEFINE q == [r EXCEPT !.repeated = @ - 1]
  <2>1. requests' = [requests EXCEPT ![b] = q] /\ q \in Requests /\ q.sent <= r.sent
    BY <1>0, <1>4 DEF Requests
  <2> QED
    BY <1>1, <2>1
<1>5. CASE r.sent > 0 /\ requests' = [requests EXCEPT ![b].sent = @ - 1, ![b].waiting = @ + 1]
  <2> DEFINE q == [r EXCEPT !.sent = @ - 1, !.waiting = @ + 1]
  <2>1. requests' = [requests EXCEPT ![b] = q] /\ q \in Requests /\ q.sent <= r.sent
    BY <1>0, <1>5 DEF Requests
  <2> QED
    BY <1>1, <2>1
<1>6. CASE r.sent > 0 /\ requests' = [requests EXCEPT ![b].sent = @ - 1, ![b].repeated = @ + 1]
  <2> DEFINE q == [r EXCEPT !.sent = @ - 1, !.repeated = @ + 1]
  <2>1. requests' = [requests EXCEPT ![b] = q] /\ q \in Requests /\ q.sent <= r.sent
    BY <1>0, <1>6 DEF Requests
  <2> QED
    BY <1>1, <2>1
<1> QED
  BY <1>2, <1>3, <1>4, <1>5, <1>6

TabStep(b) ==
    \/ RestaurarSessao(b) \/ Enviar(b) \/ Responder(b) \/ Recusada(b)
    \/ Soltar(b) \/ Recarregar(b) \/ Entrar(b) \/ Sair(b)

(* Of its own doing a tab stays quiet. *)
LEMMA TabsBeside ==
  ASSUME BrowserTypeOK, NEW b \in Tabs, TabStep(b)
  PROVE  Beside(b) /\ (TabIsQuiet(b) => TabIsQuiet(b)')
<1>0. page \in [Tabs -> Page] /\ requests \in [Tabs -> Requests]
  BY DEF BrowserTypeOK
<1> USE DEF TabIsQuiet
<1>1. CASE RestaurarSessao(b)
  <2>1. page[b].screen = "verificando" /\ page[b].flight = "none" /\ requests' = requests
    BY <1>1 DEF RestaurarSessao, Opened
  <2>2. \/ page' = [page EXCEPT ![b].screen = "entrada"]
        \/ page' = [page EXCEPT ![b].flight = "flying"]
    BY <1>1 DEF RestaurarSessao
  <2>3. CASE page' = [page EXCEPT ![b].screen = "entrada"]
    BY <1>0, <2>1, <2>3, ScreenBeside DEF Beside
  <2>4. CASE page' = [page EXCEPT ![b].flight = "flying"]
    BY <1>0, <2>1, <2>4, FlightBeside DEF Beside
  <2> QED
    BY <2>2, <2>3, <2>4
<1>2. CASE Enviar(b)
  <2>1. /\ page[b].screen = "painel" /\ page' = page
        /\ requests' = [requests EXCEPT ![b].sent = @ + 1]
    BY <1>2 DEF Enviar
  <2> QED
    BY <1>0, <2>1, RequestsBeside DEF Beside
<1>3. CASE Responder(b)
  <2>1. page' = page
    BY <1>3 DEF Responder
  <2>2. \/ requests[b].sent > 0 /\ requests' = [requests EXCEPT ![b].sent = @ - 1]
        \/ requests[b].repeated > 0 /\ requests' = [requests EXCEPT ![b].repeated = @ - 1]
    BY <1>3 DEF Responder
  <2>3. requests' \in [Tabs -> Requests] /\ \A x \in Tabs \ {b} : requests'[x] = requests[x]
    BY <2>2, RequestsBeside
  <2>4. requests[b].sent = 0 => requests'[b].sent = 0
    BY <1>0, <2>2 DEF Requests
  <2> QED
    BY <1>0, <2>1, <2>3, <2>4 DEF Beside
<1>4. CASE Recusada(b)
  <2>1. requests[b].sent > 0 /\ requests[b].sent \in Nat
    BY <1>0, <1>4 DEF Recusada, Requests
  <2>2. CASE /\ requests' = [requests EXCEPT ![b].sent = @ - 1, ![b].waiting = @ + 1]
             /\ page' = [page EXCEPT ![b].flight = "flying"]
    <3>1. requests' \in [Tabs -> Requests] /\ \A x \in Tabs \ {b} : requests'[x] = requests[x]
      BY <2>1, <2>2, RequestsBeside
    <3>2. /\ page' \in [Tabs -> Page] /\ \A x \in Tabs \ {b} : page'[x] = page[x]
          /\ page'[b].flight = "flying" /\ page'[b].screen = page[b].screen
      BY <2>2, FlightBeside
    <3>3. TabIsQuiet(b) => page[b].screen = "painel"
      BY <2>1
    <3> QED
      BY <3>1, <3>2, <3>3 DEF Beside
  <2>3. CASE /\ requests' = [requests EXCEPT ![b].sent = @ - 1, ![b].repeated = @ + 1]
             /\ page' = page
    <3>1. requests' \in [Tabs -> Requests] /\ \A x \in Tabs \ {b} : requests'[x] = requests[x]
      BY <2>1, <2>3, RequestsBeside
    <3> QED
      BY <1>0, <2>1, <2>3, <3>1 DEF Beside
  <2>4. CASE /\ page[b].flight = "failed"
             /\ requests' = [requests EXCEPT ![b].sent = @ - 1]
             /\ page' = [page EXCEPT ![b].screen = "entrada"]
    <3>1. requests' \in [Tabs -> Requests] /\ \A x \in Tabs \ {b} : requests'[x] = requests[x]
      BY <2>1, <2>4, RequestsBeside
    <3> QED
      BY <1>0, <2>4, <3>1, ScreenBeside DEF Beside
  <2> QED
    BY <1>4, <2>2, <2>3, <2>4 DEF Recusada, Perdida
<1>5. CASE Soltar(b)
  <2>1. page' = [page EXCEPT ![b].flight = "none"] /\ requests' = requests
    BY <1>5 DEF Soltar
  <2> QED
    BY <1>0, <2>1, FlightBeside DEF Beside
<1>6. ASSUME Reopen(b) PROVE Beside(b) /\ (TabIsQuiet(b) => TabIsQuiet(b)')
  BY <1>6, ReopenBeside DEF Opened, Quiet
<1>7. CASE Recarregar(b)
  BY <1>6, <1>7 DEF Recarregar
<1>8. CASE Entrar(b)
  <2>1. page' = page /\ requests' = requests
    BY <1>8 DEF Entrar, browserVars
  <2> QED
    BY <2>1, Unchanged
<1>9. CASE Sair(b)
  <2>1. Reopen(b) \/ (page' = page /\ requests' = requests)
    BY <1>9 DEF Sair
  <2> QED
    BY <1>6, <2>1, Unchanged
<1> QED
  BY <1>1, <1>2, <1>3, <1>4, <1>5, <1>7, <1>8, <1>9 DEF TabStep

LEMMA ReceberBeside ==
  ASSUME BrowserTypeOK, NEW b \in Tabs, NEW kind, NEW ok, NEW new, Receber(b, kind, ok, new)
  PROVE  Beside(b)
<1>1. CASE Renovada(b, new)
  BY <1>1, RenovadaBeside
<1>2. CASE NaoRenovada(b)
  BY <1>2, NaoRenovadaBeside
<1>3. CASE page' = [page EXCEPT ![b].screen = "painel"] /\ requests' = requests
  BY <1>3, ScreenBeside DEF Beside, BrowserTypeOK
<1>4. CASE page' = page /\ requests' = requests
  BY <1>4, Unchanged
<1>5. CASE Reopen(b)
  BY <1>5, ReopenBeside
<1> QED
  BY <1>1, <1>2, <1>3, <1>4, <1>5 DEF Receber, browserVars

ServerStepOf(c) ==
    \/ Consumir(c) \/ ConferirFamilia(c) \/ Login(c) \/ GravarToken(c)
    \/ GravarFamilia(c) \/ RevokeFamily(c)

LEMMA BrowserStep == ServerTypeOK /\ BrowserTypeOK /\ [Next]_vars => BrowserTypeOK'
<1> SUFFICES ASSUME ServerTypeOK, BrowserTypeOK, [Next]_vars PROVE BrowserTypeOK'
  OBVIOUS
<1>1. ASSUME NEW b \in Tabs, Beside(b) PROVE page' \in [Tabs -> Page] /\ requests' \in [Tabs -> Requests]
  BY <1>1 DEF Beside
<1>2. ASSUME UNCHANGED <<page, requests>>
      PROVE  page' \in [Tabs -> Page] /\ requests' \in [Tabs -> Requests]
  BY <1>2 DEF BrowserTypeOK
<1>3. page' \in [Tabs -> Page] /\ requests' \in [Tabs -> Requests]
  <2>1. ASSUME UNCHANGED vars PROVE UNCHANGED <<page, requests>>
    BY <2>1 DEF vars, browserVars
  <2>2. ASSUME NEW c \in Calls, ServerStepOf(c) \/ Falhar(c)
        PROVE  UNCHANGED <<page, requests>>
    BY <2>2 DEF ServerStepOf, Consumir, ConferirFamilia, Login, GravarToken, GravarFamilia,
                RevokeFamily, Falhar, browserVars
  <2>3. ASSUME NEW c \in Calls, Answer(c) \/ Perder(c)
        PROVE  UNCHANGED <<page, requests>> \/ \E b \in Tabs : Beside(b)
    <3>1. call[c].tab \in Tabs \cup {NoTab}
      BY DEF ServerTypeOK, Call
    <3>2. CASE call[c].tab = NoTab
      BY <2>3, <3>2 DEF Answer, Perder, browserVars
    <3>3. CASE call[c].tab \in Tabs /\ call[c].tab # NoTab
      <4>1. \E kind, ok, new : Receber(call[c].tab, kind, ok, new)
        BY <2>3, <3>3 DEF Answer, Perder
      <4> QED
        BY <3>3, <4>1, ReceberBeside
    <3> QED
      BY <3>1, <3>2, <3>3
  <2>4. ASSUME NEW t \in Tokens, Expirar(t)
        PROVE  UNCHANGED <<page, requests>>
    BY <2>4 DEF Expirar, browserVars
  <2>5. ASSUME NEW b \in Tabs, TabStep(b) PROVE Beside(b)
    BY <2>5, TabsBeside
  <2> QED
    BY <1>1, <1>2, <2>1, <2>2, <2>3, <2>4, <2>5 DEF Next, ServerStepOf, TabStep
<1>4. disturbed' \in BOOLEAN
  <2>1. disturbed \in BOOLEAN
    BY DEF BrowserTypeOK
  <2> QED
    BY <2>1 DEF Next, vars, history, Consumir, ConferirFamilia, Login, GravarToken, GravarFamilia,
                RevokeFamily, Falhar, Answer, Perder, Expirar, RestaurarSessao, Enviar, Responder,
                Recusada, Soltar, Recarregar, Entrar, Sair, Fault, Renovar
<1> QED
  BY <1>3, <1>4 DEF BrowserTypeOK

-----------------------------------------------------------------------------
(* The calls of tabs that nothing disturbs.                                *)

(* Calls are dropped, or nobody listens to them any more, but none that    *)
(* writes a token nor a renewal that is not answered.                      *)
LEMMA OrderlyDrops ==
  ASSUME ServerInv, Orderly, ServerInv', UNCHANGED <<token, families>>,
         \A d \in Calls : \/ call'[d] \in {call[d], [call[d] EXCEPT !.tab = NoTab]}
                          \/ call'[d] = NoCall /\ call[d].at # "stored",
         \A d \in Calls : Refresh(d) =>
            \/ call'[d] = NoCall
            \/ call'[d] = call[d] /\ page'[call[d].tab].flight = "flying",
         \/ storage' = NoToken
         \/ storage' = storage /\ \A d \in Calls : Refresh(d) => call'[d] = call[d]
         \/ /\ storage' \in Tokens /\ Live(storage')
            /\ \A d \in Calls : call[d].t # storage'
  PROVE  Orderly'
<1> USE DEF Orderly, ServerInv, ServerTypeOK
<1>1. ASSUME NEW d \in Calls
      PROVE  \/ call'[d] = NoCall /\ call[d].at # "stored"
             \/ /\ call'[d].kind = call[d].kind /\ call'[d].at = call[d].at
                /\ call'[d].t = call[d].t /\ call'[d].f = call[d].f
                /\ call'[d].new = call[d].new
                /\ Refresh(d) => call'[d].tab = call[d].tab
                                 /\ page'[call[d].tab].flight = "flying"
  BY DEF Call, Refresh, NoCall
<1>2. NoCall.kind = "none"
  BY DEF NoCall
<1>3. OneRenewal'
  BY <1>1, <1>2 DEF OneRenewal, Refresh
<1>4. LiveHasFamily'
  BY <1>1 DEF LiveHasFamily, Live
<1>5. RenewalsSucceed'
  BY <1>1, <1>2 DEF RenewalsSucceed, Refresh, Live
<1>6. NobodyInterferes'
  BY <1>1, <1>2 DEF NobodyInterferes, Refresh
<1>7. StorageIsGood'
  BY <1>1, NamesApart DEF StorageIsGood, Refresh, Live
<1> QED
  BY <1>3, <1>4, <1>5, <1>6, <1>7

(* A tab posts a login, or a logout while no renewal is under way. *)
LEMMA OrderlyPosts ==
  ASSUME ServerInv, Orderly, ServerInv', UNCHANGED <<token, families, page>>,
         NEW b \in Tabs, NEW kind \in {"login", "logout"}, NEW t, Post(b, kind, t),
         \/ kind = "login" /\ storage' = storage
         \/ storage' = NoToken /\ \A d \in Calls : ~Refresh(d)
  PROVE  Orderly'
<1> USE DEF Orderly, ServerInv, ServerTypeOK
<1> DEFINE k == [NoCall EXCEPT !.kind = kind, !.t = t, !.tab = b]
<1>1. PICK c \in Calls : call[c] = NoCall /\ call' = [call EXCEPT ![c] = k]
  BY DEF Post
<1>2. k.kind = kind /\ k.at = "start" /\ k.f = NoToken /\ k.new = NoToken
  BY DEF NoCall
<1>3. /\ call'[c] = k /\ call[c].kind = "none" /\ call[c].at = "start"
      /\ \A d \in Calls \ {c} : call'[d] = call[d]
  BY <1>1 DEF NoCall
<1> HIDE DEF k
<1>4. \A d \in Calls : /\ Refresh(d)' <=> Refresh(d)
                       /\ Refresh(d) => d # c
  BY <1>2, <1>3 DEF Refresh
<1>5. OneRenewal'
  BY <1>3, <1>4 DEF OneRenewal
<1>6. LiveHasFamily'
  BY <1>3 DEF LiveHasFamily, Live
<1>7. RenewalsSucceed'
  BY <1>2, <1>3 DEF RenewalsSucceed, Refresh, Live
<1>8. NobodyInterferes'
  BY <1>2, <1>3, <1>4 DEF NobodyInterferes, Refresh
<1>9. StorageIsGood'
  BY <1>3, <1>4, NamesApart DEF StorageIsGood, Live
<1> QED
  BY <1>5, <1>6, <1>7, <1>8, <1>9

(* A tab renews, and no other tab presents the same token. *)
LEMMA OrderlyRenews ==
  ASSUME ServerInv, Orderly, ServerInv', UNCHANGED <<token, families, storage>>,
         NEW b \in Tabs, storage \in Tokens, page[b].flight # "flying",
         Post(b, "refresh", storage),
         \A d \in Calls : ~(call[d].kind = "refresh" /\ call[d].t = storage /\ call[d].tab # b),
         page'[b].flight = "flying", \A x \in Tabs \ {b} : page'[x] = page[x]
  PROVE  Orderly'
<1> USE DEF Orderly, ServerInv, ServerTypeOK
<1> DEFINE k == [NoCall EXCEPT !.kind = "refresh", !.t = storage, !.tab = b]
<1>1. PICK c \in Calls : call[c] = NoCall /\ call' = [call EXCEPT ![c] = k]
  BY DEF Post
<1>2. /\ k.kind = "refresh" /\ k.at = "start" /\ k.f = NoToken /\ k.new = NoToken
      /\ k.t = storage /\ k.tab = b
  BY DEF NoCall
<1>3. /\ call'[c] = k /\ call[c].kind = "none" /\ call[c].at = "start"
      /\ \A d \in Calls \ {c} : call'[d] = call[d]
  BY <1>1 DEF NoCall
<1> HIDE DEF k
<1>4. \A d \in Calls : Refresh(d) => /\ d # c /\ call[d].tab # b /\ call[d].tab \in Tabs
                                     /\ call[d].t # storage
  BY <1>3 DEF OneRenewal, Refresh
<1>5. Live(storage)
  BY <1>4 DEF StorageIsGood
<1>6. OneRenewal'
  BY <1>2, <1>3, <1>4 DEF OneRenewal, Refresh
<1>7. LiveHasFamily'
  BY <1>3 DEF LiveHasFamily, Live
<1>8. RenewalsSucceed'
  BY <1>2, <1>3, <1>5 DEF RenewalsSucceed, Refresh, Live
<1>9. NobodyInterferes'
  BY <1>2, <1>3, <1>4, NamesApart DEF NobodyInterferes, Refresh
<1>10. StorageIsGood'
  BY <1>5 DEF StorageIsGood, Live
<1> QED
  BY <1>6, <1>7, <1>8, <1>9, <1>10

(* The API's own steps, when nothing fails and nothing expires. *)
LEMMA OrderlyServer ==
  ASSUME ServerInv, Orderly, ServerInv', NEW c \in Calls, ServerStepOf(c)
  PROVE  Orderly'
<1> USE DEF Orderly, ServerInv, ServerTypeOK
<1> DEFINE k == call[c]
<1>0. k \in Call /\ CallOK(k) /\ UNCHANGED <<storage, page>>
  BY DEF CallsOK, ServerStepOf, Consumir, ConferirFamilia, Login, GravarToken, GravarFamilia,
         RevokeFamily, browserVars
<1>1. /\ call' \in [Calls -> Call]
      /\ \A d \in Calls \ {c} : call'[d] = call[d]
      /\ call'[c].kind = k.kind /\ call'[c].t = k.t /\ call'[c].tab = k.tab
  <2>1. call' \in [Calls -> Call]
    OBVIOUS
  <2>2. ASSUME NEW m, call' = [call EXCEPT ![c] = m],
               m.kind = k.kind, m.t = k.t, m.tab = k.tab
        PROVE  /\ \A d \in Calls \ {c} : call'[d] = call[d]
               /\ call'[c].kind = k.kind /\ call'[c].t = k.t /\ call'[c].tab = k.tab
    BY <2>2
  <2>3. CASE Consumir(c) /\ token[k.t].state = "live"
    <3> DEFINE m == [k EXCEPT !.f = token[k.t].family,
                              !.at = IF k.kind = "refresh" THEN "family" ELSE "del"]
    <3>1. call' = [call EXCEPT ![c] = m]
      BY <1>0, <2>3 DEF Consumir
    <3>2. m.kind = k.kind /\ m.t = k.t /\ m.tab = k.tab
      BY <1>0 DEF Call
    <3> QED
      BY <2>1, <2>2, <3>1, <3>2
  <2>4. CASE Consumir(c) /\ token[k.t].state # "live"
    <3> DEFINE m == [k EXCEPT !.at = IF k.kind = "refresh" THEN "refused" ELSE "ok"]
    <3>1. call' = [call EXCEPT ![c] = m]
      BY <1>0, <2>4 DEF Consumir, Go
    <3>2. m.kind = k.kind /\ m.t = k.t /\ m.tab = k.tab
      BY <1>0 DEF Call
    <3> QED
      BY <2>1, <2>2, <3>1, <3>2
  <2>5. CASE GravarToken(c)
    <3>1. PICK new, f : call' = [call EXCEPT ![c].new = new, ![c].f = f, ![c].at = "stored"]
      BY <2>5 DEF GravarToken
    <3> DEFINE m == [k EXCEPT !.new = new, !.f = f, !.at = "stored"]
    <3>2. call' = [call EXCEPT ![c] = m]
      BY <1>0, <3>1
    <3>3. m.kind = k.kind /\ m.t = k.t /\ m.tab = k.tab
      BY <1>0 DEF Call
    <3> QED
      BY <2>1, <2>2, <3>2, <3>3
  <2>6. CASE ConferirFamilia(c) \/ Login(c) \/ GravarFamilia(c) \/ RevokeFamily(c)
    BY <1>0, <2>1, <2>6 DEF ConferirFamilia, Login, GravarFamilia, RevokeFamily, Go, End, Call
  <2> QED
    BY <2>3, <2>4, <2>5, <2>6 DEF ServerStepOf
<1>2. OneRenewal'
  BY <1>0, <1>1 DEF OneRenewal, Refresh
<1>3. NobodyInterferes'
  BY <1>0, <1>1 DEF NobodyInterferes, Refresh
<1>4. ASSUME LiveHasFamily', RenewalsSucceed', StorageIsGood'
      PROVE  Orderly'
  BY <1>2, <1>3, <1>4
<1>5. CASE Consumir(c)
  <2>1. /\ k.kind \in {"refresh", "logout"} /\ k.at = "start" /\ k.t \in Tokens
        /\ families' = families
    BY <1>0, <1>5 DEF Consumir, CallOK
  <2>2. CASE token[k.t].state = "live"
    <3>1. /\ token' = [token EXCEPT ![k.t].state = "gone"]
          /\ call' = [call EXCEPT ![c].f = token[k.t].family,
                                  ![c].at = IF k.kind = "refresh" THEN "family" ELSE "del"]
      BY <1>5, <2>2 DEF Consumir
    <3>2. /\ call'[c].f = token[k.t].family
          /\ call'[c].at = IF k.kind = "refresh" THEN "family" ELSE "del"
          /\ call'[c].new = k.new
      BY <3>1, <1>0 DEF Call
    <3>3. /\ token'[k.t].state = "gone"
          /\ \A u \in Tokens \ {k.t} : token'[u] = token[u]
      BY <3>1, <2>1 DEF Record
    <3>4. \A u \in Tokens : Live(u)' <=> Live(u) /\ u # k.t
      BY <3>3 DEF Live
    <3>5. \A d \in Calls : call[d].new # k.t
      BY <2>1 DEF AnswersAreSecret
    <3>6. LiveHasFamily'
      BY <1>1, <2>1, <3>3, <3>4 DEF LiveHasFamily
    <3>7. token[k.t].family \in families
      BY <2>1, <2>2, <3>5 DEF LiveHasFamily, Live
    <3>8. RenewalsSucceed'
      <4> SUFFICES ASSUME NEW d \in Calls
                   PROVE  /\ Refresh(d)' =>
                              /\ call'[d].at = "start" => call'[d].t \in Tokens /\ Live(call[d].t)'
                              /\ call'[d].at = "family" => call'[d].f \in families'
                              /\ call'[d].at # "refused"
                          /\ call'[d].kind \in {"login", "refresh"} /\ call'[d].at \in {"stored", "ok"}
                               => call'[d].new \in Tokens /\ Live(call[d].new)'
        BY <1>1, <3>2 DEF RenewalsSucceed, Live
      <4>1. CASE d = c
        BY <1>1, <2>1, <3>2, <3>7, <4>1 DEF Refresh
      <4>2. CASE d # c
        <5>1. call'[d] = call[d]
          BY <1>1, <4>2
        <5>2. Refresh(d) => call[d].t # k.t
          BY <2>1, <4>2 DEF NobodyInterferes
        <5> QED
          BY <2>1, <3>4, <3>5, <5>1, <5>2 DEF RenewalsSucceed, Refresh
      <4> QED
        BY <4>1, <4>2
    <3>9. StorageIsGood'
      <4>1. CASE k.kind = "refresh"
        BY <1>0, <1>1, <3>4, <4>1 DEF StorageIsGood, Refresh
      <4>2. CASE k.kind = "logout"
        BY <1>0, <1>1, <3>4, <4>2, NamesApart DEF StorageIsGood, Refresh, NobodyInterferes
      <4> QED
        BY <2>1, <4>1, <4>2
    <3> QED
      BY <1>4, <3>6, <3>8, <3>9
  <2>3. CASE token[k.t].state # "live"
    <3>1. k.kind # "refresh"
      BY <2>1, <2>3 DEF RenewalsSucceed, Refresh, Live
    <3>2. Go(c, "ok") /\ token' = token
      BY <1>5, <2>3, <3>1 DEF Consumir
    <3>3. call'[c].at = "ok" /\ k.kind = "logout" /\ call'[c].f = k.f /\ call'[c].new = k.new
      BY <1>0, <2>1, <3>1, <3>2 DEF Go, Call
    <3>4. LiveHasFamily'
      BY <1>1, <2>1, <3>2 DEF LiveHasFamily, Live
    <3>5. RenewalsSucceed'
      BY <1>1, <2>1, <3>2, <3>3 DEF RenewalsSucceed, Refresh, Live
    <3>6. StorageIsGood'
      BY <1>0, <1>1, <3>2 DEF StorageIsGood, Refresh, Live
    <3> QED
      BY <1>4, <3>4, <3>5, <3>6
  <2> QED
    BY <2>2, <2>3
<1>6. CASE ConferirFamilia(c) \/ Login(c)
  <2>1. /\ UNCHANGED <<token, families>>
        /\ k.at \in {"family", "start"} /\ k.kind \in {"refresh", "login"}
        /\ k.at = "start" <=> k.kind = "login"
    BY <1>6 DEF ConferirFamilia, Login
  <2>2. k.kind = "refresh" => k.f \in families
    BY <2>1 DEF RenewalsSucceed, Refresh
  <2>3. \/ Go(c, "issue")
        \/ Go(c, "refused") /\ k.kind = "login"
    BY <1>6, <2>2 DEF ConferirFamilia, Login
  <2>4. /\ call'[c].at = "issue" \/ (call'[c].at = "refused" /\ k.kind = "login")
        /\ call'[c].f = k.f /\ call'[c].new = k.new
    BY <1>0, <2>3 DEF Go, Call
  <2>5. LiveHasFamily'
    BY <1>1, <2>1 DEF LiveHasFamily, Live
  <2>6. RenewalsSucceed'
    BY <1>1, <2>1, <2>4 DEF RenewalsSucceed, Refresh, Live
  <2>7. StorageIsGood'
    BY <1>0, <1>1, <2>1 DEF StorageIsGood, Refresh, Live
  <2> QED
    BY <1>4, <2>5, <2>6, <2>7
<1>7. CASE GravarToken(c)
  <2> DEFINE new == CHOOSE t \in Tokens : token[t].state = "unused"
             f == Familia(c, new)
  <2>1. /\ token' = [token EXCEPT ![new] = [state |-> "live", family |-> f]]
        /\ call' = [call EXCEPT ![c].new = new, ![c].f = f, ![c].at = "stored"]
        /\ k.at = "issue" /\ families' = families
        /\ new \in Tokens /\ token[new].state = "unused"
    BY <1>7 DEF GravarToken
  <2> HIDE DEF new, f
  <2>2. call'[c].at = "stored" /\ call'[c].new = new /\ call'[c].f = f
    BY <2>1, <1>0
  <2>3. /\ token'[new] = [state |-> "live", family |-> f]
        /\ \A u \in Tokens \ {new} : token'[u] = token[u]
    BY <2>1
  <2>4. \A u \in Tokens : Live(u)' <=> Live(u) \/ u = new
    BY <2>3 DEF Live
  <2>5. LiveHasFamily'
    <3> SUFFICES ASSUME NEW u \in Tokens, Live(u)'
                 PROVE  \/ token'[u].family \in families'
                        \/ \E d \in Calls : /\ call'[d].at = "stored" /\ call'[d].new = u
                                            /\ call'[d].f = token'[u].family
      BY DEF LiveHasFamily
    <3>1. CASE u = new
      BY <2>2, <2>3, <3>1
    <3>2. CASE u # new
      BY <1>1, <2>1, <2>3, <2>4, <3>2 DEF LiveHasFamily
    <3> QED
      BY <3>1, <3>2
  <2>6. RenewalsSucceed'
    <3>1. ASSUME NEW u PROVE u \in Tokens /\ Live(u) => Live(u)'
      BY <2>4
    <3>2. call'[c].new = new /\ token'[new].state = "live"
      BY <2>2, <2>3
    <3> QED
      BY <1>1, <2>1, <2>2, <3>1, <3>2 DEF RenewalsSucceed, Refresh, Live
  <2>7. StorageIsGood'
    BY <1>0, <1>1, <2>4 DEF StorageIsGood, Refresh
  <2> QED
    BY <1>4, <2>5, <2>6, <2>7
<1>8. CASE GravarFamilia(c)
  <2>1. /\ k.at = "stored" /\ families' = families \cup {k.f} /\ token' = token
        /\ End(c, "ok")
    BY <1>8 DEF GravarFamilia
  <2>2. call'[c].at = "ok" /\ call'[c].new = k.new
    BY <1>0, <2>1 DEF End, Call
  <2>3. LiveHasFamily'
    BY <1>1, <2>1 DEF LiveHasFamily, Live
  <2>4. RenewalsSucceed'
    BY <1>1, <2>1, <2>2 DEF RenewalsSucceed, Refresh, Live
  <2>5. StorageIsGood'
    BY <1>0, <1>1, <2>1 DEF StorageIsGood, Refresh, Live
  <2> QED
    BY <1>4, <2>3, <2>4, <2>5
<1>9. CASE RevokeFamily(c)
  <2>1. /\ k.at = "del" /\ families' = families \ {k.f} /\ token' = token
        /\ End(c, "ok")
    BY <1>9 DEF RevokeFamily
  <2>2. call'[c].at = "ok" /\ k.kind = "logout" /\ Holds(k)
    BY <1>0, <2>1 DEF End, Call, CallOK, Holds
  <2>3. LiveHasFamily'
    BY <1>1, <2>1, <2>2 DEF LiveHasFamily, Live, OneHolder
  <2>4. \A d \in Calls : Refresh(d) /\ call[d].at = "family" => call[d].f # k.f
    BY <2>2 DEF OneHolder, Holds, Refresh
  <2>5. RenewalsSucceed'
    BY <1>1, <2>1, <2>2, <2>4 DEF RenewalsSucceed, Refresh, Live
  <2>6. StorageIsGood'
    BY <1>0, <1>1, <2>1 DEF StorageIsGood, Refresh, Live
  <2> QED
    BY <1>4, <2>3, <2>5, <2>6
<1> QED
  BY <1>5, <1>6, <1>7, <1>8, <1>9 DEF ServerStepOf

(* What happened is not forgotten. *)
LEMMA DisturbedStays == [Next]_vars /\ disturbed => disturbed'
  BY DEF Next, vars, history, Consumir, ConferirFamilia, Login, GravarToken, GravarFamilia,
         RevokeFamily, Falhar, Answer, Perder, Expirar, RestaurarSessao, Enviar, Responder,
         Recusada, Soltar, Recarregar, Entrar, Sair, Fault, Renovar

LEMMA QuietBeside ==
  ASSUME ScreensAreQuiet, NEW b \in Tabs, Beside(b), TabIsQuiet(b)'
  PROVE  ScreensAreQuiet'
  BY DEF ScreensAreQuiet, TabIsQuiet, Beside

LEMMA TabCalm ==
  ASSUME ServerInv, BrowserTypeOK, Calm, ServerInv', ~disturbed', NEW b \in Tabs, TabStep(b)
  PROVE  Calm'
<1> USE DEF Calm
<1>0. /\ call \in [Calls -> Call] /\ storage \in Tokens \cup {NoToken}
      /\ UNCHANGED <<token, families>>
  BY DEF ServerInv, ServerTypeOK, TabStep, RestaurarSessao, Enviar, Responder, Recusada, Soltar,
         Recarregar, Entrar, Sair, serverVars, browserVars
<1>1. ScreensAreQuiet' /\ Beside(b) /\ TabIsQuiet(b)
  BY TabsBeside, QuietBeside DEF ScreensAreQuiet
<1>2. \A d \in Calls : Refresh(d) => /\ call[d].tab \in Tabs /\ page[call[d].tab].flight = "flying"
                                     /\ call[d].tab # b => page'[call[d].tab].flight = "flying"
  BY <1>1 DEF Orderly, OneRenewal, Beside
<1>3. ASSUME call' = call, storage' = storage,
             page[b].flight = "flying" => page'[b].flight = "flying"
      PROVE  Orderly'
  <2>1. \A d \in Calls : call'[d] \in {call[d], [call[d] EXCEPT !.tab = NoTab]}
    BY <1>3
  <2>2. \A d \in Calls : Refresh(d) =>
            call'[d] = call[d] /\ page'[call[d].tab].flight = "flying"
    BY <1>2, <1>3
  <2> QED
    BY <1>0, <1>3, <2>1, <2>2, OrderlyDrops
<1>4. ASSUME Orphaned(b) = call', page[b].flight # "flying", storage' \in {storage, NoToken}
      PROVE  Orderly'
  <2>1. \A d \in Calls : call'[d] \in {call[d], [call[d] EXCEPT !.tab = NoTab]}
    BY <1>0, <1>4, OrphanedDrops
  <2>2. \A d \in Calls : Refresh(d) =>
            call'[d] = call[d] /\ page'[call[d].tab].flight = "flying"
    BY <1>2, <1>4 DEF Orphaned
  <2> QED
    BY <1>0, <1>4, <2>1, <2>2, OrderlyDrops
<1>5. ASSUME Renovar(b), storage \in Tokens, storage' = storage, page[b].flight = "none",
             page' = [page EXCEPT ![b].flight = "flying"]
      PROVE  Orderly'
  <2>1. \A d \in Calls : ~(call[d].kind = "refresh" /\ call[d].t = storage /\ call[d].tab # b)
    BY <1>5 DEF Renovar
  <2>2. Post(b, "refresh", storage)
    BY <1>5 DEF Renovar
  <2>3. page'[b].flight = "flying" /\ \A x \in Tabs \ {b} : page'[x] = page[x]
    BY <1>5, FlightBeside
  <2> QED
    BY <1>0, <1>5, <2>1, <2>2, <2>3, OrderlyRenews
<1>6. CASE RestaurarSessao(b)
  <2>1. storage' = storage /\ page[b].flight = "none"
    BY <1>6 DEF RestaurarSessao, Opened
  <2>2. CASE storage = NoToken
    BY <1>1, <1>3, <1>6, <2>1, <2>2 DEF RestaurarSessao
  <2>3. CASE storage # NoToken
    <3>1. Renovar(b) /\ page' = [page EXCEPT ![b].flight = "flying"] /\ storage \in Tokens
      BY <1>0, <1>6, <2>3 DEF RestaurarSessao
    <3> QED
      BY <1>1, <1>5, <2>1, <3>1
  <2> QED
    BY <2>2, <2>3
<1>7. CASE Enviar(b) \/ Responder(b)
  <2>1. call' = call /\ storage' = storage /\ page' = page
    BY <1>7 DEF Enviar, Responder, serverVars
  <2> QED
    BY <1>1, <1>3, <2>1
<1>8. CASE Recusada(b)
  <2>1. page[b].flight # "failed"
    BY <1>1 DEF TabIsQuiet
  <2>2. storage' = storage /\ storage \in Tokens
    BY <1>0, <1>8, <2>1 DEF Recusada
  <2>3. CASE page[b].flight = "none"
    <3>1. Renovar(b) /\ page' = [page EXCEPT ![b].flight = "flying"]
      BY <1>8, <2>3 DEF Recusada
    <3> QED
      BY <1>1, <1>5, <2>2, <2>3, <3>1
  <2>4. CASE page[b].flight = "flying"
    <3>1. call' = call /\ page' = [page EXCEPT ![b].flight = "flying"]
      BY <1>8, <2>4 DEF Recusada
    <3> QED
      BY <1>1, <1>3, <2>2, <3>1, FlightBeside
  <2>5. CASE page[b].flight = "renewed"
    <3>1. call' = call /\ page' = page
      BY <1>8, <2>5 DEF Recusada
    <3> QED
      BY <1>1, <1>3, <2>2, <3>1
  <2> QED
    BY <1>8, <2>1, <2>3, <2>4, <2>5 DEF Recusada
<1>9. CASE Soltar(b)
  <2>1. call' = call /\ storage' = storage /\ page[b].flight # "flying"
    BY <1>9 DEF Soltar, serverVars
  <2> QED
    BY <1>1, <1>3, <2>1
<1>10. CASE Recarregar(b)
  <2>1. call' = Orphaned(b) /\ storage' = storage /\ page[b].flight # "flying"
    BY <1>10 DEF Recarregar
  <2> QED
    BY <1>1, <1>4, <2>1
<1>11. CASE Entrar(b)
  <2>1. Post(b, "login", NoToken) /\ storage' = storage /\ page' = page
    BY <1>11 DEF Entrar, browserVars
  <2> QED
    BY <1>0, <1>1, <2>1, OrderlyPosts
<1>12. CASE Sair(b)
  <2>1. /\ page[b].flight = "none" /\ storage' = NoToken
        /\ \A x \in Tabs \ {b} : page[x].screen = "entrada"
    BY <1>12 DEF Sair
  <2>2. \A x \in Tabs : page[x].flight = "none"
    BY <2>1 DEF ScreensAreQuiet, TabIsQuiet
  <2>3. \A d \in Calls : ~Refresh(d)
    BY <1>2, <2>2
  <2>4. CASE call' = Orphaned(b)
    BY <1>1, <1>4, <2>1, <2>4
  <2>5. CASE Post(b, "logout", storage) /\ page' = page
    BY <1>0, <1>1, <2>1, <2>3, <2>5, OrderlyPosts
  <2> QED
    BY <1>12, <2>4, <2>5 DEF Sair
<1> QED
  BY <1>6, <1>7, <1>8, <1>9, <1>10, <1>11, <1>12 DEF TabStep

LEMMA AnswerCalm ==
  ASSUME ServerInv, BrowserTypeOK, Calm, ServerInv', ~disturbed', NEW c \in Calls, Answer(c)
  PROVE  /\ Calm'
         /\ \A b \in Tabs : page'[b].screen = "entrada" => page[b].screen = "entrada"
<1> USE DEF Calm
<1> DEFINE k == call[c]
<1>0. /\ call \in [Calls -> Call] /\ k \in Call /\ UNCHANGED <<token, families>>
      /\ k.at \in {"ok", "refused"}
  BY DEF ServerInv, ServerTypeOK, Answer
<1>1. \A d \in Calls : Refresh(d) => call[d].tab \in Tabs /\ page[call[d].tab].flight = "flying"
  BY DEF Orderly, OneRenewal
<1>2. CASE k.tab = NoTab
  <2>1. call' = [call EXCEPT ![c] = NoCall] /\ UNCHANGED <<storage, page, requests>>
    BY <1>2 DEF Answer, browserVars
  <2>2. ~Refresh(c)
    BY <1>1, <1>2, NamesApart
  <2>3. /\ \A d \in Calls : \/ call'[d] \in {call[d], [call[d] EXCEPT !.tab = NoTab]}
                            \/ call'[d] = NoCall /\ call[d].at # "stored"
        /\ \A d \in Calls : Refresh(d) =>
                call'[d] = call[d] /\ page'[call[d].tab].flight = "flying"
    BY <1>0, <1>1, <2>1, <2>2
  <2>4. Orderly'
    BY <1>0, <2>1, <2>3, OrderlyDrops
  <2> QED
    BY <2>1, <2>4 DEF ScreensAreQuiet, TabIsQuiet
<1>3. ASSUME NEW b \in Tabs, k.tab = b
      PROVE  /\ Calm'
             /\ \A x \in Tabs : page'[x].screen = "entrada" => page[x].screen = "entrada"
  <2>0. b # NoTab
    BY NamesApart
  <2>1. /\ Receber(b, k.kind, k.at = "ok", k.new)
        /\ call' = [IF k.kind = "logout" THEN Orphaned(b) ELSE call EXCEPT ![c] = NoCall]
    BY <1>3, <2>0 DEF Answer
  <2>2. TabIsQuiet(b)
    BY <2>0 DEF ScreensAreQuiet
  <2>3. CASE k.kind = "refresh"
    <3>1. k.at = "ok" /\ k.new \in Tokens /\ Live(k.new)
      BY <1>0, <2>3 DEF Orderly, RenewalsSucceed, Refresh
    <3>2. Renovada(b, k.new) /\ call' = [call EXCEPT ![c] = NoCall]
      BY <2>1, <2>3, <3>1 DEF Receber
    <3>3. /\ Beside(b) /\ page'[b].flight = "renewed"
          /\ page'[b].screen = IF page[b].screen = "verificando" THEN "painel" ELSE page[b].screen
          /\ requests'[b].sent = requests[b].sent
      BY <2>0, <3>2, RenovadaBeside
    <3>4. page[b].screen # "entrada"
      BY <1>1, <1>3, <2>2, <2>3 DEF TabIsQuiet, Refresh
    <3>5. TabIsQuiet(b)'
      BY <2>2, <3>3, <3>4 DEF TabIsQuiet
    <3>6. storage' = k.new /\ \A d \in Calls : call[d].t # storage'
      BY <3>1, <3>2 DEF Renovada, ServerInv, AnswersAreSecret
    <3>7. \A d \in Calls : Refresh(d) /\ d # c => call[d].tab # b
      BY <1>3, <2>3 DEF Orderly, OneRenewal, Refresh
    <3>8. /\ \A d \in Calls : \/ call'[d] \in {call[d], [call[d] EXCEPT !.tab = NoTab]}
                              \/ call'[d] = NoCall /\ call[d].at # "stored"
          /\ \A d \in Calls : Refresh(d) =>
                \/ call'[d] = NoCall
                \/ call'[d] = call[d] /\ page'[call[d].tab].flight = "flying"
      BY <1>0, <1>1, <3>2, <3>3, <3>7 DEF Beside
    <3>9. Orderly'
      BY <1>0, <3>1, <3>6, <3>8, OrderlyDrops
    <3> QED
      BY <2>0, <3>3, <3>4, <3>5, <3>9, QuietBeside DEF Beside
  <2>4. CASE k.kind = "login"
    <3>1. call' = [call EXCEPT ![c] = NoCall]
      BY <2>1, <2>4
    <3>2. ~Refresh(c)
      BY <2>4 DEF Refresh
    <3>3. CASE k.at = "ok"
      <4>1. /\ k.new \in Tokens /\ Live(k.new) /\ storage' = k.new
            /\ page' = [page EXCEPT ![b].screen = "painel"] /\ requests' = requests
        BY <2>1, <2>4, <3>3 DEF Receber, Orderly, RenewalsSucceed
      <4>2. /\ page' \in [Tabs -> Page] /\ \A x \in Tabs \ {b} : page'[x] = page[x]
            /\ page'[b].screen = "painel" /\ page'[b].flight = page[b].flight
        BY <2>0, <4>1, ScreenBeside
      <4>3. Beside(b) /\ TabIsQuiet(b)'
        BY <2>2, <4>1, <4>2 DEF Beside, TabIsQuiet, BrowserTypeOK
      <4>4. \A d \in Calls : call[d].t # storage'
        BY <4>1 DEF ServerInv, AnswersAreSecret
      <4>5. /\ \A d \in Calls : \/ call'[d] \in {call[d], [call[d] EXCEPT !.tab = NoTab]}
                                \/ call'[d] = NoCall /\ call[d].at # "stored"
            /\ \A d \in Calls : Refresh(d) =>
                  call'[d] = call[d] /\ page'[call[d].tab].flight = "flying"
        BY <1>0, <1>1, <3>1, <3>2, <4>2
      <4>6. Orderly'
        BY <1>0, <4>1, <4>4, <4>5, OrderlyDrops
      <4> QED
        BY <2>0, <4>2, <4>3, <4>6, QuietBeside
    <3>4. CASE k.at # "ok"
      <4>1. UNCHANGED <<storage, page, requests>>
        BY <2>1, <2>4, <3>4 DEF Receber, browserVars
      <4>2. /\ \A d \in Calls : \/ call'[d] \in {call[d], [call[d] EXCEPT !.tab = NoTab]}
                                \/ call'[d] = NoCall /\ call[d].at # "stored"
            /\ \A d \in Calls : Refresh(d) =>
                  call'[d] = call[d] /\ page'[call[d].tab].flight = "flying"
        BY <1>0, <1>1, <3>1, <3>2, <4>1
      <4>3. Orderly'
        BY <1>0, <4>1, <4>2, OrderlyDrops
      <4> QED
        BY <4>1, <4>3 DEF ScreensAreQuiet, TabIsQuiet
    <3> QED
      BY <3>3, <3>4
  <2>5. CASE k.kind = "logout"
    <3>1. Reopen(b) /\ storage' = storage /\ call' = [Orphaned(b) EXCEPT ![c] = NoCall]
      BY <2>1, <2>5 DEF Receber
    <3>2. page[b].flight # "flying"
      BY <1>3, <2>0, <2>5 DEF Answer
    <3>3. Beside(b) /\ page'[b] = Opened /\ requests'[b] = Quiet
      BY <2>0, <3>1, ReopenBeside
    <3>4. TabIsQuiet(b)' /\ page'[b].screen # "entrada"
      BY <3>3 DEF TabIsQuiet, Opened, Quiet
    <3>5. \A d \in Calls : Refresh(d) => call[d].tab # b /\ d # c
      BY <1>1, <2>5, <3>2 DEF Refresh
    <3>6. /\ \A d \in Calls : \/ call'[d] \in {call[d], [call[d] EXCEPT !.tab = NoTab]}
                              \/ call'[d] = NoCall /\ call[d].at # "stored"
          /\ \A d \in Calls : Refresh(d) =>
                call'[d] = call[d] /\ page'[call[d].tab].flight = "flying"
      BY <1>0, <1>1, <3>1, <3>3, <3>5 DEF Orphaned, Beside
    <3>7. Orderly'
      BY <1>0, <3>1, <3>6, OrderlyDrops
    <3> QED
      BY <2>0, <3>3, <3>4, <3>7, QuietBeside DEF Beside
  <2>6. k.kind # "none"
    BY <1>0 DEF ServerInv, CallsOK, CallOK, NoCall
  <2> QED
    BY <1>0, <2>3, <2>4, <2>5, <2>6 DEF Call
<1> QED
  BY <1>0, <1>2, <1>3 DEF Call

LEMMA InitInv == Init => IInv
<1> SUFFICES ASSUME Init PROVE IInv
  OBVIOUS
<1>1. /\ \A c \in Calls : call[c].kind = "none" /\ call[c].at = "start"
      /\ \A b \in Tabs : page[b] = Opened /\ requests[b] = Quiet
      /\ \A t \in Tokens : token[t].state = "unused"
  BY DEF Init, NoCall
<1>2. ServerInv
  BY ServerInit
<1>3. BrowserTypeOK
  <2>1. Opened \in Page /\ Quiet \in Requests
    BY DEF Opened, Quiet, Page, Requests
  <2> QED
    BY <2>1 DEF Init, BrowserTypeOK
<1>4. Calm
  <2>1. OneRenewal /\ LiveHasFamily /\ RenewalsSucceed
    BY <1>1 DEF OneRenewal, LiveHasFamily, RenewalsSucceed, Refresh, Live
  <2>2. NobodyInterferes /\ StorageIsGood
    BY <1>1, NamesApart DEF NobodyInterferes, StorageIsGood, Refresh, Init
  <2>3. ScreensAreQuiet
    BY <1>1 DEF ScreensAreQuiet, TabIsQuiet, Opened, Quiet
  <2> QED
    BY <2>1, <2>2, <2>3 DEF Calm, Orderly
<1> QED
  BY <1>2, <1>3, <1>4 DEF IInv

(* Of a step that disturbs nothing, nor followed a disturbance: all stays  *)
(* calm, and no tab goes back to the login that had not left it for good.  *)
LEMMA CalmStep ==
  ASSUME IInv, Next, ServerInv', ~disturbed'
  PROVE  /\ Calm'
         /\ \A b \in Tabs : page'[b].screen = "entrada" =>
                page[b].screen = "entrada" \/ page[b] = Opened
<1>0. ServerInv /\ BrowserTypeOK /\ Calm
  BY DisturbedStays DEF IInv
<1>1. ASSUME NEW c \in Calls, ServerStepOf(c)
      PROVE  Calm' /\ page' = page
  <2>1. page' = page /\ requests' = requests
    BY <1>1 DEF ServerStepOf, Consumir, ConferirFamilia, Login, GravarToken, GravarFamilia,
                RevokeFamily, browserVars
  <2>2. Orderly'
    BY <1>0, <1>1, OrderlyServer DEF Calm
  <2> QED
    BY <1>0, <2>1, <2>2 DEF Calm, ScreensAreQuiet, TabIsQuiet
<1>2. ASSUME NEW c \in Calls, Falhar(c) \/ Perder(c) PROVE FALSE
  BY <1>2 DEF Falhar, Perder, Fault
<1>3. ASSUME NEW t \in Tokens, Expirar(t) PROVE FALSE
  BY <1>3 DEF Expirar, Fault
<1>4. ASSUME NEW b \in Tabs, TabStep(b), page'[b].screen = "entrada"
      PROVE  page[b].screen = "entrada" \/ page[b] = Opened
  <2>1. page \in [Tabs -> Page] /\ page[b].flight # "failed"
    BY <1>0 DEF BrowserTypeOK, Calm, ScreensAreQuiet, TabIsQuiet
  <2>2. CASE Recusada(b)
    <3>1. page' = page \/ page' = [page EXCEPT ![b].flight = "flying"]
      BY <2>1, <2>2 DEF Recusada
    <3> QED
      BY <1>0, <1>4, <3>1, FlightBeside
  <2>3. CASE Soltar(b)
    <3>1. page' = [page EXCEPT ![b].flight = "none"]
      BY <2>3 DEF Soltar
    <3> QED
      BY <1>0, <1>4, <3>1, FlightBeside
  <2>4. CASE Reopen(b)
    BY <1>0, <1>4, <2>4, ReopenBeside DEF Opened
  <2>5. CASE page' = page
    BY <1>4, <2>5
  <2>6. CASE RestaurarSessao(b)
    BY <2>6 DEF RestaurarSessao
  <2> QED
    BY <1>4, <2>2, <2>3, <2>4, <2>5, <2>6 DEF TabStep, Enviar, Responder, Recarregar, Entrar, Sair,
                                               browserVars
<1>5. ASSUME NEW b \in Tabs, TabStep(b)
      PROVE  Calm' /\ \A x \in Tabs \ {b} : page'[x] = page[x]
  BY <1>0, <1>5, TabCalm, TabsBeside DEF Beside
<1>6. ASSUME NEW c \in Calls, Answer(c)
      PROVE  /\ Calm'
             /\ \A b \in Tabs : page'[b].screen = "entrada" => page[b].screen = "entrada"
  BY <1>0, <1>6, AnswerCalm
<1> QED
  BY <1>1, <1>2, <1>3, <1>4, <1>5, <1>6 DEF Next, ServerStepOf, TabStep

LEMMA InvStep == IInv /\ [Next]_vars => IInv'
<1> SUFFICES ASSUME IInv, [Next]_vars PROVE IInv'
  OBVIOUS
<1>1. ServerInv'
  BY ServerStep DEF IInv
<1>2. BrowserTypeOK'
  BY BrowserStep DEF IInv, ServerInv
<1>3. ASSUME ~disturbed' PROVE Calm'
  <2>1. CASE Next
    BY <1>1, <1>3, <2>1, CalmStep
  <2>2. CASE UNCHANGED vars
    <3>1. Calm
      BY <1>3, DisturbedStays DEF IInv
    <3> QED
      BY <2>2, <3>1 DEF vars, serverVars, browserVars, history, Calm, Orderly, OneRenewal,
                        LiveHasFamily, RenewalsSucceed, NobodyInterferes, StorageIsGood,
                        ScreensAreQuiet, TabIsQuiet, Refresh, Live
  <2> QED
    BY <2>1, <2>2
<1> QED
  BY <1>1, <1>2, <1>3 DEF IInv

(* As long as nothing disturbed the browser, the token in storage is good  *)
(* or being renewed, by one tab alone, and every renewal succeeds.         *)
THEOREM CalmInvariant == Spec => []IInv
<1>1. Init => IInv
  BY InitInv
<1>2. IInv /\ [Next]_vars => IInv'
  BY InvStep
<1> QED
  BY <1>1, <1>2, PTL DEF Spec

(* client.ts: "a primeira renova, as demais aguardam".  A tab is sent back *)
(* to the login only after something that is not its own doing alone.      *)
THEOREM SessionKept == Spec => SessionLostForCause
<1> DEFINE A == \A b \in Tabs : /\ page[b].screen = "painel" \/ page[b].flight = "flying"
                                /\ page'[b].screen = "entrada"
                                => disturbed'
<1>1. IInv /\ [Next]_vars => [A]_vars
  <2> SUFFICES ASSUME IInv, Next, NEW b \in Tabs, ~disturbed',
                      page[b].screen = "painel" \/ page[b].flight = "flying",
                      page'[b].screen = "entrada"
               PROVE  FALSE
    OBVIOUS
  <2>1. page[b].screen = "entrada" \/ page[b] = Opened
    BY ServerStep, CalmStep DEF IInv
  <2>2. TabIsQuiet(b)
    BY DisturbedStays DEF IInv, Calm, ScreensAreQuiet
  <2> QED
    BY <2>1, <2>2 DEF Opened, TabIsQuiet
<1>2. Spec => [][A]_vars
  BY <1>1, CalmInvariant, PTL DEF Spec
<1> QED
  BY <1>2 DEF SessionLostForCause

-----------------------------------------------------------------------------
(* Types.                                                                  *)

LEMMA FaultsStep ==
  ASSUME faults \in 0..MaxFaults, [Next]_vars
  PROVE  faults' \in 0..MaxFaults
<1>1. CASE faults' = faults
  BY <1>1
<1>2. CASE faults < MaxFaults /\ faults' = faults + 1
  BY <1>2, PanelAuthAssumption
<1>3. ASSUME NEW c \in Calls, ServerStepOf(c) \/ Answer(c) PROVE faults' = faults
  BY <1>3 DEF ServerStepOf, Consumir, ConferirFamilia, Login, GravarToken, GravarFamilia,
              RevokeFamily, Answer, history
<1>4. ASSUME NEW c \in Calls, Falhar(c) \/ Perder(c) PROVE faults < MaxFaults /\ faults' = faults + 1
  BY <1>4 DEF Falhar, Perder, Fault
<1>5. ASSUME NEW t \in Tokens, Expirar(t) PROVE faults < MaxFaults /\ faults' = faults + 1
  BY <1>5 DEF Expirar, Fault
<1>6. ASSUME NEW b \in Tabs, TabStep(b)
      PROVE  faults' = faults \/ (faults < MaxFaults /\ faults' = faults + 1)
  BY <1>6 DEF TabStep, RestaurarSessao, Enviar, Responder, Recusada, Soltar, Recarregar, Entrar,
              Sair, history
<1>7. CASE UNCHANGED vars
  BY <1>7 DEF vars, history
<1> QED
  BY <1>1, <1>2, <1>3, <1>4, <1>5, <1>6, <1>7 DEF Next, ServerStepOf, TabStep

(* Every variable keeps its type; no answer, lost or late, makes the count *)
(* of requests that wait, or are repeated, go below zero.                  *)
THEOREM TypeCorrect == Spec => []TypeOK
<1>1. Init => faults \in 0..MaxFaults
  BY PanelAuthAssumption DEF Init
<1>2. faults \in 0..MaxFaults /\ [Next]_vars => (faults \in 0..MaxFaults)'
  BY FaultsStep
<1>3. IInv /\ faults \in 0..MaxFaults => TypeOK
  BY DEF IInv, ServerInv, ServerTypeOK, BrowserTypeOK, TypeOK, Call, Record, Page, Requests
<1> QED
  BY <1>1, <1>2, <1>3, CalmInvariant, PTL DEF Spec
=============================================================================
