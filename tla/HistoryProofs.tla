--------------------------- MODULE HistoryProofs ---------------------------
(***************************************************************************)
(* What History guarantees for any set of messages and any size of a page. *)
(*                                                                         *)
(* The argument.  timestamp and id together order the messages of an       *)
(* application totally, so that a cursor splits them into those it has     *)
(* passed and those still due.  A page takes the first of those that are   *)
(* due and leaves the cursor on its last one: what was given is never due  *)
(* again, and what was there all the time was given, or is due, or belongs *)
(* to an application that is still left, or the reader was cut off.        *)
(***************************************************************************)
EXTENDS History, FiniteSetTheorems, TLAPS

Due(r, cursor) ==
    \A c \in cursor : \/ r.timestamp < c.timestamp
                      \/ r.timestamp = c.timestamp /\ r.id < c.id

Places == [timestamp : Int, id : Int]

Readers == [kind : {"none", "lista", "export", "todas"}, app : Apps \cup {NoApp},
            left : SUBSET Apps, cursor : SUBSET Places, linhas : Nat, cut : BOOLEAN]

TypeOK ==
    /\ table \subseteq Rows /\ kept \subseteq table /\ got \subseteq Rows
    /\ reader \in Readers
    /\ twice \in BOOLEAN

GivenIsPassed ==
    \A r \in got : r.app \notin reader.left /\ (r.app = reader.app => ~Due(r, reader.cursor))

KeptIsAccountedFor ==
    \A r \in kept :
        \/ r \in got
        \/ reader.cut
        \/ r.app \in reader.left
        \/ r.app = reader.app /\ Due(r, reader.cursor)

IInv ==
    /\ TypeOK
    /\ reader.app \notin reader.left
    /\ reader.kind # "todas" => ~twice /\ GivenIsPassed /\ KeptIsAccountedFor

-----------------------------------------------------------------------------
(* Cursors and pages.                                                      *)

LEMMA RowFacts ==
  ASSUME NEW r \in Rows
  PROVE  r.id \in Int /\ r.timestamp \in Int /\ r.app \in Apps /\ r.app # NoApp
  BY HistoryAssumption DEF Apps

LEMMA EncodedPlace == ASSUME NEW r \in Rows PROVE EncodeCursor(r) \in SUBSET Places
  BY RowFacts DEF EncodeCursor, Places

LEMMA FoundIsDue ==
  ASSUME NEW a, NEW r
  PROVE  r \in Found(a) <=> r \in table /\ r.app = a /\ Due(r, reader.cursor)
  BY DEF Found, CursorWhere, Due

(* What is due after a message is what comes after it in the order. *)
LEMMA DueAfter ==
  ASSUME NEW l \in Rows, NEW r \in Rows
  PROVE  Due(r, EncodeCursor(l)) <=> Before(l, r)
  BY RowFacts DEF Due, EncodeCursor, Before

LEMMA BeforeOrder ==
  ASSUME NEW r \in Rows, NEW s \in Rows
  PROVE  ~(Before(r, s) /\ Before(s, r)) /\ ~Before(r, r)
  BY RowFacts DEF Before

(* A cursor that moves to a message which was due only moves forwards. *)
LEMMA CursorAdvances ==
  ASSUME NEW cursor \in SUBSET Places, NEW l \in Rows, NEW r \in Rows,
         Due(l, cursor), Due(r, EncodeCursor(l))
  PROVE  Due(r, cursor)
<1>1. Before(l, r)
  BY DueAfter
<1>2. SUFFICES ASSUME NEW c \in cursor
               PROVE  r.timestamp < c.timestamp \/ (r.timestamp = c.timestamp /\ r.id < c.id)
  BY DEF Due
<1>3. c.timestamp \in Int /\ c.id \in Int
  BY DEF Places
<1>4. l.timestamp < c.timestamp \/ (l.timestamp = c.timestamp /\ l.id < c.id)
  BY DEF Due
<1> QED
  BY <1>1, <1>3, <1>4, RowFacts DEF Before

(* A page, and the cursor that goes with it: nothing of the page is due    *)
(* any more, nor what was not due before, and the rest is still due.       *)
LEMMA PageAdvances ==
  ASSUME TypeOK, NEW a \in Apps, NEW limit, NEW page \in SUBSET Found(a),
         Take(page, Found(a), limit),
         NEW next \in NextCursor(page, Found(a))
  PROVE  /\ next \in SUBSET Places
         /\ next = NoCursor => page = Found(a)
         /\ next # NoCursor =>
              /\ \A r \in page : ~Due(r, next)
              /\ \A r \in Rows : Due(r, next) => Due(r, reader.cursor)
              /\ \A r \in Found(a) : r \in page \/ Due(r, next)
<1>1. CASE page = Found(a)
  BY <1>1 DEF NextCursor, NoCursor
<1>2. CASE page # Found(a)
  <2>1. PICK l \in Ultimo(page) : next = EncodeCursor(l)
    BY <1>2 DEF NextCursor
  <2>2. page \subseteq Rows /\ Found(a) \subseteq Rows
    BY FoundIsDue DEF TypeOK
  <2>3. l \in page /\ l \in Rows /\ \A s \in page \ {l} : Before(s, l)
    BY <2>1, <2>2 DEF Ultimo
  <2>4. next # NoCursor /\ next \in SUBSET Places
    BY <2>1, <2>3, EncodedPlace DEF EncodeCursor, NoCursor
  <2>5. ASSUME NEW r \in page PROVE ~Due(r, next)
    BY <2>1, <2>2, <2>3, DueAfter, BeforeOrder
  <2>6. ASSUME NEW r \in Rows, Due(r, next) PROVE Due(r, reader.cursor)
    <3>1. Due(l, reader.cursor)
      BY <2>3, FoundIsDue
    <3> QED
      BY <3>1, <2>1, <2>3, <2>6, CursorAdvances DEF TypeOK, Readers
  <2>7. ASSUME NEW r \in Found(a) PROVE r \in page \/ Due(r, next)
    BY <2>1, <2>2, <2>3, DueAfter DEF Take
  <2> QED
    BY <2>4, <2>5, <2>6, <2>7
<1> QED
  BY <1>1, <1>2

-----------------------------------------------------------------------------
(* The inductive invariant.                                                *)

LEMMA ReaderType ==
  ASSUME NEW kind \in {"none", "lista", "export", "todas"}, NEW a \in Apps \cup {NoApp},
         NEW left \in SUBSET Apps
  PROVE  Reader(kind, a, left) \in Readers
  BY DEF Reader, Readers, NoCursor

LEMMA InvInit == Init => IInv
<1> SUFFICES ASSUME Init PROVE IInv
  OBVIOUS
<1>1. TypeOK
  BY ReaderType DEF Init, TypeOK
<1>2. reader.app \notin reader.left
  BY DEF Init, Reader
<1> QED
  BY <1>1, <1>2 DEF Init, IInv, GivenIsPassed, KeptIsAccountedFor

LEMMA SurgirStep == ASSUME IInv, NEW r \in Rows, Surgir(r) PROVE IInv'
  BY DEF Surgir, IInv, TypeOK, GivenIsPassed, KeptIsAccountedFor

LEMMA SumirStep == ASSUME IInv, NEW r \in Rows, Sumir(r) PROVE IInv'
  BY DEF Sumir, IInv, TypeOK, GivenIsPassed, KeptIsAccountedFor

LEMMA ComecarStep == ASSUME IInv, Comecar PROVE IInv'
<1>1. TypeOK'
  <2>1. reader' \in Readers
    BY ReaderType DEF Comecar
  <2> QED
    BY <2>1 DEF IInv, TypeOK, Comecar
<1>2. reader'.app \notin reader'.left
  BY HistoryAssumption DEF Comecar, Reader
<1>3. got' = {} /\ twice' = FALSE /\ reader'.cursor = {}
  BY DEF Comecar, Reader, NoCursor
<1>4. KeptIsAccountedFor'
  <2>1. \A r \in kept' : r.app = reader'.app \/ r.app \in reader'.left
    BY RowFacts, HistoryAssumption DEF Comecar, IInv, TypeOK, Reader
  <2> QED
    BY <1>3, <2>1 DEF KeptIsAccountedFor, Due
<1> QED
  BY <1>1, <1>2, <1>3, <1>4 DEF IInv, GivenIsPassed

(* A page, whole or cut at the limit of lines, is received: what the list  *)
(* and the export have in common.                                          *)
LEMMA ReceiveStep ==
  ASSUME IInv, reader.kind # "todas", reader.app # NoApp,
         NEW limit, NEW page \in SUBSET Found(reader.app), NEW sent \in SUBSET page,
         Take(page, Found(reader.app), limit),
         NEW next \in NextCursor(page, Found(reader.app)),
         Receive(sent), TypeOK',
         reader'.kind = reader.kind, reader'.left = reader.left, reader'.cursor = next,
         reader'.app = reader.app \/ reader'.app = NoApp,
         reader'.app = NoApp => next = NoCursor \/ reader'.cut,
         next = NoCursor => reader'.app = NoApp,
         reader.cut => reader'.cut,
         reader'.cut \/ sent = page
  PROVE  IInv'
<1> DEFINE a == reader.app
<1>1. a \in Apps /\ a \notin reader.left /\ TypeOK /\ GivenIsPassed /\ KeptIsAccountedFor /\ ~twice
  BY DEF IInv, TypeOK, Readers
<1>2. /\ next = NoCursor => page = Found(a)
      /\ next # NoCursor =>
           /\ \A r \in page : ~Due(r, next)
           /\ \A r \in Rows : Due(r, next) => Due(r, reader.cursor)
           /\ \A r \in Found(a) : r \in page \/ Due(r, next)
  BY <1>1, PageAdvances
<1>3. \A r \in Found(a) : r \in Rows /\ r.app = a /\ Due(r, reader.cursor)
  BY <1>1, FoundIsDue DEF TypeOK
<1>4. got' = got \cup sent /\ kept' = kept /\ twice' = (twice \/ sent \cap got # {}) /\ table' = table
  BY DEF Receive
<1>5. ~twice'
  BY <1>1, <1>3, <1>4 DEF GivenIsPassed
<1>6. reader'.app \notin reader'.left
  BY <1>1, HistoryAssumption DEF TypeOK, Readers
<1>7. GivenIsPassed'
  <2> SUFFICES ASSUME NEW r \in got'
               PROVE  r.app \notin reader.left /\ (r.app = reader'.app => ~Due(r, next))
    BY DEF GivenIsPassed
  <2>1. r \in Rows
    BY <1>1, <1>3, <1>4 DEF TypeOK
  <2>2. r.app \notin reader.left
    BY <1>1, <1>3, <1>4 DEF GivenIsPassed
  <2>3. ASSUME r.app = reader'.app PROVE ~Due(r, next)
    <3>1. reader'.app = a /\ next # NoCursor
      BY <2>1, <2>3, RowFacts
    <3>2. CASE r \in sent
      BY <1>2, <3>1, <3>2
    <3>3. CASE r \in got
      BY <1>1, <1>2, <2>1, <2>3, <3>1, <3>3 DEF GivenIsPassed
    <3> QED
      BY <1>4, <3>2, <3>3
  <2> QED
    BY <2>2, <2>3
<1>8. KeptIsAccountedFor'
  <2> SUFFICES ASSUME NEW r \in kept, ~reader'.cut, r \notin got', r.app \notin reader.left
               PROVE  r.app = reader'.app /\ Due(r, next)
    BY <1>4 DEF KeptIsAccountedFor
  <2>1. r.app = a /\ Due(r, reader.cursor)
    BY <1>1, <1>4 DEF KeptIsAccountedFor, TypeOK
  <2>2. r \in Found(a) /\ r \notin page
    BY <1>1, <1>4, <2>1, FoundIsDue DEF TypeOK
  <2>3. next # NoCursor /\ reader'.app = a
    BY <1>2, <2>2
  <2> QED
    BY <1>2, <2>1, <2>2, <2>3
<1> QED
  BY <1>5, <1>6, <1>7, <1>8 DEF IInv

LEMMA ListMessagesStep == ASSUME IInv, ListMessages PROVE IInv'
<1>1. PICK limite \in 1..MaxPageSize, page \in SUBSET Found(reader.app) :
        /\ Take(page, Found(reader.app), limite)
        /\ \E next \in NextCursor(page, Found(reader.app)) :
            Advance(IF next = NoCursor THEN NoApp ELSE reader.app, reader.left, next,
                    reader.linhas, reader.cut)
        /\ Receive(page)
  BY DEF ListMessages
<1>2. PICK next \in NextCursor(page, Found(reader.app)) :
        Advance(IF next = NoCursor THEN NoApp ELSE reader.app, reader.left, next,
                reader.linhas, reader.cut)
  BY <1>1
<1>3. TypeOK /\ reader.kind = "lista" /\ reader.app # NoApp /\ reader.app \in Apps
  BY DEF IInv, ListMessages, TypeOK, Readers
<1>4. next \in SUBSET Places
  BY <1>1, <1>3, PageAdvances
<1>5. page \subseteq Rows
  BY <1>3, FoundIsDue DEF TypeOK
<1>6. TypeOK'
  BY <1>1, <1>2, <1>3, <1>4, <1>5 DEF TypeOK, Readers, Receive, Advance
<1>7. /\ reader'.kind = reader.kind /\ reader'.left = reader.left /\ reader'.cursor = next
      /\ reader'.cut = reader.cut /\ reader'.app = IF next = NoCursor THEN NoApp ELSE reader.app
  BY <1>2, <1>3 DEF TypeOK, Advance
<1> QED
  BY <1>1, <1>3, <1>6, <1>7, ReceiveStep

LEMMA ExportCsvStep == ASSUME IInv, ExportCsv PROVE IInv'
<1>0. PICK page \in SUBSET Found(reader.app) : \E sent \in SUBSET page :
        /\ Take(page, Found(reader.app), MaxPageSize)
        /\ Take(sent, page, MaxLinhas - reader.linhas)
        /\ \E next \in NextCursor(page, Found(reader.app)) :
            LET linhas == reader.linhas + Cardinality(sent) IN
            Advance(IF next = NoCursor \/ linhas >= MaxLinhas THEN NoApp ELSE reader.app,
                    reader.left, next, linhas, reader.cut \/ linhas >= MaxLinhas)
        /\ Receive(sent)
  BY DEF ExportCsv
<1>1. PICK sent \in SUBSET page :
        /\ Take(page, Found(reader.app), MaxPageSize)
        /\ Take(sent, page, MaxLinhas - reader.linhas)
        /\ \E next \in NextCursor(page, Found(reader.app)) :
            LET linhas == reader.linhas + Cardinality(sent) IN
            Advance(IF next = NoCursor \/ linhas >= MaxLinhas THEN NoApp ELSE reader.app,
                    reader.left, next, linhas, reader.cut \/ linhas >= MaxLinhas)
        /\ Receive(sent)
  BY <1>0
<1> DEFINE linhas == reader.linhas + Cardinality(sent)
<1>2. PICK next \in NextCursor(page, Found(reader.app)) :
        Advance(IF next = NoCursor \/ linhas >= MaxLinhas THEN NoApp ELSE reader.app,
                reader.left, next, linhas, reader.cut \/ linhas >= MaxLinhas)
  BY <1>1
<1>3. TypeOK /\ reader.kind = "export" /\ reader.app # NoApp /\ reader.app \in Apps
  BY DEF IInv, ExportCsv, TypeOK, Readers
<1>4. next \in SUBSET Places
  BY <1>1, <1>3, PageAdvances
<1>5. page \subseteq Rows
  BY <1>3, FoundIsDue DEF TypeOK
<1>6. Cardinality(sent) \in Nat /\ linhas \in Nat /\ reader.linhas \in Nat /\ MaxLinhas \in Nat
  <2>1. IsFiniteSet(sent)
    BY <1>5, FS_Subset, HistoryAssumption
  <2>2. Cardinality(sent) \in Nat
    BY <2>1, FS_CardinalityType
  <2>3. reader.linhas \in Nat /\ MaxLinhas \in Nat
    BY <1>3, HistoryAssumption DEF TypeOK, Readers
  <2> QED
    BY <2>2, <2>3
<1>7. linhas >= MaxLinhas \/ sent = page
  <2>1. sent = page \/ Cardinality(sent) = MaxLinhas - reader.linhas
    BY <1>1 DEF Take
  <2> QED
    BY <1>6, <2>1
<1>8. /\ reader'.kind = reader.kind /\ reader'.left = reader.left /\ reader'.cursor = next
      /\ reader'.cut = (reader.cut \/ linhas >= MaxLinhas) /\ reader'.linhas = linhas
      /\ reader'.app = IF next = NoCursor \/ linhas >= MaxLinhas THEN NoApp ELSE reader.app
  BY <1>2, <1>3 DEF TypeOK, Advance
<1>9. TypeOK'
  <2>1. reader' \in Readers
    BY <1>2, <1>3, <1>4, <1>6 DEF TypeOK, Readers, Advance
  <2> QED
    BY <1>1, <1>3, <1>5, <2>1 DEF TypeOK, Receive
<1> QED
  BY <1>1, <1>3, <1>7, <1>8, <1>9, ReceiveStep

LEMMA ProximaAplicacaoStep == ASSUME IInv, ProximaAplicacao PROVE IInv'
<1>1. PICK a \in reader.left :
        Advance(a, reader.left \ {a}, NoCursor, 0, reader.cut)
  BY DEF ProximaAplicacao
<1>2. /\ TypeOK /\ reader.kind = "export" /\ reader.app = NoApp
      /\ ~twice /\ GivenIsPassed /\ KeptIsAccountedFor
      /\ UNCHANGED <<table, got, twice, kept>>
  BY DEF IInv, ProximaAplicacao
<1>3. TypeOK'
  BY <1>1, <1>2 DEF TypeOK, Readers, NoCursor, Advance
<1>4. /\ reader'.app = a /\ reader'.left = reader.left \ {a} /\ reader'.cursor = {}
      /\ reader'.cut = reader.cut
  BY <1>1, <1>2 DEF TypeOK, NoCursor, Advance
<1>5. GivenIsPassed'
  BY <1>2, <1>4 DEF GivenIsPassed
<1>6. KeptIsAccountedFor'
  BY <1>2, <1>4, RowFacts DEF KeptIsAccountedFor, Due, TypeOK
<1> QED
  BY <1>2, <1>3, <1>4, <1>5, <1>6 DEF IInv

LEMMA SessaoNaoEncontradaStep == ASSUME IInv, SessaoNaoEncontrada PROVE IInv'
<1>1. /\ TypeOK /\ reader.kind # "todas" /\ reader.app # NoApp
      /\ ~twice /\ UNCHANGED <<table, got, twice, kept>>
  BY DEF IInv, SessaoNaoEncontrada
<1>2. Advance(NoApp, {}, NoCursor, reader.linhas, TRUE)
  BY DEF SessaoNaoEncontrada
<1>3. TypeOK'
  BY <1>1, <1>2 DEF TypeOK, Readers, NoCursor, Advance
<1>4. reader'.app = NoApp /\ reader'.left = {} /\ reader'.cut /\ reader'.cursor = {}
  BY <1>2 DEF Advance, NoCursor
<1>5. GivenIsPassed'
  BY <1>1, <1>4, RowFacts DEF GivenIsPassed, TypeOK
<1>6. KeptIsAccountedFor'
  BY <1>4 DEF KeptIsAccountedFor
<1> QED
  BY <1>1, <1>3, <1>4, <1>5, <1>6 DEF IInv

LEMMA ListarTodasStep == ASSUME IInv, ListarTodas PROVE IInv'
<1>1. PICK limite \in 1..MaxPageSize, pagina \in [Apps -> SUBSET table] :
        LET todas == UNION {pagina[a] : a \in Apps}
            more  == {a \in Apps : pagina[a] # Found(a)}
        IN /\ \A a \in Apps : Take(pagina[a], Found(a), limite)
           /\ \E page \in SUBSET todas : Receive(page)
           /\ \E next \in IF more = {} THEN {NoCursor}
                          ELSE UNION {NextCursor(pagina[a], Found(a)) : a \in more} :
                Advance(reader.app, IF next = NoCursor THEN {} ELSE reader.left, next,
                        reader.linhas, reader.cut)
  BY DEF ListarTodas
<1>2. TypeOK /\ reader.kind = "todas" /\ reader.app \notin reader.left
  BY DEF IInv, ListarTodas
<1>3. PICK page \in SUBSET UNION {pagina[a] : a \in Apps} : Receive(page)
  BY <1>1
<1>4. page \subseteq Rows
  BY <1>2, <1>3 DEF TypeOK, Advance
<1>5. PICK next \in SUBSET Places :
        Advance(reader.app, IF next = NoCursor THEN {} ELSE reader.left, next,
                reader.linhas, reader.cut)
  <2>1. \A a \in Apps : pagina[a] \in SUBSET Found(a) /\ Take(pagina[a], Found(a), limite)
    BY <1>1 DEF Take
  <2>2. \A a \in Apps : NextCursor(pagina[a], Found(a)) \subseteq SUBSET Places
    BY <1>2, <2>1, PageAdvances
  <2> QED
    BY <1>1, <2>2 DEF NoCursor
<1>6. TypeOK'
  BY <1>2, <1>3, <1>4, <1>5 DEF TypeOK, Readers, Receive, Advance
<1>7. reader'.kind = "todas" /\ reader'.app = reader.app /\ reader'.left \subseteq reader.left
  BY <1>2, <1>5 DEF TypeOK, Advance
<1> QED
  BY <1>2, <1>6, <1>7 DEF IInv

LEMMA InvStep == IInv /\ [Next]_vars => IInv'
<1> SUFFICES ASSUME IInv, [Next]_vars PROVE IInv'
  OBVIOUS
<1>1. CASE \E r \in Rows : Surgir(r) \/ Sumir(r)
  BY <1>1, SurgirStep, SumirStep
<1>2. CASE Comecar
  BY <1>2, ComecarStep
<1>3. CASE Read
  BY <1>3, ListMessagesStep, ExportCsvStep, ProximaAplicacaoStep, ListarTodasStep DEF Read
<1>4. CASE SessaoNaoEncontrada
  BY <1>4, SessaoNaoEncontradaStep
<1>5. CASE UNCHANGED vars
  BY <1>5 DEF vars, IInv, TypeOK, GivenIsPassed, KeptIsAccountedFor
<1> QED
  BY <1>1, <1>2, <1>3, <1>4, <1>5 DEF Next

(* The variables keep their types, and the invariant above is one. *)
THEOREM Invariant == Spec => []IInv
  BY InvInit, InvStep, PTL DEF Spec

-----------------------------------------------------------------------------
(* "O cursor não repete", however many messages there are, with any ties   *)
(* of their timestamps, whatever comes, goes and comes back meanwhile.     *)
THEOREM NoMessageTwice == Spec => []NothingRepeated
<1>1. IInv => NothingRepeated
  BY DEF IInv, NothingRepeated
<1> QED
  BY <1>1, Invariant, PTL

(* "Nem pula registros": the pages of a reader that came to the end hold   *)
(* every message that was there all the time.                              *)
THEOREM NoMessageSkipped == Spec => []NothingSkipped
<1>1. IInv => NothingSkipped
  BY RowFacts DEF IInv, NothingSkipped, Reading, KeptIsAccountedFor, TypeOK
<1> QED
  BY <1>1, Invariant, PTL
=============================================================================
