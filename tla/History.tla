------------------------------ MODULE History ------------------------------
(***************************************************************************)
(* The history of messages, read page by page with a cursor while rows     *)
(* come and go: by an integrator, by the export, and by the panel over all *)
(* applications at once.  A page is the set of its rows; its order is that *)
(* of the query.                                                           *)
(***************************************************************************)
EXTENDS Integers, FiniteSets

CONSTANTS
    Rows,           \* the messages that may ever be there: id, application, timestamp
    MaxPageSize,
    MaxLinhas       \* the lines of an export, for one application

NoApp == "no application"
NoCursor == {}  \* a cursor is the set of the one place it names

Apps == {r.app : r \in Rows}

ASSUME HistoryAssumption ==
    /\ IsFiniteSet(Rows)
    /\ \A r \in Rows : r.id \in Int /\ r.timestamp \in Int
    /\ \A r, s \in Rows : r.id = s.id => r = s
    /\ NoApp \notin Apps
    /\ MaxPageSize \in Nat \ {0} /\ MaxLinhas \in Nat \ {0}

VARIABLES
    table,      \* the rows that are there and match the reader's filter
    reader,     \* who reads, the application, those left, and the cursor
    got,        \* the rows it was given
    twice,      \* history: it was given a row again
    kept        \* history: the rows that were there all the time since it began

vars == <<table, reader, got, twice, kept>>

(* orderBy: timestamp, then id, both descending. *)
Before(r, s) ==
    \/ r.timestamp > s.timestamp
    \/ r.timestamp = s.timestamp /\ r.id > s.id

(* The rest of the row does not go into a cursor. *)
EncodeCursor(r) == {[timestamp |-> r.timestamp, id |-> r.id]}

MutantDesempate(rows, cursor) == \* the row of the cursor itself is found again
    {r \in rows : \A c \in cursor : ~Before(r, c)}

MutantSemDesempate(rows, cursor) == \* the timestamp alone
    {r \in rows : \A c \in cursor : r.timestamp < c.timestamp}

(* The rows that come after the cursor. *)
CursorWhere(rows, cursor) ==
    {r \in rows : \A c \in cursor : \/ r.timestamp < c.timestamp
                                    \/ r.timestamp = c.timestamp /\ r.id < c.id}

(* page is what take leaves of rows. *)
Take(page, rows, limit) ==
    /\ page \subseteq rows
    /\ \A r \in page, s \in rows \ page : Before(r, s)
    /\ \/ page = rows /\ Cardinality(rows) <= limit
       \/ Cardinality(page) = limit

Ultimo(page) == {r \in page : \A s \in page \ {r} : Before(s, r)}

MutantNextCursor(page, rows) == \* an empty page repeats the cursor it was asked with
    IF rows = {} THEN {reader.cursor} ELSE {EncodeCursor(r) : r \in Ultimo(page)}

(* The query asks for one row more: without it, this was the last page. *)
NextCursor(page, rows) ==
    IF page = rows THEN {NoCursor} ELSE {EncodeCursor(r) : r \in Ultimo(page)}

(* What the where of listMessages leaves of an application. *)
Found(a) == CursorWhere({r \in table : r.app = a}, reader.cursor)

Reader(kind, app, left) ==
    [kind |-> kind, app |-> app, left |-> left, cursor |-> NoCursor, linhas |-> 0, cut |-> FALSE]

(* The reader goes on, or comes to an end, with this cursor. *)
Advance(app, left, cursor, linhas, cut) ==
    reader' = [kind |-> reader.kind, app |-> app, left |-> left, cursor |-> cursor,
               linhas |-> linhas, cut |-> cut]

Reading == reader.app # NoApp \/ reader.left # {}

Init ==
    /\ table \in SUBSET Rows
    /\ reader = Reader("none", NoApp, {})
    /\ got = {}
    /\ twice = FALSE
    /\ kept = {}

-----------------------------------------------------------------------------
(* A message is sent or received, with any timestamp, or a status takes a  *)
(* row into the filter.                                                    *)
Surgir(r) ==
    /\ r \notin table
    /\ table' = table \cup {r}
    /\ UNCHANGED <<reader, got, twice, kept>>

(* A session is removed, or a status takes a row out of the filter. *)
Sumir(r) ==
    /\ r \in table
    /\ table' = table \ {r}
    /\ kept' = kept \ {r}
    /\ UNCHANGED <<reader, got, twice>>

(* A reader begins: an integrator with the pages or the export of its      *)
(* application, the panel with one or with all.                            *)
Comecar ==
    /\ ~Reading
    /\ \/ \E a \in Apps, kind \in {"lista", "export"} :
            /\ reader' = Reader(kind, a, {})
            /\ kept' = {r \in table : r.app = a}
       \/ /\ \E a \in Apps :
                reader' = Reader("export", a, Apps \ {a})
          /\ kept' = table
       \/ /\ reader' = Reader("todas", NoApp, Apps)
          /\ kept' = table
    /\ got' = {}
    /\ twice' = FALSE
    /\ UNCHANGED table

Receive(page) ==
    /\ got' = got \cup page
    /\ twice' = (twice \/ page \cap got # {})
    /\ UNCHANGED <<table, kept>>

(* listMessages, as long as there is a cursor. *)
ListMessages ==
    /\ reader.kind = "lista" /\ reader.app # NoApp
    /\ \E limite \in 1..MaxPageSize, page \in SUBSET Found(reader.app) :
        /\ Take(page, Found(reader.app), limite)
        /\ \E next \in NextCursor(page, Found(reader.app)) :
            Advance(IF next = NoCursor THEN NoApp ELSE reader.app, reader.left, next,
                    reader.linhas, reader.cut)
        /\ Receive(page)

(* exportCsv: pages of the largest size; maxLinhas cuts the last one. *)
ExportCsv ==
    /\ reader.kind = "export" /\ reader.app # NoApp
    /\ \E page \in SUBSET Found(reader.app) : \E sent \in SUBSET page :
        /\ Take(page, Found(reader.app), MaxPageSize)
        /\ Take(sent, page, MaxLinhas - reader.linhas)
        /\ \E next \in NextCursor(page, Found(reader.app)) :
            LET linhas == reader.linhas + Cardinality(sent) IN
            Advance(IF next = NoCursor \/ linhas >= MaxLinhas THEN NoApp ELSE reader.app,
                    reader.left, next, linhas, reader.cut \/ linhas >= MaxLinhas)
        /\ Receive(sent)

(* The panel's export goes on to the next application. *)
ProximaAplicacao ==
    /\ reader.kind = "export" /\ reader.app = NoApp
    /\ \E a \in reader.left :
        Advance(a, reader.left \ {a}, NoCursor, 0, reader.cut)
    /\ UNCHANGED <<table, got, twice, kept>>

(* listarTodas: a page of each application, merged by timestamp and cut;   *)
(* the cursor is that of the first page that has one, whatever order the   *)
(* applications come in.                                                   *)
ListarTodas ==
    /\ reader.kind = "todas" /\ reader.left # {}
    /\ \E limite \in 1..MaxPageSize, pagina \in [Apps -> SUBSET table] :
        LET todas == UNION {pagina[a] : a \in Apps}
            more  == {a \in Apps : pagina[a] # Found(a)}
        IN /\ \A a \in Apps : Take(pagina[a], Found(a), limite)
           /\ \E page \in SUBSET todas :
                /\ \/ page = todas /\ Cardinality(todas) <= limite
                   \/ Cardinality(page) = limite
                /\ \A r \in page, s \in todas \ page :
                        r.timestamp >= s.timestamp /\ (r.app = s.app => Before(r, s))
                /\ Receive(page)
           /\ \E next \in IF more = {} THEN {NoCursor}
                          ELSE UNION {NextCursor(pagina[a], Found(a)) : a \in more} :
                Advance(reader.app, IF next = NoCursor THEN {} ELSE reader.left, next,
                        reader.linhas, reader.cut)

(* Whoever filters by a session that the application does not have (any    *)
(* more) is answered 404; an export of several applications breaks off at  *)
(* the first without it, in the middle of the file.                        *)
SessaoNaoEncontrada ==
    /\ reader.kind \in {"lista", "export"} /\ reader.app # NoApp
    /\ Advance(NoApp, {}, NoCursor, reader.linhas, TRUE)
    /\ UNCHANGED <<table, got, twice, kept>>

-----------------------------------------------------------------------------
Read == ListMessages \/ ExportCsv \/ ProximaAplicacao \/ ListarTodas

Next ==
    \/ \E r \in Rows : Surgir(r) \/ Sumir(r)
    \/ Comecar
    \/ SessaoNaoEncontrada
    \/ Read

Spec == Init /\ [][Next]_vars

(* A reader that was given a cursor asks for the next page. *)
FairSpec == Spec /\ WF_vars(Read)

-----------------------------------------------------------------------------
(* Properties.                                                             *)

(* "O cursor não repete": whatever comes, goes and comes back meanwhile,   *)
(* an integrator and an export are given no message twice.                 *)
NothingRepeated == reader.kind # "todas" => ~twice

(* "Nem pula registros": a reader that was told that this is all has been  *)
(* given every message that was there all the time.  An export that        *)
(* reached its limit of lines, or met an application that does not have    *)
(* the session it filters by, was cut off.                                 *)
NothingSkipped ==
    reader.kind # "todas" /\ ~Reading /\ ~reader.cut => kept \subseteq got

(* do ... while (cursor) ends, however many messages arrive meanwhile. *)
TraversalEnds == Reading ~> ~Reading

(* "Ele continua apontando para o ponto certo"                             *)
(* (admin-history.controller.ts:155): so does the panel's list of all      *)
(* applications.                                                           *)
MergedSkipsNothing ==
    reader.kind = "todas" /\ ~Reading => kept \subseteq got
=============================================================================
