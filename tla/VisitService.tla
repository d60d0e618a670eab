---------------------------- MODULE VisitService ----------------------------
(***************************************************************************)
(* RequestHandler::service (requesthandler.cpp): the handler threads of    *)
(* the HTTP server all run it at once, on one RequestHandler object and on *)
(* the one database connection of ServerSettings (startup.h), without a    *)
(* lock.  One SQL statement is atomic; whatever happens between two        *)
(* statements, or between reading a flag and using it, is a step of its    *)
(* own.                                                                    *)
(*                                                                         *)
(* Left out: the PostgreSQL branch, UPDATE statements, and the text of     *)
(* query results.  Of the photo files only this is left: that one which is *)
(* to be opened, written or sent may fail to open at any time.             *)
(***************************************************************************)
EXTENDS Integers, Sequences, FiniteSets

CONSTANTS
    Threads,                  \* handler threads of the HTTP server
    Members, Groups, Events,  \* keys the tables may hold
    Checkpoints,              \* inspector IDs
    Schedule,                 \* Schedule[e]: where and when event e is
    Databases,                \* database files
    Unopenable,               \* those database.open() cannot open
    Names,                    \* what a database is called in settings, requests
    Paths,                    \* the names with a slash or a backslash
    InFolder,                 \* InFolder[n]: the file docroot/../sqlite/n
    AsIs,                     \* AsIs[n]: the file with the path n
    Configured,               \* the name in the settings file
    Content,                  \* Content[d]: the rows of file d at first
    Requests,                 \* requests the clients may send
    MaxRequests,              \* bound: requests sent in all
    MaxSwitching,             \* bound: "set dbname" requests served at once
    TicksPerDay, UtcOffset,   \* resolution of the clock; local time - UTC
    FirstTick, LastTick       \* bound: the time the model covers

\* The columns mon..sun of a weekly event, and what the query compares with
\* strftime('%w') for each of them.
WeekdayNumber == [mon |-> 1, tue |-> 2, wed |-> 3, thu |-> 4, fri |-> 5,
                  sat |-> 6, sun |-> 7]
Weekdays == DOMAIN WeekdayNumber

Guests == Members \cup Groups
\* Besides the tables of the schema, the one in which SQLite counts their keys.
Tables == {"members", "groupnames", "groups", "events", "invites", "visits",
           "sqlite_sequence"}

Statements ==
    [op : {"delete"}, key : Guests \cup Events]
      \cup [op : {"delete all"}, table : Tables]
      \cup [op : {"insert member"}, member : Members]
      \cup [op : {"delete invites"}, guest : Guests]
      \cup [op : {"insert invite"}, event : Events, guest : Guests]

AllRequests ==
    [kind : {"visit"}, member : Members, checkpoint : Checkpoints]
      \cup [kind : {"sql"}, statements : Seq(Statements)]
      \cup [kind : {"set dbname"}, name : Names]
      \cup [kind : {"set dbstatus"}, busy : BOOLEAN]
      \cup [kind : {"wipe", "get name", "get dbstatus", "ping", "other",
                    "image", "uploadimage", "delete photo", "wrong password", "wrong sudo password",
                    "wrong db password"}]

\* A row of visits; inserted is the number of the INSERT that made it.
Visits == [member : Members, event : Events, date : Int, time : Nat,
           inserted : Nat]

Rows == [members : SUBSET Members, groupnames : SUBSET Groups,
         events : SUBSET Events, groups : SUBSET (Groups \X Members),
         invites : SUBSET (Events \X Guests), visits : SUBSET Visits]

ASSUME ServiceAssumption ==
    /\ Requests \subseteq AllRequests
    /\ Schedule \in [Events -> [checkpoint : Checkpoints, date : Int,
                                days : SUBSET Weekdays,
                                beginning : Nat, ending : Nat]]
    /\ Unopenable \subseteq Databases
    /\ Configured \in Names /\ Paths \subseteq Names
    /\ InFolder \in [Names -> Databases] /\ AsIs \in [Paths -> Databases]
    /\ Members \cap Groups = {} /\ Events \cap Guests = {}
    /\ Content \in [Databases -> Rows]
    /\ \A d \in Databases : \A v \in Content[d].visits : v.inserted = 0
    /\ IsFiniteSet(Threads)
    /\ MaxRequests \in Nat /\ MaxSwitching \in Nat
    /\ TicksPerDay \in Nat \ {0} /\ UtcOffset \in Int
    /\ FirstTick \in Nat /\ LastTick \in Nat /\ FirstTick <= LastTick

VARIABLES
    clock,         \* local time, in ticks
    db,            \* db[d]: the rows of file d
    inserted,      \* INSERTs into visits so far
    isOpen, file,  \* the connection is open, and on which file
    foreignKeys,   \* PRAGMA foreign_keys of the connection
    name,          \* the file that the next open() opens (setDatabaseName)
    sqlite,        \* ServerSettings->sqlite, also saved in the settings file
    databaseBusy,  \* ServerSettings->databaseBusy
    pc, request,   \* where service() is in each thread, and for what
    todo,          \* statements that service() has still to execute
    curdbname,     \* local of "set dbname="
    answers,       \* what service() has written to the response, in order
    received       \* requests received so far

connection == <<isOpen, file, foreignKeys, name>>
settings == <<sqlite, databaseBusy>>
threadVars == <<pc, request, todo, curdbname, answers>>
vars == <<clock, db, inserted, connection, settings, threadVars, received>>

Places == {"idle", "reopen", "pragma", "dispatch", "select", "insert",
           "statements", "wipe", "failed wipe", "set name", "open new",
           "new pragma", "record", "restore", "open old"}
Answers == {"404", "ping", "accessdenied", "databaseerror", "granted",
            "picture", "photo", "defaultface", "Image accepted",
            "Image rejected", "name", "unknown command", "status", "error",
            "request executed", "db not opened"}

TypeOK ==
    /\ clock \in Nat
    /\ db \in [Databases -> Rows]
    /\ inserted \in Nat
    /\ isOpen \in BOOLEAN /\ foreignKeys \in BOOLEAN
    /\ file \in Databases /\ name \in Databases
    /\ sqlite \in Names /\ databaseBusy \in BOOLEAN
    /\ pc \in [Threads -> Places]
    /\ request \in [Threads -> Requests \cup {<<>>}]
    /\ todo \in [Threads -> Seq(Statements)]
    /\ curdbname \in [Threads -> Names]
    /\ answers \in [Threads -> Seq(Answers)]
    /\ received \in Nat

\* A name with a slash is used as it is, any other in the folder.
FileAtStart(n) == IF n \in Paths THEN AsIs[n] ELSE InFolder[n]

Init ==
    /\ clock = FirstTick
    /\ db = Content
    /\ inserted = 0
    /\ sqlite = Configured
    /\ name = FileAtStart(Configured) /\ file = name
    /\ isOpen = (name \notin Unopenable)
    /\ foreignKeys = isOpen
    /\ databaseBusy = FALSE
    /\ pc = [h \in Threads |-> "idle"]
    /\ request = [h \in Threads |-> <<>>]
    /\ todo = [h \in Threads |-> <<>>]
    /\ curdbname = [h \in Threads |-> Configured]
    /\ answers = [h \in Threads |-> <<>>]
    /\ received = 0

Tick ==
    /\ clock < LastTick
    /\ clock' = clock + 1
    /\ UNCHANGED <<db, inserted, connection, settings, threadVars, received>>

-----------------------------------------------------------------------------
(* What the SQL statements compute from the rows D of a database.          *)

LocalDay  == clock \div TicksPerDay
LocalTime == clock % TicksPerDay
UtcDay    == (clock - UtcOffset) \div TicksPerDay

\* The day test of the query: strftime() without modifier is in UTC, and '%w'
\* counts from 0 (Sunday) to 6; day 0 of the model is a Sunday.
OnThisDay(e) ==
    \/ Schedule[e].date = UtcDay
    \/ \E d \in Schedule[e].days : WeekdayNumber[d] = UtcDay % 7

InHours(e) ==
    /\ Schedule[e].beginning < LocalTime
    /\ LocalTime < Schedule[e].ending

Invited(D, e, m) ==
    /\ m \in D.members
    /\ \/ <<e, m>> \in D.invites
       \/ \E g \in Groups : <<g, m>> \in D.groups /\ <<e, g>> \in D.invites

\* Mutant: asks for no earlier visit.
NeverVisited(D, m, k) == FALSE
\* Mutant: a visit of any member counts.
AnyoneVisitedToday(D, m, k) ==
    \E v \in D.visits : v.date = LocalDay /\ Schedule[v.event].checkpoint = k
\* "eventid=visits.eventid" compares a column of visits with itself: a visit
\* to any event at the checkpoint counts.
VisitedToday(D, m, k) ==
    \E v \in D.visits :
        /\ v.member = m /\ v.date = LocalDay
        /\ Schedule[v.event].checkpoint = k

\* The events of the WHERE clause that both statements of "new visit" share.
OpenEvents(D, m, k) ==
    {e \in D.events :
        /\ Schedule[e].checkpoint = k
        /\ OnThisDay(e) /\ InHours(e)
        /\ Invited(D, e, m)
        /\ ~VisitedToday(D, m, k)}

\* Mutant: the INSERT trusts the SELECT and tests the earlier visit only.
NewVisitsUnchecked(D, m, k) ==
    {[member |-> m, event |-> e, date |-> LocalDay, time |-> LocalTime,
      inserted |-> inserted + 1] :
        e \in {e \in D.events : /\ Schedule[e].checkpoint = k
                                /\ ~VisitedToday(D, m, k)}}
NewVisits(D, m, k) ==
    {[member |-> m, event |-> e, date |-> LocalDay, time |-> LocalTime,
      inserted |-> inserted + 1] : e \in OpenEvents(D, m, k)}

\* Mutant: the schema without ON DELETE CASCADE.
DeleteOnly(D, keys) ==
    [D EXCEPT !.members = @ \ keys, !.groupnames = @ \ keys,
              !.events = @ \ keys]
\* DELETE of the rows with these keys; the references to them go too while
\* foreign keys are enforced.
Delete(D, keys) ==
    LET gone == IF foreignKeys THEN keys ELSE {}
    IN [D EXCEPT
          !.members = @ \ keys, !.groupnames = @ \ keys, !.events = @ \ keys,
          !.groups = {p \in @ : p[1] \notin gone /\ p[2] \notin gone},
          !.invites = {i \in @ : i[1] \notin gone /\ i[2] \notin gone},
          !.visits = {v \in @ : v.member \notin gone /\ v.event \notin gone}]

DeleteAll(D, table) ==
    CASE table \in {"members", "groupnames", "events"} -> Delete(D, D[table])
      [] table \in {"groups", "invites", "visits"} -> [D EXCEPT ![table] = {}]
      [] table = "sqlite_sequence" -> D

\* The statement violates a UNIQUE, NOT NULL or CHECK constraint.
Fails(D, s) ==
    \/ s.op = "insert member" /\ s.member \in D.members
    \/ /\ s.op = "insert invite"
       /\ \/ s.event \notin D.events
          \/ s.guest \notin D.members \cup D.groupnames
          \/ <<s.event, s.guest>> \in D.invites

Result(D, s) ==
    CASE s.op = "delete" -> Delete(D, {s.key} \cap (D.members \cup D.groupnames
                                                    \cup D.events))
      [] s.op = "delete all" -> DeleteAll(D, s.table)
      [] s.op = "insert member" -> [D EXCEPT !.members = @ \cup {s.member}]
      [] s.op = "delete invites" ->
           [D EXCEPT !.invites = {i \in @ : i[2] # s.guest}]
      [] s.op = "insert invite" ->
           [D EXCEPT !.invites = @ \cup {<<s.event, s.guest>>}]

-----------------------------------------------------------------------------
(* service(): what every request begins with.                              *)

Goto(h, place) == pc' = [pc EXCEPT ![h] = place]

\* response.write(answer, true)
Write(h, answer) == answers' = [answers EXCEPT ![h] = Append(@, answer)]

Return(h, answer) == Write(h, answer) /\ Goto(h, "idle")

\* The threads that serve a "set dbname" request.
Switching == {h \in Threads : pc[h] # "idle" /\ request[h].kind = "set dbname"}

Receive(h, r) ==
    /\ pc[h] = "idle"
    /\ received < MaxRequests
    /\ r.kind = "set dbname" => Cardinality(Switching) < MaxSwitching
    /\ received' = received + 1
    /\ request' = [request EXCEPT ![h] = r]
    /\ answers' = [answers EXCEPT ![h] = <<>>]
    /\ Goto(h, IF ~isOpen /\ ~databaseBusy THEN "reopen" ELSE "dispatch")
    /\ UNCHANGED <<clock, db, inserted, connection, settings, todo, curdbname>>

\* database.open(): an open connection is closed first, and a new one does not
\* enforce foreign keys.
Open ==
    /\ isOpen' = (name \notin Unopenable)
    /\ file' = IF name \in Unopenable THEN file ELSE name
    /\ foreignKeys' = FALSE
    /\ UNCHANGED name

\* Mutant: the pragma is not repeated.
NoPragma == UNCHANGED connection
Pragma ==
    /\ foreignKeys' = isOpen
    /\ UNCHANGED <<isOpen, file, name>>

Reopen(h) ==
    /\ pc[h] = "reopen"
    /\ Open
    /\ Goto(h, "pragma")
    /\ UNCHANGED <<clock, db, inserted, settings, request, todo, curdbname,
                   answers, received>>

ReopenPragma(h) ==
    /\ pc[h] = "pragma"
    /\ Pragma
    /\ Goto(h, "dispatch")
    /\ UNCHANGED <<clock, db, inserted, settings, request, todo, curdbname,
                   answers, received>>

-----------------------------------------------------------------------------
(* The branches that answer at once.                                       *)

Kind(h) == request[h].kind

AtDispatch(h, kinds) == pc[h] = "dispatch" /\ Kind(h) \in kinds

\* A request of another path or command gets images/1.jpg, and so does a visit
\* while databaseBusy is set; if that file cannot be opened nothing is written.
AnswerPicture(h) ==
    /\ \/ AtDispatch(h, {"other"})
       \/ AtDispatch(h, {"visit"}) /\ databaseBusy
    /\ \/ Return(h, "picture")
       \/ Goto(h, "idle") /\ UNCHANGED answers
    /\ UNCHANGED <<clock, db, inserted, connection, settings, request, todo,
                   curdbname, received>>

\* A photo is read or stored; the file may be impossible to open.
AnswerImage(h) ==
    /\ AtDispatch(h, {"image", "uploadimage"})
    /\ \E answer \in IF Kind(h) = "image" THEN {"photo", "defaultface"}
                     ELSE {"Image accepted", "Image rejected"} :
          Return(h, answer)
    /\ UNCHANGED <<clock, db, inserted, connection, settings, request, todo,
                   curdbname, received>>

AnswerText(h) ==
    /\ AtDispatch(h, {"wrong password", "wrong sudo password",
                      "wrong db password", "ping", "get dbstatus"})
    /\ Return(h, CASE Kind(h) = "wrong password"      -> "404"
                   [] Kind(h) = "wrong sudo password" -> "accessdenied"
                   [] Kind(h) = "wrong db password"   -> "error"
                   [] Kind(h) = "ping"                -> "ping"
                   [] Kind(h) = "get dbstatus"        -> "status")
    /\ UNCHANGED <<clock, db, inserted, connection, settings, request, todo,
                   curdbname, received>>

\* "get name" is no branch of the if-chain that follows it, whose else writes.
GetName(h) ==
    /\ AtDispatch(h, {"get name"})
    /\ answers' = [answers EXCEPT ![h] = @ \o <<"name", "unknown command">>]
    /\ Goto(h, "idle")
    /\ UNCHANGED <<clock, db, inserted, connection, settings, request, todo,
                   curdbname, received>>

\* Nothing is written here, nor by the next action: the connection handler ends
\* the response.
SetDbStatus(h) ==
    /\ AtDispatch(h, {"set dbstatus"})
    /\ databaseBusy' = request[h].busy
    /\ Goto(h, "idle")
    /\ UNCHANGED <<clock, db, inserted, connection, sqlite, request, todo,
                   curdbname, answers, received>>

DeletePhoto(h) ==
    /\ AtDispatch(h, {"delete photo"})
    /\ Goto(h, "idle")
    /\ UNCHANGED <<clock, db, inserted, connection, settings, request, todo,
                   curdbname, answers, received>>

-----------------------------------------------------------------------------
(* "new visit".                                                            *)

BeginVisit(h) ==
    /\ AtDispatch(h, {"visit"}) /\ ~databaseBusy
    /\ Goto(h, "select")
    /\ UNCHANGED <<clock, db, inserted, connection, settings, request, todo,
                   curdbname, answers, received>>

Candidates(h) == OpenEvents(db[file], request[h].member, request[h].checkpoint)

CheckVisit(h) ==
    /\ pc[h] = "select"
    /\ IF ~isOpen THEN Return(h, "databaseerror")
       ELSE IF Candidates(h) = {} THEN Return(h, "accessdenied")
       ELSE Goto(h, "insert") /\ UNCHANGED answers
    /\ UNCHANGED <<clock, db, inserted, connection, settings, request, todo,
                   curdbname, received>>

\* INSERT INTO visits ... SELECT repeats the whole test.  An INSERT that adds
\* no row is active too and answered with the photo.
AddVisit(h) ==
    /\ pc[h] = "insert"
    /\ IF ~isOpen THEN Return(h, "databaseerror") /\ UNCHANGED <<db, inserted>>
       ELSE /\ db' = [db EXCEPT ![file].visits = @ \cup
                        NewVisits(db[file], request[h].member,
                                  request[h].checkpoint)]
            /\ inserted' = inserted + 1
            /\ Return(h, "granted")
    /\ UNCHANGED <<clock, connection, settings, request, todo, curdbname,
                   received>>

-----------------------------------------------------------------------------
(* "execute sqlquery" and "wipe table": several statements, one by one.    *)

\* Mutant: one table name is misspelt.
WipeStatementsMisspelt ==
    << [op |-> "delete all", table |-> "members"],
       [op |-> "delete all", table |-> "groupname"],
       [op |-> "delete all", table |-> "visits"] >>
WipeStatements ==
    << [op |-> "delete all", table |-> "members"],
       [op |-> "delete all", table |-> "groupnames"],
       [op |-> "delete all", table |-> "groups"],
       [op |-> "delete all", table |-> "events"],
       [op |-> "delete all", table |-> "invites"],
       [op |-> "delete all", table |-> "visits"],
       [op |-> "delete all", table |-> "sqlite_sequence"] >>

BeginStatements(h) ==
    /\ AtDispatch(h, {"sql", "wipe"})
    /\ todo' = [todo EXCEPT ![h] = IF Kind(h) = "wipe" THEN WipeStatements
                                   ELSE request[h].statements]
    /\ Goto(h, IF Kind(h) = "wipe" THEN "wipe" ELSE "statements")
    /\ UNCHANGED <<clock, db, inserted, connection, settings, request,
                   curdbname, answers, received>>

Execute(h) ==
    /\ todo[h] # <<>>
    /\ isOpen /\ ~Fails(db[file], Head(todo[h]))
    /\ db' = [db EXCEPT ![file] = Result(@, Head(todo[h]))]
    /\ todo' = [todo EXCEPT ![h] = Tail(@)]

InBatch(h) == pc[h] \in {"statements", "wipe", "failed wipe"}

ExecuteStatement(h) ==
    /\ InBatch(h)
    /\ Execute(h)
    /\ UNCHANGED <<clock, inserted, connection, settings, pc, request,
                   curdbname, answers, received>>

Rejected(h) == todo[h] # <<>> /\ (isOpen => Fails(db[file], Head(todo[h])))

\* Mutant: the missing "return" after the error.
StatementErrorGoesOn(h) ==
    /\ pc[h] = "statements"
    /\ Rejected(h)
    /\ todo' = [todo EXCEPT ![h] = Tail(@)]
    /\ Write(h, "error")
    /\ UNCHANGED <<clock, db, inserted, connection, settings, pc, request,
                   curdbname, received>>
\* A batch of queries ends with its first error: what it did before stays.
StatementError(h) ==
    /\ pc[h] = "statements"
    /\ Rejected(h)
    /\ todo' = [todo EXCEPT ![h] = <<>>]
    /\ Return(h, "error")
    /\ UNCHANGED <<clock, db, inserted, connection, settings, request,
                   curdbname, received>>

\* "wipe table" goes on after an error, which it reports at the end.
WipeError(h) ==
    /\ pc[h] \in {"wipe", "failed wipe"}
    /\ Rejected(h)
    /\ todo' = [todo EXCEPT ![h] = Tail(@)]
    /\ Goto(h, "failed wipe")
    /\ UNCHANGED <<clock, db, inserted, connection, settings, request,
                   curdbname, answers, received>>

EndStatements(h) ==
    /\ InBatch(h)
    /\ todo[h] = <<>>
    /\ Return(h, IF pc[h] = "failed wipe" THEN "error" ELSE "request executed")
    /\ UNCHANGED <<clock, db, inserted, connection, settings, request, todo,
                   curdbname, received>>

-----------------------------------------------------------------------------
(* "set dbname=".                                                          *)

CloseDatabase(h) ==
    /\ AtDispatch(h, {"set dbname"})
    /\ isOpen' = FALSE /\ foreignKeys' = FALSE
    /\ Goto(h, "set name")
    /\ UNCHANGED <<clock, db, inserted, file, name, settings, request, todo,
                   curdbname, answers, received>>

\* Unlike at the start, a name with a slash is looked for in the folder too.
SetDatabaseName(h) ==
    /\ pc[h] = "set name"
    /\ curdbname' = [curdbname EXCEPT ![h] = sqlite]
    /\ name' = InFolder[request[h].name]
    /\ Goto(h, "open new")
    /\ UNCHANGED <<clock, db, inserted, isOpen, file, foreignKeys, settings,
                   request, todo, answers, received>>

OpenNew(h) ==
    /\ pc[h] = "open new"
    /\ Open
    /\ Goto(h, IF isOpen' THEN "new pragma" ELSE "restore")
    /\ UNCHANGED <<clock, db, inserted, settings, request, todo, curdbname,
                   answers, received>>

NewPragma(h) ==
    /\ pc[h] = "new pragma"
    /\ Pragma
    /\ Goto(h, "record")
    /\ UNCHANGED <<clock, db, inserted, settings, request, todo, curdbname,
                   answers, received>>

RecordName(h) ==
    /\ pc[h] = "record"
    /\ sqlite' = request[h].name
    /\ Return(h, "request executed")
    /\ UNCHANGED <<clock, db, inserted, connection, databaseBusy, request,
                   todo, curdbname, received>>

\* Mutant: the old name is not put back.
RestoreNothing(h) == UNCHANGED name
\* The file the server had before, unless that was configured by its path.
RestoreName(h) == name' = InFolder[curdbname[h]]

Restore(h) ==
    /\ pc[h] = "restore"
    /\ RestoreName(h)
    /\ Goto(h, "open old")
    /\ UNCHANGED <<clock, db, inserted, isOpen, file, foreignKeys, settings,
                   request, todo, curdbname, answers, received>>

\* The old database is opened again, without the pragma.
OpenOld(h) ==
    /\ pc[h] = "open old"
    /\ Open
    /\ Return(h, "db not opened")
    /\ UNCHANGED <<clock, db, inserted, settings, request, todo, curdbname,
                   received>>

-----------------------------------------------------------------------------
Service(h) ==
    \/ Reopen(h) \/ ReopenPragma(h)
    \/ AnswerPicture(h) \/ AnswerImage(h) \/ AnswerText(h) \/ GetName(h)
    \/ SetDbStatus(h) \/ DeletePhoto(h)
    \/ BeginVisit(h) \/ CheckVisit(h) \/ AddVisit(h)
    \/ BeginStatements(h) \/ ExecuteStatement(h) \/ StatementError(h)
    \/ WipeError(h) \/ EndStatements(h)
    \/ CloseDatabase(h) \/ SetDatabaseName(h) \/ OpenNew(h) \/ NewPragma(h)
    \/ RecordName(h) \/ Restore(h) \/ OpenOld(h)

Next ==
    \/ Tick
    \/ \E h \in Threads :
         \/ \E r \in Requests : Receive(h, r)
         \/ Service(h)

Spec == Init /\ [][Next]_vars

-----------------------------------------------------------------------------
(* Properties.                                                             *)

\* A member is admitted at most once a day at a checkpoint: of the visits that
\* one database holds for a member, a checkpoint and a day, all come from one
\* INSERT, although several inspectors may scan the member at once and the
\* SELECT before the INSERT lets them all pass (requesthandler.cpp:237, 245).
OneAdmissionPerDay ==
    \A d \in Databases : \A v, w \in db[d].visits :
        /\ v.member = w.member /\ v.date = w.date
        /\ Schedule[v.event].checkpoint = Schedule[w.event].checkpoint
        => v.inserted = w.inserted

\* No visit is counted at a time when its event is closed, even if it closed
\* while the thread was between the SELECT and the INSERT
\* (requesthandler.cpp:245 repeats the test of line 237).
VisitsAreDue ==
    \A d \in Databases : \A v \in db[d].visits :
        v.inserted > 0 => /\ Schedule[v.event].beginning < v.time
                          /\ v.time < Schedule[v.event].ending

\* Groups, invites and visits refer to members, groups and events that exist,
\* whatever is deleted while other threads insert (startup.cpp:182-187).
Consistent(D) ==
    /\ \A p \in D.groups : p[1] \in D.groupnames /\ p[2] \in D.members
    /\ \A i \in D.invites : /\ i[1] \in D.events
                            /\ i[2] \in D.members \cup D.groupnames
    /\ \A v \in D.visits : v.member \in D.members /\ v.event \in D.events

ReferencesExist == \A d \in Databases : Consistent(db[d])

\* service() ends with exactly one answer, whatever fails on the way.  It may end
\* with none after "set dbstatus" and "delete photo", and where images/1.jpg is to
\* be sent, which may be missing; a scan goes unanswered only in that
\* case, while databaseBusy is set.  "get name" writes two
\* (requesthandler.cpp:26-306, 89-95, 140-144, 155-160, 283-293).
MayStaySilent(h) ==
    \/ AtDispatch(h, {"set dbstatus", "delete photo", "other"})
    \/ AtDispatch(h, {"visit"}) /\ databaseBusy

Ends(h) == pc[h] # "idle" /\ pc'[h] = "idle"

OneAnswer ==
    [][\A h \in Threads : Ends(h) =>
          \/ Len(answers'[h]) = 1
          \/ MayStaySilent(h) /\ answers'[h] = <<>>
          \/ Kind(h) = "get name"]_vars

\* A member who is answered with the photo has a visit of this day at this
\* checkpoint, perhaps one that another inspector has just added, unless the
\* member lost the right to one between SELECT and INSERT
\* (requesthandler.cpp:237-261).
EntitledTo(D, m, k) ==
    {e \in D.events : /\ Schedule[e].checkpoint = k
                      /\ InHours(e) /\ OnThisDay(e) /\ Invited(D, e, m)}

HasVisit(D, m, k) ==
    \E v \in D.visits : /\ v.member = m /\ v.date = LocalDay
                        /\ Schedule[v.event].checkpoint = k

Granted(h) == pc[h] = "insert" /\ pc'[h] = "idle" /\ answers'[h] = <<"granted">>

GrantsAreCounted ==
    [][\A h \in Threads : Granted(h) =>
          LET m == request[h].member
              k == request[h].checkpoint
          IN  \/ HasVisit(db'[file], m, k)
              \/ EntitledTo(db[file], m, k) = {}]_vars

\* With one administrator at a time, the server works on the file that the saved
\* name means to its next start, as soon as no "set dbname" is in progress: a failed
\* one is undone, although any other thread may reopen the connection at any moment.
\* Only when that name is a path it may be the file of this name in the folder
\* instead, since that is where "set dbname" looks
\* (requesthandler.cpp:39-44, 114-139, startup.cpp:149-152).
SettingsNameDatabase ==
    Switching = {} =>
        /\ \/ name = FileAtStart(sqlite)
           \/ sqlite \in Paths /\ name = InFolder[sqlite]
        /\ isOpen => file = name

\* An open connection enforces foreign keys as soon as no thread is about to
\* execute the pragma.  Only the reopening of the old database after a failed
\* "set dbname" takes that away (requesthandler.cpp:39-44, 120-137).
Unprotected ==
    /\ isOpen /\ ~foreignKeys
    /\ \A h \in Threads : pc[h] \notin {"pragma", "new pragma"}

ForeignKeysKept ==
    [][Unprotected' => \/ Unprotected
                       \/ \E h \in Threads : OpenOld(h)]_vars

-----------------------------------------------------------------------------
(* What an assertion or the guide says, and the code does not do.          *)

\* A member whose scan was answered with a picture has been credited with a
\* visit (AppInstructor.qml:81, 103).
GrantMeansVisit ==
    \A h \in Threads :
        /\ pc[h] = "idle" /\ request[h] # <<>> /\ Kind(h) = "visit"
        /\ answers[h] \in {<<"granted">>, <<"picture">>}
        => \E d \in Databases :
               HasVisit(db[d], request[h].member, request[h].checkpoint)

\* A member who is invited to a weekly event and comes on one of its days in
\* its hours is not refused (AppInstructor.qml:178).
Weekday == CHOOSE d \in Weekdays : WeekdayNumber[d] % 7 = LocalDay % 7

InvitedAreAdmitted ==
    \A h \in Threads :
        pc[h] = "idle" /\ request[h] # <<>> /\ answers[h] = <<"accessdenied">>
        => \/ Kind(h) # "visit"
           \/ HasVisit(db[file], request[h].member, request[h].checkpoint)
           \/ ~ \E e \in db[file].events :
                   /\ Schedule[e].checkpoint = request[h].checkpoint
                   /\ Weekday \in Schedule[e].days /\ InHours(e)
                   /\ Invited(db[file], e, request[h].member)

\* The last part of a response is sent once (httpresponse.cpp:101).
LastPartSentOnce == \A h \in Threads : Len(answers[h]) <= 1
=============================================================================
