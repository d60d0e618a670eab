------------------------ MODULE VisitService_proofs ------------------------
(***************************************************************************)
(* Theorems of VisitService, for any number of threads, requests, members, *)
(* events and databases, and that it implements Attendance; the last ones  *)
(* are about the scenarios of MCVisits.                                    *)
(***************************************************************************)
EXTENDS MCVisits, FiniteSetTheorems, TLAPS

-----------------------------------------------------------------------------
(* What the requests carry.                                                *)

LEMMA VisitRequests ==
    ASSUME NEW r \in Requests, r.kind = "visit"
    PROVE  r.member \in Members /\ r.checkpoint \in Checkpoints
BY ServiceAssumption DEF AllRequests

LEMMA SqlRequests ==
    ASSUME NEW r \in Requests, r.kind = "sql"
    PROVE  r.statements \in Seq(Statements)
BY ServiceAssumption DEF AllRequests

LEMMA SwitchRequests ==
    ASSUME NEW r \in Requests, r.kind = "set dbname"
    PROVE  r.name \in Names /\ InFolder[r.name] \in Databases
BY ServiceAssumption DEF AllRequests

LEMMA StartFiles ==
    ASSUME NEW n \in Names
    PROVE  FileAtStart(n) \in Databases /\ InFolder[n] \in Databases
BY ServiceAssumption DEF FileAtStart

LEMMA StatusRequests ==
    ASSUME NEW r \in Requests, r.kind = "set dbstatus"
    PROVE  r.busy \in BOOLEAN
BY ServiceAssumption DEF AllRequests

-----------------------------------------------------------------------------
(* What the statements do to the rows.                                     *)

LEMMA NewVisitsType ==
    ASSUME TypeOK, NEW D \in Rows, NEW m \in Members, NEW k
    PROVE  NewVisits(D, m, k) \subseteq Visits
<1>1. LocalDay \in Int /\ LocalTime \in Nat
  BY ServiceAssumption DEF TypeOK, LocalDay, LocalTime
<1>2. OpenEvents(D, m, k) \subseteq Events
  BY DEF OpenEvents, Rows
<1>. QED
  BY <1>1, <1>2 DEF NewVisits, Visits, TypeOK

LEMMA NewVisitsFit ==
    ASSUME NEW D, NEW m, NEW k, NEW v \in NewVisits(D, m, k)
    PROVE  v.member \in D.members /\ v.event \in D.events
<1>1. PICK e \in OpenEvents(D, m, k) : v.member = m /\ v.event = e
  BY DEF NewVisits
<1>. QED
  BY <1>1 DEF OpenEvents, Invited

LEMMA DeleteType ==
    ASSUME NEW D \in Rows, NEW keys
    PROVE  Delete(D, keys) \in Rows /\ Delete(D, keys).visits \subseteq D.visits
BY DEF Delete, Rows

LEMMA DeleteAllType ==
    ASSUME NEW D \in Rows, NEW table \in Tables
    PROVE  /\ DeleteAll(D, table) \in Rows
           /\ DeleteAll(D, table).visits \subseteq D.visits
<1>1. CASE table \in {"members", "groupnames", "events"}
  BY <1>1, DeleteType DEF DeleteAll
<1>2. CASE table = "groups"
  BY <1>2 DEF DeleteAll, Rows
<1>3. CASE table = "invites"
  BY <1>3 DEF DeleteAll, Rows
<1>4. CASE table = "visits"
  BY <1>4 DEF DeleteAll, Rows
<1>5. CASE table = "sqlite_sequence"
  BY <1>5 DEF DeleteAll
<1>. QED
  BY <1>1, <1>2, <1>3, <1>4, <1>5 DEF Tables

LEMMA ResultType ==
    ASSUME NEW D \in Rows, NEW s \in Statements
    PROVE  Result(D, s) \in Rows /\ Result(D, s).visits \subseteq D.visits
<1>1. CASE s.op = "delete"
  BY <1>1, DeleteType DEF Result
<1>2. CASE s.op = "delete all"
  <2>1. s.table \in Tables
    BY <1>2 DEF Statements
  <2>. QED
    BY <1>2, <2>1, DeleteAllType DEF Result
<1>3. CASE s.op = "insert member"
  <2>1. s.member \in Members
    BY <1>3 DEF Statements
  <2>. QED
    BY <1>3, <2>1 DEF Result, Rows
<1>4. CASE s.op = "delete invites"
  BY <1>4 DEF Result, Rows
<1>5. CASE s.op = "insert invite"
  <2>1. s.event \in Events /\ s.guest \in Guests
    BY <1>5 DEF Statements
  <2>2. D.invites \cup {<<s.event, s.guest>>} \in SUBSET (Events \X Guests)
    BY <2>1 DEF Rows
  <2>3. Result(D, s) = [D EXCEPT !.invites = D.invites \cup {<<s.event, s.guest>>}]
    BY <1>5 DEF Result
  <2>. QED
    BY <2>2, <2>3 DEF Rows
<1>. QED
  BY <1>1, <1>2, <1>3, <1>4, <1>5 DEF Statements

LEMMA WipeStatementsType == WipeStatements \in Seq(Statements)
BY DEF WipeStatements, Statements, Tables

-----------------------------------------------------------------------------
(* Type correctness.                                                       *)

\* What a thread is at belongs to the request it serves.
PlacesFit ==
    \A h \in Threads :
        /\ pc[h] # "idle" => request[h] \in Requests
        /\ pc[h] \in {"select", "insert"} => request[h].kind = "visit"
        /\ InBatch(h) => request[h].kind \in {"sql", "wipe"}
        /\ pc[h] \in {"set name", "open new", "new pragma", "record", "restore",
                      "open old"}
             => request[h].kind = "set dbname"

Typed == TypeOK /\ PlacesFit

LEMMA EmptyType == \A S : <<>> \in Seq(S)
OBVIOUS

LEMMA PairType ==
    ASSUME NEW S, NEW q \in Seq(S), NEW a \in S, NEW b \in S
    PROVE  q \o <<a, b>> \in Seq(S)
OBVIOUS

LEMMA IncrementType == \A n \in Nat : n + 1 \in Nat
OBVIOUS

LEMMA InitTyped == Init => Typed
<1>. SUFFICES ASSUME Init PROVE Typed
  OBVIOUS
<1>. USE ServiceAssumption DEF Init
<1>1. clock \in Nat /\ inserted \in Nat /\ received \in Nat
  OBVIOUS
<1>2. db \in [Databases -> Rows]
  OBVIOUS
<1>3. /\ isOpen \in BOOLEAN /\ foreignKeys \in BOOLEAN
      /\ file \in Databases /\ name \in Databases
      /\ sqlite \in Names /\ databaseBusy \in BOOLEAN
  BY StartFiles
<1>4. /\ pc \in [Threads -> Places]
      /\ request \in [Threads -> Requests \cup {<<>>}]
      /\ curdbname \in [Threads -> Names]
  BY DEF Places
<1>5. /\ todo \in [Threads -> Seq(Statements)]
      /\ answers \in [Threads -> Seq(Answers)]
  OBVIOUS
<1>6. PlacesFit
  BY DEF PlacesFit, InBatch
<1>. QED
  BY <1>1, <1>2, <1>3, <1>4, <1>5, <1>6 DEF Typed, TypeOK

\* The parts of a step: the answer and the place of a thread.
LEMMA WriteType ==
    ASSUME TypeOK, NEW h \in Threads, NEW answer \in Answers, Write(h, answer)
    PROVE  answers' \in [Threads -> Seq(Answers)]
BY DEF TypeOK, Write

LEMMA TodoType ==
    ASSUME TypeOK, NEW h \in Threads, todo[h] # <<>>
    PROVE  /\ Head(todo[h]) \in Statements
           /\ [todo EXCEPT ![h] = Tail(@)] \in [Threads -> Seq(Statements)]
<1>1. todo[h] \in Seq(Statements)
  BY DEF TypeOK
<1>2. Head(todo[h]) \in Statements /\ Tail(todo[h]) \in Seq(Statements)
  BY <1>1
<1>. QED
  BY <1>2 DEF TypeOK

LEMMA TypedStep == Typed /\ [Next]_vars => Typed'
<1>. SUFFICES ASSUME Typed, [Next]_vars PROVE Typed'
  OBVIOUS
<1>a. clock \in Nat /\ inserted \in Nat /\ received \in Nat
  BY DEF Typed, TypeOK
<1>b. /\ todo \in [Threads -> Seq(Statements)]
      /\ answers \in [Threads -> Seq(Answers)]
      /\ request \in [Threads -> Requests \cup {<<>>}]
  BY DEF Typed, TypeOK
<1>. USE DEF Typed, PlacesFit, Goto, Return, Kind, AtDispatch, InBatch
<1>1. CASE Tick
  <2>1. clock' \in Nat
    <3>1. clock' = clock + 1
      BY <1>1 DEF Tick
    <3>. QED
      BY <1>a, <3>1, IncrementType
  <2>2. UNCHANGED <<db, inserted, isOpen, file, foreignKeys, name, sqlite,
                    databaseBusy, pc, request, todo, curdbname, answers, received>>
    BY <1>1 DEF Tick, connection, settings, threadVars
  <2>. QED
    BY <2>1, <2>2 DEF TypeOK
<1>2. ASSUME NEW h \in Threads, NEW r \in Requests, Receive(h, r) PROVE Typed'
  <2>1. received' \in Nat
    <3>1. received' = received + 1
      BY <1>2 DEF Receive
    <3>. QED
      BY <1>a, <3>1, IncrementType
  <2>2. /\ request' \in [Threads -> Requests \cup {<<>>}]
        /\ answers' \in [Threads -> Seq(Answers)]
    <3>1. /\ request' = [request EXCEPT ![h] = r]
          /\ answers' = [answers EXCEPT ![h] = <<>>]
      BY <1>2 DEF Receive
    <3>2. <<>> \in Seq(Answers)
      BY EmptyType
    <3>. QED
      BY <1>b, <3>1, <3>2
  <2>3. pc' \in [Threads -> Places]
    BY <1>2 DEF Receive, TypeOK, Places
  <2>4. PlacesFit'
    BY <1>2 DEF Receive, TypeOK
  <2>5. UNCHANGED <<clock, db, inserted, isOpen, file, foreignKeys, name, sqlite,
                    databaseBusy, todo, curdbname>>
    BY <1>2 DEF Receive, connection, settings
  <2>. QED
    BY <2>1, <2>2, <2>3, <2>4, <2>5 DEF TypeOK
<1>3. ASSUME NEW h \in Threads, Service(h) PROVE Typed'
  <2>1. CASE Reopen(h)
    BY <2>1 DEF Reopen, Open, TypeOK, Places, settings
  <2>2. CASE ReopenPragma(h)
    BY <2>2 DEF ReopenPragma, Pragma, TypeOK, Places, settings
  <2>3. CASE AnswerPicture(h)
    <3>1. answers' \in [Threads -> Seq(Answers)]
      BY <2>3, <1>b, WriteType DEF AnswerPicture, Answers
    <3>. QED
      BY <2>3, <3>1 DEF AnswerPicture, TypeOK, Places, connection, settings
  <2>4. CASE AnswerText(h)
    <3>1. \E a \in Answers : Write(h, a)
      BY <2>4 DEF AnswerText, Answers
    <3>2. answers' \in [Threads -> Seq(Answers)]
      BY <3>1, WriteType
    <3>. QED
      BY <2>4, <3>2 DEF AnswerText, TypeOK, Places, connection, settings
  <2>5. CASE GetName(h)
    <3>1. answers[h] \o <<"name", "unknown command">> \in Seq(Answers)
      <4>1. answers[h] \in Seq(Answers)
        BY <1>b
      <4>2. "name" \in Answers /\ "unknown command" \in Answers
        BY DEF Answers
      <4>. QED
        BY <4>1, <4>2, PairType
    <3>2. answers' \in [Threads -> Seq(Answers)]
      BY <2>5, <3>1 DEF GetName, TypeOK
    <3>. QED
      BY <2>5, <3>2 DEF GetName, TypeOK, Places, connection, settings
  <2>6. CASE SetDbStatus(h)
    <3>1. request[h].busy \in BOOLEAN
      BY <2>6, StatusRequests DEF SetDbStatus
    <3>. QED
      BY <2>6, <3>1 DEF SetDbStatus, TypeOK, Places, connection
  <2>7. CASE BeginVisit(h)
    BY <2>7 DEF BeginVisit, TypeOK, Places, connection, settings
  <2>8. CASE CheckVisit(h)
    <3>1. answers' \in [Threads -> Seq(Answers)]
      BY <2>8, WriteType DEF CheckVisit, Answers, TypeOK
    <3>. QED
      BY <2>8, <3>1 DEF CheckVisit, TypeOK, Places, connection, settings
  <2>9. CASE AddVisit(h)
    <3>1. answers' \in [Threads -> Seq(Answers)]
      BY <2>9, WriteType DEF AddVisit, Answers
    <3>2. db' \in [Databases -> Rows]
      <4>. DEFINE New == NewVisits(db[file], request[h].member,
                                  request[h].checkpoint)
      <4>1. db[file] \in Rows /\ request[h].member \in Members
        BY <2>9, VisitRequests DEF AddVisit, TypeOK
      <4>2. New \subseteq Visits
        BY <4>1, NewVisitsType
      <4>3. db' = db \/ db' = [db EXCEPT ![file].visits = @ \cup New]
        BY <2>9 DEF AddVisit
      <4>4. [db[file] EXCEPT !.visits = @ \cup New] \in Rows
        BY <4>1, <4>2 DEF Rows
      <4>5. [db EXCEPT ![file].visits = @ \cup New] \in [Databases -> Rows]
        BY <4>4 DEF TypeOK
      <4>. QED
        BY <4>3, <4>5 DEF TypeOK
    <3>3. inserted' = inserted \/ inserted' = inserted + 1
      BY <2>9 DEF AddVisit
    <3>4. inserted' \in Nat
      BY <1>a, <3>3, IncrementType
    <3>. QED
      BY <2>9, <3>1, <3>2, <3>4 DEF AddVisit, TypeOK, Places, connection, settings
  <2>10. CASE BeginStatements(h)
    <3>1. todo' \in [Threads -> Seq(Statements)]
      BY <2>10, WipeStatementsType, SqlRequests DEF BeginStatements, TypeOK
    <3>. QED
      BY <2>10, <3>1 DEF BeginStatements, TypeOK, Places, connection, settings
  <2>11. CASE ExecuteStatement(h)
    <3>1. todo' \in [Threads -> Seq(Statements)]
      BY <2>11, TodoType DEF ExecuteStatement, Execute
    <3>2. db' \in [Databases -> Rows]
      <4>1. db[file] \in Rows /\ Head(todo[h]) \in Statements
        BY <2>11, TodoType DEF ExecuteStatement, Execute, TypeOK
      <4>2. Result(db[file], Head(todo[h])) \in Rows
        BY <4>1, ResultType
      <4>. QED
        BY <2>11, <4>2 DEF ExecuteStatement, Execute, TypeOK
    <3>. QED
      BY <2>11, <3>1, <3>2 DEF ExecuteStatement, TypeOK, connection, settings
  <2>12. CASE StatementError(h)
    <3>1. answers' \in [Threads -> Seq(Answers)]
      BY <2>12, WriteType DEF StatementError, Answers
    <3>2. todo' \in [Threads -> Seq(Statements)]
      <4>1. todo' = [todo EXCEPT ![h] = <<>>]
        BY <2>12 DEF StatementError
      <4>2. <<>> \in Seq(Statements)
        BY EmptyType
      <4>. QED
        BY <1>b, <4>1, <4>2
    <3>. QED
      BY <2>12, <3>1, <3>2 DEF StatementError, TypeOK, Places, connection,
                               settings
  <2>13. CASE WipeError(h)
    <3>1. todo' \in [Threads -> Seq(Statements)]
      BY <2>13, TodoType DEF WipeError, Rejected
    <3>. QED
      BY <2>13, <3>1 DEF WipeError, TypeOK, Places, connection, settings
  <2>14. CASE EndStatements(h)
    <3>1. answers' \in [Threads -> Seq(Answers)]
      BY <2>14, WriteType DEF EndStatements, Answers
    <3>. QED
      BY <2>14, <3>1 DEF EndStatements, TypeOK, Places, connection, settings
  <2>15. CASE CloseDatabase(h)
    BY <2>15 DEF CloseDatabase, TypeOK, Places, settings
  <2>16. CASE SetDatabaseName(h)
    <3>1. InFolder[request[h].name] \in Databases
      BY <2>16, SwitchRequests DEF SetDatabaseName
    <3>. QED
      BY <2>16, <3>1 DEF SetDatabaseName, TypeOK, Places, settings
  <2>17. CASE OpenNew(h)
    BY <2>17 DEF OpenNew, Open, TypeOK, Places, settings
  <2>18. CASE NewPragma(h)
    BY <2>18 DEF NewPragma, Pragma, TypeOK, Places, settings
  <2>19. CASE RecordName(h)
    <3>1. answers' \in [Threads -> Seq(Answers)]
      BY <2>19, WriteType DEF RecordName, Answers
    <3>2. request[h].name \in Names
      BY <2>19, SwitchRequests DEF RecordName
    <3>. QED
      BY <2>19, <3>1, <3>2 DEF RecordName, TypeOK, Places, connection
  <2>20. CASE Restore(h)
    <3>1. InFolder[curdbname[h]] \in Databases
      BY StartFiles DEF TypeOK
    <3>. QED
      BY <2>20, <3>1 DEF Restore, RestoreName, TypeOK, Places, settings
  <2>21. CASE OpenOld(h)
    <3>1. answers' \in [Threads -> Seq(Answers)]
      BY <2>21, WriteType DEF OpenOld, Answers
    <3>. QED
      BY <2>21, <3>1 DEF OpenOld, Open, TypeOK, Places, settings
  <2>22. CASE AnswerImage(h)
    <3>1. \E a \in Answers : Write(h, a)
      BY <2>22 DEF AnswerImage, Answers
    <3>2. answers' \in [Threads -> Seq(Answers)]
      BY <3>1, WriteType
    <3>. QED
      BY <2>22, <3>2 DEF AnswerImage, TypeOK, Places, connection, settings
  <2>23. CASE DeletePhoto(h)
    BY <2>23 DEF DeletePhoto, TypeOK, Places, connection, settings
  <2>. QED
    BY <1>3, <2>1, <2>2, <2>3, <2>4, <2>5, <2>6, <2>7, <2>8, <2>9, <2>10, <2>11,
       <2>12, <2>13, <2>14, <2>15, <2>16, <2>17, <2>18, <2>19, <2>20, <2>21, <2>22,
       <2>23
       DEF Service
<1>4. CASE UNCHANGED vars
  BY <1>4 DEF vars, connection, settings, threadVars, TypeOK
<1>. QED
  BY <1>1, <1>2, <1>3, <1>4 DEF Next

LEMMA AlwaysTyped == Spec => []Typed
<1>1. Init => Typed
  BY InitTyped
<1>2. Typed /\ [Next]_vars => Typed'
  BY TypedStep
<1>. QED
  BY <1>1, <1>2, PTL DEF Spec

\* Every variable keeps its type; the threads are only at places that belong to
\* their requests (PlacesFit), which makes the invariant inductive.
THEOREM TypeCorrect == Spec => []TypeOK
<1>1. Typed => TypeOK
  BY DEF Typed
<1>. QED
  BY <1>1, AlwaysTyped, PTL

-----------------------------------------------------------------------------
(* What becomes of the visits.                                             *)

\* A step leaves the visits of a database alone, removes some, or adds those of
\* one INSERT.
VisitsChange(d) ==
    \/ db'[d].visits \subseteq db[d].visits
    \/ \E m \in Members, k \in Checkpoints :
          db'[d].visits = db[d].visits \cup NewVisits(db[d], m, k)

LEMMA VisitsStep ==
    ASSUME Typed, [Next]_vars, NEW d \in Databases
    PROVE  VisitsChange(d)
<1>1. CASE db' = db
  BY <1>1 DEF VisitsChange
<1>2. ASSUME NEW h \in Threads, AddVisit(h) PROVE VisitsChange(d)
  <2>. DEFINE m == request[h].member
              k == request[h].checkpoint
  <2>1. m \in Members /\ k \in Checkpoints
    BY <1>2, VisitRequests DEF AddVisit, Typed, PlacesFit
  <2>2. CASE db' = [db EXCEPT ![file].visits = @ \cup NewVisits(db[file], m, k)]
    <3>1. db \in [Databases -> Rows]
      BY DEF Typed, TypeOK
    <3>2. CASE d = file
      <4>1. db'[d].visits = db[d].visits \cup NewVisits(db[d], m, k)
        BY <2>2, <3>1, <3>2 DEF Rows
      <4>. QED
        BY <2>1, <4>1 DEF VisitsChange
    <3>3. CASE d # file
      BY <2>2, <3>1, <3>3 DEF VisitsChange
    <3>. QED
      BY <3>2, <3>3
  <2>3. CASE db' = db
    BY <1>1, <2>3
  <2>. QED
    BY <1>2, <2>2, <2>3 DEF AddVisit
<1>3. ASSUME NEW h \in Threads, ExecuteStatement(h) PROVE VisitsChange(d)
  <2>1. db[file] \in Rows /\ Head(todo[h]) \in Statements
    BY <1>3, TodoType DEF ExecuteStatement, Execute, Typed, TypeOK
  <2>2. Result(db[file], Head(todo[h])).visits \subseteq db[file].visits
    BY <2>1, ResultType
  <2>3. db' = [db EXCEPT ![file] = Result(@, Head(todo[h]))]
    BY <1>3 DEF ExecuteStatement, Execute
  <2>. QED
    BY <2>2, <2>3 DEF VisitsChange, Typed, TypeOK
<1>. QED
  <2>1. CASE Tick \/ UNCHANGED vars
    BY <1>1, <2>1 DEF Tick, vars
  <2>2. ASSUME NEW h \in Threads, NEW r \in Requests, Receive(h, r)
        PROVE  VisitsChange(d)
    BY <1>1, <2>2 DEF Receive
  <2>3. ASSUME NEW h \in Threads, Service(h) PROVE VisitsChange(d)
    BY <1>1, <1>2, <1>3, <2>3
       DEF Service, Reopen, ReopenPragma, AnswerPicture, AnswerImage, AnswerText,
           GetName, SetDbStatus, DeletePhoto, BeginVisit, CheckVisit, BeginStatements, StatementError,
           WipeError, EndStatements, CloseDatabase, SetDatabaseName, OpenNew,
           NewPragma, RecordName, Restore, OpenOld
  <2>. QED
    BY <2>1, <2>2, <2>3 DEF Next

\* Whatever the inspectors and the administrators do at the same time, a member
\* is admitted once a day at a checkpoint.  The invariant is inductive as it
\* stands: the INSERT adds rows only if there is none of that member, checkpoint
\* and day, and those that it adds bear its own number.
THEOREM AdmittedOncePerDay == Spec => []OneAdmissionPerDay
<1>1. Init => OneAdmissionPerDay
  BY ServiceAssumption DEF Init, OneAdmissionPerDay
<1>2. Typed /\ OneAdmissionPerDay /\ [Next]_vars => OneAdmissionPerDay'
  <2>. SUFFICES ASSUME Typed, OneAdmissionPerDay, [Next]_vars,
                       NEW d \in Databases,
                       NEW v \in db'[d].visits, NEW w \in db'[d].visits,
                       v.member = w.member, v.date = w.date,
                       Schedule[v.event].checkpoint = Schedule[w.event].checkpoint
                PROVE  v.inserted = w.inserted
    BY DEF OneAdmissionPerDay
  <2>1. CASE db'[d].visits \subseteq db[d].visits
    BY <2>1 DEF OneAdmissionPerDay
  <2>2. ASSUME NEW m \in Members, NEW k \in Checkpoints,
               db'[d].visits = db[d].visits \cup NewVisits(db[d], m, k)
        PROVE  v.inserted = w.inserted
    <3>1. \A n \in NewVisits(db[d], m, k) :
             /\ n.member = m /\ n.date = LocalDay
             /\ Schedule[n.event].checkpoint = k
             /\ n.inserted = inserted + 1
             /\ ~VisitedToday(db[d], m, k)
      BY DEF NewVisits, OpenEvents
    <3>2. \A n \in NewVisits(db[d], m, k), o \in db[d].visits :
             ~ /\ n.member = o.member /\ n.date = o.date
               /\ Schedule[n.event].checkpoint = Schedule[o.event].checkpoint
      BY <3>1 DEF VisitedToday
    <3>3. CASE v \in db[d].visits /\ w \in db[d].visits
      BY <3>3 DEF OneAdmissionPerDay
    <3>4. CASE v \in NewVisits(db[d], m, k) /\ w \in NewVisits(db[d], m, k)
      BY <3>1, <3>4
    <3>. QED
      BY <2>2, <3>2, <3>3, <3>4
  <2>. QED
    BY <2>1, <2>2, VisitsStep DEF VisitsChange
<1>. QED
  BY <1>1, <1>2, AlwaysTyped, PTL DEF Spec

\* No visit is ever counted outside the hours of its event, however late the
\* INSERT comes after the SELECT.
THEOREM VisitsCountedInTime == Spec => []VisitsAreDue
<1>1. Init => VisitsAreDue
  BY ServiceAssumption DEF Init, VisitsAreDue
<1>2. Typed /\ VisitsAreDue /\ [Next]_vars => VisitsAreDue'
  <2>. SUFFICES ASSUME Typed, VisitsAreDue, [Next]_vars,
                       NEW d \in Databases, NEW v \in db'[d].visits,
                       v.inserted > 0
                PROVE  /\ Schedule[v.event].beginning < v.time
                       /\ v.time < Schedule[v.event].ending
    BY DEF VisitsAreDue
  <2>1. CASE v \in db[d].visits
    BY <2>1 DEF VisitsAreDue
  <2>2. ASSUME NEW m \in Members, NEW k \in Checkpoints,
               v \in NewVisits(db[d], m, k)
        PROVE  /\ Schedule[v.event].beginning < v.time
               /\ v.time < Schedule[v.event].ending
    BY <2>2 DEF NewVisits, OpenEvents, InHours
  <2>. QED
    BY <2>1, <2>2, VisitsStep DEF VisitsChange
<1>. QED
  BY <1>1, <1>2, AlwaysTyped, PTL DEF Spec

-----------------------------------------------------------------------------
(* Foreign keys.                                                           *)

\* The connection loses the enforcement of foreign keys for good in one place
\* only: where the old database is opened after a failed "set dbname".
THEOREM ProtectionKept == Spec => ForeignKeysKept
<1>1. Typed /\ [Next]_vars =>
        (Unprotected' => Unprotected \/ \E h \in Threads : OpenOld(h))
  <2>. SUFFICES ASSUME Typed, [Next]_vars, Unprotected', ~Unprotected
                PROVE  \E h \in Threads : OpenOld(h)
    OBVIOUS
  <2>. USE DEF Unprotected
  <2>0. pc \in [Threads -> Places]
    BY DEF Typed, TypeOK
  <2>1. CASE Tick \/ UNCHANGED vars
    <3>1. UNCHANGED <<isOpen, foreignKeys, pc>>
      BY <2>1 DEF Tick, vars, connection, threadVars
    <3>. QED
      BY <3>1
  <2>2. ASSUME NEW h \in Threads, NEW r \in Requests, Receive(h, r) PROVE FALSE
    BY <2>0, <2>2 DEF Receive, Goto, connection
  <2>3. ASSUME NEW h \in Threads, Service(h), ~OpenOld(h) PROVE FALSE
    <3>1. CASE Reopen(h)
      BY <2>0, <3>1 DEF Reopen, Goto
    <3>2. CASE ReopenPragma(h)
      BY <2>0, <3>2 DEF ReopenPragma, Pragma
    <3>3. CASE NewPragma(h)
      BY <2>0, <3>3 DEF NewPragma, Pragma
    <3>4. CASE OpenNew(h)
      BY <2>0, <3>4 DEF OpenNew, Open, Goto
    <3>5. CASE CloseDatabase(h)
      BY <3>5 DEF CloseDatabase
    <3>6. ASSUME UNCHANGED <<isOpen, foreignKeys>>,
                 pc[h] \notin {"pragma", "new pragma"},
                 pc' = pc \/ \E place : pc' = [pc EXCEPT ![h] = place]
          PROVE  FALSE
      BY <2>0, <3>6
    <3>7. CASE \/ AnswerPicture(h) \/ AnswerImage(h) \/ AnswerText(h)
               \/ GetName(h) \/ SetDbStatus(h) \/ DeletePhoto(h)
               \/ BeginVisit(h) \/ BeginStatements(h)
      BY <3>6, <3>7 DEF AnswerPicture, AnswerImage, AnswerText, GetName,
         SetDbStatus, DeletePhoto, BeginVisit, BeginStatements, Return, Goto, connection, AtDispatch
    <3>8. CASE CheckVisit(h) \/ AddVisit(h)
      BY <3>6, <3>8 DEF CheckVisit, AddVisit, Return, Goto, connection
    <3>9. CASE \/ ExecuteStatement(h) \/ StatementError(h) \/ WipeError(h)
               \/ EndStatements(h)
      BY <3>6, <3>9 DEF ExecuteStatement, StatementError, WipeError,
         EndStatements, Return, Goto, connection, InBatch
    <3>10. CASE SetDatabaseName(h) \/ RecordName(h) \/ Restore(h)
      BY <3>6, <3>10 DEF SetDatabaseName, RecordName, Restore, Return, Goto,
         connection
    <3>. QED
      BY <2>3, <3>1, <3>2, <3>3, <3>4, <3>5, <3>7, <3>8, <3>9, <3>10 DEF Service
  <2>. QED
    BY <2>1, <2>2, <2>3 DEF Next
<1>. QED
  BY <1>1, AlwaysTyped, PTL DEF Spec, ForeignKeysKept

\* Each statement keeps the references intact while foreign keys are enforced.
LEMMA DeleteConsistent ==
    ASSUME foreignKeys, NEW D \in Rows, Consistent(D), NEW keys
    PROVE  Consistent(Delete(D, keys))
BY DEF Delete, Consistent, Rows

LEMMA ResultConsistent ==
    ASSUME foreignKeys, NEW D \in Rows, Consistent(D),
           NEW s \in Statements, ~Fails(D, s)
    PROVE  Consistent(Result(D, s))
<1>1. CASE s.op = "delete"
  BY <1>1, DeleteConsistent DEF Result
<1>2. CASE s.op = "delete all"
  <2>1. s.table \in Tables
    BY <1>2 DEF Statements
  <2>2. Result(D, s) = DeleteAll(D, s.table)
    BY <1>2 DEF Result
  <2>3. CASE s.table \in {"members", "groupnames", "events"}
    BY <2>2, <2>3, DeleteConsistent DEF DeleteAll
  <2>4. CASE s.table = "groups"
    BY <2>2, <2>4 DEF DeleteAll, Consistent, Rows
  <2>5. CASE s.table = "invites"
    BY <2>2, <2>5 DEF DeleteAll, Consistent, Rows
  <2>6. CASE s.table = "visits"
    BY <2>2, <2>6 DEF DeleteAll, Consistent, Rows
  <2>7. CASE s.table = "sqlite_sequence"
    BY <2>2, <2>7 DEF DeleteAll
  <2>. QED
    BY <2>1, <2>3, <2>4, <2>5, <2>6, <2>7 DEF Tables
<1>3. CASE s.op = "insert member"
  BY <1>3 DEF Result, Consistent, Rows
<1>4. CASE s.op = "delete invites"
  BY <1>4 DEF Result, Consistent, Rows
<1>5. CASE s.op = "insert invite"
  <2>1. s.event \in D.events /\ s.guest \in D.members \cup D.groupnames
    BY <1>5 DEF Fails
  <2>2. Result(D, s) = [D EXCEPT !.invites = D.invites \cup {<<s.event, s.guest>>}]
    BY <1>5 DEF Result
  <2>. QED
    BY <2>1, <2>2 DEF Consistent, Rows
<1>. QED
  BY <1>1, <1>2, <1>3, <1>4, <1>5 DEF Statements

\* While nobody sets the database name, the connection stays as Startup::start()
\* opened it: with foreign keys, or closed.
Enforced ==
    /\ name = FileAtStart(Configured)
    /\ isOpen <=> FileAtStart(Configured) \notin Unopenable
    /\ isOpen => foreignKeys
    /\ \A h \in Threads : pc[h] = "reopen" => ~isOpen

LEMMA InitEnforced ==
    ASSUME \A d \in Databases : Consistent(Content[d])
    PROVE  Init => Enforced /\ ReferencesExist
<1>1. Init => Enforced
  <2>. SUFFICES ASSUME Init PROVE Enforced
    OBVIOUS
  <2>1. /\ name = FileAtStart(Configured)
        /\ isOpen <=> FileAtStart(Configured) \notin Unopenable
    BY DEF Init
  <2>2. isOpen => foreignKeys
    BY DEF Init
  <2>3. \A h \in Threads : pc[h] # "reopen"
    BY DEF Init
  <2>. QED
    BY <2>1, <2>2, <2>3 DEF Enforced
<1>. QED
  BY <1>1 DEF Init, ReferencesExist

LEMMA EnforcedStep ==
    ASSUME Typed, Enforced, Switching = {}, [Next]_vars
    PROVE  Enforced'
<1>0. pc \in [Threads -> Places]
  BY DEF Typed, TypeOK
<1>1. ASSUME UNCHANGED <<isOpen, foreignKeys, name>>,
             \A h \in Threads : pc'[h] = "reopen" => pc[h] = "reopen" \/ ~isOpen
      PROVE  Enforced'
  BY <1>1 DEF Enforced
<1>2. CASE Tick \/ UNCHANGED vars
  BY <1>1, <1>2 DEF Tick, vars, connection, threadVars
<1>3. ASSUME NEW h \in Threads, NEW r \in Requests, Receive(h, r) PROVE Enforced'
  BY <1>0, <1>1, <1>3 DEF Receive, Goto, connection
<1>4. ASSUME NEW h \in Threads, Service(h) PROVE Enforced'
  <2>1. CASE Reopen(h)
    BY <1>0, <2>1 DEF Reopen, Open, Goto, Enforced
  <2>2. CASE ReopenPragma(h)
    BY <1>0, <2>2 DEF ReopenPragma, Pragma, Goto, Enforced
  <2>3. CASE \/ CloseDatabase(h) \/ SetDatabaseName(h) \/ OpenNew(h)
             \/ NewPragma(h) \/ RecordName(h) \/ Restore(h) \/ OpenOld(h)
    BY <2>3 DEF CloseDatabase, SetDatabaseName, OpenNew, NewPragma, RecordName,
       Restore, OpenOld, AtDispatch, Kind, Typed, PlacesFit, Switching
  <2>4. ASSUME UNCHANGED <<isOpen, foreignKeys, name>>,
               \/ pc' = pc
               \/ \E place \in Places \ {"reopen"} :
                    pc' = [pc EXCEPT ![h] = place]
        PROVE  Enforced'
    BY <1>0, <1>1, <2>4
  <2>5. CASE \/ AnswerPicture(h) \/ AnswerImage(h) \/ AnswerText(h)
             \/ GetName(h) \/ SetDbStatus(h) \/ DeletePhoto(h)
             \/ BeginVisit(h) \/ BeginStatements(h)
    BY <2>4, <2>5 DEF AnswerPicture, AnswerImage, AnswerText, GetName,
       SetDbStatus, DeletePhoto, BeginVisit, BeginStatements, Return, Goto, connection, Places
  <2>6. CASE CheckVisit(h) \/ AddVisit(h)
    BY <2>4, <2>6 DEF CheckVisit, AddVisit, Return, Goto, connection, Places
  <2>7. CASE \/ ExecuteStatement(h) \/ StatementError(h) \/ WipeError(h)
             \/ EndStatements(h)
    BY <2>4, <2>7 DEF ExecuteStatement, StatementError, WipeError,
       EndStatements, Return, Goto, connection, Places
  <2>. QED
    BY <1>4, <2>1, <2>2, <2>3, <2>5, <2>6, <2>7 DEF Service
<1>. QED
  BY <1>2, <1>3, <1>4 DEF Next

LEMMA ReferencesStep ==
    ASSUME Typed, Enforced, ReferencesExist, [Next]_vars
    PROVE  ReferencesExist'
<1>0. db \in [Databases -> Rows]
  BY DEF Typed, TypeOK
<1>1. CASE db' = db
  BY <1>1 DEF ReferencesExist
<1>2. ASSUME NEW h \in Threads, AddVisit(h) PROVE ReferencesExist'
  <2>. DEFINE m == request[h].member
              k == request[h].checkpoint
              New == NewVisits(db[file], m, k)
  <2>1. file \in Databases
    BY DEF Typed, TypeOK
  <2>2. \A v \in New : v.member \in db[file].members /\ v.event \in db[file].events
    <3>. SUFFICES ASSUME NEW v \in New
                  PROVE  /\ v.member \in db[file].members
                         /\ v.event \in db[file].events
      OBVIOUS
    <3>. QED
      BY NewVisitsFit
  <2>3. Consistent([db[file] EXCEPT !.visits = @ \cup New])
    BY <1>0, <2>1, <2>2 DEF ReferencesExist, Consistent, Rows
  <2>4. db' = db \/ db' = [db EXCEPT ![file].visits = @ \cup New]
    BY <1>2 DEF AddVisit
  <2>5. ASSUME db' = [db EXCEPT ![file].visits = @ \cup New]
        PROVE  ReferencesExist'
    <3>1. db'[file] = [db[file] EXCEPT !.visits = @ \cup New]
      BY <1>0, <2>1, <2>5
    <3>2. \A d \in Databases : d # file => db'[d] = db[d]
      BY <1>0, <2>5
    <3>3. ASSUME NEW d \in Databases PROVE Consistent(db'[d])
      BY <2>3, <3>1, <3>2, <3>3 DEF ReferencesExist
    <3>. QED
      BY <3>3 DEF ReferencesExist
  <2>. QED
    BY <1>1, <2>4, <2>5
<1>3. ASSUME NEW h \in Threads, ExecuteStatement(h) PROVE ReferencesExist'
  <2>. DEFINE s == Head(todo[h])
  <2>1. file \in Databases /\ s \in Statements
    BY <1>3, TodoType DEF ExecuteStatement, Execute, Typed, TypeOK
  <2>2. foreignKeys
    BY <1>3 DEF ExecuteStatement, Execute, Enforced
  <2>3. Consistent(Result(db[file], s))
    <3>1. db[file] \in Rows /\ Consistent(db[file]) /\ ~Fails(db[file], s)
      BY <1>0, <1>3, <2>1 DEF ExecuteStatement, Execute, ReferencesExist
    <3>. QED
      BY <2>1, <2>2, <3>1, ResultConsistent
  <2>4. db' = [db EXCEPT ![file] = Result(@, s)]
    BY <1>3 DEF ExecuteStatement, Execute
  <2>. QED
    BY <1>0, <2>1, <2>3, <2>4 DEF ReferencesExist
<1>4. CASE Tick \/ UNCHANGED vars
  BY <1>1, <1>4 DEF Tick, vars
<1>5. ASSUME NEW h \in Threads, NEW r \in Requests, Receive(h, r)
      PROVE  ReferencesExist'
  BY <1>1, <1>5 DEF Receive
<1>6. ASSUME NEW h \in Threads, Service(h) PROVE ReferencesExist'
  BY <1>1, <1>2, <1>3, <1>6
     DEF Service, Reopen, ReopenPragma, AnswerPicture, AnswerImage, AnswerText,
         GetName, SetDbStatus, DeletePhoto, BeginVisit, CheckVisit, BeginStatements, StatementError,
         WipeError, EndStatements, CloseDatabase, SetDatabaseName, OpenNew,
         NewPragma, RecordName, Restore, OpenOld
<1>. QED
  BY <1>4, <1>5, <1>6 DEF Next

\* As long as nobody sets the database, groups, invites and visits refer to
\* existing rows only, whatever is deleted between the statements of other
\* requests.
THEOREM ReferencesKept ==
    ASSUME \A d \in Databases : Consistent(Content[d])
    PROVE  Spec /\ [](Switching = {}) => []ReferencesExist
<1>1. Init => Enforced /\ ReferencesExist
  BY InitEnforced
<1>2. Typed /\ Enforced /\ Switching = {} /\ [Next]_vars => Enforced'
  BY EnforcedStep
<1>3. Typed /\ Enforced /\ ReferencesExist /\ [Next]_vars => ReferencesExist'
  BY ReferencesStep
<1>. QED
  BY <1>1, <1>2, <1>3, AlwaysTyped, PTL DEF Spec

-----------------------------------------------------------------------------
(* One answer to each request.                                             *)

\* While a request is served nothing has been written to its response.
Unanswered == \A h \in Threads : pc[h] # "idle" => answers[h] = <<>>

Kept(h) == UNCHANGED <<pc[h], request[h], answers[h]>>

\* What a step may do to the response of a thread: begin a new one, leave it
\* empty, write one answer to it and end it, or end it in one of the other ways.
AnswerStep(h) ==
    \/ Kept(h)
    \/ /\ pc'[h] # "idle"
       /\ \/ answers'[h] = <<>>
          \/ pc[h] # "idle" /\ answers'[h] = answers[h]
    \/ /\ pc[h] # "idle" /\ pc'[h] = "idle"
       /\ \/ \E a \in Answers : answers'[h] = Append(answers[h], a)
          \/ MayStaySilent(h) /\ answers'[h] = answers[h]
          \/ Kind(h) = "get name"

LEMMA AnswersChange ==
    ASSUME Typed, [Next]_vars, NEW h \in Threads
    PROVE  AnswerStep(h)
<1>0. /\ pc \in [Threads -> Places] /\ request \in [Threads -> Requests \cup {<<>>}]
      /\ answers \in [Threads -> Seq(Answers)]
  BY DEF Typed, TypeOK
<1>1. CASE Tick \/ UNCHANGED vars
  <2>1. UNCHANGED <<pc, request, answers>>
    BY <1>1 DEF Tick, vars, threadVars
  <2>. QED
    BY <2>1 DEF AnswerStep, Kept
<1>2. ASSUME NEW g \in Threads, NEW r \in Requests, Receive(g, r)
      PROVE  AnswerStep(h)
  <2>1. \E place \in {"reopen", "dispatch"} : pc' = [pc EXCEPT ![g] = place]
    BY <1>2 DEF Receive, Goto
  <2>2. /\ request' = [request EXCEPT ![g] = r]
        /\ answers' = [answers EXCEPT ![g] = <<>>]
    BY <1>2 DEF Receive
  <2>. QED
    BY <1>0, <2>1, <2>2 DEF AnswerStep, Kept
<1>3. ASSUME NEW g \in Threads, Service(g) PROVE AnswerStep(h)
  <2>1. ASSUME pc[g] # "idle", UNCHANGED <<request, answers>>,
               \/ pc' = pc
               \/ \E place \in Places \ {"idle"} : pc' = [pc EXCEPT ![g] = place]
        PROVE  AnswerStep(h)
    BY <1>0, <2>1 DEF AnswerStep, Kept
  <2>2. ASSUME pc[g] # "idle", UNCHANGED request, pc' = [pc EXCEPT ![g] = "idle"],
               NEW a \in Answers, answers' = [answers EXCEPT ![g] = Append(@, a)]
        PROVE  AnswerStep(h)
    BY <1>0, <2>2 DEF AnswerStep, Kept
  <2>3. CASE \/ Reopen(g) \/ ReopenPragma(g) \/ BeginVisit(g)
             \/ BeginStatements(g) \/ ExecuteStatement(g) \/ WipeError(g)
             \/ CloseDatabase(g) \/ SetDatabaseName(g) \/ OpenNew(g)
             \/ NewPragma(g) \/ Restore(g)
    BY <2>1, <2>3 DEF Reopen, ReopenPragma, BeginVisit, BeginStatements,
       ExecuteStatement, WipeError, CloseDatabase, SetDatabaseName, OpenNew,
       NewPragma, Restore, Goto, Places, AtDispatch, InBatch
  <2>4. CASE AnswerImage(g) \/ AnswerText(g)
    BY <2>2, <2>4 DEF AnswerImage, AnswerText, Return, Write, Goto, Answers,
       AtDispatch
  <2>5. CASE GetName(g)
    BY <1>0, <2>5 DEF GetName, Goto, AnswerStep, Kept, AtDispatch
  <2>10. ASSUME MayStaySilent(g), UNCHANGED <<request, answers>>,
                pc' = [pc EXCEPT ![g] = "idle"]
         PROVE  AnswerStep(h)
    BY <1>0, <2>10 DEF AnswerStep, Kept, MayStaySilent, AtDispatch
  <2>11. CASE SetDbStatus(g) \/ DeletePhoto(g)
    BY <2>10, <2>11 DEF SetDbStatus, DeletePhoto, Goto, MayStaySilent, AtDispatch
  <2>12. CASE AnswerPicture(g)
    <3>1. pc[g] # "idle" /\ UNCHANGED request /\ MayStaySilent(g)
          /\ pc' = [pc EXCEPT ![g] = "idle"]
      BY <2>12 DEF AnswerPicture, MayStaySilent, AtDispatch, Return, Goto
    <3>2. \/ answers' = [answers EXCEPT ![g] = Append(@, "picture")]
          \/ UNCHANGED answers
      BY <2>12 DEF AnswerPicture, Return, Write
    <3>. QED
      BY <2>2, <2>10, <3>1, <3>2 DEF Answers
  <2>6. CASE CheckVisit(g)
    BY <2>1, <2>2, <2>6 DEF CheckVisit, Return, Write, Goto, Answers, Places
  <2>7. CASE AddVisit(g)
    BY <2>2, <2>7 DEF AddVisit, Return, Write, Goto, Answers
  <2>8. CASE StatementError(g) \/ EndStatements(g)
    BY <2>2, <2>8 DEF StatementError, EndStatements, InBatch, Return, Write, Goto,
       Answers
  <2>9. CASE RecordName(g) \/ OpenOld(g)
    BY <2>2, <2>9 DEF RecordName, OpenOld, Return, Write, Goto, Answers
  <2>. QED
    BY <1>3, <2>3, <2>4, <2>5, <2>6, <2>7, <2>8, <2>9, <2>11, <2>12 DEF Service
<1>. QED
  BY <1>1, <1>2, <1>3 DEF Next

LEMMA OneIsWritten ==
    ASSUME NEW a
    PROVE  Append(<<>>, a) = <<a>> /\ Len(Append(<<>>, a)) = 1
OBVIOUS

LEMMA HeadOfOne ==
    ASSUME NEW a
    PROVE  Head(<<a>>) = a /\ <<a>> # <<>>
OBVIOUS

LEMMA UnansweredStep == Typed /\ Unanswered /\ [Next]_vars => Unanswered'
<1>. SUFFICES ASSUME Typed, Unanswered, [Next]_vars, NEW h \in Threads,
                     pc'[h] # "idle"
              PROVE  answers'[h] = <<>>
  BY DEF Unanswered
<1>. QED
  BY AnswersChange DEF AnswerStep, Kept, Unanswered

LEMMA AlwaysUnanswered == Spec => []Unanswered
<1>1. Init => Unanswered
  BY DEF Init, Unanswered
<1>. QED
  BY <1>1, UnansweredStep, AlwaysTyped, PTL DEF Spec

\* Every path through service() ends with one answer, whatever fails on the way,
\* except the branches that the property names, which may end with none, or two.
THEOREM AnsweredOnce == Spec => OneAnswer
<1>1. ASSUME Typed, Unanswered, [Next]_vars, NEW h \in Threads, Ends(h)
      PROVE  \/ Len(answers'[h]) = 1
             \/ MayStaySilent(h) /\ answers'[h] = <<>>
             \/ Kind(h) = "get name"
  <2>1. answers[h] = <<>> /\ AnswerStep(h)
    BY <1>1, AnswersChange DEF Unanswered, Ends
  <2>2. CASE \E a \in Answers : answers'[h] = Append(answers[h], a)
    BY <2>1, <2>2, OneIsWritten
  <2>. QED
    BY <1>1, <2>1, <2>2 DEF AnswerStep, Kept, Ends
<1>2. Typed /\ Unanswered /\ [Next]_vars =>
        [\A h \in Threads : Ends(h) =>
           \/ Len(answers'[h]) = 1
           \/ MayStaySilent(h) /\ answers'[h] = <<>>
           \/ Kind(h) = "get name"]_vars
  BY <1>1
<1>. QED
  BY <1>2, AlwaysTyped, AlwaysUnanswered, PTL DEF Spec, OneAnswer

\* A photo is sent only to a member who has a visit of this day at this
\* checkpoint: the INSERT that follows the SELECT adds one or finds one, unless
\* the member is no longer entitled to any.
THEOREM GrantedVisitsExist == Spec => GrantsAreCounted
<1>1. ASSUME Typed, Unanswered, [Next]_vars, NEW h \in Threads, Granted(h)
      PROVE  \/ HasVisit(db'[file], request[h].member, request[h].checkpoint)
             \/ EntitledTo(db[file], request[h].member, request[h].checkpoint) = {}
  <2>. DEFINE m == request[h].member
              k == request[h].checkpoint
              D == db[file]
  <2>0. /\ pc \in [Threads -> Places] /\ db \in [Databases -> Rows]
        /\ file \in Databases /\ D \in Rows
    BY <1>1 DEF Typed, TypeOK
  <2>1. AddVisit(h)
    <3>0. pc[h] = "insert" /\ pc'[h] = "idle"
      BY <1>1 DEF Granted
    <3>1. CASE Tick \/ UNCHANGED vars
      BY <3>0, <3>1 DEF Tick, vars, threadVars
    <3>2. ASSUME NEW g \in Threads, NEW r \in Requests, Receive(g, r) PROVE FALSE
      BY <2>0, <3>0, <3>2 DEF Receive, Goto
    <3>3. ASSUME NEW g \in Threads, Service(g) PROVE g = h
      BY <2>0, <3>0, <3>3
         DEF Service, Reopen, ReopenPragma, AnswerPicture, AnswerImage, AnswerText,
             GetName, SetDbStatus, DeletePhoto, BeginVisit, CheckVisit, AddVisit, BeginStatements,
             ExecuteStatement, StatementError, WipeError, EndStatements,
             CloseDatabase, SetDatabaseName, OpenNew, NewPragma, RecordName,
             Restore, OpenOld, Return, Goto
    <3>4. CASE Service(h)
      BY <3>0, <3>4
         DEF Service, Reopen, ReopenPragma, AnswerPicture, AnswerImage, AnswerText,
             GetName, SetDbStatus, DeletePhoto, BeginVisit, CheckVisit, BeginStatements,
             ExecuteStatement, StatementError, WipeError, EndStatements,
             CloseDatabase, SetDatabaseName, OpenNew, NewPragma, RecordName,
             Restore, OpenOld, AtDispatch, InBatch
    <3>. QED
      BY <1>1, <3>1, <3>2, <3>3, <3>4 DEF Next
  <2>2. isOpen
    <3>. SUFFICES ASSUME ~isOpen PROVE FALSE
      OBVIOUS
    <3>1. answers' = [answers EXCEPT ![h] = Append(@, "databaseerror")]
      BY <2>1 DEF AddVisit, Return, Write
    <3>2. answers \in [Threads -> Seq(Answers)] /\ answers[h] = <<>>
      BY <1>1 DEF Typed, TypeOK, Unanswered, Granted
    <3>3. answers'[h] = <<"databaseerror">>
      BY <3>1, <3>2, OneIsWritten
    <3>4. answers'[h] = <<"granted">>
      BY <1>1 DEF Granted
    <3>5. <<"databaseerror">>[1] = <<"granted">>[1]
      BY <3>3, <3>4
    <3>. QED
      BY <3>5
  <2>3. db'[file].visits = D.visits \cup NewVisits(D, m, k)
    <3>1. db' = [db EXCEPT ![file].visits = @ \cup NewVisits(D, m, k)]
      BY <2>1, <2>2 DEF AddVisit
    <3>. QED
      BY <2>0, <3>1 DEF Rows
  <2>4. CASE VisitedToday(D, m, k)
    BY <2>3, <2>4 DEF VisitedToday, HasVisit
  <2>5. ASSUME ~VisitedToday(D, m, k), NEW e \in EntitledTo(D, m, k)
        PROVE  HasVisit(db'[file], m, k)
    <3>. DEFINE v == [member |-> m, event |-> e, date |-> LocalDay,
                      time |-> LocalTime, inserted |-> inserted + 1]
    <3>1. e \in OpenEvents(D, m, k)
      BY <2>5 DEF EntitledTo, OpenEvents
    <3>2. v \in NewVisits(D, m, k)
      BY <3>1 DEF NewVisits
    <3>3. v.member = m /\ v.date = LocalDay /\ Schedule[v.event].checkpoint = k
      BY <2>5 DEF EntitledTo
    <3>4. v \in db'[file].visits
      BY <2>3, <3>2
    <3>. HIDE DEF v
    <3>. QED
      BY <3>3, <3>4 DEF HasVisit
  <2>. QED
    BY <2>4, <2>5
<1>2. Typed /\ Unanswered /\ [Next]_vars =>
        [\A h \in Threads : Granted(h) =>
           LET m == request[h].member
               k == request[h].checkpoint
           IN  \/ HasVisit(db'[file], m, k)
               \/ EntitledTo(db[file], m, k) = {}]_vars
  BY <1>1
<1>. QED
  BY <1>2, AlwaysTyped, AlwaysUnanswered, PTL DEF Spec, GrantsAreCounted

-----------------------------------------------------------------------------
(* The name of the database.                                               *)

\* Where "set dbname" has put another name into the connection than the saved
\* one, and where the file that is open need not be the one that is named.
OtherName == {"open new", "new pragma", "record", "restore"}
OtherFile == {"open new", "open old"}

\* One administrator at a time sets the database.  The connection names a file of the
\* saved name outside of OtherName, and there the saved one is remembered in
\* curdbname.
FileOf(n, f) ==
    \/ f = FileAtStart(n)
    \/ n \in Paths /\ f = InFolder[n]

OneSwitching == \A g, h \in Switching : g = h

NameInv ==
    /\ (\A h \in Threads : pc[h] \notin OtherFile) => (isOpen => file = name)
    /\ (\A h \in Threads : pc[h] \notin OtherName) => FileOf(sqlite, name)
    /\ \A h \in Threads :
         pc[h] \in OtherName =>
           name = InFolder[request[h].name] /\ curdbname[h] = sqlite

LEMMA InFolderIsFile == \A n : FileOf(n, InFolder[n])
BY DEF FileOf, FileAtStart

LEMMA OneSwitchingStep ==
    ASSUME MaxSwitching <= 1, Typed, OneSwitching, [Next]_vars
    PROVE  OneSwitching'
<1>0. /\ pc \in [Threads -> Places] /\ request \in [Threads -> Requests \cup {<<>>}]
  BY DEF Typed, TypeOK
<1>1. CASE Tick \/ UNCHANGED vars
  <2>1. UNCHANGED <<pc, request>>
    BY <1>1 DEF Tick, vars, threadVars
  <2>. QED
    BY <2>1 DEF OneSwitching, Switching
<1>2. ASSUME NEW g \in Threads, NEW r \in Requests, Receive(g, r)
      PROVE  OneSwitching'
  <2>1. /\ pc[g] = "idle" /\ request' = [request EXCEPT ![g] = r]
        /\ \E place \in Places : pc' = [pc EXCEPT ![g] = place]
    BY <1>2 DEF Receive, Goto, Places
  <2>2. CASE r.kind # "set dbname"
    <3>1. Switching' \subseteq Switching
      BY <1>0, <2>1, <2>2 DEF Switching
    <3>. QED
      BY <3>1 DEF OneSwitching
  <2>3. CASE r.kind = "set dbname"
    <3>1. IsFiniteSet(Switching)
      <4>1. Switching \subseteq Threads
        BY DEF Switching
      <4>. QED
        BY <4>1, ServiceAssumption, FS_Subset
    <3>2. Cardinality(Switching) < 1 /\ Cardinality(Switching) \in Nat
      <4>1. Cardinality(Switching) < MaxSwitching
        BY <1>2, <2>3 DEF Receive
      <4>2. Cardinality(Switching) \in Nat
        BY <3>1, FS_CardinalityType
      <4>. QED
        BY <4>1, <4>2, ServiceAssumption
    <3>3. Cardinality(Switching) = 0
      BY <3>2
    <3>4. Switching = {}
      BY <3>1, <3>3, FS_EmptySet
    <3>5. Switching' \subseteq {g}
      BY <1>0, <2>1, <3>4 DEF Switching
    <3>. QED
      BY <3>5 DEF OneSwitching
  <2>. QED
    BY <2>2, <2>3
<1>3. ASSUME NEW g \in Threads, Service(g) PROVE OneSwitching'
  <2>1. request' = request
    BY <1>3
       DEF Service, Reopen, ReopenPragma, AnswerPicture, AnswerImage, AnswerText,
           GetName, SetDbStatus, DeletePhoto, BeginVisit, CheckVisit, AddVisit, BeginStatements,
           ExecuteStatement, StatementError, WipeError, EndStatements,
           CloseDatabase, SetDatabaseName, OpenNew, NewPragma, RecordName,
           Restore, OpenOld
  <2>2. pc[g] # "idle" /\ (pc' = pc \/ \E place : pc' = [pc EXCEPT ![g] = place])
    BY <1>3
       DEF Service, Reopen, ReopenPragma, AnswerPicture, AnswerImage, AnswerText,
           GetName, SetDbStatus, DeletePhoto, BeginVisit, CheckVisit, AddVisit, BeginStatements,
           ExecuteStatement, StatementError, WipeError, EndStatements,
           CloseDatabase, SetDatabaseName, OpenNew, NewPragma, RecordName,
           Restore, OpenOld, Return, Goto, AtDispatch, InBatch
  <2>3. Switching' \subseteq Switching
    BY <1>0, <2>1, <2>2 DEF Switching
  <2>. QED
    BY <2>3 DEF OneSwitching
<1>. QED
  BY <1>1, <1>2, <1>3 DEF Next

\* Only the administrator's thread is at a place of "set dbname".
LEMMA OnlySwitcher ==
    ASSUME Typed, OneSwitching, NEW g \in Threads, NEW h \in Threads,
           pc[g] \in OtherName \cup OtherFile \cup {"set name"},
           pc[h] \in OtherName \cup OtherFile \cup {"set name"}
    PROVE  g = h
BY DEF Typed, PlacesFit, OneSwitching, Switching, OtherName, OtherFile

LEMMA NameStep ==
    ASSUME Typed, OneSwitching, NameInv, [Next]_vars
    PROVE  NameInv'
<1>0. /\ pc \in [Threads -> Places] /\ request \in [Threads -> Requests \cup {<<>>}]
      /\ curdbname \in [Threads -> Names]
  BY DEF Typed, TypeOK
<1>. USE DEF OtherName, OtherFile
\* Most steps touch neither the connection nor the saved name, and lead neither to
\* nor from the places that matter.
<1>1. ASSUME UNCHANGED <<isOpen, file, name, sqlite, curdbname>>,
             NEW g \in Threads, pc[g] \notin OtherName \cup OtherFile,
             \A h \in Threads : h # g => pc'[h] = pc[h] /\ request'[h] = request[h],
             pc'[g] \notin OtherName \cup OtherFile
      PROVE  NameInv'
  BY <1>0, <1>1 DEF NameInv
<1>2. CASE Tick \/ UNCHANGED vars
  <2>1. UNCHANGED <<isOpen, file, name, sqlite, curdbname, pc, request>>
    BY <1>2 DEF Tick, vars, connection, settings, threadVars
  <2>. QED
    BY <2>1 DEF NameInv
<1>3. ASSUME NEW g \in Threads, NEW r \in Requests, Receive(g, r) PROVE NameInv'
  BY <1>0, <1>1, <1>3 DEF Receive, Goto, connection, settings
<1>4. ASSUME NEW g \in Threads, Service(g) PROVE NameInv'
  <2>1. CASE Reopen(g)
    <3>1. /\ UNCHANGED <<name, sqlite, curdbname, request>>
          /\ isOpen' => file' = name'
      BY <2>1 DEF Reopen, Open, settings
    <3>2. pc' = [pc EXCEPT ![g] = "pragma"] /\ pc[g] = "reopen"
      BY <2>1 DEF Reopen, Goto
    <3>. QED
      BY <1>0, <3>1, <3>2 DEF NameInv
  <2>2. CASE ReopenPragma(g)
    BY <1>0, <1>1, <2>2 DEF ReopenPragma, Pragma, Goto, settings
  <2>3. CASE \/ AnswerPicture(g) \/ AnswerImage(g) \/ AnswerText(g) \/ GetName(g)
             \/ DeletePhoto(g) \/ BeginVisit(g) \/ BeginStatements(g)
             \/ CheckVisit(g) \/ AddVisit(g)
    BY <1>0, <1>1, <2>3 DEF AnswerPicture, AnswerImage, AnswerText, GetName,
       DeletePhoto, BeginVisit, BeginStatements, CheckVisit, AddVisit, Return, Goto, AtDispatch, connection,
       settings
  <2>4. CASE SetDbStatus(g)
    BY <1>0, <1>1, <2>4 DEF SetDbStatus, Goto, AtDispatch, connection
  <2>5. CASE \/ ExecuteStatement(g) \/ StatementError(g) \/ WipeError(g)
             \/ EndStatements(g)
    BY <1>0, <1>1, <2>5 DEF ExecuteStatement, StatementError, WipeError,
       EndStatements, InBatch, Return, Goto, connection, settings
  <2>6. CASE CloseDatabase(g)
    <3>1. /\ UNCHANGED <<file, name, sqlite, curdbname, request>> /\ ~isOpen'
          /\ pc[g] = "dispatch" /\ pc' = [pc EXCEPT ![g] = "set name"]
      BY <2>6 DEF CloseDatabase, AtDispatch, Goto, settings
    <3>. QED
      BY <1>0, <3>1 DEF NameInv
  <2>7. CASE SetDatabaseName(g)
    <3>1. /\ UNCHANGED <<file, isOpen, sqlite, request>>
          /\ pc[g] = "set name" /\ pc' = [pc EXCEPT ![g] = "open new"]
          /\ name' = InFolder[request[g].name]
          /\ curdbname' = [curdbname EXCEPT ![g] = sqlite]
      BY <2>7 DEF SetDatabaseName, Goto, settings
    <3>2. \A h \in Threads : h # g => pc[h] \notin OtherName
      BY <3>1, OnlySwitcher
    <3>. QED
      BY <1>0, <3>1, <3>2 DEF NameInv
  <2>8. CASE OpenNew(g)
    <3>1. /\ UNCHANGED <<name, sqlite, curdbname, request>>
          /\ isOpen' => file' = name'
          /\ pc[g] = "open new"
          /\ \E place \in {"new pragma", "restore"} : pc' = [pc EXCEPT ![g] = place]
      BY <2>8 DEF OpenNew, Open, Goto, settings
    <3>. QED
      BY <1>0, <3>1 DEF NameInv
  <2>9. CASE NewPragma(g)
    <3>1. /\ UNCHANGED <<isOpen, file, name, sqlite, curdbname, request>>
          /\ pc[g] = "new pragma" /\ pc' = [pc EXCEPT ![g] = "record"]
      BY <2>9 DEF NewPragma, Pragma, Goto, settings
    <3>. QED
      BY <1>0, <3>1 DEF NameInv
  <2>10. CASE RecordName(g)
    <3>1. /\ UNCHANGED <<isOpen, file, name, curdbname, request>>
          /\ pc[g] = "record" /\ pc' = [pc EXCEPT ![g] = "idle"]
          /\ sqlite' = request[g].name
          /\ FileOf(sqlite', InFolder[request[g].name])
      BY <2>10, InFolderIsFile DEF RecordName, Return, Goto, connection
    <3>2. \A h \in Threads : h # g => pc[h] \notin OtherName \cup OtherFile
      BY <3>1, OnlySwitcher
    <3>. QED
      BY <1>0, <3>1, <3>2 DEF NameInv
  <2>11. CASE Restore(g)
    <3>1. /\ UNCHANGED <<isOpen, file, sqlite, curdbname, request>>
          /\ pc[g] = "restore" /\ pc' = [pc EXCEPT ![g] = "open old"]
          /\ name' = InFolder[curdbname[g]] /\ FileOf(curdbname[g], name')
      BY <2>11, InFolderIsFile DEF Restore, RestoreName, Goto, settings
    <3>2. \A h \in Threads : h # g => pc[h] \notin OtherName
      BY <3>1, OnlySwitcher
    <3>. QED
      BY <1>0, <3>1, <3>2 DEF NameInv
  <2>12. CASE OpenOld(g)
    <3>1. /\ UNCHANGED <<name, sqlite, curdbname, request>>
          /\ isOpen' => file' = name'
          /\ pc[g] = "open old" /\ pc' = [pc EXCEPT ![g] = "idle"]
      BY <2>12 DEF OpenOld, Open, Return, Goto, settings
    <3>. QED
      BY <1>0, <3>1 DEF NameInv
  <2>. QED
    BY <1>4, <2>1, <2>2, <2>3, <2>4, <2>5, <2>6, <2>7, <2>8, <2>9, <2>10, <2>11,
       <2>12 DEF Service
<1>. QED
  BY <1>2, <1>3, <1>4 DEF Next

\* With one administrator at a time, the connection and the file it has open are
\* those of the saved name whenever no "set dbname" is in progress, however many
\* other threads reopen the connection in between and whether or not the new file
\* can be opened: the file that the next start opens, or, for a name with a slash,
\* perhaps the one in the folder.  (With two administrators they may not be.)
THEOREM SettingsAgree ==
    ASSUME MaxSwitching <= 1
    PROVE  Spec => []SettingsNameDatabase
<1>1. Init => OneSwitching /\ NameInv
  <2>. SUFFICES ASSUME Init PROVE OneSwitching /\ NameInv
    OBVIOUS
  <2>1. /\ name = FileAtStart(sqlite) /\ file = name
        /\ \A h \in Threads : pc[h] = "idle"
    BY DEF Init
  <2>2. Switching = {}
    BY <2>1 DEF Switching
  <2>3. \A h \in Threads : pc[h] \notin OtherName \cup OtherFile
    BY <2>1 DEF OtherName, OtherFile
  <2>4. FileOf(sqlite, name)
    BY <2>1 DEF FileOf
  <2>5. OneSwitching
    BY <2>2 DEF OneSwitching
  <2>. QED
    BY <2>1, <2>2, <2>3, <2>4, <2>5 DEF NameInv
<1>2. Typed /\ OneSwitching /\ [Next]_vars => OneSwitching'
  BY OneSwitchingStep
<1>3. Typed /\ OneSwitching /\ NameInv /\ [Next]_vars => NameInv'
  BY NameStep
<1>4. Typed /\ NameInv => SettingsNameDatabase
  <2>. SUFFICES ASSUME Typed, NameInv, Switching = {}
                PROVE  FileOf(sqlite, name) /\ (isOpen => file = name)
    BY DEF SettingsNameDatabase, FileOf
  <2>1. \A h \in Threads : pc[h] \notin OtherName \cup OtherFile
    BY DEF Typed, PlacesFit, Switching, OtherName, OtherFile
  <2>. QED
    BY <2>1 DEF NameInv
<1>. QED
  BY <1>1, <1>2, <1>3, <1>4, AlwaysTyped, PTL DEF Spec

-----------------------------------------------------------------------------
(* The register of attendance.                                             *)

LEMMA NoEmptyRequest == <<>> \notin Requests
<1>1. \A r \in AllRequests : "kind" \in DOMAIN r
  BY DEF AllRequests
<1>2. DOMAIN <<>> = {}
  OBVIOUS
<1>. QED
  BY <1>1, <1>2, ServiceAssumption

\* What the house looks like to a scan depends on the time and on these tables.
SameTables ==
    \A d \in Databases :
        /\ db'[d].members = db[d].members /\ db'[d].events = db[d].events
        /\ db'[d].groups = db[d].groups /\ db'[d].invites = db[d].invites

LEMMA SameWelcome == clock' = clock /\ SameTables => Welcome' = Welcome
<1>. SUFFICES ASSUME clock' = clock, SameTables PROVE Welcome' = Welcome
  OBVIOUS
<1>1. \A e : (OnThisDay(e)' <=> OnThisDay(e)) /\ (InHours(e)' <=> InHours(e))
  BY DEF OnThisDay, InHours, UtcDay, LocalTime
<1>2. ASSUME NEW d \in Databases, NEW m, NEW k
      PROVE  EntitledTo(db[d], m, k)' = EntitledTo(db[d], m, k)
  <2>1. \A e : Invited(db'[d], e, m) <=> Invited(db[d], e, m)
    BY DEF SameTables, Invited
  <2>. QED
    BY <1>1, <2>1 DEF EntitledTo, SameTables
<1>. QED
  BY <1>2 DEF Welcome, SameTables

LEMMA SameHouse ==
    ASSUME clock' = clock, db' = db
    PROVE  LocalDay' = LocalDay /\ Welcome' = Welcome /\ Register' = Register
<1>1. SameTables
  BY DEF SameTables
<1>. QED
  BY <1>1, SameWelcome DEF LocalDay, Register, Admissions

BookTypes ==
    /\ Welcome \in [Databases -> SUBSET Book!Places]
    /\ Register \in [Databases -> SUBSET (Members \X Checkpoints \X Int)]

LEMMA BookTyped == Typed => BookTypes
<1>. SUFFICES ASSUME Typed PROVE BookTypes
  OBVIOUS
<1>1. ASSUME NEW d \in Databases
      PROVE  /\ db[d].members \subseteq Members
             /\ \A v \in db[d].visits : /\ v.member \in Members /\ v.date \in Int
                                        /\ Schedule[v.event].checkpoint \in Checkpoints
  <2>1. db[d] \in Rows
    BY DEF Typed, TypeOK
  <2>. QED
    BY <2>1, ServiceAssumption DEF Rows, Visits
<1>2. ASSUME NEW d \in Databases
      PROVE  Admissions(db[d].visits) \subseteq Members \X Checkpoints \X Int
  BY <1>1 DEF Admissions
<1>3. ASSUME NEW d \in Databases
      PROVE  {p \in db[d].members \X Checkpoints : EntitledTo(db[d], p[1], p[2]) # {}}
                \subseteq Members \X Checkpoints
  BY <1>1
<1>. QED
  BY <1>2, <1>3 DEF BookTypes, Welcome, Register, Book!Places

\* Which members the INSERT adds rows of is what the register and the list of
\* those who are welcome say.
LEMMA DueIsOpen ==
    ASSUME Typed, NEW d \in Databases, NEW h \in Threads, Scanning(h),
           request[h] \in Requests
    PROVE  Book!Due(h, d)
             <=> OpenEvents(db[d], request[h].member, request[h].checkpoint) # {}
<1>. DEFINE m == request[h].member
            k == request[h].checkpoint
            D == db[d]
<1>1. m \in Members /\ k \in Checkpoints
  BY VisitRequests DEF Scanning, Kind
<1>2. Scan[h].member = m /\ Scan[h].checkpoint = k
  BY DEF Scan
<1>3. VisitedToday(D, m, k) <=> <<m, k, LocalDay>> \in Register[d]
  BY DEF VisitedToday, Register, Admissions
<1>4. <<m, k>> \in Welcome[d] <=> EntitledTo(D, m, k) # {}
  <2>1. EntitledTo(D, m, k) # {} => m \in D.members
    BY DEF EntitledTo, Invited
  <2>. QED
    BY <1>1, <2>1 DEF Welcome
<1>5. OpenEvents(D, m, k) # {} <=> EntitledTo(D, m, k) # {} /\ ~VisitedToday(D, m, k)
  BY DEF OpenEvents, EntitledTo
<1>. QED
  BY <1>2, <1>3, <1>4, <1>5 DEF Book!Due, Book!Place, Book!Entry

LEMMA NextDay ==
    ASSUME NEW n \in Nat, NEW t \in Nat \ {0}
    PROVE  (n + 1) \div t = n \div t \/ (n + 1) \div t = (n \div t) + 1
OBVIOUS

-----------------------------------------------------------------------------
(* What a step of a thread is to the register.                             *)

\* Most steps of a request are none of the register's business.
LEMMA ScanStays ==
    ASSUME Typed, NEW h \in Threads, UNCHANGED request,
           NEW place \in Places, pc' = [pc EXCEPT ![h] = place],
           \/ answers' = answers /\ pc[h] \notin {"idle", "insert"}
                /\ place \notin {"idle", "insert"}
           \/ /\ Kind(h) # "visit"
              /\ \A g \in Threads : g # h => answers'[g] = answers[g]
    PROVE  Scan' = Scan
<1>0. pc \in [Threads -> Places]
  BY DEF Typed, TypeOK
<1>1. ASSUME NEW g \in Threads PROVE Scanning(g)' <=> Scanning(g)
  BY DEF Scanning, Kind
<1>2. ASSUME NEW g \in Threads, Scanning(g) PROVE Verdict(g)' = Verdict(g)
  BY <1>0, <1>2 DEF Scanning, Verdict, Kind
<1>. QED
  BY <1>1, <1>2 DEF Scan, Kind

\* What becomes of the scans when one verdict is given.
LEMMA VerdictGiven ==
    ASSUME NEW h \in Threads, NEW to, UNCHANGED request,
           Scanning(h), Scanning(h)', Verdict(h)' = to,
           \A g \in Threads : g # h => /\ Scanning(g)' <=> Scanning(g)
                                      /\ Verdict(g)' = Verdict(g)
    PROVE  Scan' = [Scan EXCEPT ![h].verdict = to]
<1>1. Scan'[h] = [Scan[h] EXCEPT !.verdict = to]
  <2>1. /\ Scan[h] = [member |-> request[h].member,
                      checkpoint |-> request[h].checkpoint, verdict |-> Verdict(h)]
        /\ Scan'[h] = [member |-> request[h].member,
                       checkpoint |-> request[h].checkpoint, verdict |-> to]
    BY DEF Scan
  <2>. QED
    BY <2>1
<1>2. \A g \in Threads : g # h => Scan'[g] = Scan[g]
  BY DEF Scan, Kind
<1>3. Scan' = [g \in Threads |-> Scan'[g]] /\ Scan = [g \in Threads |-> Scan[g]]
  BY DEF Scan
<1>. QED
  BY <1>1, <1>2, <1>3

\* The two looks of a scan, and its answer.
LEMMA ScanMoves ==
    ASSUME Typed, Unanswered, NEW h \in Threads, UNCHANGED request,
           pc[h] # "idle", Kind(h) = "visit",
           NEW to,
           \/ pc' = [pc EXCEPT ![h] = "insert"] /\ answers' = answers /\ to = "passed"
           \/ /\ pc' = [pc EXCEPT ![h] = "idle"]
              /\ answers' = [answers EXCEPT ![h] = Append(@, to)]
           \/ /\ pc' = [pc EXCEPT ![h] = "idle"]
              /\ answers' = answers /\ to = "no answer"
    PROVE  /\ Scan[h].verdict = IF pc[h] = "insert" THEN "passed" ELSE "asked"
           /\ Scan' = [Scan EXCEPT ![h].verdict = to]
<1>0. /\ pc \in [Threads -> Places] /\ answers \in [Threads -> Seq(Answers)]
      /\ request[h] \in Requests
  BY DEF Typed, TypeOK, PlacesFit
<1>1. Scanning(h) /\ Scanning(h)'
  BY <1>0, NoEmptyRequest DEF Scanning, Kind
<1>2. ASSUME NEW g \in Threads, g # h
      PROVE  (Scanning(g)' <=> Scanning(g)) /\ Verdict(g)' = Verdict(g)
  BY <1>0, <1>2 DEF Scanning, Verdict, Kind
<1>3. Verdict(h)' = to
  <2>1. CASE pc' = [pc EXCEPT ![h] = "insert"] /\ to = "passed"
    BY <1>0, <2>1 DEF Verdict
  <2>2. CASE /\ pc' = [pc EXCEPT ![h] = "idle"]
             /\ answers' = [answers EXCEPT ![h] = Append(@, to)]
    <3>1. answers'[h] = <<to>>
      BY <1>0, <2>2, OneIsWritten DEF Unanswered
    <3>2. Head(<<to>>) = to /\ <<to>> # <<>>
      BY HeadOfOne
    <3>. QED
      BY <1>0, <2>2, <3>1, <3>2 DEF Verdict
  <2>3. CASE /\ pc' = [pc EXCEPT ![h] = "idle"]
             /\ answers' = answers /\ to = "no answer"
    BY <1>0, <2>3 DEF Verdict, Unanswered
  <2>. QED
    BY <2>1, <2>2, <2>3
<1>4. Scan' = [Scan EXCEPT ![h].verdict = to]
  BY <1>1, <1>2, <1>3, VerdictGiven
<1>5. Scan[h].verdict = IF pc[h] = "insert" THEN "passed" ELSE "asked"
  BY <1>1 DEF Scan, Verdict
<1>. QED
  BY <1>4, <1>5

LEMMA TickIsTime ==
    ASSUME Typed, Typed', Tick
    PROVE  Book!PassTime
<1>1. UNCHANGED <<db, isOpen, file, databaseBusy, pc, request, answers>>
  BY DEF Tick, connection, settings, threadVars
<1>2. Scan' = Scan
  BY <1>1 DEF Scan, Scanning, Kind, Verdict
<1>3. Current' = Current /\ Register' = Register
  BY <1>1 DEF Current, Register, Admissions
<1>4. LocalDay' = LocalDay \/ LocalDay' = LocalDay + 1
  BY NextDay, ServiceAssumption DEF Tick, LocalDay, Typed, TypeOK
<1>5. Welcome' \in [Databases -> SUBSET Book!Places]
  <2>1. BookTypes'
    BY BookTyped, PTL
  <2>. QED
    BY <2>1 DEF BookTypes
<1>. QED
  BY <1>1, <1>2, <1>3, <1>4, <1>5 DEF Book!PassTime

LEMMA ReceiveAsks ==
    ASSUME Typed, NEW h \in Threads, NEW r \in Requests, Receive(h, r)
    PROVE  Book!Ask(h) \/ Book!Leave(h)
<1>0. /\ pc \in [Threads -> Places] /\ answers \in [Threads -> Seq(Answers)]
      /\ request \in [Threads -> Requests \cup {<<>>}]
  BY DEF Typed, TypeOK
<1>1. /\ UNCHANGED <<clock, db, isOpen, file, databaseBusy>>
      /\ pc[h] = "idle" /\ request' = [request EXCEPT ![h] = r]
      /\ \A g \in Threads : g # h => answers'[g] = answers[g] /\ pc'[g] = pc[g]
      /\ pc'[h] \in {"reopen", "dispatch"}
  BY <1>0 DEF Receive, connection, settings, Goto
<1>2. Current' = Current /\ UNCHANGED <<LocalDay, Welcome, Register, databaseBusy>>
  BY <1>1, SameHouse DEF Current
<1>3. \A g \in Threads : g # h => Scan'[g] = Scan[g]
  BY <1>0, <1>1 DEF Scan, Scanning, Kind, Verdict
<1>4. Scan[h].verdict \notin Book!Undecided
  <2>1. CASE Scanning(h)
    <3>1. CASE answers[h] = <<>>
      <4>1. Scan[h].verdict = "no answer"
        BY <1>1, <2>1, <3>1 DEF Scan, Verdict
      <4>. QED
        BY <4>1 DEF Book!Undecided
    <3>2. CASE answers[h] # <<>>
      <4>1. answers[h] \in Seq(Answers)
        BY <1>0
      <4>2. Head(answers[h]) \in Answers
        BY <3>2, <4>1
      <4>3. Scan[h].verdict = Head(answers[h])
        BY <1>1, <2>1, <3>2 DEF Scan, Verdict
      <4>. QED
        BY <4>2, <4>3 DEF Answers, Book!Undecided
    <3>. QED
      BY <3>1, <3>2
  <2>2. CASE ~Scanning(h)
    BY <2>2 DEF Scan, Book!Undecided
  <2>. QED
    BY <2>1, <2>2
<1>5. Scan = [g \in Threads |-> Scan[g]] /\ Scan' = [g \in Threads |-> Scan'[g]]
  BY DEF Scan
<1>6. ASSUME NEW s, Scan'[h] = s PROVE Scan' = [Scan EXCEPT ![h] = s]
  BY <1>3, <1>5, <1>6
<1>7. CASE r.kind = "visit"
  <2>1. Scan'[h] = [member |-> r.member, checkpoint |-> r.checkpoint,
                    verdict |-> "asked"]
    BY <1>0, <1>1, <1>7, NoEmptyRequest DEF Scan, Scanning, Kind, Verdict
  <2>2. r.member \in Members /\ r.checkpoint \in Checkpoints
    BY <1>7, VisitRequests
  <2>3. Scan' = [Scan EXCEPT ![h] = [member |-> r.member,
                                     checkpoint |-> r.checkpoint,
                                     verdict |-> "asked"]]
    BY <1>6, <2>1
  <2>. QED
    BY <1>2, <1>4, <2>2, <2>3 DEF Book!Ask, Book!house
<1>8. CASE r.kind # "visit"
  <2>1. Scan'[h] = Book!NoScan
    BY <1>0, <1>1, <1>8 DEF Scan, Scanning, Kind, Book!NoScan
  <2>2. Scan' = [Scan EXCEPT ![h] = Book!NoScan]
    BY <1>6, <2>1
  <2>. QED
    BY <1>2, <1>4, <2>2 DEF Book!Leave, Book!house
<1>. QED
  BY <1>7, <1>8

\* Steps that leave the rows alone and decide no scan.
LEMMA QuietStep ==
    ASSUME Typed', UNCHANGED <<clock, db, databaseBusy>>, Scan' = Scan
    PROVE  Book!Switch
<1>1. LocalDay' = LocalDay /\ Welcome' = Welcome /\ Register' = Register
  BY SameHouse
<1>2. Current' = {} \/ \E d \in Databases : Current' = {d}
  BY DEF Current, Typed, TypeOK
<1>. QED
  BY <1>1, <1>2 DEF Book!Switch

\* What the register does not notice, except that the database may be another
\* one, or that databaseBusy is set.
LEMMA OtherSteps ==
    ASSUME Typed, Typed', NEW h \in Threads,
           \/ Reopen(h) \/ ReopenPragma(h) \/ AnswerImage(h) \/ AnswerText(h)
           \/ GetName(h) \/ SetDbStatus(h) \/ DeletePhoto(h) \/ BeginVisit(h) \/ BeginStatements(h)
           \/ StatementError(h) \/ WipeError(h) \/ EndStatements(h)
           \/ CloseDatabase(h) \/ SetDatabaseName(h) \/ OpenNew(h)
           \/ NewPragma(h) \/ RecordName(h) \/ Restore(h) \/ OpenOld(h)
    PROVE  Book!Switch \/ Book!SetBusy
<1>0. /\ answers \in [Threads -> Seq(Answers)]
      /\ pc[h] # "idle" => request[h] \in Requests
      /\ InBatch(h) => Kind(h) # "visit"
      /\ pc[h] \in {"record", "open old"} => Kind(h) # "visit"
  BY DEF Typed, TypeOK, PlacesFit, Kind
<1>. DEFINE Moves(place) ==
              /\ UNCHANGED <<clock, db, request>>
              /\ pc' = [pc EXCEPT ![h] = place]
              /\ \/ answers' = answers /\ pc[h] \notin {"idle", "insert"}
                      /\ place \notin {"idle", "insert"}
                 \/ /\ Kind(h) # "visit"
                    /\ \A g \in Threads : g # h => answers'[g] = answers[g]
<1>1. ASSUME NEW place \in Places, Moves(place) PROVE Scan' = Scan
  BY <1>1, ScanStays
<1>2. ASSUME NEW place \in Places, Moves(place), databaseBusy' = databaseBusy
      PROVE  Book!Switch
  BY <1>1, <1>2, QuietStep
<1>3. CASE SetDbStatus(h)
  <2>1. Moves("idle")
    BY <1>3 DEF SetDbStatus, AtDispatch, Goto
  <2>2. Scan' = Scan
    BY <1>1, <2>1 DEF Places
  <2>3. LocalDay' = LocalDay /\ Welcome' = Welcome /\ Register' = Register
    BY <2>1, SameHouse
  <2>4. Current' = Current /\ databaseBusy' \in BOOLEAN
    BY <1>3 DEF SetDbStatus, connection, Current, Typed, TypeOK
  <2>. QED
    BY <2>2, <2>3, <2>4 DEF Book!SetBusy
<1>4. CASE Reopen(h) \/ ReopenPragma(h)
  <2>1. databaseBusy' = databaseBusy /\ (Moves("pragma") \/ Moves("dispatch"))
    BY <1>4 DEF Reopen, ReopenPragma, Goto, settings
  <2>. QED
    BY <1>2, <2>1 DEF Places
<1>5. CASE AnswerImage(h) \/ AnswerText(h)
  <2>1. databaseBusy' = databaseBusy /\ Moves("idle")
    BY <1>0, <1>5 DEF AnswerImage, AnswerText, AtDispatch, Return, Write, Goto, settings
  <2>. QED
    BY <1>2, <2>1 DEF Places
<1>6. CASE GetName(h) \/ DeletePhoto(h)
  <2>1. databaseBusy' = databaseBusy /\ Moves("idle")
    BY <1>0, <1>6 DEF GetName, DeletePhoto, AtDispatch, Goto, settings
  <2>. QED
    BY <1>2, <2>1 DEF Places
<1>7. CASE BeginVisit(h) \/ BeginStatements(h)
  <2>1. /\ databaseBusy' = databaseBusy
        /\ Moves("select") \/ Moves("wipe") \/ Moves("statements")
    BY <1>7 DEF BeginVisit, BeginStatements, AtDispatch, Goto, settings
  <2>. QED
    BY <1>2, <2>1 DEF Places
<1>8. CASE StatementError(h) \/ EndStatements(h)
  <2>1. databaseBusy' = databaseBusy /\ Moves("idle")
    BY <1>0, <1>8 DEF StatementError, EndStatements, InBatch, Return, Write, Goto,
       settings
  <2>. QED
    BY <1>2, <2>1 DEF Places
<1>9. CASE WipeError(h)
  <2>1. databaseBusy' = databaseBusy /\ Moves("failed wipe")
    BY <1>9 DEF WipeError, Goto, settings
  <2>. QED
    BY <1>2, <2>1 DEF Places
<1>10. CASE CloseDatabase(h) \/ SetDatabaseName(h)
  <2>1. /\ databaseBusy' = databaseBusy
        /\ Moves("set name") \/ Moves("open new")
    BY <1>10 DEF CloseDatabase, SetDatabaseName, AtDispatch, Goto, settings
  <2>. QED
    BY <1>2, <2>1 DEF Places
<1>11. CASE OpenNew(h) \/ NewPragma(h)
  <2>1. /\ databaseBusy' = databaseBusy
        /\ Moves("new pragma") \/ Moves("restore") \/ Moves("record")
    BY <1>11 DEF OpenNew, NewPragma, Goto, settings
  <2>. QED
    BY <1>2, <2>1 DEF Places
<1>12. CASE Restore(h)
  <2>1. databaseBusy' = databaseBusy /\ Moves("open old")
    BY <1>12 DEF Restore, Goto, settings
  <2>. QED
    BY <1>2, <2>1 DEF Places
<1>13. CASE RecordName(h) \/ OpenOld(h)
  <2>1. databaseBusy' = databaseBusy /\ Moves("idle")
    BY <1>0, <1>13 DEF RecordName, OpenOld, Return, Write, Goto, settings
  <2>. QED
    BY <1>2, <2>1 DEF Places
<1>. QED
  BY <1>3, <1>4, <1>5, <1>6, <1>7, <1>8, <1>9, <1>10, <1>11, <1>12, <1>13

\* A visit is answered with the picture while databaseBusy is set, or not at all.
LEMMA PictureIsShown ==
    ASSUME Typed, Typed', Unanswered, NEW h \in Threads, AnswerPicture(h)
    PROVE  Book!ShowPicture(h) \/ Book!Switch
<1>1. /\ UNCHANGED <<clock, db, request, isOpen, file, databaseBusy>>
      /\ pc[h] = "dispatch"
      /\ pc' = [pc EXCEPT ![h] = "idle"]
      /\ \/ answers' = [answers EXCEPT ![h] = Append(@, "picture")]
         \/ answers' = answers
  BY DEF AnswerPicture, AtDispatch, Return, Write, Goto, connection, settings
<1>2. CASE Kind(h) = "visit"
  <2>1. databaseBusy
    BY <1>2 DEF AnswerPicture, AtDispatch
  <2>2. /\ Scan[h].verdict = "asked"
        /\ \/ Scan' = [Scan EXCEPT ![h].verdict = "picture"]
           \/ Scan' = [Scan EXCEPT ![h].verdict = "no answer"]
    BY <1>1, <1>2, ScanMoves
  <2>3. Current' = Current /\ UNCHANGED <<LocalDay, Welcome, Register>>
    BY <1>1, SameHouse DEF Current
  <2>. QED
    BY <1>1, <2>1, <2>2, <2>3 DEF Book!ShowPicture, Book!Decide, Book!house
<1>3. CASE Kind(h) # "visit"
  <2>1. \A g \in Threads : g # h => answers'[g] = answers[g]
    BY <1>1 DEF Typed, TypeOK
  <2>2. Scan' = Scan
    BY <1>1, <1>3, <2>1, ScanStays DEF Places
  <2>. QED
    BY <1>1, <2>2, QuietStep
<1>. QED
  BY <1>2, <1>3

LEMMA CheckDecides ==
    ASSUME Typed, Unanswered, NEW h \in Threads, CheckVisit(h)
    PROVE  Book!Pass(h) \/ Book!Refuse(h) \/ Book!Fail(h)
<1>1. /\ UNCHANGED <<clock, db, request, isOpen, file, databaseBusy>>
      /\ pc[h] = "select"
  BY DEF CheckVisit, connection, settings
<1>2. request[h] \in Requests /\ Kind(h) = "visit"
  BY <1>1 DEF Typed, PlacesFit, Kind
<1>3. Scanning(h)
  BY <1>2, NoEmptyRequest DEF Scanning
<1>4. Current' = Current /\ UNCHANGED <<LocalDay, Welcome, Register, databaseBusy>>
  BY <1>1, SameHouse DEF Current
<1>5. CASE ~isOpen
  <2>1. /\ pc' = [pc EXCEPT ![h] = "idle"]
        /\ answers' = [answers EXCEPT ![h] = Append(@, "databaseerror")]
    BY <1>5 DEF CheckVisit, Return, Write, Goto
  <2>2. /\ Scan[h].verdict = "asked"
        /\ Scan' = [Scan EXCEPT ![h].verdict = "databaseerror"]
    BY <1>1, <1>2, <2>1, ScanMoves
  <2>3. Current = {}
    BY <1>5 DEF Current
  <2>. QED
    BY <1>4, <2>2, <2>3 DEF Book!Fail, Book!Decide, Book!house, Book!Undecided
<1>6. CASE isOpen /\ Candidates(h) = {}
  <2>1. /\ pc' = [pc EXCEPT ![h] = "idle"]
        /\ answers' = [answers EXCEPT ![h] = Append(@, "accessdenied")]
    BY <1>6 DEF CheckVisit, Return, Write, Goto
  <2>2. /\ Scan[h].verdict = "asked"
        /\ Scan' = [Scan EXCEPT ![h].verdict = "accessdenied"]
    BY <1>1, <1>2, <2>1, ScanMoves
  <2>3. file \in Current /\ ~Book!Due(h, file)
    BY <1>2, <1>3, <1>6, DueIsOpen DEF Current, Candidates, Typed, TypeOK
  <2>. QED
    BY <1>4, <2>2, <2>3 DEF Book!Refuse, Book!Decide, Book!house
<1>7. CASE isOpen /\ Candidates(h) # {}
  <2>1. pc' = [pc EXCEPT ![h] = "insert"] /\ answers' = answers
    BY <1>7 DEF CheckVisit, Goto
  <2>2. /\ Scan[h].verdict = "asked"
        /\ Scan' = [Scan EXCEPT ![h].verdict = "passed"]
    BY <1>1, <1>2, <2>1, ScanMoves
  <2>3. file \in Current /\ Book!Due(h, file)
    BY <1>2, <1>3, <1>7, DueIsOpen DEF Current, Candidates, Typed, TypeOK
  <2>. QED
    BY <1>4, <2>2, <2>3 DEF Book!Pass, Book!Decide, Book!house
<1>. QED
  BY <1>5, <1>6, <1>7

\* The INSERT enters the member in the register if the member is due, and nobody
\* else.
LEMMA InsertEnters ==
    ASSUME Typed, NEW h \in Threads, Scanning(h), request[h] \in Requests, isOpen,
           db' = [db EXCEPT ![file].visits = @ \cup
                    NewVisits(db[file], request[h].member, request[h].checkpoint)]
    PROVE  /\ SameTables
           /\ IF Book!Due(h, file)
                THEN Register' = [Register EXCEPT ![file] = @ \cup {Book!Entry(h)}]
                ELSE Register' = Register
<1>. DEFINE m == request[h].member
            k == request[h].checkpoint
            Found == OpenEvents(db[file], m, k)
            New == NewVisits(db[file], m, k)
<1>0. file \in Databases /\ db \in [Databases -> Rows]
  BY DEF Typed, TypeOK
<1>1. /\ db'[file] = [db[file] EXCEPT !.visits = @ \cup New]
      /\ \A d \in Databases : d # file => db'[d] = db[d]
  BY <1>0
<1>2. SameTables /\ db'[file].visits = db[file].visits \cup New
  <2>1. db[file] \in Rows
    BY <1>0
  <2>. HIDE DEF New
  <2>. QED
    BY <1>1, <2>1 DEF SameTables, Rows
<1>3. Book!Entry(h) = <<m, k, LocalDay>>
  BY DEF Book!Entry, Scan
<1>4. Admissions(New) = IF Found # {} THEN {<<m, k, LocalDay>>} ELSE {}
  <2>1. \A e \in Found : Schedule[e].checkpoint = k
    BY DEF OpenEvents
  <2>2. New = {[member |-> m, event |-> e, date |-> LocalDay, time |-> LocalTime,
                inserted |-> inserted + 1] : e \in Found}
    BY DEF NewVisits
  <2>3. \A v \in New : <<v.member, Schedule[v.event].checkpoint, v.date>>
                         = <<m, k, LocalDay>>
    <3>. HIDE DEF Found, New
    <3>. QED
      BY <2>1, <2>2
  <2>4. New = {} <=> Found = {}
    <3>. HIDE DEF Found, New
    <3>. QED
      BY <2>2
  <2>. HIDE DEF Found, New
  <2>. QED
    BY <2>3, <2>4 DEF Admissions
<1>5. Admissions(db[file].visits \cup New)
        = Admissions(db[file].visits) \cup Admissions(New)
  <2>. HIDE DEF New
  <2>. QED
    BY DEF Admissions
<1>6. Register'[file] = IF Found # {} THEN Register[file] \cup {<<m, k, LocalDay>>}
                        ELSE Register[file]
  <2>1. Register'[file] = Admissions(db'[file].visits)
        /\ Register[file] = Admissions(db[file].visits)
    BY <1>0 DEF Register, Admissions
  <2>. HIDE DEF Found, New
  <2>. QED
    BY <1>2, <1>4, <1>5, <2>1
<1>7. \A d \in Databases : d # file => Register'[d] = Register[d]
  BY <1>1 DEF Register, Admissions
<1>8. /\ Register = [d \in Databases |-> Register[d]]
      /\ Register' = [d \in Databases |-> Register'[d]]
  BY DEF Register
<1>9. Book!Due(h, file) <=> Found # {}
  BY <1>0, DueIsOpen
<1>. HIDE DEF Found
<1>10. CASE Found # {}
  BY <1>0, <1>2, <1>3, <1>6, <1>7, <1>8, <1>9, <1>10
<1>11. CASE Found = {}
  <2>1. Register' = Register
    BY <1>6, <1>7, <1>8, <1>11
  <2>. QED
    BY <1>2, <1>9, <1>11, <2>1
<1>. QED
  BY <1>10, <1>11

LEMMA AddDecides ==
    ASSUME Typed, Unanswered, NEW h \in Threads, AddVisit(h)
    PROVE  Book!Admit(h) \/ Book!AdmitUncounted(h) \/ Book!Fail(h)
<1>1. /\ UNCHANGED <<clock, request, isOpen, file, databaseBusy>>
      /\ pc[h] = "insert"
  BY DEF AddVisit, connection, settings
<1>2. request[h] \in Requests /\ Kind(h) = "visit"
  BY <1>1 DEF Typed, PlacesFit, Kind
<1>3. Scanning(h)
  BY <1>2, NoEmptyRequest DEF Scanning
<1>4. Current' = Current /\ LocalDay' = LocalDay
  BY <1>1 DEF Current, LocalDay
<1>5. CASE ~isOpen
  <2>1. /\ pc' = [pc EXCEPT ![h] = "idle"]
        /\ answers' = [answers EXCEPT ![h] = Append(@, "databaseerror")]
        /\ db' = db
    BY <1>5 DEF AddVisit, Return, Write, Goto
  <2>2. /\ Scan[h].verdict = "passed"
        /\ Scan' = [Scan EXCEPT ![h].verdict = "databaseerror"]
    BY <1>1, <1>2, <2>1, ScanMoves
  <2>3. Current = {}
    BY <1>5 DEF Current
  <2>4. Welcome' = Welcome /\ Register' = Register
    BY <1>1, <2>1, SameHouse
  <2>. QED
    BY <1>1, <1>4, <2>2, <2>3, <2>4
    DEF Book!Fail, Book!Decide, Book!house, Book!Undecided
<1>6. CASE isOpen
  <2>1. /\ pc' = [pc EXCEPT ![h] = "idle"]
        /\ answers' = [answers EXCEPT ![h] = Append(@, "granted")]
        /\ db' = [db EXCEPT ![file].visits = @ \cup
                    NewVisits(db[file], request[h].member, request[h].checkpoint)]
    BY <1>6 DEF AddVisit, Return, Write, Goto
  <2>2. /\ Scan[h].verdict = "passed"
        /\ Scan' = [Scan EXCEPT ![h].verdict = "granted"]
    BY <1>1, <1>2, <2>1, ScanMoves
  <2>3. file \in Current
    BY <1>6 DEF Current
  <2>4. /\ SameTables
        /\ IF Book!Due(h, file)
             THEN Register' = [Register EXCEPT ![file] = @ \cup {Book!Entry(h)}]
             ELSE Register' = Register
    BY <1>2, <1>3, <1>6, <2>1, InsertEnters
  <2>5. Welcome' = Welcome
    BY <1>1, <2>4, SameWelcome
  <2>6. CASE Book!Due(h, file)
    BY <1>1, <1>4, <2>2, <2>3, <2>4, <2>5, <2>6 DEF Book!Admit, Book!Decide, Book!house
  <2>7. CASE ~Book!Due(h, file)
    BY <1>1, <1>4, <2>2, <2>3, <2>4, <2>5, <2>7
    DEF Book!AdmitUncounted, Book!Decide, Book!house
  <2>. QED
    BY <2>6, <2>7
<1>. QED
  BY <1>5, <1>6

\* A statement of an administrator is an edit: it may only take visits away.
LEMMA StatementEdits ==
    ASSUME Typed, Typed', NEW h \in Threads, ExecuteStatement(h)
    PROVE  Book!Edit
<1>0. file \in Databases /\ db \in [Databases -> Rows]
  BY DEF Typed, TypeOK
<1>1. /\ UNCHANGED <<clock, request, pc, answers, isOpen, file, databaseBusy>>
      /\ isOpen
      /\ db' = [db EXCEPT ![file] = Result(@, Head(todo[h]))]
  BY DEF ExecuteStatement, Execute, connection, settings
<1>2. UNCHANGED <<Scan, LocalDay, Current>> /\ file \in Current
  BY <1>1 DEF Scan, Scanning, Kind, Verdict, LocalDay, Current
<1>3. db'[file].visits \subseteq db[file].visits
  <2>1. Head(todo[h]) \in Statements
    BY TodoType DEF ExecuteStatement, Execute, Typed
  <2>. QED
    BY <1>0, <1>1, <2>1, ResultType
<1>4. Register'[file] \subseteq Register[file]
  BY <1>0, <1>3 DEF Register, Admissions
<1>5. ASSUME NEW e \in Databases \ {file}
      PROVE  Register'[e] = Register[e] /\ Welcome'[e] = Welcome[e]
  <2>1. db'[e] = db[e]
    BY <1>0, <1>1
  <2>2. Register'[e] = Register[e]
    BY <2>1 DEF Register, Admissions
  <2>3. \A o : (OnThisDay(o)' <=> OnThisDay(o)) /\ (InHours(o)' <=> InHours(o))
    BY <1>1 DEF OnThisDay, InHours, UtcDay, LocalTime
  <2>4. \A m, k : EntitledTo(db[e], m, k)' = EntitledTo(db[e], m, k)
    BY <2>1, <2>3 DEF EntitledTo, Invited
  <2>. QED
    BY <2>1, <2>2, <2>4 DEF Welcome
<1>6. BookTypes'
  BY BookTyped, PTL
<1>. QED
  BY <1>1, <1>2, <1>4, <1>5, <1>6 DEF Book!Edit, BookTypes

LEMMA InitIsEmpty == Init => Book!Init
<1>. SUFFICES ASSUME Init PROVE Book!Init
  OBVIOUS
<1>1. Typed
  BY InitTyped
<1>2. BookTypes
  BY <1>1, BookTyped
<1>3. Scan = [h \in Threads |-> Book!NoScan]
  BY DEF Init, Scan, Scanning, Book!NoScan
<1>4. LocalDay \in Int /\ Current \subseteq Databases /\ databaseBusy = FALSE
  BY <1>1, ServiceAssumption DEF LocalDay, Current, Typed, TypeOK, Init
<1>. QED
  BY <1>2, <1>3, <1>4 DEF Book!Init, Book!TypeOK, BookTypes

LEMMA BookStep ==
    Typed /\ Typed' /\ Unanswered /\ [Next]_vars => [Book!Next]_(Book!vars)
<1>. SUFFICES ASSUME Typed, Typed', Unanswered, [Next]_vars
              PROVE  Book!Next \/ UNCHANGED Book!vars
  OBVIOUS
<1>1. CASE Tick
  BY <1>1, TickIsTime DEF Book!Next
<1>2. ASSUME NEW h \in Threads, NEW r \in Requests, Receive(h, r) PROVE Book!Next
  BY <1>2, ReceiveAsks DEF Book!Next
<1>3. ASSUME NEW h \in Threads, Service(h) PROVE Book!Next
  <2>1. CASE AnswerPicture(h)
    BY <2>1, PictureIsShown DEF Book!Next
  <2>2. CASE CheckVisit(h)
    BY <2>2, CheckDecides DEF Book!Next
  <2>3. CASE AddVisit(h)
    BY <2>3, AddDecides DEF Book!Next
  <2>4. CASE ExecuteStatement(h)
    BY <2>4, StatementEdits DEF Book!Next
  <2>5. CASE \/ Reopen(h) \/ ReopenPragma(h) \/ AnswerImage(h) \/ AnswerText(h)
             \/ GetName(h) \/ SetDbStatus(h) \/ DeletePhoto(h) \/ BeginVisit(h) \/ BeginStatements(h)
             \/ StatementError(h) \/ WipeError(h) \/ EndStatements(h)
             \/ CloseDatabase(h) \/ SetDatabaseName(h) \/ OpenNew(h)
             \/ NewPragma(h) \/ RecordName(h) \/ Restore(h) \/ OpenOld(h)
    BY <2>5, OtherSteps DEF Book!Next
  <2>. QED
    BY <1>3, <2>1, <2>2, <2>3, <2>4, <2>5 DEF Service
<1>4. CASE UNCHANGED vars
  <2>1. UNCHANGED <<clock, db, request, pc, answers, isOpen, file, databaseBusy>>
    BY <1>4 DEF vars, connection, settings, threadVars
  <2>2. LocalDay' = LocalDay /\ Welcome' = Welcome /\ Register' = Register
    BY <2>1, SameHouse
  <2>. QED
    BY <2>1, <2>2 DEF Book!vars, Scan, Scanning, Kind, Verdict, Current
<1>. QED
  BY <1>1, <1>2, <1>3, <1>4 DEF Next

\* The server keeps the register of attendance that Attendance describes.  Every
\* step of every thread is one step of it or none, because what a thread is at
\* belongs to its request (PlacesFit), and a request that is being served has no
\* answer yet (Unanswered).
THEOREM VisitsImplementAttendance == Spec => ImplementsAttendance
<1>1. Init => Book!Init
  BY InitIsEmpty
<1>2. Typed /\ Typed' /\ Unanswered /\ [Next]_vars => [Book!Next]_(Book!vars)
  BY BookStep
<1>. QED
  BY <1>1, <1>2, AlwaysTyped, AlwaysUnanswered, PTL
  DEF Spec, ImplementsAttendance, Book!Spec

-----------------------------------------------------------------------------
(* The scenarios of MCVisits.                                              *)

LEMMA ScenariosAreBehaviours == ScenarioSpec => Spec
<1>1. ScenarioInit => Init
  BY DEF ScenarioInit
<1>2. [ScenarioNext]_<<vars, scenario>> => [Next]_vars
  BY DEF ScenarioNext
<1>. QED
  BY <1>1, <1>2, PTL DEF ScenarioSpec, Spec

LEMMA NoSwitchInEdits == \A r \in ScansAndEdits : r.kind # "set dbname"
<1>1. \A m : Visit(m).kind = "visit"
  BY DEF Visit
<1>2. \A s : Sql(s).kind = "sql"
  BY DEF Sql
<1>3. Simple("wipe").kind = "wipe"
  BY DEF Simple
<1>4. \A b : SetBusy(b).kind = "set dbstatus"
  BY DEF SetBusy
<1>. QED
  BY <1>1, <1>2, <1>3, <1>4
     DEF ScansAndEdits, DeleteMember, DeleteEvent, EditMember, AddMember

\* The rows that the runs begin with meet the assumption of the theorem below.
LEMMA FirstFilledConsistent == \A d \in Databases : Consistent(FirstFilled[d])
<1>1. Consistent(Invitations)
  <2>1. \A p \in Invitations.groups : p \in Groups \X Members
    BY DEF Invitations
  <2>2. \A i \in Invitations.invites : i \in Events \X Guests
    BY DEF Invitations
  <2>3. /\ Invitations.members = Members /\ Invitations.groupnames = Groups
        /\ Invitations.events = Events /\ Invitations.visits = {}
    BY DEF Invitations
  <2>. QED
    BY <2>1, <2>2, <2>3 DEF Consistent, Guests
<1>2. ASSUME NEW d \in Databases, d # d1 PROVE Consistent(FirstFilled[d])
  BY <1>2 DEF FirstFilled, Consistent
<1>. QED
  BY <1>1, <1>2 DEF FirstFilled

\* Scans and edits of any number of threads never leave a reference to a row that
\* does not exist.
THEOREM EditsKeepReferences ==
    ASSUME \A d \in Databases : Consistent(Content[d])
    PROVE  ScenarioSpec => []ReferencesExistInEdits
<1>. DEFINE Quiet == scenario = "edits" => Switching = {}
            Inv == scenario = "edits" => Enforced /\ ReferencesExist
<1>1. ScenarioInit => Quiet /\ Inv
  <2>1. Init => Switching = {}
    BY DEF Init, Switching
  <2>. QED
    BY <2>1, InitEnforced DEF ScenarioInit
<1>2. Typed' /\ Quiet /\ [ScenarioNext]_<<vars, scenario>> => Quiet'
  <2>1. CASE UNCHANGED <<vars, scenario>>
    BY <2>1 DEF vars, threadVars, Switching
  <2>2. ASSUME Typed', ScenarioNext, scenario' = "edits" PROVE Switching' = {}
    <3>1. \A h \in Threads : request'[h] \in ScansAndEdits \cup {<<>>}
      BY <2>2 DEF ScenarioNext
    <3>2. \A h \in Threads : pc'[h] # "idle" => request'[h] \in Requests
      BY <2>2 DEF Typed, PlacesFit
    <3>. QED
      BY <3>1, <3>2, NoEmptyRequest, NoSwitchInEdits DEF Switching
  <2>. QED
    BY <2>1, <2>2
<1>3. Typed /\ Quiet /\ Inv /\ [ScenarioNext]_<<vars, scenario>> => Inv'
  <2>. SUFFICES ASSUME Typed, Quiet, Inv, [ScenarioNext]_<<vars, scenario>>,
                       scenario' = "edits"
                PROVE  Enforced' /\ ReferencesExist'
    OBVIOUS
  <2>1. [Next]_vars /\ scenario = "edits"
    BY DEF ScenarioNext
  <2>2. Enforced /\ ReferencesExist /\ Switching = {}
    BY <2>1
  <2>. QED
    BY <2>1, <2>2, EnforcedStep, ReferencesStep
<1>4. Inv => ReferencesExistInEdits
  BY DEF ReferencesExistInEdits
<1>. QED
  <2>. HIDE DEF Quiet, Inv
  <2>. QED
    BY <1>1, <1>2, <1>3, <1>4, AlwaysTyped, ScenariosAreBehaviours, PTL
       DEF ScenarioSpec
=============================================================================
