------------------------ MODULE AttendanceRefinement ------------------------
(***************************************************************************)
(* VisitService implements Attendance.  Of the rows only two facts remain: *)
(* who is entitled to a visit now and who has had one on a day; of a       *)
(* thread only how far its scan has come.  A scan is decided when the      *)
(* answer is written, or would have been.                                  *)
(***************************************************************************)
EXTENDS VisitService

Current == IF isOpen THEN {file} ELSE {}

Welcome == [d \in Databases |->
    {p \in db[d].members \X Checkpoints : EntitledTo(db[d], p[1], p[2]) # {}}]

Admissions(rows) ==
    {<<v.member, Schedule[v.event].checkpoint, v.date>> : v \in rows}
Register == [d \in Databases |-> Admissions(db[d].visits)]

Verdict(h) ==
    CASE pc[h] = "idle" /\ answers[h] # <<>> -> Head(answers[h])
      [] pc[h] = "idle" /\ answers[h] = <<>> -> "no answer"
      [] pc[h] = "insert" -> "passed"
      [] OTHER -> "asked"
Scanning(h) == request[h] # <<>> /\ Kind(h) = "visit"
Scan == [h \in Threads |->
    IF Scanning(h)
      THEN [member |-> request[h].member, checkpoint |-> request[h].checkpoint,
            verdict |-> Verdict(h)]
      ELSE [verdict |-> "none"]]

Book == INSTANCE Attendance
          WITH today <- LocalDay, current <- Current, busy <- databaseBusy,
               welcome <- Welcome, register <- Register, scan <- Scan

\* Although "new visit" is two statements without a transaction, on a connection
\* that every thread may close, reopen and point at another file, each scan is
\* decided by one look at one database: an admission is counted in the same
\* step and database in which it is decided, at most once a day at a checkpoint;
\* nothing but an admission puts a member into the register of any database,
\* and nothing but an edit takes one out (requesthandler.cpp:231-267).
ImplementsAttendance == Book!Spec
=============================================================================
