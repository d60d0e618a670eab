----------------------------- MODULE Attendance -----------------------------
(***************************************************************************)
(* What QRInspectorServer promises about attendance, however many          *)
(* inspectors scan, administrators edit and databases are switched at the  *)
(* same time.  Each database keeps a register of who was admitted at which *)
(* checkpoint on which day.  A scan takes two looks at the database in use *)
(* and is decided by the second; an admission and its entry in the         *)
(* register are one step, and there is no other way into a register.       *)
(*                                                                         *)
(* VisitService implements this specification (see AttendanceRefinement).  *)
(***************************************************************************)
EXTENDS Integers

CONSTANTS Threads, Members, Checkpoints, Databases

VARIABLES
    today,
    current,     \* the database in use, in a set: there may be none
    busy,        \* scans are answered with a picture and not looked at
    welcome,     \* welcome[d]: who would be let in where at the moment
    register,    \* register[d]: who was admitted, where and on which day
    scan         \* scan[t]: what thread t has to decide, and its decision

vars == <<today, current, busy, welcome, register, scan>>
house == <<today, current, busy, welcome>>

Undecided == {"asked", "passed"}
Decisions == {"granted", "accessdenied", "databaseerror", "picture", "no answer"}
NoScan == [verdict |-> "none"]
Scans == [member : Members, checkpoint : Checkpoints,
          verdict : Undecided \cup Decisions]
Places == Members \X Checkpoints

TypeOK ==
    /\ today \in Int
    /\ current \subseteq Databases /\ busy \in BOOLEAN
    /\ welcome \in [Databases -> SUBSET Places]
    /\ register \in [Databases -> SUBSET (Members \X Checkpoints \X Int)]
    /\ scan \in [Threads -> Scans \cup {NoScan}]

Init ==
    /\ TypeOK
    /\ busy = FALSE
    /\ scan = [t \in Threads |-> NoScan]

-----------------------------------------------------------------------------
(* Scans.                                                                  *)

Place(t) == <<scan[t].member, scan[t].checkpoint>>
Entry(t) == <<scan[t].member, scan[t].checkpoint, today>>

\* The member may come in and has not been let in at this checkpoint today.
Due(t, d) == Place(t) \in welcome[d] /\ Entry(t) \notin register[d]

Decide(t, from, to) ==
    /\ scan[t].verdict \in from
    /\ scan' = [scan EXCEPT ![t].verdict = to]

\* Begin a scan, or something else.
Ask(t) ==
    /\ scan[t].verdict \notin Undecided
    /\ \E m \in Members, k \in Checkpoints :
          scan' = [scan EXCEPT ![t] =
                      [member |-> m, checkpoint |-> k, verdict |-> "asked"]]
    /\ UNCHANGED <<house, register>>

Leave(t) ==
    /\ scan[t].verdict \notin Undecided
    /\ scan' = [scan EXCEPT ![t] = NoScan]
    /\ UNCHANGED <<house, register>>

\* The first look.
Pass(t) ==
    /\ Decide(t, {"asked"}, "passed")
    /\ \E d \in current : Due(t, d)
    /\ UNCHANGED <<house, register>>

Refuse(t) ==
    /\ Decide(t, {"asked"}, "accessdenied")
    /\ \E d \in current : ~Due(t, d)
    /\ UNCHANGED <<house, register>>

\* The second look: the member is entered, ...
Admit(t) ==
    /\ Decide(t, {"passed"}, "granted")
    /\ \E d \in current :
          /\ Due(t, d)
          /\ register' = [register EXCEPT ![d] = @ \cup {Entry(t)}]
    /\ UNCHANGED house

\* ... or has been entered by another thread, or is not welcome any more.
AdmitUncounted(t) ==
    /\ Decide(t, {"passed"}, "granted")
    /\ \E d \in current : ~Due(t, d)
    /\ UNCHANGED <<house, register>>

Fail(t) ==
    /\ Decide(t, Undecided, "databaseerror")
    /\ current = {}
    /\ UNCHANGED <<house, register>>

\* There may be no picture to show.
ShowPicture(t) ==
    /\ \/ Decide(t, {"asked"}, "picture")
       \/ Decide(t, {"asked"}, "no answer")
    /\ busy
    /\ UNCHANGED <<house, register>>

-----------------------------------------------------------------------------
(* Everything else.                                                        *)

\* An edit of the database in use: it may take entries away.
Edit ==
    /\ UNCHANGED <<scan, today, current, busy>>
    /\ \E d \in current :
          /\ register'[d] \subseteq register[d]
          /\ \A e \in Databases \ {d} : register'[e] = register[e]
                                        /\ welcome'[e] = welcome[e]
    /\ register' \in [Databases -> SUBSET (Members \X Checkpoints \X Int)]
    /\ welcome' \in [Databases -> SUBSET Places]

\* Another database, or none; nothing is carried over.
Switch ==
    /\ UNCHANGED <<scan, busy, today, register, welcome>>
    /\ current' = {} \/ \E d \in Databases : current' = {d}

SetBusy ==
    /\ UNCHANGED <<scan, current, today, register, welcome>>
    /\ busy' \in BOOLEAN

PassTime ==
    /\ UNCHANGED <<scan, current, busy, register>>
    /\ today' = today \/ today' = today + 1
    /\ welcome' \in [Databases -> SUBSET Places]

Next ==
    \/ Switch
    \/ \E t \in Threads :
          \/ Ask(t) \/ Leave(t) \/ Pass(t) \/ Refuse(t)
          \/ Admit(t) \/ AdmitUncounted(t) \/ Fail(t) \/ ShowPicture(t)
    \/ SetBusy \/ PassTime \/ Edit

Spec == Init /\ [][Next]_vars
=============================================================================
