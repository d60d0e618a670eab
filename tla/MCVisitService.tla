--------------------------- MODULE MCVisitService ---------------------------
(***************************************************************************)
(* Instances of VisitService for TLC.                                      *)
(***************************************************************************)
EXTENDS AttendanceRefinement, TLC

CONSTANTS t1, t2, t3, m1, m2, g1, e1, e2, k1, d1, d2, d3, d4, n1, n2, n3

Symmetry == Permutations(Threads)

\* e1 is a weekly event of a Monday and the Tuesday after it, e2 a single event
\* of that Monday at the same checkpoint, which ends later.
TwoEvents ==
    e1 :> [checkpoint |-> k1, date |-> -1, days |-> {"mon", "tue"},
           beginning |-> 0, ending |-> 2]
    @@ e2 :> [checkpoint |-> k1, date |-> 1, days |-> {},
              beginning |-> 0, ending |-> 3]

OneEvent == e1 :> TwoEvents[e1]

\* An event of every Sunday.
SundayEvent ==
    e1 :> [checkpoint |-> k1, date |-> -1, days |-> {"sun"},
           beginning |-> 0, ending |-> 3]

\* m1 is invited in person and m2 through the group g1.
Invitations ==
    [members |-> Members, groupnames |-> Groups, events |-> Events,
     groups |-> {<<g1, m2>>} \cap (Groups \X Members),
     invites |-> {<<e1, m1>>, <<e2, m1>>, <<e1, g1>>} \cap (Events \X Guests),
     visits |-> {}]

\* The first database is filled, the others are new files.
FirstFilled ==
    [d \in Databases |->
        IF d = d1 THEN Invitations
        ELSE [members |-> {}, groupnames |-> {}, events |-> {},
              groups |-> {}, invites |-> {}, visits |-> {}]]

\* The files of the folder, and the file of a name that is a path; in the folder
\* there is another file for that name.
Folder ==
    [n \in Names |-> CASE n \in Paths -> d4 [] n = n1 /\ n \notin Paths -> d1
                       [] n = n2 -> d2 [] n = n3 -> d3]
OfPaths == [n \in Paths |-> d1]

Visit(m) == [kind |-> "visit", member |-> m, checkpoint |-> k1]
Sql(statements) == [kind |-> "sql", statements |-> statements]
Simple(kind) == [kind |-> kind]
SetBusy(b) == [kind |-> "set dbstatus", busy |-> b]
SwitchTo(n) == [kind |-> "set dbname", name |-> n]

DeleteMember == Sql(<<[op |-> "delete", key |-> m1]>>)
DeleteEvent == Sql(<<[op |-> "delete", key |-> e1]>>)
\* "Edit member" of the administrator: the invites are made anew.
EditMember ==
    Sql(<<[op |-> "delete invites", guest |-> m1],
          [op |-> "insert invite", event |-> e1, guest |-> m1]>>)
AddMember ==
    Sql(<<[op |-> "insert member", member |-> m1],
          [op |-> "insert invite", event |-> e1, guest |-> m1]>>)

ScansAndEdits ==
    {Visit(m1), Visit(m2), DeleteMember, DeleteEvent, EditMember, AddMember,
     Simple("wipe"), SetBusy(TRUE), SetBusy(FALSE)}

Switches ==
    {SwitchTo(n) : n \in Names}
      \cup {Visit(m1), Simple("wipe"), SetBusy(TRUE), Simple("get name"),
            Simple("ping"), Simple("other"), Simple("image"),
            Simple("delete photo")}

BlockedScan == {Visit(m1), SetBusy(TRUE)}
OneScan == {Visit(m1)}
NameOnly == {Simple("get name")}
FailedSwitch == {SwitchTo(n2), DeleteMember}
=============================================================================
