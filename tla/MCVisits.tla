------------------------------ MODULE MCVisits ------------------------------
(***************************************************************************)
(* Two scenarios of VisitService for TLC: in a behaviour either scans and  *)
(* edits follow one another while time passes, or an administrator sets    *)
(* the database.                                                           *)
(***************************************************************************)
EXTENDS MCVisitService

VARIABLE scenario

EitherScenario == ScansAndEdits \cup Switches

ScenarioInit == Init /\ scenario \in {"edits", "switches"}

ScenarioNext ==
    /\ Next
    /\ LET allowed == IF scenario = "edits" THEN ScansAndEdits ELSE Switches
       IN \A h \in Threads : request'[h] \in allowed \cup {<<>>}
    /\ scenario = "switches" => clock' = clock /\ received' < MaxRequests
    /\ UNCHANGED scenario

ScenarioSpec == ScenarioInit /\ [][ScenarioNext]_<<vars, scenario>>

\* Groups, invites and visits refer to members, groups and events that exist as long
\* as no administrator sets the database, which may lose the protection of foreign
\* keys (startup.cpp:182-187, requesthandler.cpp:136).
ReferencesExistInEdits == scenario = "edits" => ReferencesExist
=============================================================================
