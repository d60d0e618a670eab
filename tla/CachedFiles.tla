----------------------------- MODULE CachedFiles ------------------------------
(***************************************************************************)
(* What the two file caches of the HTTP library stand on, both external to *)
(* the repository: files that change on the disk while the server runs,    *)
(* and QCache, which owns the objects it is given and deletes them.        *)
(***************************************************************************)
EXTENDS Naturals, Sequences, FiniteSetsExt, Functions

CONSTANTS
    Files,
    Sizes,          \* the size of each version a file goes through, or NoFile
    NoFile,
    Seconds         \* bound: the clock ends there

ASSUME DiskAssumption ==
    /\ Sizes \in Seq(Nat \cup {NoFile}) /\ Sizes # <<>>
    /\ Seconds \in Nat

Versions == DOMAIN Sizes
Never == Seconds + 1

VARIABLES
    second,
    version,        \* of each file on the disk
    replaced        \* when each version of each file was replaced

diskVars == <<second, version, replaced>>

DiskTypeOK ==
    /\ second \in 0 .. Seconds
    /\ version \in [Files -> Versions]
    /\ replaced \in [Files -> [Versions -> 0 .. Never]]

DiskInit ==
    /\ second = 0
    /\ version = [f \in Files |-> 1]
    /\ replaced = [f \in Files |-> [v \in Versions |-> Never]]

ChangeFile(f) ==
    /\ version[f] + 1 \in Versions
    /\ version' = [version EXCEPT ![f] = @ + 1]
    /\ replaced' = [replaced EXCEPT ![f][version[f]] = second]
    /\ UNCHANGED second

Second ==
    /\ second < Seconds
    /\ second' = second + 1
    /\ UNCHANGED <<version, replaced>>

DiskNext == Second \/ \E f \in Files : ChangeFile(f)

\* QCache: a function from keys to entries that have a cost.
NoEntries == [k \in {} |-> 0]

TotalCost(cache) == MapThenSumSet(LAMBDA k : cache[k].cost, DOMAIN cache)

\* insert(): an entry above the limit is deleted at once; others make room by the
\* deletion of some entries (the least recently used ones, which is left open).
Inserted(cache, key, entry, maxCost) ==
    LET others == Restrict(cache, DOMAIN cache \ {key})
    IN IF entry.cost > maxCost THEN {others}
       ELSE {[k \in kept \cup {key} |-> IF k = key THEN entry ELSE others[k]] :
               kept \in {S \in SUBSET DOMAIN others :
                           TotalCost(Restrict(others, S)) + entry.cost <= maxCost}}
=============================================================================
