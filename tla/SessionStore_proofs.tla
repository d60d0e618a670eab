------------------------- MODULE SessionStore_proofs -------------------------
(***************************************************************************)
(* Proofs about SessionStore: for any number of threads, sessions and      *)
(* values, and any expiration time.                                        *)
(***************************************************************************)
EXTENDS SessionStore, FiniteSetTheorems, TLAPS

RefsTo(d) == {h \in Handles : handle[h] = d}
Referenced(d) == d \in sessions \/ \E h \in Handles : handle[h] = d

\* Where a thread is tells which of its objects point at something.
PlaceInv ==
    /\ \A t \in Users :
          /\ condemned[t] # NoSession <=> doing[t] = "delete"
          /\ doing[t] \in {"idle", "find"} => Result(t) = NoSession
          /\ doing[t] = "refresh" => Result(t) # NoSession
    /\ condemned[Timer] # NoSession <=> sweep.at = "delete"
    /\ Own(Timer) = NoSession
    /\ Result(Timer) # NoSession <=> sweep.at = "judge"

\* The pass of the timer keeps the mutex: what is left for it stays in the map.
SweepInv ==
    /\ sweep.left \subseteq sessions
    /\ sweep.at = "idle" => sweep.left = {}
    /\ sweep.at = "judge" => Result(Timer) \notin sweep.left
    /\ sweep.at # "idle" => sweep.now <= clock
    /\ sweep.at = "judge" => \/ sweep.seen = lastAccess[Result(Timer)]
                             \/ lastAccess[Result(Timer)] >= sweep.now

StoreInv == StoreTypeOK /\ PlaceInv /\ SweepInv /\ RefCountExact /\ DeletedOnce

-----------------------------------------------------------------------------
(* Counting the objects.                                                   *)

LEMMA HandlesFinite == IsFiniteSet(Handles)
  <1>1. IsFiniteSet(StoreThreads) /\ IsFiniteSet(Slots)
    <2>1. IsFiniteSet(Users) /\ IsFiniteSet({Timer})
      BY StoreAssumption, FS_Singleton
    <2>2. IsFiniteSet(StoreThreads)
      BY <2>1, FS_Union DEF StoreThreads
    <2>3. IsFiniteSet({"result"}) /\ Slots = {"result"} \cup {"own"}
      BY FS_Singleton DEF Slots
    <2>4. IsFiniteSet(Slots)
      BY <2>3, FS_AddElement
    <2> QED
      BY <2>2, <2>4
  <1> QED
    BY <1>1, FS_Product DEF Handles

LEMMA RefsFinite == \A d : IsFiniteSet(RefsTo(d)) /\ Cardinality(RefsTo(d)) \in Nat
  <1>1. \A d : RefsTo(d) \subseteq Handles
    BY DEF RefsTo
  <1> QED
    BY <1>1, HandlesFinite, FS_Subset, FS_CardinalityType

LEMMA RefsFinite2 == \A d : IsFiniteSet(RefsTo(d)') /\ Cardinality(RefsTo(d)') \in Nat
  <1>1. \A d : RefsTo(d)' \subseteq Handles
    BY DEF RefsTo, Handles, StoreThreads
  <1> QED
    BY <1>1, HandlesFinite, FS_Subset, FS_CardinalityType

\* A count of zero is no reference, a count of one is one.
LEMMA CountFacts ==
    ASSUME RefCountExact, NEW d \in SessionIds
    PROVE  /\ refCount[d] = Cardinality(RefsTo(d)) + (IF d \in sessions THEN 1 ELSE 0)
           /\ refCount[d] \in Nat
           /\ refCount[d] = 0 <=> ~ Referenced(d)
  <1>1. refCount[d] = Cardinality(RefsTo(d)) + (IF d \in sessions THEN 1 ELSE 0)
    BY DEF RefCountExact, References, RefsTo
  <1>2. Cardinality(RefsTo(d)) = 0 <=> RefsTo(d) = {}
    BY RefsFinite, FS_EmptySet
  <1>3. RefsTo(d) = {} <=> ~ \E h \in Handles : handle[h] = d
    BY DEF RefsTo
  <1> QED
    BY <1>1, <1>2, <1>3, RefsFinite DEF Referenced

\* An object that turns from some data, or none, to others, or none.
LEMMA RefsMove ==
    ASSUME NEW h \in Handles, handle \in [Handles -> SessionIds \cup {NoSession}],
           NEW e \in SessionIds \cup {NoSession}, handle[h] # e,
           handle' = [handle EXCEPT ![h] = e],
           NEW d \in SessionIds
    PROVE  Cardinality(RefsTo(d)') = Cardinality(RefsTo(d)) + (IF d = e THEN 1 ELSE 0)
                                         - (IF d = handle[h] THEN 1 ELSE 0)
  <1>1. CASE d = e
    <2>1. RefsTo(d)' = RefsTo(d) \cup {h} /\ h \notin RefsTo(d)
      BY <1>1 DEF RefsTo, Handles, StoreThreads
    <2>2. Cardinality(RefsTo(d) \cup {h}) = Cardinality(RefsTo(d)) + 1
      BY <2>1, RefsFinite, FS_AddElement
    <2> QED
      BY <1>1, <2>1, <2>2, RefsFinite
  <1>2. CASE d = handle[h]
    <2>1. RefsTo(d)' = RefsTo(d) \ {h} /\ h \in RefsTo(d)
      BY <1>2 DEF RefsTo, Handles, StoreThreads
    <2>2. Cardinality(RefsTo(d) \ {h}) = Cardinality(RefsTo(d)) - 1
      BY <2>1, RefsFinite, FS_RemoveElement
    <2> QED
      BY <1>2, <2>1, <2>2, RefsFinite
  <1>3. CASE d # e /\ d # handle[h]
    <2>1. RefsTo(d)' = RefsTo(d)
      BY <1>3 DEF RefsTo, Handles, StoreThreads
    <2> QED
      BY <1>3, <2>1, RefsFinite
  <1> QED
    BY <1>1, <1>2, <1>3

\* What is referenced is counted; with one object and the map, twice.
LEMMA Counted ==
    ASSUME RefCountExact, NEW h \in Handles, NEW d \in SessionIds, handle[h] = d
    PROVE  refCount[d] >= (IF d \in sessions THEN 2 ELSE 1)
  <1>1. Cardinality(RefsTo(d)) # 0
    <2>1. h \in RefsTo(d)
      BY DEF RefsTo
    <2> QED
      BY <2>1, RefsFinite, FS_EmptySet
  <1> QED
    BY <1>1, CountFacts, RefsFinite

\* What the count after a step has to be.
LEMMA CountAfter ==
    ASSUME \A d \in SessionIds :
               refCount'[d] = Cardinality(RefsTo(d)') + (IF d \in sessions' THEN 1 ELSE 0)
    PROVE  RefCountExact'
  BY DEF RefCountExact, References, RefsTo, Handles, StoreThreads

\* The count goes with an object that turns from old to new, and with the map.
CountFollows(old, new) ==
    \A c \in SessionIds :
        refCount'[c] = refCount[c] + (IF c = new THEN 1 ELSE 0) - (IF c = old THEN 1 ELSE 0)
                           + (IF c \in sessions' THEN 1 ELSE 0) - (IF c \in sessions THEN 1 ELSE 0)

LEMMA ExactMove ==
    ASSUME RefCountExact,
           handle \in [Handles -> SessionIds \cup {NoSession}], refCount \in [SessionIds -> Nat],
           NEW h \in Handles, NEW e \in SessionIds \cup {NoSession}, handle[h] # e,
           handle' = [handle EXCEPT ![h] = e],
           CountFollows(handle[h], e)
    PROVE  RefCountExact'
  <1>1. ASSUME NEW c \in SessionIds
        PROVE  refCount'[c] = Cardinality(RefsTo(c)') + (IF c \in sessions' THEN 1 ELSE 0)
    <2>1. Cardinality(RefsTo(c)') = Cardinality(RefsTo(c)) + (IF c = e THEN 1 ELSE 0)
                                        - (IF c = handle[h] THEN 1 ELSE 0)
      BY RefsMove
    <2>2. refCount[c] = Cardinality(RefsTo(c)) + (IF c \in sessions THEN 1 ELSE 0)
      BY CountFacts
    <2> QED
      BY <2>1, <2>2, RefsFinite, RefsFinite2 DEF CountFollows
  <1> QED
    BY <1>1, CountAfter

LEMMA ExactStay ==
    ASSUME RefCountExact, refCount \in [SessionIds -> Nat], handle' = handle,
           \A c \in SessionIds :
               refCount'[c] = refCount[c]
                                  + (IF c \in sessions' THEN 1 ELSE 0) - (IF c \in sessions THEN 1 ELSE 0)
    PROVE  RefCountExact'
  <1>1. ASSUME NEW c \in SessionIds
        PROVE  refCount'[c] = Cardinality(RefsTo(c)') + (IF c \in sessions' THEN 1 ELSE 0)
    <2>1. RefsTo(c)' = RefsTo(c)
      BY DEF RefsTo, Handles, StoreThreads
    <2>2. refCount[c] = Cardinality(RefsTo(c)) + (IF c \in sessions THEN 1 ELSE 0)
      BY CountFacts
    <2> QED
      BY <2>1, <2>2, RefsFinite
  <1> QED
    BY <1>1, CountAfter

LEMMA ZeroAfter ==
    ASSUME RefCountExact', NEW d \in SessionIds
    PROVE  refCount'[d] = 0 <=> ~ Referenced(d)'
  <1>1. refCount'[d] = Cardinality(RefsTo(d)') + (IF d \in sessions' THEN 1 ELSE 0)
    BY DEF RefCountExact, References, RefsTo, Handles, StoreThreads
  <1>2. Cardinality(RefsTo(d)') = 0 <=> RefsTo(d)' = {}
    BY RefsFinite2, FS_EmptySet
  <1>3. RefsTo(d)' = {} <=> ~ \E h \in Handles : handle'[h] = d
    BY DEF RefsTo, Handles, StoreThreads
  <1> QED
    BY <1>1, <1>2, <1>3, RefsFinite2 DEF Referenced, Handles, StoreThreads

\* Where one thread counts data that were referenced, and condemns them if they
\* are not any more.
LEMMA DeletedAfter ==
    ASSUME StoreInv, RefCountExact', memory' = memory,
           NEW t \in StoreThreads, condemned[t] = NoSession,
           NEW d \in SessionIds, Referenced(d),
           condemned' = [condemned EXCEPT ![t] = IF refCount'[d] = 0 THEN d ELSE NoSession],
           \A c \in SessionIds : c # d => (refCount'[c] = 0 <=> refCount[c] = 0)
    PROVE  DeletedOnce'
  <1>1. \A c \in SessionIds : refCount[c] = 0 <=> ~ Referenced(c)
    BY CountFacts DEF StoreInv
  <1>2. \A c \in SessionIds : refCount'[c] = 0 <=> ~ Referenced(c)'
    BY ZeroAfter
  <1>3. \A c \in SessionIds : Referenced(c) => memory[c] = "live"
    BY DEF StoreInv, DeletedOnce, Referenced
  <1>4. \A w \in StoreThreads : condemned'[w] \in SessionIds =>
           IF w = t THEN condemned'[w] = d /\ refCount'[d] = 0
           ELSE condemned'[w] = condemned[w] /\ condemned[w] # d
    <2>1. \A w \in StoreThreads : condemned[w] # d
      BY <1>1 DEF StoreInv, DeletedOnce
    <2> QED
      BY <2>1, StoreAssumption DEF StoreInv, StoreTypeOK
  <1>5. ASSUME NEW c \in SessionIds
        PROVE  /\ Referenced(c)' => memory'[c] = "live"
               /\ memory'[c] = "live" /\ refCount'[c] = 0 => \E w \in StoreThreads : condemned'[w] = c
               /\ \A w \in StoreThreads : condemned'[w] = c =>
                     /\ memory'[c] = "live" /\ refCount'[c] = 0
                     /\ \A v \in StoreThreads : condemned'[v] = c => v = w
    <2>1. CASE c = d
      BY <2>1, <1>3, <1>4, StoreAssumption DEF StoreInv, StoreTypeOK
    <2>2. CASE c # d
      <3>1. refCount'[c] = 0 <=> refCount[c] = 0
        BY <2>2
      <3>2. Referenced(c)' => Referenced(c)
        BY <1>1, <1>2, <3>1
      <3>3. \A w \in StoreThreads : condemned'[w] = c <=> condemned[w] = c
        BY <2>2, StoreAssumption DEF StoreInv, StoreTypeOK
      <3> QED
        BY <1>3, <3>1, <3>2, <3>3 DEF StoreInv, DeletedOnce
    <2> QED
      BY <2>1, <2>2
  <1> QED
    BY <1>5 DEF DeletedOnce, Referenced, Handles, StoreThreads

\* Where a thread deletes what it has condemned.
LEMMA DeletedForgotten ==
    ASSUME StoreInv, UNCHANGED <<handle, refCount, sessions>>,
           NEW t \in StoreThreads, condemned[t] \in SessionIds,
           memory' = [memory EXCEPT ![condemned[t]] = "deleted"],
           condemned' = [condemned EXCEPT ![t] = NoSession]
    PROVE  DeletedOnce'
  <1>1. \A w \in StoreThreads : condemned[w] = condemned[t] => w = t
    BY DEF StoreInv, DeletedOnce
  <1>2. ~ Referenced(condemned[t])
    BY CountFacts DEF StoreInv, DeletedOnce
  <1>3. ASSUME NEW c \in SessionIds
        PROVE  /\ Referenced(c) => memory'[c] = "live"
               /\ memory'[c] = "live" /\ refCount[c] = 0 => \E w \in StoreThreads : condemned'[w] = c
               /\ \A w \in StoreThreads : condemned'[w] = c =>
                     /\ memory'[c] = "live" /\ refCount[c] = 0
                     /\ \A v \in StoreThreads : condemned'[v] = c => v = w
    <2>1. CASE c = condemned[t]
      BY <2>1, <1>1, <1>2, StoreAssumption DEF StoreInv, StoreTypeOK
    <2>2. CASE c # condemned[t]
      <3>1. memory'[c] = memory[c] /\ \A w \in StoreThreads : condemned'[w] = c <=> condemned[w] = c
        BY <2>2, StoreAssumption DEF StoreInv, StoreTypeOK
      <3> QED
        BY <3>1 DEF StoreInv, DeletedOnce, Referenced
    <2> QED
      BY <2>1, <2>2
  <1> QED
    BY <1>3 DEF DeletedOnce, Referenced, Handles, StoreThreads

\* Most steps touch neither pointers nor counts nor data.
LEMMA Untouched ==
    ASSUME RefCountExact, DeletedOnce,
           UNCHANGED <<handle, refCount, sessions, memory, condemned>>
    PROVE  RefCountExact' /\ DeletedOnce'
  BY DEF RefCountExact, DeletedOnce, References, Handles, StoreThreads

-----------------------------------------------------------------------------
(* Each step preserves the invariant: first those that count nothing.      *)

LEMMA SetValueStep ==
    ASSUME StoreInv, NEW t \in Users, NEW k \in Keys, SetValue(t, k)
    PROVE  StoreInv'
  <1>1. StoreTypeOK'
    BY StoreAssumption DEF StoreInv, StoreTypeOK, SetValue, Goto, dataVars, userVars
  <1>2. PlaceInv'
    BY StoreAssumption DEF StoreInv, StoreTypeOK, PlaceInv, SetValue, Goto, Result, Own, dataVars, userVars
  <1>3. SweepInv'
    BY StoreAssumption DEF StoreInv, StoreTypeOK, PlaceInv, SweepInv, SetValue, Goto, Result, Own, MutexFree,
       dataVars, userVars
  <1>4. RefCountExact' /\ DeletedOnce'
    BY Untouched DEF StoreInv, SetValue, dataVars, userVars
  <1> QED
    BY <1>1, <1>2, <1>3, <1>4 DEF StoreInv

LEMMA RemoveValueStep ==
    ASSUME StoreInv, NEW t \in Users, NEW k \in Keys, RemoveValue(t, k)
    PROVE  StoreInv'
  <1>1. StoreTypeOK'
    BY StoreAssumption DEF StoreInv, StoreTypeOK, RemoveValue, Goto, dataVars, userVars
  <1>2. PlaceInv'
    BY StoreAssumption DEF StoreInv, StoreTypeOK, PlaceInv, RemoveValue, Goto, Result, Own, dataVars, userVars
  <1>3. SweepInv'
    BY StoreAssumption DEF StoreInv, StoreTypeOK, PlaceInv, SweepInv, RemoveValue, Goto, Result, Own, MutexFree,
       dataVars, userVars
  <1>4. RefCountExact' /\ DeletedOnce'
    BY Untouched DEF StoreInv, RemoveValue, dataVars, userVars
  <1> QED
    BY <1>1, <1>2, <1>3, <1>4 DEF StoreInv

LEMMA BeginRequestStep ==
    ASSUME StoreInv, NEW t \in Users, NEW id \in SessionIds \cup {NoSession}, BeginRequest(t, id)
    PROVE  StoreInv'
  <1>1. StoreTypeOK'
    BY StoreAssumption DEF StoreInv, StoreTypeOK, BeginRequest, Goto, dataVars, userVars
  <1>2. PlaceInv'
    BY StoreAssumption DEF StoreInv, StoreTypeOK, PlaceInv, BeginRequest, Goto, Result, Own, dataVars, userVars
  <1>3. SweepInv'
    BY StoreAssumption DEF StoreInv, StoreTypeOK, PlaceInv, SweepInv, BeginRequest, Goto, Result, Own, MutexFree,
       dataVars, userVars
  <1>4. RefCountExact' /\ DeletedOnce'
    BY Untouched DEF StoreInv, BeginRequest, dataVars, userVars
  <1> QED
    BY <1>1, <1>2, <1>3, <1>4 DEF StoreInv

LEMMA EndRequestStep ==
    ASSUME StoreInv, NEW t \in Users, EndRequest(t)
    PROVE  StoreInv'
  <1>1. StoreTypeOK'
    BY StoreAssumption DEF StoreInv, StoreTypeOK, EndRequest, Goto, dataVars, userVars
  <1>2. PlaceInv'
    BY StoreAssumption DEF StoreInv, StoreTypeOK, PlaceInv, EndRequest, Goto, Result, Own, dataVars, userVars
  <1>3. SweepInv'
    BY StoreAssumption DEF StoreInv, StoreTypeOK, PlaceInv, SweepInv, EndRequest, Goto, Result, Own, MutexFree,
       dataVars, userVars
  <1>4. RefCountExact' /\ DeletedOnce'
    BY Untouched DEF StoreInv, EndRequest, dataVars, userVars
  <1> QED
    BY <1>1, <1>2, <1>3, <1>4 DEF StoreInv

LEMMA GetSessionIdStep ==
    ASSUME StoreInv, NEW t \in Users, GetSessionId(t)
    PROVE  StoreInv'
  <1>1. StoreTypeOK'
    BY StoreAssumption DEF StoreInv, StoreTypeOK, GetSessionId, Goto, dataVars, userVars
  <1>2. PlaceInv'
    BY StoreAssumption DEF StoreInv, StoreTypeOK, PlaceInv, GetSessionId, Goto, Result, Own, dataVars, userVars
  <1>3. SweepInv'
    BY StoreAssumption DEF StoreInv, StoreTypeOK, PlaceInv, SweepInv, GetSessionId, Goto, Result, Own, MutexFree,
       dataVars, userVars
  <1>4. RefCountExact' /\ DeletedOnce'
    BY Untouched DEF StoreInv, GetSessionId, dataVars, userVars
  <1> QED
    BY <1>1, <1>2, <1>3, <1>4 DEF StoreInv

LEMMA NullSessionStep ==
    ASSUME StoreInv, NEW t \in Users, doing[t] = "find", NullSession(t)
    PROVE  StoreInv'
  <1>1. StoreTypeOK'
    BY StoreAssumption DEF StoreInv, StoreTypeOK, NullSession, Goto, dataVars, userVars
  <1>2. PlaceInv'
    BY StoreAssumption DEF StoreInv, StoreTypeOK, PlaceInv, NullSession, Goto, Result, Own, dataVars, userVars
  <1>3. SweepInv'
    BY StoreAssumption DEF StoreInv, StoreTypeOK, PlaceInv, SweepInv, NullSession, Goto, Result, Own, MutexFree,
       dataVars, userVars
  <1>4. RefCountExact' /\ DeletedOnce'
    BY Untouched DEF StoreInv, NullSession, dataVars, userVars
  <1> QED
    BY <1>1, <1>2, <1>3, <1>4 DEF StoreInv

LEMMA SetLastAccessStep ==
    ASSUME StoreInv, NEW t \in Users, SetLastAccess(t)
    PROVE  StoreInv'
  <1>1. StoreTypeOK'
    BY StoreAssumption DEF StoreInv, StoreTypeOK, SetLastAccess, Goto, dataVars, userVars
  <1>2. PlaceInv'
    BY StoreAssumption DEF StoreInv, StoreTypeOK, PlaceInv, SetLastAccess, Goto, Result, Own, dataVars, userVars
  <1>3. SweepInv'
    BY StoreAssumption DEF StoreInv, StoreTypeOK, PlaceInv, SweepInv, SetLastAccess, Goto, Result, Own, MutexFree,
       dataVars, userVars
  <1>4. RefCountExact' /\ DeletedOnce'
    BY Untouched DEF StoreInv, SetLastAccess, dataVars, userVars
  <1> QED
    BY <1>1, <1>2, <1>3, <1>4 DEF StoreInv

LEMMA TimerEventStep ==
    ASSUME StoreInv, TimerEvent
    PROVE  StoreInv'
  <1>1. StoreTypeOK'
    BY StoreAssumption DEF StoreInv, StoreTypeOK, TimerEvent, Goto, dataVars, userVars
  <1>2. PlaceInv'
    BY StoreAssumption DEF StoreInv, StoreTypeOK, PlaceInv, TimerEvent, MutexFree, Result, Own, dataVars, userVars
  <1>3. SweepInv'
    BY StoreAssumption DEF StoreInv, StoreTypeOK, PlaceInv, SweepInv, TimerEvent, Goto, Result, Own, MutexFree,
       dataVars, userVars
  <1>4. RefCountExact' /\ DeletedOnce'
    BY Untouched DEF StoreInv, TimerEvent, dataVars, userVars
  <1> QED
    BY <1>1, <1>2, <1>3, <1>4 DEF StoreInv

LEMMA SweepEndsStep ==
    ASSUME StoreInv, SweepEnds
    PROVE  StoreInv'
  <1>1. StoreTypeOK'
    BY StoreAssumption DEF StoreInv, StoreTypeOK, SweepEnds, Goto, dataVars, userVars
  <1>2. PlaceInv'
    BY StoreAssumption DEF StoreInv, StoreTypeOK, PlaceInv, SweepEnds, Goto, Result, Own, dataVars, userVars
  <1>3. SweepInv'
    BY StoreAssumption DEF StoreInv, StoreTypeOK, PlaceInv, SweepInv, SweepEnds, Goto, Result, Own, MutexFree,
       dataVars, userVars
  <1>4. RefCountExact' /\ DeletedOnce'
    BY Untouched DEF StoreInv, SweepEnds, dataVars, userVars
  <1> QED
    BY <1>1, <1>2, <1>3, <1>4 DEF StoreInv

LEMMA MinuteStep ==
    ASSUME StoreInv, Minute
    PROVE  StoreInv'
  <1>1. StoreTypeOK'
    BY StoreAssumption DEF StoreInv, StoreTypeOK, Minute, Goto, dataVars, userVars
  <1>2. PlaceInv'
    BY StoreAssumption DEF StoreInv, StoreTypeOK, PlaceInv, Minute, Goto, Result, Own, dataVars, userVars
  <1>3. SweepInv'
    BY StoreAssumption DEF StoreInv, StoreTypeOK, PlaceInv, SweepInv, Minute, Goto, Result, Own, MutexFree,
       dataVars, userVars
  <1>4. RefCountExact' /\ DeletedOnce'
    BY Untouched DEF StoreInv, Minute, dataVars, userVars
  <1> QED
    BY <1>1, <1>2, <1>3, <1>4 DEF StoreInv

-----------------------------------------------------------------------------
(* The steps that count.                                                   *)

LEMMA HandleIn == \A t \in StoreThreads : <<t, "result">> \in Handles /\ <<t, "own">> \in Handles
  BY DEF Handles, Slots

LEMMA ReleaseStep ==
    ASSUME StoreInv, NEW t \in Users, NEW slot \in Slots, Release(t, slot)
    PROVE  StoreInv'
  <1> DEFINE h == <<t, slot>>
             d == handle[h]
  <1>1. h \in Handles /\ d \in SessionIds /\ condemned[t] = NoSession /\ t \in StoreThreads
    BY DEF StoreInv, StoreTypeOK, PlaceInv, Release, Handles, StoreThreads
  <1>2. refCount[d] \in Nat \ {0}
    BY <1>1, Counted DEF StoreInv, StoreTypeOK
  <1>3. StoreTypeOK'
    <2>1. refCount' = [refCount EXCEPT ![d] = refCount[d] - 1] /\ refCount[d] - 1 \in Nat
      BY <1>2 DEF Release
    <2>2. refCount' \in [SessionIds -> Nat]
      BY <1>1, <2>1 DEF StoreInv, StoreTypeOK
    <2> QED
      BY <1>1, <2>2 DEF StoreInv, StoreTypeOK, Release, Condemn, Goto
  <1>4. PlaceInv'
    BY <1>1, StoreAssumption
       DEF StoreInv, StoreTypeOK, PlaceInv, Release, Condemn, Goto, Result, Own, Slots, StoreThreads
  <1>5. SweepInv'
    BY <1>1, StoreAssumption
       DEF StoreInv, StoreTypeOK, PlaceInv, SweepInv, Release, Result, Slots, StoreThreads
  <1>6. RefCountExact'
    <2>1. /\ handle \in [Handles -> SessionIds \cup {NoSession}] /\ refCount \in [SessionIds -> Nat]
          /\ handle' = [handle EXCEPT ![h] = NoSession] /\ handle[h] # NoSession
          /\ NoSession \in SessionIds \cup {NoSession} /\ sessions' = sessions /\ RefCountExact
      BY DEF StoreInv, StoreTypeOK, Release
    <2>2. \A c \in SessionIds : refCount'[c] = IF c = d THEN refCount[c] - 1 ELSE refCount[c]
      BY <1>1, <1>2 DEF StoreInv, StoreTypeOK, Release
    <2>3. CountFollows(d, NoSession)
      BY <1>1, <2>1, <2>2, StoreAssumption DEF CountFollows
    <2> HIDE DEF h
    <2> QED
      BY <1>1, <2>1, <2>3, ExactMove
  <1>7. DeletedOnce'
    <2>1. \A c \in SessionIds : c # d => refCount'[c] = refCount[c]
      BY <1>1 DEF StoreInv, StoreTypeOK, Release
    <2>2. condemned' = [condemned EXCEPT ![t] = IF refCount'[d] = 0 THEN d ELSE NoSession]
      BY <1>1, <1>2 DEF StoreInv, StoreTypeOK, Release, Condemn, LastReference
    <2>3. Referenced(d) /\ memory' = memory
      BY <1>1 DEF Referenced, Release
    <2> QED
      BY <1>1, <1>6, <2>1, <2>2, <2>3, DeletedAfter
  <1> QED
    BY <1>3, <1>4, <1>5, <1>6, <1>7 DEF StoreInv

LEMMA AssignSameStep ==
    ASSUME StoreInv, NEW t \in Users, AssignSession(t), AssignSame(t)
    PROVE  StoreInv'
  <1>1. handle' = handle /\ t \in StoreThreads /\ Result(t) \in SessionIds
    BY HandleIn DEF StoreInv, StoreTypeOK, AssignSession, AssignSame, Own, Result, StoreThreads
  <1>2. StoreTypeOK'
    BY <1>1 DEF StoreInv, StoreTypeOK, AssignSession, AssignSame, Goto
  <1>3. PlaceInv'
    BY <1>1, StoreAssumption
       DEF StoreInv, StoreTypeOK, PlaceInv, AssignSession, AssignSame, Goto, Result, Own
  <1>4. SweepInv'
    BY <1>1, StoreAssumption DEF StoreInv, StoreTypeOK, PlaceInv, SweepInv, AssignSession, Result
  <1>5. RefCountExact' /\ DeletedOnce'
    BY <1>1, Untouched DEF StoreInv, AssignSession, AssignSame
  <1> QED
    BY <1>2, <1>3, <1>4, <1>5 DEF StoreInv

LEMMA AssignFirstStep ==
    ASSUME StoreInv, NEW t \in Users, AssignSession(t), AssignFirst(t)
    PROVE  StoreInv'
  <1> DEFINE h == <<t, "own">>
             d == Result(t)
  <1>1. /\ h \in Handles /\ t \in StoreThreads /\ condemned[t] = NoSession
        /\ d \in SessionIds /\ handle[h] = NoSession /\ handle[h] # d
    BY HandleIn, StoreAssumption
       DEF StoreInv, StoreTypeOK, PlaceInv, AssignSession, AssignFirst, Own, Result, StoreThreads
  <1>2. Referenced(d)
    BY <1>1, HandleIn DEF Referenced, Result
  <1>3. \A c \in SessionIds : refCount'[c] = IF c = d THEN refCount[c] + 1 ELSE refCount[c]
    BY <1>1 DEF StoreInv, StoreTypeOK, AssignFirst
  <1>4. StoreTypeOK'
    BY <1>1 DEF StoreInv, StoreTypeOK, AssignSession, AssignFirst, Goto
  <1>5. PlaceInv'
    BY <1>1, StoreAssumption
       DEF StoreInv, StoreTypeOK, PlaceInv, AssignSession, AssignFirst, Goto, Result, Own
  <1>6. SweepInv'
    BY <1>1, StoreAssumption DEF StoreInv, StoreTypeOK, PlaceInv, SweepInv, AssignSession, Result
  <1>7. RefCountExact'
    <2>1. /\ handle \in [Handles -> SessionIds \cup {NoSession}] /\ refCount \in [SessionIds -> Nat]
          /\ handle' = [handle EXCEPT ![h] = d] /\ sessions' = sessions /\ RefCountExact
      BY DEF StoreInv, StoreTypeOK, AssignSession
    <2>2. CountFollows(handle[h], d)
      BY <1>1, <1>3, <2>1, StoreAssumption DEF CountFollows
    <2> HIDE DEF h, d
    <2> QED
      BY <1>1, <2>1, <2>2, ExactMove
  <1>8. DeletedOnce'
    <2>1. refCount[d] \in Nat /\ refCount'[d] # 0
      BY <1>1, <1>3 DEF StoreInv, StoreTypeOK
    <2>2. condemned' = [condemned EXCEPT ![t] = IF refCount'[d] = 0 THEN d ELSE NoSession]
      BY <1>1, <2>1 DEF StoreInv, StoreTypeOK, AssignFirst
    <2>3. memory' = memory
      BY DEF AssignSession
    <2> HIDE DEF d
    <2> QED
      BY <1>1, <1>2, <1>3, <1>7, <2>2, <2>3, DeletedAfter
  <1> QED
    BY <1>4, <1>5, <1>6, <1>7, <1>8 DEF StoreInv

LEMMA AssignOtherStep ==
    ASSUME StoreInv, NEW t \in Users, AssignSession(t), AssignOther(t)
    PROVE  StoreInv'
  <1> DEFINE h == <<t, "own">>
             d == Result(t)
             o == handle[h]
  <1>1. /\ h \in Handles /\ t \in StoreThreads /\ condemned[t] = NoSession
        /\ d \in SessionIds /\ o \in SessionIds /\ o # d /\ Own(t) = o
    BY HandleIn, StoreAssumption
       DEF StoreInv, StoreTypeOK, PlaceInv, AssignSession, AssignOther, Own, Result, StoreThreads
  <1>2. refCount[o] \in Nat \ {0} /\ refCount[d] \in Nat \ {0}
    BY <1>1, HandleIn, Counted DEF StoreInv, StoreTypeOK, Result
  <1>3. \A c \in SessionIds :
           refCount'[c] = IF c = d THEN refCount[c] + 1 ELSE IF c = o THEN refCount[c] - 1
                          ELSE refCount[c]
    BY <1>1 DEF StoreInv, StoreTypeOK, AssignOther
  <1>4. StoreTypeOK'
    <2>1. refCount' = [refCount EXCEPT ![d] = refCount[d] + 1, ![o] = refCount[o] - 1]
      BY <1>1 DEF AssignOther
    <2>2. refCount[d] + 1 \in Nat /\ refCount[o] - 1 \in Nat
      BY <1>2
    <2>3. refCount' \in [SessionIds -> Nat]
      BY <2>1, <2>2, <1>1 DEF StoreInv, StoreTypeOK
    <2> QED
      BY <1>1, <2>3 DEF StoreInv, StoreTypeOK, AssignSession, AssignOther, Condemn, Goto
  <1>5. PlaceInv'
    BY <1>1, StoreAssumption
       DEF StoreInv, StoreTypeOK, PlaceInv, AssignSession, AssignOther, Condemn, Goto, Result, Own
  <1>6. SweepInv'
    BY <1>1, StoreAssumption DEF StoreInv, StoreTypeOK, PlaceInv, SweepInv, AssignSession, Result
  <1>7. RefCountExact'
    <2>1. /\ handle \in [Handles -> SessionIds \cup {NoSession}] /\ refCount \in [SessionIds -> Nat]
          /\ handle' = [handle EXCEPT ![h] = d] /\ sessions' = sessions /\ RefCountExact
      BY DEF StoreInv, StoreTypeOK, AssignSession
    <2>2. CountFollows(o, d)
      BY <1>1, <1>3, <2>1, StoreAssumption DEF CountFollows, StoreInv, StoreTypeOK
    <2>3. /\ h \in Handles /\ d \in SessionIds \cup {NoSession} /\ handle[h] # d
          /\ CountFollows(handle[h], d)
      BY <1>1, <2>2
    <2> HIDE DEF h, d, o
    <2> QED
      BY <2>1, <2>3, ExactMove
  <1>8. DeletedOnce'
    <2>1. condemned' = [condemned EXCEPT ![t] = IF refCount'[o] = 0 THEN o ELSE NoSession]
      <3>1. refCount'[o] = 0 <=> refCount[o] = 1
        BY <1>1, <1>2, <1>3
      <3>2. condemned' = [condemned EXCEPT ![t] = IF refCount[o] = 1 THEN o ELSE NoSession]
        BY <1>1 DEF AssignOther, Condemn, LastReference
      <3> QED
        BY <3>1, <3>2
    <2>2. memory' = memory /\ Referenced(o)
      BY <1>1 DEF AssignSession, Referenced
    <2>3. \A c \in SessionIds : c # o => (refCount'[c] = 0 <=> refCount[c] = 0)
      BY <1>1, <1>2, <1>3
    <2> HIDE DEF o, d
    <2> QED
      BY <1>1, <1>7, <2>1, <2>2, <2>3, DeletedAfter
  <1> QED
    BY <1>4, <1>5, <1>6, <1>7, <1>8 DEF StoreInv

LEMMA DeleteDataStep ==
    ASSUME StoreInv, NEW t \in Users, DeleteData(t)
    PROVE  StoreInv'
  <1>1. condemned[t] \in SessionIds /\ t \in StoreThreads
    BY StoreAssumption DEF StoreInv, StoreTypeOK, PlaceInv, DeleteData, StoreThreads
  <1>2. StoreTypeOK'
    BY <1>1 DEF StoreInv, StoreTypeOK, DeleteData, Goto
  <1>3. PlaceInv'
    BY <1>1, StoreAssumption DEF StoreInv, StoreTypeOK, PlaceInv, DeleteData, Goto, Result, Own
  <1>4. SweepInv'
    BY DEF StoreInv, SweepInv, DeleteData, Result
  <1>5. RefCountExact'
    BY DEF StoreInv, RefCountExact, References, DeleteData, Handles, StoreThreads
  <1>6. DeletedOnce'
    BY <1>1, CountFacts, DeletedForgotten DEF StoreInv, StoreTypeOK, DeleteData
  <1> QED
    BY <1>2, <1>3, <1>4, <1>5, <1>6 DEF StoreInv

LEMMA DeleteExpiredStep ==
    ASSUME StoreInv, DeleteExpired
    PROVE  StoreInv'
  <1>1. condemned[Timer] \in SessionIds /\ Timer \in StoreThreads
    BY StoreAssumption DEF StoreInv, StoreTypeOK, PlaceInv, DeleteExpired, StoreThreads
  <1>2. StoreTypeOK'
    BY <1>1 DEF StoreInv, StoreTypeOK, DeleteExpired
  <1>3. PlaceInv'
    BY <1>1, StoreAssumption DEF StoreInv, StoreTypeOK, PlaceInv, DeleteExpired, Result, Own
  <1>4. SweepInv'
    BY DEF StoreInv, StoreTypeOK, SweepInv, DeleteExpired, Result
  <1>5. RefCountExact'
    BY DEF StoreInv, RefCountExact, References, DeleteExpired, Handles, StoreThreads
  <1>6. DeletedOnce'
    BY <1>1, CountFacts, DeletedForgotten DEF StoreInv, StoreTypeOK, DeleteExpired
  <1> QED
    BY <1>2, <1>3, <1>4, <1>5, <1>6 DEF StoreInv

LEMMA FindSessionStep ==
    ASSUME StoreInv, NEW t \in Users, doing[t] \in {"find", "service"}, Result(t) = NoSession,
           MutexFree, NEW d, FindSession(t, d)
    PROVE  StoreInv'
  <1> DEFINE h == <<t, "result">>
  <1>1. /\ h \in Handles /\ t \in StoreThreads /\ condemned[t] = NoSession
        /\ d \in SessionIds /\ d \in sessions /\ handle[h] = NoSession /\ handle[h] # d
    BY HandleIn, StoreAssumption
       DEF StoreInv, StoreTypeOK, PlaceInv, FindSession, Result, StoreThreads
  <1>2. \A c \in SessionIds : refCount'[c] = IF c = d THEN refCount[c] + 1 ELSE refCount[c]
    BY <1>1 DEF StoreInv, StoreTypeOK, FindSession, Copy
  <1>3. StoreTypeOK'
    BY <1>1 DEF StoreInv, StoreTypeOK, FindSession, Copy, Goto
  <1>4. PlaceInv'
    BY <1>1, StoreAssumption
       DEF StoreInv, StoreTypeOK, PlaceInv, FindSession, Copy, Goto, Result, Own
  <1>5. SweepInv'
    BY <1>1, StoreAssumption DEF StoreInv, StoreTypeOK, SweepInv, FindSession, Copy, MutexFree, Result
  <1>6. RefCountExact'
    <2>1. /\ handle \in [Handles -> SessionIds \cup {NoSession}] /\ refCount \in [SessionIds -> Nat]
          /\ handle' = [handle EXCEPT ![h] = d] /\ sessions' = sessions /\ RefCountExact
      BY DEF StoreInv, StoreTypeOK, FindSession, Copy
    <2>2. CountFollows(handle[h], d)
      BY <1>1, <1>2, <2>1, StoreAssumption DEF CountFollows
    <2> HIDE DEF h
    <2> QED
      BY <1>1, <2>1, <2>2, ExactMove
  <1>7. DeletedOnce'
    <2>1. refCount[d] \in Nat /\ refCount'[d] # 0
      BY <1>1, <1>2 DEF StoreInv, StoreTypeOK
    <2>2. condemned' = [condemned EXCEPT ![t] = IF refCount'[d] = 0 THEN d ELSE NoSession]
      BY <1>1, <2>1 DEF StoreInv, StoreTypeOK, FindSession
    <2>3. memory' = memory /\ Referenced(d)
      BY <1>1 DEF FindSession, Referenced
    <2> QED
      BY <1>1, <1>2, <1>6, <2>2, <2>3, DeletedAfter
  <1> QED
    BY <1>3, <1>4, <1>5, <1>6, <1>7 DEF StoreInv

LEMMA LookAtStep ==
    ASSUME StoreInv, NEW d \in SessionIds, LookAt(d)
    PROVE  StoreInv'
  <1> DEFINE h == <<Timer, "result">>
  <1>1. /\ h \in Handles /\ Timer \in StoreThreads /\ condemned[Timer] = NoSession
        /\ d \in sessions /\ handle[h] = NoSession /\ handle[h] # d
    BY HandleIn, StoreAssumption
       DEF StoreInv, StoreTypeOK, PlaceInv, SweepInv, LookAt, Result, StoreThreads
  <1>2. \A c \in SessionIds : refCount'[c] = IF c = d THEN refCount[c] + 1 ELSE refCount[c]
    BY <1>1 DEF StoreInv, StoreTypeOK, LookAt, Copy
  <1>3. StoreTypeOK'
    <2>1. sweep' \in [at : {"idle", "walk", "judge", "delete"},
                      now : Nat, left : SUBSET SessionIds, seen : Nat]
      BY DEF StoreInv, StoreTypeOK, LookAt
    <2> QED
      BY <1>1, <2>1 DEF StoreInv, StoreTypeOK, LookAt, Copy, userVars
  <1>4. PlaceInv'
    BY <1>1, StoreAssumption
       DEF StoreInv, StoreTypeOK, PlaceInv, LookAt, Copy, Result, Own, userVars
  <1>5. SweepInv'
    BY <1>1, StoreAssumption DEF StoreInv, StoreTypeOK, SweepInv, LookAt, Copy, Result
  <1>6. RefCountExact'
    <2>1. /\ handle \in [Handles -> SessionIds \cup {NoSession}] /\ refCount \in [SessionIds -> Nat]
          /\ handle' = [handle EXCEPT ![h] = d] /\ sessions' = sessions /\ RefCountExact
      BY DEF StoreInv, StoreTypeOK, LookAt, Copy
    <2>2. CountFollows(handle[h], d)
      BY <1>1, <1>2, <2>1, StoreAssumption DEF CountFollows
    <2> HIDE DEF h
    <2> QED
      BY <1>1, <2>1, <2>2, ExactMove
  <1>7. DeletedOnce'
    <2>1. refCount[d] \in Nat /\ refCount'[d] # 0
      BY <1>1, <1>2 DEF StoreInv, StoreTypeOK
    <2>2. condemned' = [condemned EXCEPT ![Timer] = IF refCount'[d] = 0 THEN d ELSE NoSession]
      BY <1>1, <2>1 DEF StoreInv, StoreTypeOK, LookAt, userVars
    <2>3. memory' = memory /\ Referenced(d)
      BY <1>1 DEF LookAt, Referenced
    <2> QED
      BY <1>1, <1>2, <1>6, <2>2, <2>3, DeletedAfter
  <1> QED
    BY <1>3, <1>4, <1>5, <1>6, <1>7 DEF StoreInv

LEMMA RemoveSessionStep ==
    ASSUME StoreInv, NEW t \in Users, RemoveSession(t)
    PROVE  StoreInv'
  <1> DEFINE h == <<t, "own">>
             d == Own(t)
  <1>1. /\ h \in Handles /\ t \in StoreThreads /\ condemned[t] = NoSession
        /\ d \in SessionIds /\ d \in sessions /\ handle[h] = d
    BY HandleIn, StoreAssumption
       DEF StoreInv, StoreTypeOK, PlaceInv, RemoveSession, Own, StoreThreads
  <1>2. refCount[d] \in Nat /\ refCount[d] >= 2
    BY <1>1, Counted DEF StoreInv, StoreTypeOK
  <1>3. \A c \in SessionIds : refCount'[c] = IF c = d THEN refCount[c] - 1 ELSE refCount[c]
    BY <1>1 DEF StoreInv, StoreTypeOK, RemoveSession
  <1>4. StoreTypeOK'
    <2>1. refCount' = [refCount EXCEPT ![d] = refCount[d] - 1] /\ refCount[d] - 1 \in Nat
      BY <1>2 DEF RemoveSession
    <2>2. refCount' \in [SessionIds -> Nat]
      BY <1>1, <2>1 DEF StoreInv, StoreTypeOK
    <2> QED
      BY <1>1, <2>2 DEF StoreInv, StoreTypeOK, RemoveSession, userVars
  <1>5. PlaceInv'
    BY DEF StoreInv, PlaceInv, RemoveSession, Result, Own, userVars
  <1>6. SweepInv'
    BY DEF StoreInv, PlaceInv, SweepInv, RemoveSession, MutexFree, Result
  <1>7. RefCountExact'
    <2>1. refCount \in [SessionIds -> Nat] /\ handle' = handle /\ sessions' = sessions \ {d} /\ RefCountExact
      BY DEF StoreInv, StoreTypeOK, RemoveSession
    <2>2. \A c \in SessionIds :
             refCount'[c] = refCount[c] + (IF c \in sessions' THEN 1 ELSE 0) - (IF c \in sessions THEN 1 ELSE 0)
      BY <1>1, <1>3, <2>1
    <2> QED
      BY <2>1, <2>2, ExactStay
  <1>8. DeletedOnce'
    <2>1. refCount'[d] # 0
      BY <1>1, <1>2, <1>3
    <2>2. condemned' = [condemned EXCEPT ![t] = IF refCount'[d] = 0 THEN d ELSE NoSession]
      BY <1>1, <2>1 DEF StoreInv, StoreTypeOK, RemoveSession, userVars
    <2>3. memory' = memory /\ Referenced(d)
      BY <1>1 DEF RemoveSession, Referenced
    <2> HIDE DEF d
    <2> QED
      BY <1>1, <1>3, <1>7, <2>2, <2>3, DeletedAfter
  <1> QED
    BY <1>4, <1>5, <1>6, <1>7, <1>8 DEF StoreInv

LEMMA CreateSessionStep ==
    ASSUME StoreInv, NEW t \in Users, doing[t] = "find", MutexFree,
           NEW d \in SessionIds, CreateSession(t, d)
    PROVE  StoreInv'
  <1> DEFINE h == <<t, "result">>
  <1>1. /\ h \in Handles /\ t \in StoreThreads /\ condemned[t] = NoSession
        /\ handle[h] = NoSession /\ handle[h] # d
    BY HandleIn, StoreAssumption
       DEF StoreInv, StoreTypeOK, PlaceInv, CreateSession, Result, StoreThreads
  <1>2. ~ Referenced(d) /\ d \notin sessions /\ refCount[d] = 0
    BY CountFacts DEF StoreInv, DeletedOnce, CreateSession, Referenced
  <1>3. \A c \in SessionIds : refCount'[c] = IF c = d THEN 2 ELSE refCount[c]
    BY DEF StoreInv, StoreTypeOK, CreateSession
  <1>4. StoreTypeOK'
    BY <1>1 DEF StoreInv, StoreTypeOK, CreateSession, Goto
  <1>5. PlaceInv'
    BY <1>1, StoreAssumption
       DEF StoreInv, StoreTypeOK, PlaceInv, CreateSession, Goto, Result, Own
  <1>6. SweepInv'
    BY <1>1, StoreAssumption DEF StoreInv, StoreTypeOK, SweepInv, CreateSession, MutexFree, Result
  <1>7. RefCountExact'
    <2>1. /\ handle \in [Handles -> SessionIds \cup {NoSession}] /\ refCount \in [SessionIds -> Nat]
          /\ handle' = [handle EXCEPT ![h] = d] /\ sessions' = sessions \cup {d} /\ RefCountExact
      BY DEF StoreInv, StoreTypeOK, CreateSession
    <2>2. CountFollows(handle[h], d)
      BY <1>1, <1>2, <1>3, <2>1, StoreAssumption DEF CountFollows
    <2> HIDE DEF h
    <2> QED
      BY <1>1, <2>1, <2>2, ExactMove
  <1>8. DeletedOnce'
    <2>1. ASSUME NEW c \in SessionIds, c # d
          PROVE  (Referenced(c)' <=> Referenced(c)) /\ memory'[c] = memory[c] /\ refCount'[c] = refCount[c]
      <3>1. \A g \in Handles : handle'[g] = c <=> handle[g] = c
        BY <1>1, <2>1, StoreAssumption DEF StoreInv, StoreTypeOK, CreateSession
      <3>2. c \in sessions' <=> c \in sessions
        BY <2>1 DEF CreateSession
      <3>3. Referenced(c)' <=> Referenced(c)
        BY <3>1, <3>2 DEF Referenced, Handles, StoreThreads
      <3> QED
        BY <1>3, <2>1, <3>3 DEF StoreInv, StoreTypeOK, CreateSession
    <2>2. \A w \in StoreThreads : condemned[w] # d
      BY DEF StoreInv, DeletedOnce, CreateSession
    <2>3. memory'[d] = "live" /\ refCount'[d] # 0 /\ condemned' = condemned
      BY <1>3 DEF StoreInv, StoreTypeOK, CreateSession
    <2>4. ASSUME NEW c \in SessionIds
          PROVE  /\ Referenced(c)' => memory'[c] = "live"
                 /\ memory'[c] = "live" /\ refCount'[c] = 0 => \E w \in StoreThreads : condemned'[w] = c
                 /\ \A w \in StoreThreads : condemned'[w] = c =>
                       /\ memory'[c] = "live" /\ refCount'[c] = 0
                       /\ \A v \in StoreThreads : condemned'[v] = c => v = w
      <3>1. CASE c = d
        BY <2>2, <2>3, <3>1
      <3>2. CASE c # d
        BY <2>1, <2>3, <3>2 DEF StoreInv, DeletedOnce, Referenced
      <3> QED
        BY <3>1, <3>2
    <2> QED
      BY <2>4 DEF DeletedOnce, Referenced, Handles, StoreThreads
  <1> QED
    BY <1>4, <1>5, <1>6, <1>7, <1>8 DEF StoreInv

LEMMA JudgeStep ==
    ASSUME StoreInv, Judge
    PROVE  StoreInv'
  <1> DEFINE h == <<Timer, "result">>
             d == Result(Timer)
             n == IF Expired /\ d \in sessions THEN 2 ELSE 1
  <1>1. /\ h \in Handles /\ Timer \in StoreThreads /\ condemned[Timer] = NoSession
        /\ d \in SessionIds /\ handle[h] = d
    BY HandleIn, StoreAssumption
       DEF StoreInv, StoreTypeOK, PlaceInv, Judge, Result, StoreThreads
  <1>2. refCount[d] \in Nat /\ refCount[d] >= n /\ refCount[d] - n \in Nat
    BY <1>1, Counted DEF StoreInv, StoreTypeOK
  <1>3. /\ refCount' = [refCount EXCEPT ![d] = refCount[d] - n]
        /\ sessions' = (IF Expired THEN sessions \ {d} ELSE sessions)
        /\ condemned' = [condemned EXCEPT ![Timer] = IF refCount[d] = n THEN d ELSE NoSession]
    BY DEF Judge, Condemn, LastReference
  <1>4. \A c \in SessionIds : refCount'[c] = IF c = d THEN refCount[c] - n ELSE refCount[c]
    BY <1>1, <1>3 DEF StoreInv, StoreTypeOK
  <1>5. condemned'[Timer] = (IF refCount[d] = n THEN d ELSE NoSession)
    BY <1>1, <1>3 DEF StoreInv, StoreTypeOK
  <1>6. StoreTypeOK'
    <2>1. refCount' \in [SessionIds -> Nat]
      BY <1>1, <1>2, <1>3 DEF StoreInv, StoreTypeOK
    <2>2. condemned' \in [StoreThreads -> SessionIds \cup {NoSession}] /\ sessions' \subseteq SessionIds
      BY <1>1, <1>3 DEF StoreInv, StoreTypeOK
    <2>3. sweep' \in [at : {"idle", "walk", "judge", "delete"},
                      now : Nat, left : SUBSET SessionIds, seen : Nat]
      BY DEF StoreInv, StoreTypeOK, Judge
    <2>4. handle' \in [Handles -> SessionIds \cup {NoSession}]
      BY DEF StoreInv, StoreTypeOK, Judge
    <2> QED
      BY <2>1, <2>2, <2>3, <2>4 DEF StoreInv, StoreTypeOK, Judge
  <1>7. PlaceInv'
    <2>1. \A t \in Users : condemned'[t] = condemned[t] /\ Result(t)' = Result(t)
      BY <1>3, StoreAssumption DEF StoreInv, StoreTypeOK, Judge, Result, StoreThreads
    <2>2. Own(Timer)' = NoSession /\ Result(Timer)' = NoSession
      BY <1>1 DEF StoreInv, StoreTypeOK, PlaceInv, Judge, Own, Result
    <2>3. sweep'.at = IF refCount[d] = n THEN "delete" ELSE "walk"
      BY <1>1, <1>5, StoreAssumption DEF StoreInv, StoreTypeOK, Judge
    <2>4. condemned'[Timer] # NoSession <=> sweep'.at = "delete"
      BY <1>1, <1>5, <2>3, StoreAssumption
    <2>5. doing' = doing
      BY DEF Judge
    <2> QED
      BY <2>1, <2>2, <2>3, <2>4, <2>5 DEF StoreInv, PlaceInv
  <1>8. SweepInv'
    <2>1. /\ sweep'.at \in {"walk", "delete"} /\ sweep'.now = sweep.now
          /\ sweep'.left = sweep.left /\ clock' = clock
      BY DEF StoreInv, StoreTypeOK, Judge
    <2>2. sweep.left \subseteq sessions' /\ sweep.now <= clock
      BY <1>3 DEF StoreInv, SweepInv, Judge
    <2> QED
      BY <2>1, <2>2 DEF SweepInv
  <1>9. RefCountExact'
    <2>1. /\ handle \in [Handles -> SessionIds \cup {NoSession}] /\ refCount \in [SessionIds -> Nat]
          /\ handle' = [handle EXCEPT ![h] = NoSession] /\ RefCountExact
      BY DEF StoreInv, StoreTypeOK, Judge
    <2>2. CountFollows(d, NoSession)
      BY <1>1, <1>3, <1>4, <2>1, StoreAssumption DEF CountFollows
    <2>3. /\ h \in Handles /\ NoSession \in SessionIds \cup {NoSession} /\ handle[h] # NoSession
          /\ CountFollows(handle[h], NoSession)
      BY <1>1, <2>2, StoreAssumption
    <2> HIDE DEF h
    <2> QED
      BY <2>1, <2>3, ExactMove
  <1>10. DeletedOnce'
    <2>1. refCount'[d] = 0 <=> refCount[d] = n
      BY <1>1, <1>2, <1>4
    <2>2. condemned' = [condemned EXCEPT ![Timer] = IF refCount'[d] = 0 THEN d ELSE NoSession]
      BY <1>3, <2>1
    <2>3. memory' = memory /\ Referenced(d)
      BY <1>1 DEF Judge, Referenced
    <2>4. \A c \in SessionIds : c # d => (refCount'[c] = 0 <=> refCount[c] = 0)
      BY <1>4
    <2> HIDE DEF d, n
    <2> QED
      BY <1>1, <1>9, <2>2, <2>3, <2>4, DeletedAfter
  <1> QED
    BY <1>6, <1>7, <1>8, <1>9, <1>10 DEF StoreInv

-----------------------------------------------------------------------------
(* The theorems.                                                           *)

LEMMA StoreInitInv == StoreInit => StoreInv
  <1> SUFFICES ASSUME StoreInit PROVE StoreInv
    OBVIOUS
  <1>1. StoreTypeOK
    BY StoreAssumption DEF StoreInit, StoreTypeOK
  <1>2. PlaceInv
    BY StoreAssumption DEF StoreInit, PlaceInv, Result, Own, Handles, Slots, StoreThreads
  <1>3. SweepInv
    BY DEF StoreInit, SweepInv
  <1>4. \A d \in SessionIds : RefsTo(d) = {}
    BY StoreAssumption DEF StoreInit, RefsTo
  <1>5. RefCountExact
    <2>1. ASSUME NEW d \in SessionIds PROVE refCount[d] = References(d)
      <3>1. Cardinality({h \in Handles : handle[h] = d}) = 0
        BY <1>4, FS_EmptySet DEF RefsTo
      <3> QED
        BY <3>1 DEF StoreInit, References
    <2> QED
      BY <2>1 DEF RefCountExact
  <1>6. DeletedOnce
    BY StoreAssumption DEF StoreInit, DeletedOnce
  <1> QED
    BY <1>1, <1>2, <1>3, <1>5, <1>6 DEF StoreInv

LEMMA HandleStepInv ==
    ASSUME StoreInv, NEW t \in Users, HandleStep(t)
    PROVE  StoreInv'
  <1>1. CASE AssignSession(t)
    BY <1>1, AssignFirstStep, AssignSameStep, AssignOtherStep DEF AssignSession
  <1>2. CASE DeleteData(t)
    BY <1>2, DeleteDataStep
  <1>3. CASE \E slot \in Slots : Release(t, slot)
    BY <1>3, ReleaseStep
  <1>4. CASE \E k \in Keys : SetValue(t, k) \/ RemoveValue(t, k)
    BY <1>4, SetValueStep, RemoveValueStep
  <1> QED
    BY <1>1, <1>2, <1>3, <1>4 DEF HandleStep

LEMMA StoreStepInv ==
    ASSUME StoreInv, NEW t \in Users, StoreStep(t)
    PROVE  StoreInv'
  <1>1. CASE \E id \in SessionIds \cup {NoSession} : BeginRequest(t, id)
    BY <1>1, BeginRequestStep
  <1>2. CASE EndRequest(t) \/ GetSessionId(t) \/ SetLastAccess(t) \/ RemoveSession(t)
    BY <1>2, EndRequestStep, GetSessionIdStep, SetLastAccessStep, RemoveSessionStep
  <1>3. CASE GetSession(t)
    <2>1. Result(t) = NoSession /\ doing[t] = "find" /\ MutexFree
      BY <1>3 DEF GetSession, StoreInv, PlaceInv
    <2>2. CASE FindSession(t, sought[t])
      BY <2>1, <2>2, FindSessionStep
    <2>3. CASE \E d \in SessionIds : CreateSession(t, d)
      BY <2>1, <2>3, CreateSessionStep
    <2>4. CASE NullSession(t)
      BY <2>1, <2>4, NullSessionStep
    <2> QED
      BY <1>3, <2>2, <2>3, <2>4 DEF GetSession
  <1>4. CASE \E id \in SessionIds : GetSessionById(t, id)
    BY <1>4, FindSessionStep DEF GetSessionById
  <1> QED
    BY <1>1, <1>2, <1>3, <1>4 DEF StoreStep

LEMMA StoreNextInv == StoreInv /\ [StoreNext]_storeVars => StoreInv'
  <1> SUFFICES ASSUME StoreInv, [StoreNext]_storeVars PROVE StoreInv'
    OBVIOUS
  <1>1. CASE \E t \in Users : HandleStep(t) \/ StoreStep(t)
    BY <1>1, HandleStepInv, StoreStepInv
  <1>2. CASE TimerEvent \/ Minute
    BY <1>2, TimerEventStep, MinuteStep
  <1>3. CASE Sweep
    BY <1>3, LookAtStep, JudgeStep, DeleteExpiredStep, SweepEndsStep DEF Sweep
  <1>4. CASE UNCHANGED storeVars
    <2>1. StoreTypeOK' /\ PlaceInv' /\ SweepInv'
      BY <1>4 DEF StoreInv, StoreTypeOK, PlaceInv, SweepInv, Result, Own, storeVars, dataVars,
                  userVars, Handles, StoreThreads
    <2>2. RefCountExact' /\ DeletedOnce'
      BY <1>4, Untouched DEF StoreInv, storeVars, dataVars, userVars
    <2> QED
      BY <2>1, <2>2 DEF StoreInv
  <1> QED
    BY <1>1, <1>2, <1>3, <1>4 DEF StoreNext

LEMMA StoreInvariant == StoreSpec => []StoreInv
  BY StoreInitInv, StoreNextInv, PTL DEF StoreSpec

\* The variables of the store keep their types.
THEOREM StoreTypeCorrect == StoreSpec => []StoreTypeOK
  <1>1. StoreInv => StoreTypeOK
    BY DEF StoreInv
  <1> QED
    BY <1>1, StoreInvariant, PTL

\* refCount counts the HttpSession objects and the entry in the map, whatever the
\* threads and the timer do (httpsession.cpp:22-110).
THEOREM RefCountCorrect == StoreSpec => []RefCountExact
  <1>1. StoreInv => RefCountExact
    BY DEF StoreInv
  <1> QED
    BY <1>1, StoreInvariant, PTL

\* Nothing points at deleted data, and data that nothing points at are deleted by one
\* thread (httpsession.cpp:66-90).
THEOREM DeletedOnceCorrect == StoreSpec => []DeletedOnce
  <1>1. StoreInv => DeletedOnce
    BY DEF StoreInv
  <1> QED
    BY <1>1, StoreInvariant, PTL

\* The timer erases only sessions that were idle when its pass began, or that were used
\* during the pass (httpsessionstore.cpp:96-119).
THEOREM OnlyIdleExpireCorrect == StoreSpec => OnlyIdleExpire
  <1>1. ASSUME StoreInv, [StoreNext]_storeVars, sweep.at = "judge",
               NEW d \in sessions \ sessions'
        PROVE  sweep.now > lastAccess[d] + ExpirationTime \/ lastAccess[d] >= sweep.now
    <2>1. Judge
      <3>1. \A t \in Users : HandleStep(t) => sessions' = sessions
        BY DEF HandleStep, AssignSession, DeleteData, Release, SetValue, RemoveValue
      <3>2. ASSUME NEW t \in Users, StoreStep(t) PROVE sessions' = sessions
        BY <1>1, <3>2
           DEF StoreStep, BeginRequest, EndRequest, GetSessionId, GetSession, SetLastAccess,
               GetSessionById, RemoveSession, MutexFree
      <3>3. TimerEvent \/ Minute => sessions' = sessions
        BY DEF TimerEvent, Minute
      <3>4. Sweep => Judge
        BY <1>1 DEF Sweep, LookAt, DeleteExpired, SweepEnds
      <3>5. UNCHANGED storeVars => sessions' = sessions
        BY DEF storeVars
      <3> QED
        BY <1>1, <3>1, <3>2, <3>3, <3>4, <3>5 DEF StoreNext
    <2>2. d = Result(Timer) /\ Expired
      BY <1>1, <2>1 DEF Judge
    <2> QED
      BY <1>1, <2>2 DEF StoreInv, StoreTypeOK, SweepInv, Expired
  <1>2. StoreInv /\ [StoreNext]_storeVars =>
           [\A d \in sessions \ sessions' :
               sweep.at = "judge" =>
                   \/ sweep.now > lastAccess[d] + ExpirationTime
                   \/ lastAccess[d] >= sweep.now]_storeVars
    BY <1>1
  <1> QED
    BY <1>2, StoreInvariant, PTL DEF StoreSpec, OnlyIdleExpire
==============================================================================
