--------------------------- MODULE HttpLibrary_proofs ---------------------------
(***************************************************************************)
(* Proofs about the caches of files and the logger: for any files, any     *)
(* number of threads, and any times and limits; and that the library of    *)
(* the run is made of the five components.                                 *)
(***************************************************************************)
EXTENDS MCHttpLibrary, HttpRequest_proofs, SessionStore_proofs, FiniteSetTheorems, TLAPS

-----------------------------------------------------------------------------
(* The files on the disk.                                                  *)

\* The version that is there, and those to come, have not been replaced.
DiskInv ==
    /\ DiskTypeOK
    /\ \A f \in Files : \A v \in Versions : v >= version[f] => replaced[f][v] = Never

\* File f had version v at that time, or later.
Held(f, v, time) == time <= second /\ replaced[f][v] >= time

\* File f had version v less than timeout before that time, or later.
InTime(f, v, time, timeout) ==
    time <= second /\ (timeout > 0 => replaced[f][v] + timeout > time)

LEMMA VersionFacts == 1 \in Versions /\ Versions \subseteq Nat /\ 0 \notin Versions
  BY DiskAssumption DEF Versions

LEMMA SizeFacts == \A v \in Versions : Sizes[v] \in Nat \cup {NoFile}
  BY DiskAssumption DEF Versions

LEMMA DiskInitHolds == DiskInit => DiskInv
  BY DiskAssumption, VersionFacts DEF DiskInit, DiskInv, DiskTypeOK, Never

LEMMA DiskStep ==
    ASSUME DiskInv, DiskNext \/ UNCHANGED diskVars
    PROVE  /\ DiskInv' /\ second <= second'
           /\ \A f \in Files, v \in Versions :
                 \/ replaced'[f][v] = replaced[f][v]
                 \/ replaced'[f][v] = second
  <1>0. /\ Never \in Nat /\ Seconds \in Nat /\ second \in Nat /\ second <= Seconds
        /\ Never = Seconds + 1
        /\ version \in [Files -> Versions]
        /\ replaced \in [Files -> [Versions -> 0 .. Never]]
    BY DiskAssumption DEF DiskInv, DiskTypeOK, Never
  <1>1. CASE Second
    BY <1>0, <1>1 DEF Second, DiskInv, DiskTypeOK
  <1>2. ASSUME NEW g \in Files, ChangeFile(g)
        PROVE  /\ DiskInv' /\ second <= second'
               /\ \A f \in Files, v \in Versions :
                     \/ replaced'[f][v] = replaced[f][v]
                     \/ replaced'[f][v] = second
    <2>1. version[g] \in Versions /\ version[g] + 1 \in Versions
      BY <1>0, <1>2 DEF ChangeFile
    <2>2. version' \in [Files -> Versions]
      BY <1>0, <1>2, <2>1 DEF ChangeFile
    <2>3. replaced' = [replaced EXCEPT ![g] = [replaced[g] EXCEPT ![version[g]] = second]]
      BY <1>0, <1>2 DEF ChangeFile
    <2>4. [replaced[g] EXCEPT ![version[g]] = second] \in [Versions -> 0 .. Never]
      BY <1>0, <2>1
    <2>5. replaced' \in [Files -> [Versions -> 0 .. Never]]
      BY <1>0, <2>3, <2>4
    <2>6. \A f \in Files, v \in Versions :
             replaced'[f][v] = IF f = g /\ v = version[g] THEN second ELSE replaced[f][v]
      BY <1>0, <2>1, <2>3
    <2>7. \A f \in Files, v \in Versions : v >= version'[f] => replaced'[f][v] = Never
      <3> SUFFICES ASSUME NEW f \in Files, NEW v \in Versions, v >= version'[f]
                   PROVE  replaced'[f][v] = Never
        OBVIOUS
      <3>1. v \in Nat /\ version[f] \in Nat
        BY <1>0, VersionFacts
      <3>2. CASE f = g
        <4>1. version'[f] = version[f] + 1
          BY <1>0, <1>2, <3>2 DEF ChangeFile
        <4>2. v >= version[f] /\ v # version[f]
          BY <3>1, <4>1
        <4> QED
          BY <2>6, <3>2, <4>2 DEF DiskInv
      <3>3. CASE f # g
        <4>1. version'[f] = version[f]
          BY <1>0, <1>2, <3>3 DEF ChangeFile
        <4> QED
          BY <2>6, <3>3, <4>1 DEF DiskInv
      <3> QED
        BY <3>2, <3>3
    <2>8. second' = second
      BY <1>2 DEF ChangeFile
    <2> QED
      BY <1>0, <2>2, <2>5, <2>6, <2>7, <2>8 DEF DiskInv, DiskTypeOK
  <1>3. CASE UNCHANGED diskVars
    BY <1>0, <1>3 DEF diskVars, DiskInv, DiskTypeOK
  <1> QED
    BY <1>1, <1>2, <1>3 DEF DiskNext

\* What was on the disk once was there then, whatever is written later.
LEMMA HeldStays ==
    ASSUME DiskInv, DiskNext \/ UNCHANGED diskVars,
           NEW f \in Files, NEW v \in Versions, NEW time \in Nat, Held(f, v, time)
    PROVE  Held(f, v, time)'
  <1>1. second \in Nat /\ second' \in Nat /\ second <= second' /\ replaced[f][v] \in Nat
    BY DiskStep, DiskAssumption DEF DiskInv, DiskTypeOK, Never
  <1>2. replaced'[f][v] = replaced[f][v] \/ replaced'[f][v] = second
    BY DiskStep
  <1> QED
    BY <1>1, <1>2 DEF Held

LEMMA InTimeStays ==
    ASSUME DiskInv, DiskNext \/ UNCHANGED diskVars,
           NEW f \in Files, NEW v \in Versions, NEW time \in Nat, NEW timeout \in Nat,
           InTime(f, v, time, timeout)
    PROVE  InTime(f, v, time, timeout)'
  <1>1. second \in Nat /\ second' \in Nat /\ second <= second' /\ replaced[f][v] \in Nat
    BY DiskStep, DiskAssumption DEF DiskInv, DiskTypeOK, Never
  <1>2. replaced'[f][v] = replaced[f][v] \/ replaced'[f][v] = second
    BY DiskStep
  <1> QED
    BY <1>1, <1>2 DEF InTime

\* What is read now is held; what is held, or was put into a cache in time, is in
\* time.
LEMMA ReadIsHeld ==
    ASSUME DiskInv, NEW f \in Files, NEW time \in Nat, time <= second
    PROVE  version[f] \in Versions /\ Held(f, version[f], time)
  <1>0. version[f] \in Versions /\ version[f] \in Nat
    BY VersionFacts DEF DiskInv, DiskTypeOK
  <1>1. replaced[f][version[f]] = Never
    <2>1. \A n \in Nat : n >= n
      OBVIOUS
    <2> QED
      BY <1>0, <2>1 DEF DiskInv
  <1>2. second <= Seconds /\ Never = Seconds + 1 /\ Seconds \in Nat /\ second \in Nat
    BY DiskAssumption DEF DiskInv, DiskTypeOK, Never
  <1> QED
    BY <1>0, <1>1, <1>2 DEF Held

LEMMA CachedIsInTime ==
    ASSUME DiskInv, NEW f \in Files, NEW v \in Versions,
           NEW time \in Nat, NEW created \in Nat, NEW timeout \in Nat,
           Held(f, v, created), time <= second,
           timeout = 0 \/ created + timeout > time
    PROVE  InTime(f, v, time, timeout)
  <1>1. replaced[f][v] \in Nat
    BY DiskAssumption DEF DiskInv, DiskTypeOK, Never
  <1> QED
    BY <1>1 DEF Held, InTime

\* QCache::insert() keeps entries or drops them; the new one it keeps if there is
\* room for it at all.
LEMMA InsertedFacts ==
    ASSUME NEW cache, NEW key, NEW entry, NEW maxCost,
           NEW new \in Inserted(cache, key, entry, maxCost)
    PROVE  /\ \A k \in DOMAIN new : \/ k = key /\ new[k] = entry
                                    \/ k # key /\ k \in DOMAIN cache /\ new[k] = cache[k]
           /\ entry.cost > maxCost \/ (key \in DOMAIN new /\ new[key] = entry)
           /\ key \in DOMAIN new => ~(entry.cost > maxCost)
  <1> DEFINE others == Restrict(cache, DOMAIN cache \ {key})
  <1>0. /\ DOMAIN others = DOMAIN cache \ {key}
        /\ \A k \in DOMAIN others : others[k] = cache[k]
    BY DEF Restrict
  <1>1. CASE entry.cost > maxCost
    <2>1. new = others
      BY <1>1 DEF Inserted
    <2> HIDE DEF others
    <2>2. key \notin DOMAIN new
      BY <1>0, <2>1
    <2> QED
      BY <1>0, <1>1, <2>1, <2>2
  <1>2. CASE ~(entry.cost > maxCost)
    <2> DEFINE Fits == {S \in SUBSET DOMAIN others :
                          TotalCost(Restrict(others, S)) + entry.cost <= maxCost}
               With(kept) == [k \in kept \cup {key} |-> IF k = key THEN entry ELSE others[k]]
    <2>1. Inserted(cache, key, entry, maxCost) = {With(kept) : kept \in Fits}
      BY <1>2 DEF Inserted
    <2>2. Fits \subseteq SUBSET DOMAIN others
      OBVIOUS
    <2> HIDE DEF Fits
    <2>3. PICK kept \in SUBSET DOMAIN others : new = With(kept)
      BY <2>1, <2>2
    <2> HIDE DEF others
    <2> QED
      BY <1>0, <1>2, <2>3
  <1> QED
    BY <1>1, <1>2

-----------------------------------------------------------------------------
(* The cache of static files.                                              *)

\* Of a document every version.
AllHeld(f, document, time) == \A v \in document : Held(f, v, time)
AllInTime(f, document, time, timeout) == \A v \in document : InTime(f, v, time, timeout)

\* What a cached document shows was on the disk when its entry was created, or
\* later, whoever inserted it and in whatever order.
StaticCacheInv ==
    \A f \in DOMAIN staticCache :
        /\ f \in Files
        /\ staticCache[f] \in [document : SUBSET Versions, created : 0 .. Seconds,
                               cost : 0 .. cacheSize]
        /\ AllHeld(f, staticCache[f].document, staticCache[f].created)

Services == [at : {"idle", "lookup", "open", "size", "read", "insert"},
             path : Files \cup {NoFile}, now : 0 .. Seconds,
             opened : Versions \cup {0}, keep : BOOLEAN, read : SUBSET Versions]
StaticAnswers == [path : Files \cup {NoFile}, versions : SUBSET Versions,
                  began : 0 .. Seconds]

\* What a thread has opened or read was on the disk after its request had begun.
ServiceInv(s) ==
    /\ s.at # "idle" => s.path \in Files /\ s.now <= second
    /\ s.at \in {"size", "read", "insert"} =>
         /\ s.opened \in Versions /\ Held(s.path, s.opened, s.now)
         /\ AllHeld(s.path, s.read, s.now)
         /\ \A v \in s.read : Exists(v)
    /\ s.at \in {"lookup", "open"} => s.read = {}

AnswerInv(a) ==
    a # NoAnswer => a.path \in Files /\ AllInTime(a.path, a.versions, a.began, cacheTimeout)

StaticInv ==
    /\ DiskInv /\ StaticCacheInv
    /\ service \in [Readers -> Services] /\ answer \in [Readers -> StaticAnswers]
    /\ \A t \in Readers : ServiceInv(service[t]) /\ AnswerInv(answer[t])

LEMMA StaticInitHolds == StaticInit => StaticInv
  <1> SUFFICES ASSUME StaticInit PROVE StaticInv
    OBVIOUS
  <1>1. DiskInv
    BY DiskInitHolds DEF StaticInit
  <1>2. StaticCacheInv
    BY DEF StaticInit, StaticCacheInv, NoEntries
  <1>3. 0 \in 0 .. Seconds
    BY DiskAssumption
  <1>4. Idle \in Services /\ ServiceInv(Idle)
    BY <1>3 DEF Idle, Services, ServiceInv
  <1>5. NoAnswer \in StaticAnswers /\ AnswerInv(NoAnswer)
    BY <1>3 DEF NoAnswer, StaticAnswers, AnswerInv
  <1> QED
    BY <1>1, <1>2, <1>4, <1>5 DEF StaticInit, StaticInv

LEMMA TimeFacts ==
    ASSUME DiskInv
    PROVE  second \in 0 .. Seconds /\ second \in Nat /\ 0 .. Seconds \subseteq Nat
  BY DiskAssumption DEF DiskInv, DiskTypeOK

LEMMA AllHeldStay ==
    ASSUME DiskInv, DiskNext \/ UNCHANGED diskVars,
           NEW f \in Files, NEW document \in SUBSET Versions, NEW time \in Nat,
           AllHeld(f, document, time)
    PROVE  AllHeld(f, document, time)'
  <1>1. ASSUME NEW v \in document PROVE Held(f, v, time)'
    BY HeldStays DEF AllHeld
  <1> QED
    BY <1>1 DEF AllHeld

LEMMA AllCachedInTime ==
    ASSUME DiskInv, NEW f \in Files, NEW document \in SUBSET Versions,
           NEW time \in Nat, NEW created \in Nat, NEW timeout \in Nat,
           AllHeld(f, document, created), time <= second,
           timeout = 0 \/ created + timeout > time
    PROVE  AllInTime(f, document, time, timeout)
  <1>1. ASSUME NEW v \in document PROVE InTime(f, v, time, timeout)
    BY CachedIsInTime DEF AllHeld
  <1> QED
    BY <1>1 DEF AllInTime

\* Nothing gets out of date by what happens on the disk.
LEMMA StaticDisk ==
    ASSUME StaticInv, DiskNext \/ UNCHANGED diskVars
    PROVE  /\ DiskInv'
           /\ UNCHANGED staticCache => StaticCacheInv'
           /\ \A s \in Services : ServiceInv(s) => ServiceInv(s)'
           /\ \A a \in StaticAnswers : AnswerInv(a) => AnswerInv(a)'
  <1>0. DiskInv /\ DiskInv' /\ second <= second' /\ second \in Nat /\ second' \in Nat
        /\ 0 .. Seconds \subseteq Nat
    BY DiskStep, TimeFacts, DiskAssumption DEF StaticInv, DiskInv, DiskTypeOK
  <1>1. ASSUME UNCHANGED staticCache, NEW f \in DOMAIN staticCache
        PROVE  AllHeld(f, staticCache[f].document, staticCache[f].created)'
    <2>1. /\ staticCache[f].document \subseteq Versions /\ staticCache[f].created \in Nat
          /\ f \in Files /\ AllHeld(f, staticCache[f].document, staticCache[f].created)
      BY <1>0 DEF StaticInv, StaticCacheInv
    <2> QED
      BY <1>0, <1>1, <2>1, AllHeldStay
  <1>2. UNCHANGED staticCache => StaticCacheInv'
    BY <1>1 DEF StaticInv, StaticCacheInv
  <1>3. ASSUME NEW s \in Services, ServiceInv(s) PROVE ServiceInv(s)'
    <2>1. s.now \in Nat
      BY <1>0 DEF Services
    <2>2. s.at \in {"size", "read", "insert"} =>
            Held(s.path, s.opened, s.now)' /\ AllHeld(s.path, s.read, s.now)'
      <3>1. s.at \in {"size", "read", "insert"} =>
              /\ s.path \in Files /\ s.opened \in Versions
              /\ Held(s.path, s.opened, s.now) /\ AllHeld(s.path, s.read, s.now)
        BY <1>3 DEF ServiceInv
      <3>2. s.read \subseteq Versions
        BY DEF Services
      <3> QED
        BY <1>0, <2>1, <3>1, <3>2, HeldStays, AllHeldStay
    <2>3. s.at # "idle" => s.now <= second'
      BY <1>0, <1>3, <2>1 DEF ServiceInv
    <2> QED
      BY <1>3, <2>2, <2>3 DEF ServiceInv, Exists
  <1>4. ASSUME NEW a \in StaticAnswers, AnswerInv(a) PROVE AnswerInv(a)'
    <2>1. a.began \in Nat
      BY <1>0 DEF StaticAnswers
    <2>2. ASSUME a # NoAnswer, NEW v \in a.versions
          PROVE  InTime(a.path, v, a.began, cacheTimeout)'
      <3>1. a.path \in Files /\ v \in Versions /\ InTime(a.path, v, a.began, cacheTimeout)
        BY <1>4, <2>2 DEF AnswerInv, StaticAnswers, AllInTime
      <3> QED
        BY <1>0, <2>1, <3>1, InTimeStays, StaticAssumption
    <2>3. a # NoAnswer => AllInTime(a.path, a.versions, a.began, cacheTimeout)'
      BY <2>2 DEF AllInTime
    <2> QED
      BY <1>4, <2>3 DEF AnswerInv, NoAnswer
  <1> QED
    BY <1>0, <1>2, <1>3, <1>4

\* A step of a thread: the disk stays, and what becomes of the thread fits.
LEMMA StaticThread ==
    ASSUME StaticInv, UNCHANGED diskVars, StaticCacheInv', NEW t \in Readers,
           NEW s \in Services, ServiceInv(s), service' = [service EXCEPT ![t] = s],
           NEW a \in StaticAnswers, AnswerInv(a),
           answer' = [answer EXCEPT ![t] = a]
    PROVE  StaticInv'
  <1>1. /\ service' \in [Readers -> Services] /\ answer' \in [Readers -> StaticAnswers]
        /\ \A u \in Readers : ServiceInv(service'[u]) /\ AnswerInv(answer'[u])
    BY DEF StaticInv
  <1>2. \A u \in Readers : ServiceInv(service[u])' /\ AnswerInv(answer[u])'
    BY <1>1 DEF diskVars, ServiceInv, AnswerInv, AllHeld, AllInTime, Held, InTime,
                Never, Versions, NoAnswer, Exists
  <1>3. DiskInv'
    BY StaticDisk
  <1> QED
    BY <1>1, <1>2, <1>3 DEF StaticInv

LEMMA StaticStep == StaticInv /\ [StaticNext]_staticVars => StaticInv'
  <1> SUFFICES ASSUME StaticInv, [StaticNext]_staticVars PROVE StaticInv'
    OBVIOUS
  <1>0. /\ DiskInv /\ second \in 0 .. Seconds /\ second \in Nat
        /\ 0 .. Seconds \subseteq Nat /\ 0 \in 0 .. Seconds
        /\ cacheTimeout \in Nat /\ maxCachedFileSize \in Nat
        /\ service \in [Readers -> Services] /\ answer \in [Readers -> StaticAnswers]
    BY TimeFacts, StaticAssumption, DiskAssumption DEF StaticInv
  <1>a. Idle \in Services /\ ServiceInv(Idle)
    BY <1>0 DEF Idle, Services, ServiceInv
  <1>b. ASSUME UNCHANGED <<diskVars, staticCache>> PROVE StaticCacheInv'
    BY <1>b, StaticDisk
  <1>c. ASSUME NEW t \in Readers
        PROVE  /\ service[t] \in Services /\ ServiceInv(service[t])
               /\ answer[t] \in StaticAnswers /\ AnswerInv(answer[t])
               /\ answer = [answer EXCEPT ![t] = answer[t]]
    BY <1>0 DEF StaticInv
  <1>1. ASSUME NEW t \in Readers, NEW f \in Files, BeginService(t, f) PROVE StaticInv'
    <2> DEFINE s == [Idle EXCEPT !.at = "lookup", !.path = f, !.now = second]
    <2>1. s \in Services /\ ServiceInv(s)
      <3>1. s.at = "lookup" /\ s.path = f /\ s.now = second /\ s.read = {}
        BY DEF Idle
      <3>2. s \in Services
        BY <1>0 DEF Idle, Services
      <3> HIDE DEF s
      <3>3. second <= second
        BY <1>0
      <3> QED
        BY <1>0, <3>1, <3>2, <3>3 DEF ServiceInv
    <2>2. NoAnswer \in StaticAnswers /\ AnswerInv(NoAnswer)
      BY <1>0 DEF NoAnswer, StaticAnswers, AnswerInv
    <2>3. service' = [service EXCEPT ![t] = s] /\ answer' = [answer EXCEPT ![t] = NoAnswer]
          /\ UNCHANGED diskVars /\ StaticCacheInv'
      BY <1>1, <1>b DEF BeginService
    <2> HIDE DEF s
    <2> QED
      BY <2>1, <2>2, <2>3, StaticThread
  <1>2. ASSUME NEW t \in Readers, CacheHit(t) PROVE StaticInv'
    <2> DEFINE f == service[t].path
               e == staticCache[f]
               a == [path |-> f, versions |-> e.document, began |-> service[t].now]
    <2>1. /\ service[t].at = "lookup" /\ f \in DOMAIN staticCache
          /\ cacheTimeout = 0 \/ e.created + cacheTimeout > service[t].now
          /\ service' = [service EXCEPT ![t] = Idle] /\ answer' = [answer EXCEPT ![t] = a]
          /\ UNCHANGED <<diskVars, staticCache>>
      BY <1>2 DEF CacheHit, FreshEntry, Reply
    <2>2. /\ f \in Files /\ e.document \in SUBSET Versions /\ e.created \in 0 .. Seconds
          /\ AllHeld(f, e.document, e.created)
      BY <2>1 DEF StaticInv, StaticCacheInv
    <2>3. service[t].now \in 0 .. Seconds /\ service[t].now <= second
      BY <1>c, <2>1 DEF Services, ServiceInv
    <2>4. AllInTime(f, e.document, service[t].now, cacheTimeout)
      BY <1>0, <2>1, <2>2, <2>3, AllCachedInTime
    <2>5. a \in StaticAnswers /\ AnswerInv(a)
      BY <2>2, <2>3, <2>4 DEF StaticAnswers, AnswerInv
    <2> HIDE DEF a
    <2> QED
      BY <1>a, <1>b, <2>1, <2>5, StaticThread
  <1>3. ASSUME NEW t \in Readers, CacheMiss(t) PROVE StaticInv'
    <2> DEFINE s == [service[t] EXCEPT !.at = "open"]
    <2>1. s \in Services /\ ServiceInv(s)
      BY <1>3, <1>c DEF CacheMiss, Services, ServiceInv
    <2>2. service' = [service EXCEPT ![t] = s] /\ answer' = answer
          /\ UNCHANGED <<diskVars, staticCache>>
      BY <1>3 DEF CacheMiss
    <2> HIDE DEF s
    <2> QED
      BY <1>b, <1>c, <2>1, <2>2, StaticThread
  <1>d. ASSUME NEW t \in Readers, service[t].at \in {"open", "size", "read", "insert"}
        PROVE  /\ service[t].path \in Files /\ service[t].now \in 0 .. Seconds
               /\ service[t].now \in Nat /\ service[t].now <= second
               /\ service[t].read \in SUBSET Versions
    BY <1>0, <1>c, <1>d DEF Services, ServiceInv
  \* What is there now may be answered.
  <1>e. ASSUME NEW t \in Readers, service[t].at \in {"open", "size", "read", "insert"},
               NEW document \in SUBSET Versions,
               AllHeld(service[t].path, document, service[t].now)
        PROVE  AllInTime(service[t].path, document, service[t].now, cacheTimeout)
    <2>1. cacheTimeout = 0 \/ service[t].now + cacheTimeout > service[t].now
      BY <1>0, <1>d, <1>e
    <2> QED
      BY <1>0, <1>d, <1>e, <2>1, AllCachedInTime
  <1>4. ASSUME NEW t \in Readers, OpenFile(t) PROVE StaticInv'
    <2> DEFINE f == service[t].path
               v == version[f]
    <2>1. service[t].at = "open" /\ UNCHANGED <<diskVars, staticCache>>
      BY <1>4 DEF OpenFile
    <2>2. v \in Versions /\ Held(f, v, service[t].now)
      BY <1>0, <1>d, <2>1, ReadIsHeld
    <2>3. CASE Exists(v)
      <3> DEFINE s == [service[t] EXCEPT !.at = "size", !.opened = v]
      <3>1. service' = [service EXCEPT ![t] = s] /\ answer' = answer
        BY <1>4, <2>3 DEF OpenFile, CurrentVersion
      <3>2. /\ s \in Services /\ s.at = "size" /\ s.path = f /\ s.now = service[t].now
            /\ s.opened = v /\ s.read = service[t].read
        BY <1>c, <2>2 DEF Services
      <3>3. service[t].read = {}
        BY <1>c, <2>1 DEF ServiceInv
      <3> HIDE DEF s, v, f
      <3>4. ServiceInv(s)
        BY <1>d, <2>1, <2>2, <3>2, <3>3 DEF ServiceInv, AllHeld, f
      <3> QED
        BY <1>b, <1>c, <2>1, <3>1, <3>2, <3>4, StaticThread
    <2>4. CASE ~Exists(v)
      <3> DEFINE a == [path |-> f, versions |-> {v}, began |-> service[t].now]
      <3>1. service' = [service EXCEPT ![t] = Idle] /\ answer' = [answer EXCEPT ![t] = a]
        BY <1>4, <2>4 DEF OpenFile, CurrentVersion, Reply
      <3>2. AllHeld(f, {v}, service[t].now) /\ {v} \in SUBSET Versions
        BY <2>2 DEF AllHeld
      <3>3. AllInTime(f, {v}, service[t].now, cacheTimeout)
        BY <1>e, <2>1, <3>2
      <3>4. a \in StaticAnswers /\ AnswerInv(a)
        BY <1>d, <2>1, <3>2, <3>3 DEF StaticAnswers, AnswerInv
      <3> HIDE DEF a
      <3> QED
        BY <1>a, <1>b, <2>1, <3>1, <3>4, StaticThread
    <2> QED
      BY <2>3, <2>4
  <1>f. ASSUME NEW t \in Readers, service[t].at \in {"size", "read"},
               NEW v \in InOpenFile(t)
        PROVE  v \in Versions /\ Exists(v) /\ Held(service[t].path, v, service[t].now)
    <2>1. /\ service[t].opened \in Versions
          /\ Held(service[t].path, service[t].opened, service[t].now)
      BY <1>c, <1>f DEF ServiceInv
    <2>2. /\ version[service[t].path] \in Versions
          /\ Held(service[t].path, version[service[t].path], service[t].now)
      BY <1>0, <1>d, <1>f, ReadIsHeld
    <2>3. /\ v = service[t].opened \/ v = version[service[t].path]
          /\ Exists(v)
      BY <1>f DEF InOpenFile, CurrentVersion
    <2> QED
      BY <2>1, <2>2, <2>3
  <1>5. ASSUME NEW t \in Readers, TestSize(t) PROVE StaticInv'
    <2>1. /\ service[t].at = "size" /\ UNCHANGED <<diskVars, staticCache, answer>>
          /\ \E v \in InOpenFile(t) :
               service' = [service EXCEPT ![t] =
                  [@ EXCEPT !.at = "read", !.keep = (Sizes[v] <= maxCachedFileSize)]]
      BY <1>5 DEF TestSize
    <2>2. PICK v \in InOpenFile(t) :
               service' = [service EXCEPT ![t] =
                  [@ EXCEPT !.at = "read", !.keep = (Sizes[v] <= maxCachedFileSize)]]
      BY <2>1
    <2> DEFINE keep == Sizes[v] <= maxCachedFileSize
    <2>3. keep \in BOOLEAN
      OBVIOUS
    <2> DEFINE s == [service[t] EXCEPT !.at = "read", !.keep = keep]
    <2>4. service' = [service EXCEPT ![t] = s] /\ answer' = answer
      BY <1>0, <2>1, <2>2
    <2> HIDE DEF keep
    <2>5. s \in Services /\ s.at = "read" /\ s.path = service[t].path
          /\ s.now = service[t].now /\ s.opened = service[t].opened
          /\ s.read = service[t].read
      BY <1>c, <2>3 DEF Services
    <2> HIDE DEF s
    <2>6. ServiceInv(s)
      BY <1>c, <2>1, <2>5 DEF ServiceInv
    <2> QED
      BY <1>b, <1>c, <2>1, <2>4, <2>5, <2>6, StaticThread
  <1>6. ASSUME NEW t \in Readers, ReadPart(t) PROVE StaticInv'
    <2>1. /\ service[t].at = "read" /\ UNCHANGED <<diskVars, staticCache, answer>>
          /\ \E v \in InOpenFile(t) :
               service' = [service EXCEPT ![t].read = @ \cup {v}]
      BY <1>6 DEF ReadPart
    <2>2. PICK v \in InOpenFile(t) : service' = [service EXCEPT ![t].read = @ \cup {v}]
      BY <2>1
    <2> DEFINE s == [service[t] EXCEPT !.read = @ \cup {v}]
    <2>3. v \in Versions /\ Exists(v) /\ Held(service[t].path, v, service[t].now)
      BY <1>f, <2>1
    <2>4. s \in Services /\ s.at = "read" /\ s.path = service[t].path
          /\ s.now = service[t].now /\ s.opened = service[t].opened
          /\ s.read = service[t].read \cup {v}
      BY <1>c, <2>1, <2>3 DEF Services
    <2>5. service' = [service EXCEPT ![t] = s] /\ answer' = answer
      BY <1>0, <2>1, <2>2
    <2> HIDE DEF s
    <2>6. ServiceInv(s)
      BY <1>c, <2>1, <2>3, <2>4 DEF ServiceInv, AllHeld
    <2> QED
      BY <1>b, <1>c, <2>1, <2>4, <2>5, <2>6, StaticThread
  <1>7. ASSUME NEW t \in Readers, EndOfFile(t) PROVE StaticInv'
    <2> DEFINE f == service[t].path
               a == [path |-> f, versions |-> service[t].read, began |-> service[t].now]
               s == IF service[t].keep THEN [service[t] EXCEPT !.at = "insert"] ELSE Idle
    <2>1. /\ service[t].at = "read" /\ UNCHANGED <<diskVars, staticCache>>
          /\ service' = [service EXCEPT ![t] = s] /\ answer' = [answer EXCEPT ![t] = a]
      BY <1>7 DEF EndOfFile, Reply
    <2>2. AllHeld(f, service[t].read, service[t].now)
      BY <1>c, <2>1 DEF ServiceInv
    <2>3. AllInTime(f, service[t].read, service[t].now, cacheTimeout)
      BY <1>d, <1>e, <2>1, <2>2
    <2>4. a \in StaticAnswers /\ AnswerInv(a)
      BY <1>d, <2>1, <2>3 DEF StaticAnswers, AnswerInv
    <2>5. s \in Services /\ ServiceInv(s)
      <3> DEFINE k == [service[t] EXCEPT !.at = "insert"]
      <3>1. k \in Services /\ k.at = "insert" /\ k.path = service[t].path
            /\ k.now = service[t].now /\ k.opened = service[t].opened
            /\ k.read = service[t].read
        BY <1>c DEF Services
      <3> HIDE DEF k
      <3>2. ServiceInv(k)
        BY <1>c, <2>1, <3>1 DEF ServiceInv
      <3>3. s = k \/ s = Idle
        BY DEF k
      <3> HIDE DEF s
      <3> QED
        BY <1>a, <3>1, <3>2, <3>3
    <2> HIDE DEF a, s
    <2> QED
      BY <1>b, <2>1, <2>4, <2>5, StaticThread
  <1>8. ASSUME NEW t \in Readers, InsertEntry(t) PROVE StaticInv'
    <2> DEFINE f == service[t].path
               read == service[t].read
               e(v) == [document |-> read, created |-> service[t].now, cost |-> Sizes[v]]
    <2>1. /\ service[t].at = "insert"
          /\ \E v \in read : staticCache' \in Inserted(staticCache, f, e(v), cacheSize)
          /\ service' = [service EXCEPT ![t] = Idle] /\ UNCHANGED <<diskVars, answer>>
      BY <1>8 DEF InsertEntry
    <2>2. PICK v \in read : staticCache' \in Inserted(staticCache, f, e(v), cacheSize)
      BY <2>1
    <2>3. /\ f \in Files /\ service[t].now \in 0 .. Seconds
          /\ read \in SUBSET Versions /\ v \in Versions /\ Exists(v)
          /\ AllHeld(f, read, service[t].now)
      BY <1>c, <1>d, <2>1 DEF ServiceInv
    <2>4. Sizes[v] \in Nat
      BY <2>3, SizeFacts DEF Exists
    <2> DEFINE new == e(v)
    <2>5. /\ new.document = read /\ new.created = service[t].now /\ new.cost = Sizes[v]
          /\ new.cost <= cacheSize =>
               new \in [document : SUBSET Versions, created : 0 .. Seconds,
                        cost : 0 .. cacheSize]
          /\ AllHeld(f, new.document, new.created)
      BY <2>3, <2>4, StaticAssumption
    <2>6. staticCache' \in Inserted(staticCache, f, new, cacheSize)
      BY <2>2
    <2> HIDE DEF new
    <2>7. \A g \in DOMAIN staticCache' :
             \/ g = f /\ staticCache'[g] = new /\ new.cost <= cacheSize
             \/ g \in DOMAIN staticCache /\ staticCache'[g] = staticCache[g]
      <3>1. new.cost \in Nat /\ cacheSize \in Nat
        BY <2>4, <2>5, StaticAssumption
      <3> QED
        BY <2>6, <3>1, InsertedFacts
    <2>8. ASSUME NEW g \in DOMAIN staticCache'
          PROVE  /\ g \in Files
                 /\ staticCache'[g] \in [document : SUBSET Versions, created : 0 .. Seconds,
                                         cost : 0 .. cacheSize]
                 /\ AllHeld(g, staticCache'[g].document, staticCache'[g].created)
      BY <2>3, <2>5, <2>7 DEF StaticInv, StaticCacheInv
    <2>9. StaticCacheInv'
      BY <2>1, <2>8 DEF StaticCacheInv, AllHeld, Held, diskVars, Versions
    <2> QED
      BY <1>a, <1>c, <2>1, <2>9, StaticThread
  <1>9. CASE \/ DiskNext /\ UNCHANGED <<staticCache, service, answer>>
             \/ UNCHANGED staticVars
    <2>1. DiskNext \/ UNCHANGED diskVars
      BY <1>9 DEF staticVars
    <2>2. UNCHANGED <<staticCache, service, answer>>
      BY <1>9 DEF staticVars
    <2>3. \A t \in Readers : ServiceInv(service[t])' /\ AnswerInv(answer[t])'
      <3> SUFFICES ASSUME NEW t \in Readers
                   PROVE  ServiceInv(service[t])' /\ AnswerInv(answer[t])'
        OBVIOUS
      <3>1. PICK s \in Services : s = service[t] /\ ServiceInv(s)
        BY <1>c
      <3>2. PICK a \in StaticAnswers : a = answer[t] /\ AnswerInv(a)
        BY <1>c
      <3>3. ServiceInv(s)' /\ AnswerInv(a)'
        BY <2>1, <3>1, <3>2, StaticDisk
      <3> QED
        BY <2>2, <3>1, <3>2, <3>3 DEF ServiceInv, AnswerInv
    <2> QED
      BY <1>0, <2>1, <2>2, <2>3, StaticDisk DEF StaticInv
  <1> QED
    BY <1>1, <1>2, <1>3, <1>4, <1>5, <1>6, <1>7, <1>8, <1>9 DEF StaticNext

LEMMA AlwaysStaticInv == StaticSpec => []StaticInv
  BY StaticInitHolds, StaticStep, PTL DEF StaticSpec

\* Every variable of the static files' cache keeps its type; above all, what is
\* inserted is made of files that exist and fits into the cache.
THEOREM StaticTypeCorrect == StaticSpec => []StaticTypeOK
  <1>1. StaticInv => StaticTypeOK
    BY DEF StaticInv, DiskInv, StaticCacheInv, StaticTypeOK, Services, StaticAnswers
  <1> QED
    BY <1>1, AlwaysStaticInv, PTL

\* Any number of threads that look up, read and insert the same files, in any order
\* and while the files change, answer with what was on the disk less than cacheTime
\* before the request began.
THEOREM StaticAnswersFresh == StaticSpec => []NoStaleAnswer
  <1>1. StaticInv => NoStaleAnswer
    BY DEF StaticInv, AnswerInv, AllInTime, InTime, NoStaleAnswer, NoAnswer
  <1> QED
    BY <1>1, AlwaysStaticInv, PTL

-----------------------------------------------------------------------------
(* The cache of templates.                                                 *)

Loads == [at : {"idle", "locked", "unlocked"}, left : Seq(Files),
          now : 0 .. Seconds, entry : Entry]
TemplateReturns == [file : Files, now : 0 .. Seconds, document : Versions \cup {0}]
                      \cup {Nothing}
Kept == [entry : Entry, created : 0 .. Seconds, cost : Nat]

\* A document that was loaded was on the disk when its entry was created.
TemplateCacheInv ==
    \A f \in DOMAIN templateCache :
        /\ f \in Files /\ templateCache[f] \in Kept
        /\ templateCache[f].entry.document \in Versions
        /\ Held(f, templateCache[f].entry.document, templateCache[f].created)

\* The document a thread points at is in time for its call.
LoadInv(l) ==
    /\ l.at # "idle" => l.left # <<>> /\ l.now <= second
    /\ l.at = "unlocked" =>
          /\ l.entry.document \in Versions
          /\ InTime(Head(l.left), l.entry.document, l.now, templateTimeout)

ReturnInv(r) ==
    r.document # 0 => /\ r.file \in Files /\ r.document \in Versions /\ r.now \in 0 .. Seconds
                      /\ InTime(r.file, r.document, r.now, templateTimeout)

TemplateInv ==
    /\ DiskInv /\ TemplateCacheInv
    /\ loading \in [Loaders -> Loads] /\ returned \in [Loaders -> TemplateReturns]
    /\ rivals \in [Loaders -> SUBSET Loaders]
    /\ \A t \in Loaders : LoadInv(loading[t]) /\ ReturnInv(returned[t])

\* The values of a function on a finite set are finitely many.
LEMMA ImageFinite ==
    ASSUME NEW S, IsFiniteSet(S), NEW value, DOMAIN value = S,
           value = [x \in S |-> value[x]]
    PROVE  IsFiniteSet({value[x] : x \in S})
  <1> DEFINE T == {value[x] : x \in S}
  <1>1. value \in Surjection(S, T)
    <2>1. value \in [S -> T]
      OBVIOUS
    <2>2. \A y \in T : \E x \in S : value[x] = y
      OBVIOUS
    <2> QED
      BY <2>1, <2>2 DEF Surjection
  <1> HIDE DEF T
  <1>2. IsFiniteSet(T)
    BY <1>1, FS_Surjection
  <1> QED
    BY <1>2 DEF T

\* There is always an address that nobody holds: one more than are in use.
LEMMA NewAddressType ==
    ASSUME TemplateInv
    PROVE  NewAddress \in Nat
  <1>1. IsFiniteSet(InUse)
    <2> DEFINE stored == [f \in DOMAIN templateCache |-> templateCache[f].entry.address]
               held == [t \in Loaders |-> loading[t].entry.address]
    <2>1. DOMAIN templateCache \subseteq Files
      BY DEF TemplateInv, TemplateCacheInv
    <2>2. IsFiniteSet(DOMAIN templateCache) /\ IsFiniteSet(Loaders)
      BY <2>1, TemplateAssumption, FS_Subset
    <2>3. /\ DOMAIN stored = DOMAIN templateCache /\ DOMAIN held = Loaders
          /\ stored = [f \in DOMAIN templateCache |-> stored[f]]
          /\ held = [t \in Loaders |-> held[t]]
      OBVIOUS
    <2>4. InUse = {stored[f] : f \in DOMAIN templateCache} \cup {held[t] : t \in Loaders}
      BY DEF InUse
    <2> HIDE DEF stored, held
    <2>5. /\ IsFiniteSet({stored[f] : f \in DOMAIN templateCache})
          /\ IsFiniteSet({held[t] : t \in Loaders})
      BY <2>2, <2>3, ImageFinite
    <2> QED
      BY <2>4, <2>5, FS_Union
  <1> DEFINE n == Cardinality(InUse)
             Candidates == 1 .. n + 1
  <1>2. n \in Nat
    BY <1>1, FS_CardinalityType
  <1>3. IsFiniteSet(Candidates) /\ Cardinality(Candidates) = n + 1
    BY <1>2, FS_Interval
  <1>4. \E a \in Candidates : a \notin InUse
    <2> SUFFICES ASSUME Candidates \subseteq InUse PROVE FALSE
      OBVIOUS
    <2>1. Cardinality(Candidates) <= n
      BY <1>1, FS_Subset
    <2> QED
      BY <1>2, <1>3, <2>1
  <1>5. NewAddress \in Candidates
    BY <1>4 DEF NewAddress
  <1> QED
    BY <1>2, <1>5

LEMMA TemplateInitHolds == TemplateInit => TemplateInv
  <1> SUFFICES ASSUME TemplateInit PROVE TemplateInv
    OBVIOUS
  <1>1. DiskInv
    BY DiskInitHolds DEF TemplateInit
  <1>2. TemplateCacheInv
    BY DEF TemplateInit, TemplateCacheInv, NoEntries
  <1>3. 0 \in 0 .. Seconds /\ <<>> \in Seq(Files)
    BY DiskAssumption
  <1>4. Rest \in Loads /\ LoadInv(Rest)
    BY <1>3 DEF Rest, NoEntry, Entry, Loads, LoadInv
  <1>5. Nothing \in TemplateReturns /\ ReturnInv(Nothing)
    BY DEF Nothing, TemplateReturns, ReturnInv
  <1> QED
    BY <1>1, <1>2, <1>4, <1>5 DEF TemplateInit, TemplateInv

LEMMA TemplateDisk ==
    ASSUME TemplateInv, DiskNext \/ UNCHANGED diskVars
    PROVE  /\ DiskInv'
           /\ UNCHANGED templateCache => TemplateCacheInv'
           /\ \A l \in Loads : LoadInv(l) => LoadInv(l)'
           /\ \A r \in TemplateReturns : ReturnInv(r) => ReturnInv(r)'
  <1>0. DiskInv /\ DiskInv' /\ second <= second' /\ second \in Nat /\ second' \in Nat
        /\ 0 .. Seconds \subseteq Nat /\ templateTimeout \in Nat
    BY DiskStep, TimeFacts, DiskAssumption, TemplateAssumption
       DEF TemplateInv, DiskInv, DiskTypeOK
  <1>1. ASSUME UNCHANGED templateCache, NEW f \in DOMAIN templateCache
        PROVE  Held(f, templateCache[f].entry.document, templateCache[f].created)'
    <2>1. templateCache[f].created \in Nat
      BY <1>0 DEF TemplateInv, TemplateCacheInv, Kept
    <2> QED
      BY <1>0, <1>1, <2>1, HeldStays DEF TemplateInv, TemplateCacheInv
  <1>2. UNCHANGED templateCache => TemplateCacheInv'
    BY <1>1 DEF TemplateInv, TemplateCacheInv
  <1>3. ASSUME NEW l \in Loads, LoadInv(l) PROVE LoadInv(l)'
    <2>1. l.now \in Nat /\ l.left \in Seq(Files)
      BY <1>0 DEF Loads
    <2>2. l.left # <<>> => Head(l.left) \in Files
      BY <2>1
    <2>3. l.at = "unlocked" => InTime(Head(l.left), l.entry.document, l.now, templateTimeout)'
      BY <1>0, <1>3, <2>1, <2>2, InTimeStays DEF LoadInv
    <2>4. l.at # "idle" => l.now <= second'
      BY <1>0, <1>3, <2>1 DEF LoadInv
    <2> QED
      BY <1>3, <2>3, <2>4 DEF LoadInv
  <1>4. ASSUME NEW r \in TemplateReturns, ReturnInv(r) PROVE ReturnInv(r)'
    <2>1. r.document # 0 => InTime(r.file, r.document, r.now, templateTimeout)'
      BY <1>0, <1>4, InTimeStays DEF ReturnInv
    <2> QED
      BY <1>4, <2>1 DEF ReturnInv
  <1> QED
    BY <1>0, <1>2, <1>3, <1>4

\* A step of a thread: the disk stays, and what becomes of the thread fits.
LEMMA TemplateThread ==
    ASSUME TemplateInv, UNCHANGED diskVars, TemplateCacheInv', NEW t \in Loaders,
           NEW l \in Loads, LoadInv(l), loading' = [loading EXCEPT ![t] = l],
           NEW r \in TemplateReturns, ReturnInv(r),
           returned' = [returned EXCEPT ![t] = r],
           rivals' \in [Loaders -> SUBSET Loaders]
    PROVE  TemplateInv'
  <1>1. /\ loading' \in [Loaders -> Loads] /\ returned' \in [Loaders -> TemplateReturns]
        /\ \A u \in Loaders : LoadInv(loading'[u]) /\ ReturnInv(returned'[u])
    BY DEF TemplateInv
  <1>2. \A u \in Loaders : LoadInv(loading[u])' /\ ReturnInv(returned[u])'
    BY <1>1 DEF diskVars, LoadInv, ReturnInv, InTime
  <1>3. DiskInv'
    BY TemplateDisk
  <1> QED
    BY <1>1, <1>2, <1>3 DEF TemplateInv

LEMMA TryFileFits ==
    ASSUME DiskInv, NEW candidates \in Seq(Files), candidates # <<>>
    PROVE  TryFile(candidates) \in Loads /\ LoadInv(TryFile(candidates))
  <1> DEFINE l == TryFile(candidates)
  <1>0. second \in 0 .. Seconds /\ second <= second
    BY TimeFacts
  <1>1. l.at = "locked" /\ l.left = candidates /\ l.now = second
    BY DEF TryFile, Rest
  <1>2. l \in Loads
    BY <1>0 DEF TryFile, Rest, Loads, NoEntry, Entry
  <1> HIDE DEF l
  <1>3. LoadInv(l)
    BY <1>0, <1>1 DEF LoadInv
  <1> QED
    BY <1>2, <1>3 DEF l

LEMMA TemplateStep == TemplateInv /\ [TemplateNext]_templateVars => TemplateInv'
  <1> SUFFICES ASSUME TemplateInv, [TemplateNext]_templateVars PROVE TemplateInv'
    OBVIOUS
  <1>0. /\ DiskInv /\ second \in 0 .. Seconds /\ second \in Nat
        /\ 0 .. Seconds \subseteq Nat /\ templateTimeout \in Nat
        /\ loading \in [Loaders -> Loads] /\ returned \in [Loaders -> TemplateReturns]
        /\ rivals \in [Loaders -> SUBSET Loaders]
    BY TimeFacts, TemplateAssumption DEF TemplateInv
  <1>b. ASSUME UNCHANGED <<diskVars, templateCache>> PROVE TemplateCacheInv'
    BY <1>b, TemplateDisk
  <1>c. ASSUME NEW t \in Loaders
        PROVE  /\ loading[t] \in Loads /\ LoadInv(loading[t])
               /\ returned[t] \in TemplateReturns /\ ReturnInv(returned[t])
               /\ returned = [returned EXCEPT ![t] = returned[t]]
    BY <1>0 DEF TemplateInv
  \* A thread that holds the lock, and one that has released it.
  <1>d. ASSUME NEW t \in Loaders, loading[t].at # "idle"
        PROVE  /\ Candidate(t) \in Files
               /\ loading[t].left \in Seq(Files) /\ loading[t].left # <<>>
               /\ Candidate(t) = Head(loading[t].left)
               /\ loading[t].now \in 0 .. Seconds /\ loading[t].now <= second
    <2>1. /\ loading[t].left \in Seq(Files) /\ loading[t].left # <<>>
          /\ loading[t].now \in 0 .. Seconds /\ loading[t].now <= second
      BY <1>c, <1>d DEF Loads, LoadInv
    <2> QED
      BY <2>1 DEF Candidate
  <1>e. ASSUME NEW t \in Loaders, loading[t].at # "idle", NEW entry \in Entry,
               entry.document \in Versions,
               InTime(Candidate(t), entry.document, loading[t].now, templateTimeout),
               NEW l, l = [loading[t] EXCEPT !.at = "unlocked", !.entry = entry]
        PROVE  l \in Loads /\ LoadInv(l)
    <2>1. l.at = "unlocked" /\ l.left = loading[t].left /\ l.now = loading[t].now
          /\ l.entry = entry /\ l \in Loads
      BY <1>c, <1>e DEF Loads
    <2> QED
      BY <1>d, <1>e, <2>1 DEF LoadInv
  <1>1. ASSUME NEW t \in Loaders, GetTemplate(t) PROVE TemplateInv'
    <2>1. TryFile(Locales) \in Loads /\ LoadInv(TryFile(Locales))
      BY <1>0, TryFileFits, TemplateAssumption
    <2>2. Nothing \in TemplateReturns /\ ReturnInv(Nothing)
      BY DEF Nothing, TemplateReturns, ReturnInv
    <2>3. /\ loading' = [loading EXCEPT ![t] = TryFile(Locales)]
          /\ returned' = [returned EXCEPT ![t] = Nothing]
          /\ UNCHANGED <<diskVars, templateCache, rivals>>
      BY <1>1 DEF GetTemplate
    <2> QED
      BY <1>0, <1>b, <2>1, <2>2, <2>3, TemplateThread
  <1>2. ASSUME NEW t \in Loaders, Found(t) PROVE TemplateInv'
    <2> DEFINE f == Candidate(t)
               e == templateCache[f]
               l == [loading[t] EXCEPT !.at = "unlocked", !.entry = e.entry]
    <2>1. /\ loading[t].at = "locked" /\ f \in DOMAIN templateCache
          /\ templateTimeout = 0 \/ e.created + templateTimeout > loading[t].now
          /\ UNCHANGED <<diskVars, templateCache, returned, rivals>>
      BY <1>2 DEF Found, Cached
    <2>2. loading' = [loading EXCEPT ![t] = l]
      BY <1>0, <1>2 DEF Found
    <2>3. /\ f \in Files /\ e \in Kept /\ e.entry.document \in Versions
          /\ Held(f, e.entry.document, e.created)
      BY <2>1 DEF TemplateInv, TemplateCacheInv
    <2>4. e.entry \in Entry /\ e.created \in Nat
      BY <1>0, <2>3 DEF Kept
    <2>5. loading[t].now \in Nat /\ loading[t].now <= second
      BY <1>0, <1>d, <2>1
    <2>6. InTime(f, e.entry.document, loading[t].now, templateTimeout)
      BY <1>0, <2>1, <2>3, <2>4, <2>5, CachedIsInTime
    <2>7. l \in Loads /\ LoadInv(l)
      BY <1>e, <2>1, <2>3, <2>4, <2>6
    <2> HIDE DEF l
    <2> QED
      BY <1>0, <1>b, <1>c, <2>1, <2>2, <2>7, TemplateThread
  <1>3. ASSUME NEW t \in Loaders, LoadFile(t) PROVE TemplateInv'
    <2> DEFINE f == Candidate(t)
               v == version[f]
               entry == [address |-> NewAddress, document |-> v, cost |-> DocumentSize(v)]
               k == [entry |-> entry, created |-> loading[t].now, cost |-> CacheCost(entry)]
               l == [loading[t] EXCEPT !.at = "unlocked", !.entry = entry]
    <2>1. /\ loading[t].at = "locked" /\ UNCHANGED <<diskVars, returned>>
          /\ templateCache' \in Inserted(templateCache, f, k, templateCacheSize)
          /\ rivals' = [u \in Loaders |-> IF loading[u].at = "unlocked" THEN rivals[u] \cup {t}
                                         ELSE rivals[u]]
      BY <1>3 DEF LoadFile
    <2>2. loading' = [loading EXCEPT ![t] = l]
      BY <1>0, <1>3 DEF LoadFile
    <2>3. f \in Files /\ loading[t].now \in 0 .. Seconds /\ loading[t].now <= second
      BY <1>d, <2>1
    <2>4. v \in Versions /\ Held(f, v, loading[t].now)
      BY <1>0, <2>3, ReadIsHeld
    <2>5. DocumentSize(v) \in Nat
      BY <2>4, SizeFacts DEF DocumentSize
    <2>6. entry \in Entry /\ entry.document = v /\ entry.cost = DocumentSize(v)
      BY <2>4, <2>5, NewAddressType DEF Entry
    <2>7. InTime(f, v, loading[t].now, templateTimeout)
      <3>1. templateTimeout = 0 \/ loading[t].now + templateTimeout > loading[t].now
        BY <1>0, <2>3
      <3> QED
        BY <1>0, <2>3, <2>4, <3>1, CachedIsInTime
    <2> HIDE DEF entry
    <2>8. l \in Loads /\ LoadInv(l)
      BY <1>e, <2>1, <2>4, <2>6, <2>7
    <2>9. k \in Kept /\ k.entry = entry /\ k.created = loading[t].now
      BY <2>3, <2>5, <2>6 DEF Kept, CacheCost
    <2> HIDE DEF k, l
    <2>10. \A g \in DOMAIN templateCache' :
              \/ g = f /\ templateCache'[g] = k
              \/ g \in DOMAIN templateCache /\ templateCache'[g] = templateCache[g]
      BY <2>1, InsertedFacts
    <2>11. ASSUME NEW g \in DOMAIN templateCache'
           PROVE  /\ g \in Files /\ templateCache'[g] \in Kept
                  /\ templateCache'[g].entry.document \in Versions
                  /\ Held(g, templateCache'[g].entry.document, templateCache'[g].created)
      BY <2>3, <2>4, <2>6, <2>9, <2>10 DEF TemplateInv, TemplateCacheInv
    <2>12. TemplateCacheInv'
      BY <2>1, <2>11 DEF TemplateCacheInv, Held, diskVars
    <2>13. rivals' \in [Loaders -> SUBSET Loaders]
      BY <1>0, <2>1
    <2> QED
      BY <1>c, <2>1, <2>2, <2>8, <2>12, <2>13, TemplateThread
  <1>4. ASSUME NEW t \in Loaders, TakeDocument(t) PROVE TemplateInv'
    <2> DEFINE entry == loading[t].entry
               rest == Tail(loading[t].left)
    <2>1. PICK v \in {entry.document, 0}, l \in {Rest, TryFile(rest)} :
             /\ returned' = [returned EXCEPT ![t] =
                   [file |-> Candidate(t), now |-> loading[t].now, document |-> v]]
             /\ loading' = [loading EXCEPT ![t] = l]
             /\ rest = <<>> => l = Rest
      <3> DEFINE v == IF Alive(loading[t].entry) THEN loading[t].entry.document ELSE 0
                 found == v = 0 \/ DocumentSize(v) > 0
      <3>1. v \in {entry.document, 0}
        OBVIOUS
      <3>2. /\ returned' = [returned EXCEPT ![t] =
                  [file |-> Candidate(t), now |-> loading[t].now, document |-> v]]
            /\ loading' = [loading EXCEPT ![t] =
                  IF found \/ rest = <<>> THEN Rest ELSE TryFile(rest)]
        BY <1>4 DEF TakeDocument
      <3> HIDE DEF v, found
      <3> QED
        BY <3>1, <3>2
    <2>2. /\ loading[t].at = "unlocked" /\ rivals' = [rivals EXCEPT ![t] = {}]
          /\ UNCHANGED <<diskVars, templateCache>>
      BY <1>4 DEF TakeDocument
    <2>3. /\ Candidate(t) \in Files /\ loading[t].now \in 0 .. Seconds
          /\ loading[t].left \in Seq(Files) /\ loading[t].left # <<>>
          /\ Candidate(t) = Head(loading[t].left)
      BY <1>d, <2>2
    <2>4. entry.document \in Versions
          /\ InTime(Candidate(t), entry.document, loading[t].now, templateTimeout)
      BY <1>c, <2>2, <2>3 DEF LoadInv
    <2> DEFINE r == [file |-> Candidate(t), now |-> loading[t].now, document |-> v]
    <2>5. r \in TemplateReturns /\ ReturnInv(r)
      BY <2>1, <2>3, <2>4 DEF TemplateReturns, ReturnInv
    <2>6. rest \in Seq(Files)
      BY <2>3
    <2>7. Rest \in Loads /\ LoadInv(Rest)
      <3>1. 0 \in 0 .. Seconds /\ <<>> \in Seq(Files)
        BY DiskAssumption
      <3> QED
        BY <3>1 DEF Rest, NoEntry, Entry, Loads, LoadInv
    <2>8. l \in Loads /\ LoadInv(l)
      BY <1>0, <2>1, <2>6, <2>7, TryFileFits
    <2>9. rivals' \in [Loaders -> SUBSET Loaders]
      BY <1>0, <2>2
    <2> HIDE DEF r
    <2>10. returned' = [returned EXCEPT ![t] = r]
      BY <2>1 DEF r
    <2> QED
      BY <1>b, <2>1, <2>2, <2>5, <2>8, <2>9, <2>10, TemplateThread
  <1>5. CASE \/ DiskNext /\ UNCHANGED <<templateCache, loading, returned, rivals>>
             \/ UNCHANGED templateVars
    <2>1. DiskNext \/ UNCHANGED diskVars
      BY <1>5 DEF templateVars
    <2>2. UNCHANGED <<templateCache, loading, returned, rivals>>
      BY <1>5 DEF templateVars
    <2>3. \A t \in Loaders : LoadInv(loading[t])' /\ ReturnInv(returned[t])'
      <3> SUFFICES ASSUME NEW t \in Loaders
                   PROVE  LoadInv(loading[t])' /\ ReturnInv(returned[t])'
        OBVIOUS
      <3>1. PICK l \in Loads : l = loading[t] /\ LoadInv(l)
        BY <1>c
      <3>2. PICK r \in TemplateReturns : r = returned[t] /\ ReturnInv(r)
        BY <1>c
      <3>3. LoadInv(l)' /\ ReturnInv(r)'
        BY <2>1, <3>1, <3>2, TemplateDisk
      <3> QED
        BY <2>2, <3>1, <3>2, <3>3 DEF LoadInv, ReturnInv
    <2> QED
      BY <1>0, <2>1, <2>2, <2>3, TemplateDisk DEF TemplateInv
  <1> QED
    BY <1>1, <1>2, <1>3, <1>4, <1>5 DEF TemplateNext

LEMMA AlwaysTemplateInv == TemplateSpec => []TemplateInv
  BY TemplateInitHolds, TemplateStep, PTL DEF TemplateSpec

\* Every variable of the template cache keeps its type; there is always an address
\* that nobody holds.
THEOREM TemplateTypeCorrect == TemplateSpec => []TemplateTypeOK
  <1>1. TemplateInv => TemplateTypeOK
    BY DEF TemplateInv, DiskInv, TemplateCacheInv, TemplateTypeOK, Loads, Kept,
       TemplateReturns
  <1> QED
    BY <1>1, AlwaysTemplateInv, PTL

\* A template that a thread got hold of is what its file, or the one that stands in
\* for it, was less than cacheTime before the thread asked.
THEOREM TemplatesFresh == TemplateSpec => []NoStaleTemplate
  <1>1. TemplateInv => NoStaleTemplate
    BY DEF TemplateInv, ReturnInv, InTime, NoStaleTemplate
  <1> QED
    BY <1>1, AlwaysTemplateInv, PTL

\* With any number of threads, the entry a thread still points at after it has
\* released the lock is deleted by the insertion of another thread, or was too
\* large to be kept at all.
THEOREM OnlyRivalsDelete == TemplateSpec => []DeletedByRivalsOnly
  <1>1. TemplateInit => DeletedByRivalsOnly
    BY DEF TemplateInit, Rest, DeletedByRivalsOnly
  <1>2. TemplateInv /\ DeletedByRivalsOnly /\ [TemplateNext]_templateVars
          => DeletedByRivalsOnly'
    <2> SUFFICES ASSUME TemplateInv, DeletedByRivalsOnly, [TemplateNext]_templateVars,
                        NEW u \in Loaders, loading'[u].at = "unlocked",
                        ~ Alive(loading[u].entry)'
                 PROVE  \/ rivals'[u] # {}
                        \/ loading'[u].entry.cost > templateCacheSize
      BY DEF DeletedByRivalsOnly
    <2>0. loading \in [Loaders -> Loads] /\ rivals \in [Loaders -> SUBSET Loaders]
      BY DEF TemplateInv
    \* Who neither moves nor loses entries.
    <2>1. ASSUME loading'[u] = loading[u], UNCHANGED templateCache, rivals'[u] = rivals[u]
          PROVE  \/ rivals'[u] # {}
                 \/ loading'[u].entry.cost > templateCacheSize
      BY <2>1 DEF DeletedByRivalsOnly, Alive
    <2>2. ASSUME NEW t \in Loaders, GetTemplate(t)
          PROVE  \/ rivals'[u] # {}
                 \/ loading'[u].entry.cost > templateCacheSize
      <3>1. TryFile(Locales).at = "locked"
        BY DEF TryFile, Rest
      <3>2. u # t
        BY <2>0, <2>2, <3>1 DEF GetTemplate
      <3> QED
        BY <2>0, <2>1, <2>2, <3>2 DEF GetTemplate
    <2>3. ASSUME NEW t \in Loaders, Found(t)
          PROVE  \/ rivals'[u] # {}
                 \/ loading'[u].entry.cost > templateCacheSize
      <3>1. CASE u # t
        BY <2>0, <2>1, <2>3, <3>1 DEF Found
      <3>2. CASE u = t
        <4>1. loading'[u].entry = templateCache'[Candidate(t)].entry
              /\ Candidate(t) \in DOMAIN templateCache'
          BY <2>0, <2>3, <3>2 DEF Found, Cached, Loads
        <4> QED
          BY <4>1 DEF Alive
      <3> QED
        BY <3>1, <3>2
    <2>4. ASSUME NEW t \in Loaders, LoadFile(t)
          PROVE  \/ rivals'[u] # {}
                 \/ loading'[u].entry.cost > templateCacheSize
      <3>1. CASE u # t
        BY <2>0, <2>4, <3>1 DEF LoadFile
      <3>2. CASE u = t
        <4> DEFINE v == version[Candidate(t)]
                   entry == [address |-> NewAddress, document |-> v, cost |-> DocumentSize(v)]
                   k == [entry |-> entry, created |-> loading[t].now, cost |-> CacheCost(entry)]
        <4>1. templateCache' \in Inserted(templateCache, Candidate(t), k, templateCacheSize)
          BY <2>4 DEF LoadFile
        <4>2. k.cost = entry.cost /\ k.entry = entry
          BY DEF CacheCost
        <4>3. loading'[u].entry = entry
          BY <2>0, <2>4, <3>2 DEF LoadFile, Loads
        <4> HIDE DEF entry, k
        <4>4. \/ k.cost > templateCacheSize
              \/ Candidate(t) \in DOMAIN templateCache' /\ templateCache'[Candidate(t)] = k
          BY <4>1, InsertedFacts
        <4> QED
          BY <4>2, <4>3, <4>4 DEF Alive
      <3> QED
        BY <3>1, <3>2
    <2>5. ASSUME NEW t \in Loaders, TakeDocument(t)
          PROVE  \/ rivals'[u] # {}
                 \/ loading'[u].entry.cost > templateCacheSize
      <3>1. CASE u # t
        BY <2>0, <2>1, <2>5, <3>1 DEF TakeDocument
      <3>2. \A c : TryFile(c).at = "locked"
        BY DEF TryFile, Rest
      <3>3. Rest.at = "idle"
        BY DEF Rest
      <3>4. CASE u = t
        <4>1. loading'[u] = Rest \/ loading'[u] = TryFile(Tail(loading[t].left))
          BY <2>0, <2>5, <3>4 DEF TakeDocument
        <4> QED
          BY <3>2, <3>3, <4>1
      <3> QED
        BY <3>1, <3>4
    <2>6. CASE \/ DiskNext /\ UNCHANGED <<templateCache, loading, returned, rivals>>
               \/ UNCHANGED templateVars
      BY <2>1, <2>6 DEF templateVars
    <2> QED
      BY <2>2, <2>3, <2>4, <2>5, <2>6 DEF TemplateNext
  <1> QED
    BY <1>1, <1>2, AlwaysTemplateInv, PTL DEF TemplateSpec

-----------------------------------------------------------------------------
(* The logger: types.                                                      *)

LoggerPlaces == {"idle", "enter", "try", "log", "print", "warn", "leave", "flush",
                 "crashed"}

LEMMA ProceedType ==
    ASSUME LoggerTypeOK, NEW t \in Loggers, NEW place \in LoggerPlaces, Proceed(t, place)
    PROVE  at' \in [Loggers -> LoggerPlaces]
  BY DEF LoggerTypeOK, Proceed, LoggerPlaces

LEMMA SequenceTypes ==
    ASSUME NEW S, NEW q \in Seq(S), NEW m \in S
    PROVE  /\ <<>> \in Seq(S) /\ <<m>> \in Seq(S) /\ Append(q, m) \in Seq(S)
           /\ Append(q, m) # <<>> /\ Tail(Append(q, m)) \in Seq(S)
           /\ q # <<>> => Tail(q) \in Seq(S)
           /\ <<m>> \o q \in Seq(S)
  <1>1. /\ <<>> \in Seq(S) /\ <<m>> \in Seq(S) /\ Append(q, m) \in Seq(S)
        /\ <<m>> \o q \in Seq(S)
    OBVIOUS
  <1>2. Append(q, m) # <<>>
    <2>1. Len(Append(q, m)) = Len(q) + 1 /\ Len(q) \in Nat /\ Len(<<>>) = 0
      OBVIOUS
    <2> QED
      BY <2>1
  <1>3. \A r \in Seq(S) : r # <<>> => Tail(r) \in Seq(S)
    OBVIOUS
  <1> QED
    BY <1>1, <1>2, <1>3

LEMMA RingType ==
    ASSUME NEW q \in Seq(Message), NEW m \in Message
    PROVE  Ring(q, m) \in Seq(Message)
  BY SequenceTypes DEF Ring

LEMMA KeptBackupsType ==
    ASSUME backups \in Seq(Nat)
    PROVE  KeptBackups \in Seq(Nat)
  BY LoggerAssumption DEF KeptBackups

LEMMA LogMessageType ==
    ASSUME LoggerTypeOK, NEW t \in Loggers, LogUnbuffered(t) \/ LogBuffered(t)
    PROVE  /\ printing' \in [Loggers -> Seq(Message)]
           /\ buffer' \in [Loggers -> Seq(Message)]
  <1>1. /\ message[t] \in Message /\ buffer[t] \in Seq(Message)
        /\ printing \in [Loggers -> Seq(Message)] /\ buffer \in [Loggers -> Seq(Message)]
    BY DEF LoggerTypeOK
  <1>2. /\ <<>> \in Seq(Message) /\ <<message[t]>> \in Seq(Message)
        /\ Ring(buffer[t], message[t]) \in Seq(Message)
    BY <1>1, SequenceTypes, RingType
  <1>3. CASE LogUnbuffered(t)
    BY <1>1, <1>2, <1>3 DEF LogUnbuffered
  <1>4. CASE LogBuffered(t)
    BY <1>1, <1>2, <1>4 DEF LogBuffered
  <1> QED
    BY <1>3, <1>4

LEMMA PrintedType ==
    ASSUME LoggerTypeOK, NEW t \in Loggers, printing[t] # <<>>, Printed(t)
    PROVE  printing' \in [Loggers -> Seq(Message)]
  <1>1. printing[t] \in Seq(Message) /\ printing \in [Loggers -> Seq(Message)]
    BY DEF LoggerTypeOK
  <1>2. Tail(printing[t]) \in Seq(Message)
    BY <1>1, SequenceTypes
  <1> QED
    BY <1>1, <1>2 DEF Printed

\* What the timers leave behind.
LEMMA TimerType ==
    ASSUME LoggerTypeOK, Reopened \/ CannotOpen
    PROVE  /\ at' \in [Loggers -> LoggerPlaces] /\ message' \in [Loggers -> Message]
           /\ logMutex' \in Loggers \cup {Nobody} /\ file' \in BOOLEAN
  <1>0. Main \in Loggers
    BY DEF Loggers
  <1>1. CASE Reopened
    BY <1>0, <1>1, ProceedType DEF Reopened, LoggerTypeOK, LoggerPlaces
  <1>2. CASE CannotOpen
    <2>1. [number |-> next, level |-> CRITICAL] \in Message
      BY DEF LoggerTypeOK, Message
    <2>2. at' \in [Loggers -> LoggerPlaces]
      BY <1>0, <1>2, ProceedType DEF CannotOpen, LoggerPlaces
    <2>3. message' \in [Loggers -> Message]
      BY <1>2, <2>1 DEF CannotOpen, LoggerTypeOK
    <2> QED
      BY <1>0, <1>2, <2>2, <2>3 DEF CannotOpen
  <1> QED
    BY <1>1, <1>2

LEMMA LoggerInitType == LoggerInit => LoggerTypeOK
  <1> SUFFICES ASSUME LoggerInit PROVE LoggerTypeOK
    OBVIOUS
  <1>1. NoMessage \in Message
    BY DEF NoMessage, Message
  <1>2. /\ at \in [Loggers -> LoggerPlaces] /\ message \in [Loggers -> Message]
        /\ printing \in [Loggers -> Seq(Message)] /\ buffer \in [Loggers -> Seq(Message)]
    BY <1>1 DEF LoggerInit, LoggerPlaces
  <1>3. backups \in Seq(Nat)
    BY DEF LoggerInit
  <1> QED
    BY <1>2, <1>3 DEF LoggerInit, LoggerTypeOK, LoggerPlaces

\* A message that could not be written is still to be printed.
Warned == \A t \in Loggers : at[t] = "warn" => printing[t] # <<>>

LEMMA LoggerTypeStep == LoggerTypeOK /\ Warned /\ [LoggerNext]_logVars => LoggerTypeOK'
  <1> SUFFICES ASSUME LoggerTypeOK, Warned, [LoggerNext]_logVars PROVE LoggerTypeOK'
    OBVIOUS
  <1>0. /\ at \in [Loggers -> LoggerPlaces] /\ message \in [Loggers -> Message]
        /\ printing \in [Loggers -> Seq(Message)] /\ buffer \in [Loggers -> Seq(Message)]
        /\ next \in Nat /\ size \in Nat /\ generation \in Nat /\ backups \in Seq(Nat)
        /\ Main \in Loggers /\ Writers \subseteq Loggers
    BY DEF LoggerTypeOK, LoggerPlaces, Loggers
  <1> USE DEF lockVars, fileVars
  <1>1. ASSUME NEW t \in Writers, Clear(t) PROVE LoggerTypeOK'
    <2>1. buffer' \in [Loggers -> Seq(Message)]
      <3>1. <<>> \in Seq(Message)
        BY <1>0, SequenceTypes
      <3>2. buffer' = [buffer EXCEPT ![t] = <<>>]
        BY <1>1 DEF Clear
      <3> QED
        BY <1>0, <3>1, <3>2
    <2> QED
      BY <1>1, <2>1 DEF Clear, LoggerTypeOK
  <1>2. ASSUME NEW t \in Writers, NEW level \in {DEBUG, CRITICAL, INFO}, Log(t, level)
        PROVE  LoggerTypeOK'
    <2>1. [number |-> next, level |-> level] \in Message
      BY <1>0 DEF Message
    <2>2. message' \in [Loggers -> Message]
      BY <1>0, <1>2, <2>1 DEF Log
    <2>3. at' \in [Loggers -> LoggerPlaces]
      BY <1>0, <1>2, ProceedType DEF Log, LoggerPlaces
    <2>4. next' \in Nat
      BY <1>0, <1>2 DEF Log
    <2> QED
      BY <1>2, <2>2, <2>3, <2>4 DEF Log, LoggerTypeOK, LoggerPlaces
  <1>3. ASSUME NEW t \in Loggers, LoggerStep(t) PROVE LoggerTypeOK'
    <2>1. CASE LockRecursive(t)
      BY <2>1, ProceedType DEF LockRecursive, LoggerTypeOK, LoggerPlaces
    <2>2. CASE TryLock(t)
      BY <2>2, ProceedType DEF TryLock, LoggerTypeOK, LoggerPlaces
    <2>3. CASE Leave(t)
      <3>1. NoMessage \in Message
        BY DEF NoMessage, Message
      <3> QED
        BY <2>3, <3>1, ProceedType DEF Leave, LoggerTypeOK, LoggerPlaces
    <2>4. CASE LogMessage(t)
      <3>1. /\ printing' \in [Loggers -> Seq(Message)]
            /\ buffer' \in [Loggers -> Seq(Message)]
        BY <2>4, LogMessageType DEF LogMessage
      <3>2. at' \in [Loggers -> LoggerPlaces]
        BY <2>4, ProceedType DEF LogMessage, LoggerPlaces
      <3> QED
        BY <2>4, <3>1, <3>2 DEF LogMessage, LoggerTypeOK, LoggerPlaces
    <2>5. CASE Write(t)
      <3>1. printing' \in [Loggers -> Seq(Message)]
        BY <2>5, PrintedType DEF Write
      <3>2. size' \in Nat
        BY <1>0, <2>5 DEF Write
      <3> QED
        BY <2>5, <3>1, <3>2 DEF Write, LoggerTypeOK
    <2>6. CASE WriteFails(t)
      BY <2>6, ProceedType DEF WriteFails, LoggerTypeOK, LoggerPlaces
    <2>7. CASE WarnOfWrite(t)
      <3>1. printing' \in [Loggers -> Seq(Message)]
        BY <2>7, PrintedType DEF WarnOfWrite, Warned
      <3> QED
        BY <2>7, <3>1, ProceedType DEF WarnOfWrite, LoggerTypeOK, LoggerPlaces
    <2>8. CASE EndLog(t)
      BY <2>8, ProceedType DEF EndLog, LoggerTypeOK, LoggerPlaces
    <2> QED
      BY <1>3, <2>1, <2>2, <2>3, <2>4, <2>5, <2>6, <2>7, <2>8 DEF LoggerStep
  <1>4. CASE RefreshSettings
    BY <1>0, <1>4, TimerType, SequenceTypes DEF RefreshSettings, LoggerTypeOK, LoggerPlaces
  <1>5. CASE FlushTimer
    BY <1>0, <1>5, ProceedType DEF FlushTimer, LoggerTypeOK, LoggerPlaces
  <1>6. CASE Flush
    BY <1>0, <1>6, ProceedType DEF Flush, LoggerTypeOK, LoggerPlaces
  <1>7. CASE Rotate
    <2>1. backups' \in Seq(Nat)
      BY <1>0, <1>7, KeptBackupsType, SequenceTypes DEF Rotate
    <2>2. generation' \in Nat /\ size' \in Nat
      BY <1>0, <1>7 DEF Rotate
    <2> QED
      BY <1>7, <2>1, <2>2, TimerType DEF Rotate, LoggerTypeOK, LoggerPlaces
  <1>8. CASE FlushNull
    BY <1>0, <1>8, ProceedType DEF FlushNull, LoggerTypeOK, LoggerPlaces
  <1>9. CASE UNCHANGED logVars
    BY <1>9 DEF logVars, LoggerTypeOK
  <1> QED
    BY <1>1, <1>2, <1>3, <1>4, <1>5, <1>6, <1>7, <1>8, <1>9 DEF LoggerNext

LEMMA WarnedStep == LoggerTypeOK /\ Warned /\ [LoggerNext]_logVars => Warned'
  <1> SUFFICES ASSUME LoggerTypeOK, Warned, [LoggerNext]_logVars,
                      NEW u \in Loggers, at'[u] = "warn"
               PROVE  printing'[u] # <<>>
    BY DEF Warned
  <1>0. /\ at \in [Loggers -> LoggerPlaces] /\ printing \in [Loggers -> Seq(Message)]
        /\ Main \in Loggers /\ Writers \subseteq Loggers
    BY DEF LoggerTypeOK, LoggerPlaces, Loggers
  \* Only WriteFails leads to that place.
  <1>1. ASSUME NEW t \in Loggers, NEW place \in LoggerPlaces \ {"warn"},
               Proceed(t, place),
               \A v \in Loggers : v # t => printing'[v] = printing[v]
        PROVE  printing'[u] # <<>>
    BY <1>0, <1>1 DEF Proceed, Warned
  <1>2. ASSUME UNCHANGED printing, UNCHANGED at PROVE printing'[u] # <<>>
    BY <1>2 DEF Warned
  <1> USE DEF LoggerPlaces
  <1>3. ASSUME NEW t \in Writers, NEW level \in {DEBUG, CRITICAL, INFO}, Log(t, level)
        PROVE  printing'[u] # <<>>
    BY <1>0, <1>1, <1>3 DEF Log
  <1>4. ASSUME NEW t \in Loggers, LoggerStep(t) PROVE printing'[u] # <<>>
    <2>1. CASE LockRecursive(t)
      BY <1>1, <2>1 DEF LockRecursive
    <2>2. CASE TryLock(t)
      BY <1>1, <2>2 DEF TryLock
    <2>3. CASE Leave(t)
      BY <1>1, <2>3 DEF Leave
    <2>4. CASE LogMessage(t)
      BY <1>0, <1>1, <2>4 DEF LogMessage, LogUnbuffered, LogBuffered
    <2>5. CASE Write(t)
      BY <1>0, <2>5 DEF Write, Printed, Warned
    <2>6. CASE WriteFails(t)
      BY <1>0, <2>6 DEF WriteFails, Proceed, Warned
    <2>7. CASE WarnOfWrite(t)
      BY <1>0, <1>1, <2>7 DEF WarnOfWrite, Printed
    <2>8. CASE EndLog(t)
      BY <1>1, <2>8 DEF EndLog
    <2> QED
      BY <1>4, <2>1, <2>2, <2>3, <2>4, <2>5, <2>6, <2>7, <2>8 DEF LoggerStep
  <1>5. CASE RefreshSettings \/ Rotate
    BY <1>0, <1>1, <1>5 DEF RefreshSettings, Rotate, Reopened, CannotOpen
  <1>6. CASE FlushTimer \/ Flush \/ FlushNull
    BY <1>0, <1>1, <1>6 DEF FlushTimer, Flush, FlushNull
  <1>7. CASE (\E t \in Writers : Clear(t)) \/ UNCHANGED logVars
    BY <1>2, <1>7 DEF Clear, logVars
  <1> QED
    BY <1>3, <1>4, <1>5, <1>6, <1>7 DEF LoggerNext

-----------------------------------------------------------------------------
(* The logger: its three locks.                                            *)

\* Inside both locks of msgHandler(), and inside the outer one.
Inside == {"log", "print", "warn"}
Entered == {"try", "leave"} \cup Inside

\* Who holds which lock, told from the places of the threads.  The main thread
\* goes through msgHandler() only when it could not open the file, with the lock
\* of log() in its hands, and never comes back.
LockInv ==
    /\ \A t \in Loggers :
          /\ recursiveMutex = t <=> at[t] \in Entered
          /\ nonRecursiveMutex = t <=> at[t] \in Inside
          /\ logMutex = t <=> \/ at[t] \in {"print", "warn"}
                              \/ t = Main /\ at[t] \in {"enter", "try", "log"}
    /\ at[Main] \in {"enter", "try", "log"} => ~ file
    /\ at[Main] \notin {"print", "warn", "leave"}
    /\ \A t \in Writers : at[t] \notin {"flush", "crashed"}

LEMMA LockStep == LoggerTypeOK /\ LockInv /\ [LoggerNext]_logVars => LockInv'
  <1> SUFFICES ASSUME LoggerTypeOK, LockInv, [LoggerNext]_logVars PROVE LockInv'
    OBVIOUS
  <1>0. /\ at \in [Loggers -> LoggerPlaces]
        /\ {recursiveMutex, nonRecursiveMutex, logMutex} \subseteq Loggers \cup {Nobody}
        /\ Main \in Loggers /\ Writers \subseteq Loggers /\ Nobody \notin Loggers
        /\ Main \notin Writers /\ Loggers = Writers \cup {Main}
    BY LoggerAssumption DEF LoggerTypeOK, LoggerPlaces, Loggers
  <1> USE DEF lockVars, fileVars, Inside, Entered, Proceed
  <1>1. ASSUME NEW t \in Writers, Clear(t) PROVE LockInv'
    BY <1>1 DEF Clear, LockInv
  <1>2. ASSUME NEW t \in Writers, NEW level \in {DEBUG, CRITICAL, INFO}, Log(t, level)
        PROVE  LockInv'
    BY <1>0, <1>2 DEF Log, LockInv
  <1>3. ASSUME NEW t \in Loggers, LoggerStep(t) PROVE LockInv'
    <2>1. CASE LockRecursive(t)
      BY <1>0, <2>1 DEF LockRecursive, MayEnter, LockInv
    <2>2. CASE TryLock(t)
      BY <1>0, <2>2 DEF TryLock, LockInv
    <2>3. CASE Leave(t)
      BY <1>0, <2>3 DEF Leave, LockInv
    <2>4. CASE LogMessage(t)
      BY <1>0, <2>4 DEF LogMessage, LockInv
    <2>5. CASE Write(t)
      BY <1>0, <2>5 DEF Write, LockInv
    <2>6. CASE WriteFails(t)
      BY <1>0, <2>6 DEF WriteFails, LockInv
    <2>7. CASE WarnOfWrite(t)
      BY <1>0, <2>7 DEF WarnOfWrite, LockInv
    <2>8. CASE EndLog(t)
      BY <1>0, <2>8 DEF EndLog, LockInv
    <2> QED
      BY <1>3, <2>1, <2>2, <2>3, <2>4, <2>5, <2>6, <2>7, <2>8 DEF LoggerStep
  <1>4. ASSUME at[Main] \in {"idle", "flush"}, logMutex = Nobody,
               Reopened \/ CannotOpen, UNCHANGED <<recursiveMutex, nonRecursiveMutex>>
        PROVE  LockInv'
    <2>1. CASE Reopened
      BY <1>0, <1>4, <2>1 DEF Reopened, LockInv
    <2>2. CASE CannotOpen
      BY <1>0, <1>4, <2>2 DEF CannotOpen, LockInv
    <2> QED
      BY <1>4, <2>1, <2>2
  <1>5. CASE RefreshSettings \/ Rotate
    BY <1>4, <1>5 DEF RefreshSettings, Rotate
  <1>6. CASE FlushTimer
    BY <1>0, <1>6 DEF FlushTimer, LockInv
  <1>7. CASE Flush \/ FlushNull
    BY <1>0, <1>7 DEF Flush, FlushNull, LockInv
  <1>8. CASE UNCHANGED logVars
    BY <1>8 DEF logVars, LockInv
  <1> QED
    BY <1>1, <1>2, <1>3, <1>5, <1>6, <1>7, <1>8 DEF LoggerNext

LoggerInv == LoggerTypeOK /\ Warned /\ LockInv

LEMMA AlwaysLoggerInv == LoggerSpec => []LoggerInv
  <1>1. LoggerInit => LoggerInv
    BY LoggerInitType, LoggerAssumption
       DEF LoggerInit, LoggerInv, Warned, LockInv, Inside, Entered, Loggers
  <1>2. LoggerInv /\ [LoggerNext]_logVars => LoggerInv'
    BY LoggerTypeStep, WarnedStep, LockStep DEF LoggerInv
  <1> QED
    BY <1>1, <1>2, PTL DEF LoggerSpec

\* Every variable of the logger keeps its type.  A thread that comes to warn of a
\* failed write still has that message before it, which the type of what is left
\* to print rests on.
THEOREM LoggerTypeCorrect == LoggerSpec => []LoggerTypeOK
  <1>1. LoggerInv => LoggerTypeOK
    BY DEF LoggerInv
  <1> QED
    BY <1>1, AlwaysLoggerInv, PTL

\* Any number of threads that log, rotate, buffer and warn of each other's failed
\* writes wait for each other in a circle in one case only: the main thread warns
\* of the file it could not open, and waits for the lock it holds itself.
THEOREM DeadlockFreeButOpen == LoggerSpec => []DeadlockOnlyByOpen
  <1>1. LoggerInv => DeadlockOnlyByOpen
    <2> SUFFICES ASSUME LoggerInv, NEW S \in SUBSET Loggers,
                        NEW t \in S, \A u \in S : WaitsFor(u) \in S
                 PROVE  Main \in S /\ ~ file
      BY DEF DeadlockOnlyByOpen
    <2>0. Nobody \notin S /\ S \subseteq Loggers /\ LockInv
      BY LoggerAssumption DEF LoggerInv
    \* Who holds the lock of log() and waits is the main thread.
    <2>1. ASSUME NEW w \in S, logMutex = w PROVE Main \in S /\ ~ file
      <3>1. WaitsFor(w) # Nobody
        BY <2>0
      <3>2. ~(at[w] \in {"print", "warn"})
        BY <2>0, <3>1 DEF WaitsFor, LockInv, MayEnter, Entered, Inside
      <3> QED
        BY <2>0, <2>1, <3>2 DEF LockInv
    <2>2. ASSUME NEW w \in S, at[w] \in {"log", "flush"} PROVE Main \in S /\ ~ file
      BY <2>1, <2>2 DEF WaitsFor
    \* Who holds the lock of msgHandler() and waits, waits for that of log().
    <2>3. ASSUME NEW u \in S, recursiveMutex = u PROVE Main \in S /\ ~ file
      <3>1. WaitsFor(u) # Nobody
        BY <2>0
      <3>2. at[u] \in {"log", "flush"}
        BY <2>3, <3>1 DEF WaitsFor, MayEnter
      <3> QED
        BY <2>2, <3>2
    <2>4. WaitsFor(t) \in {recursiveMutex, logMutex}
      BY <2>0 DEF WaitsFor
    <2> QED
      BY <2>1, <2>3, <2>4
  <1> QED
    BY <1>1, AlwaysLoggerInv, PTL

-----------------------------------------------------------------------------
(* The five components in one behaviour.                                   *)

\* The others rest while one component runs; the two caches share the disk.
LEMMA ComponentSteps ==
    ASSUME [LibraryNext]_allVars
    PROVE  /\ [Next]_vars /\ [StoreNext]_storeVars /\ [LoggerNext]_logVars
           /\ [StaticNext]_staticVars /\ [TemplateNext]_templateVars
  <1> USE DEF Resting, Parser, Sessions
  <1>1. CASE ParserNext
    BY <1>1 DEF ParserNext, cacheVars, staticVars, templateVars
  <1>2. CASE SessionsNext
    BY <1>2 DEF SessionsNext, cacheVars, staticVars, templateVars
  <1>3. CASE FilesNext
    <2>1. StaticNext /\ UNCHANGED <<vars, storeVars, logVars>>
          /\ UNCHANGED <<templateCache, loading, returned, rivals>>
      BY <1>3 DEF FilesNext
    <2>2. DiskNext \/ UNCHANGED diskVars
      BY <2>1 DEF StaticNext, BeginService, CacheHit, CacheMiss, OpenFile, TestSize,
                  ReadPart, EndOfFile, InsertEntry
    <2>3. [TemplateNext]_templateVars
      BY <2>1, <2>2 DEF TemplateNext, templateVars
    <2> QED
      BY <2>1, <2>3
  <1>4. CASE TemplatesNext
    <2>1. TemplateNext /\ UNCHANGED <<vars, storeVars, logVars>>
          /\ UNCHANGED <<staticCache, service, answer>>
      BY <1>4 DEF TemplatesNext
    <2>2. DiskNext \/ UNCHANGED diskVars
      BY <2>1 DEF TemplateNext, GetTemplate, Found, LoadFile, TakeDocument
    <2>3. [StaticNext]_staticVars
      BY <2>1, <2>2 DEF StaticNext, staticVars
    <2> QED
      BY <2>1, <2>3
  <1>5. CASE LoggerPartNext
    BY <1>5 DEF LoggerPartNext, cacheVars, staticVars, templateVars
  <1>6. CASE UNCHANGED allVars
    BY <1>6 DEF allVars, cacheVars, staticVars, templateVars
  <1> QED
    BY <1>1, <1>2, <1>3, <1>4, <1>5, <1>6 DEF LibraryNext

\* The library of the run is the parser, the session store, the two caches and the
\* logger side by side: each theorem about one of them holds of the whole.
THEOREM LibraryIsItsComponents ==
    LibrarySpec => Spec /\ StoreSpec /\ StaticSpec /\ TemplateSpec /\ LoggerSpec
  <1>1. LibraryInit => Init /\ StoreInit /\ StaticInit /\ TemplateInit /\ LoggerInit
    BY DEF LibraryInit
  <1>2. [LibraryNext]_allVars =>
           /\ [Next]_vars /\ [StoreNext]_storeVars /\ [LoggerNext]_logVars
           /\ [StaticNext]_staticVars /\ [TemplateNext]_templateVars
    BY ComponentSteps
  <1> QED
    BY <1>1, <1>2, PTL DEF LibrarySpec, Spec, StoreSpec, StaticSpec, TemplateSpec, LoggerSpec

\* Every variable of the library keeps its type, whichever component runs.
THEOREM LibraryTypesCorrect == LibrarySpec => []LibraryTypeOK
  <1>1. TypeOK /\ StoreTypeOK /\ StaticTypeOK /\ TemplateTypeOK /\ LoggerTypeOK
          => LibraryTypeOK
    BY DEF LibraryTypeOK
  <1> QED
    BY <1>1, LibraryIsItsComponents, TypeCorrect, StoreTypeCorrect, StaticTypeCorrect,
       TemplateTypeCorrect, LoggerTypeCorrect, PTL
=============================================================================
