----------------------------- MODULE StaticFiles ------------------------------
(***************************************************************************)
(* StaticFileController::service() in several handler threads              *)
(* (staticfilecontroller.cpp).  The cache is locked for the lookup and for *)
(* the insertion; between the two, with no lock, the file is opened, its   *)
(* size tested, and read part by part.  A document is the set of versions  *)
(* its parts come from.                                                    *)
(***************************************************************************)
EXTENDS CachedFiles

CONSTANTS
    Readers,                \* handler threads
    cacheTimeout, maxCachedFileSize, cacheSize

ASSUME StaticAssumption ==
    cacheTimeout \in Nat /\ maxCachedFileSize \in Nat /\ cacheSize \in Nat

VARIABLES
    staticCache,
    service,                \* of each thread: where it is, its locals
    answer                  \* the file and versions it answered with last, and
                            \* when that request began

staticVars == <<diskVars, staticCache, service, answer>>

NoAnswer == [path |-> NoFile, versions |-> {}, began |-> 0]
Idle == [at |-> "idle", path |-> NoFile, now |-> 0, opened |-> 0, keep |-> FALSE,
         read |-> {}]

StaticTypeOK ==
    /\ DiskTypeOK
    /\ DOMAIN staticCache \subseteq Files
    /\ \A f \in DOMAIN staticCache : staticCache[f] \in
          [document : SUBSET Versions, created : 0 .. Seconds, cost : 0 .. cacheSize]
    /\ service \in [Readers -> [at : {"idle", "lookup", "open", "size", "read", "insert"},
                                path : Files \cup {NoFile}, now : 0 .. Seconds,
                                opened : Versions \cup {0}, keep : BOOLEAN,
                                read : SUBSET Versions]]
    /\ answer \in [Readers -> [path : Files \cup {NoFile}, versions : SUBSET Versions,
                               began : 0 .. Seconds]]

StaticInit ==
    /\ DiskInit
    /\ staticCache = NoEntries
    /\ service = [t \in Readers |-> Idle]
    /\ answer = [t \in Readers |-> NoAnswer]

\* A version that is missing stands for 403 and 404.
Reply(t, document) ==
    answer' = [answer EXCEPT ![t] = [path |-> service[t].path, versions |-> document,
                                     began |-> service[t].now]]

BeginService(t, f) ==
    /\ service[t].at = "idle"
    /\ service' = [service EXCEPT ![t] = [Idle EXCEPT !.at = "lookup", !.path = f,
                                                       !.now = second]]
    /\ answer' = [answer EXCEPT ![t] = NoAnswer]
    /\ UNCHANGED <<diskVars, staticCache>>

\* Mutant: the age is not looked at.
FreshEntryAny(cache, key, now) == key \in DOMAIN cache
FreshEntry(cache, key, now) ==
    /\ key \in DOMAIN cache
    /\ cacheTimeout = 0 \/ cache[key].created + cacheTimeout > now

CacheHit(t) ==
    /\ service[t].at = "lookup"
    /\ FreshEntry(staticCache, service[t].path, service[t].now)
    /\ Reply(t, staticCache[service[t].path].document)
    /\ service' = [service EXCEPT ![t] = Idle]
    /\ UNCHANGED <<diskVars, staticCache>>

CacheMiss(t) ==
    /\ service[t].at = "lookup"
    /\ ~FreshEntry(staticCache, service[t].path, service[t].now)
    /\ service' = [service EXCEPT ![t].at = "open"]
    /\ UNCHANGED <<diskVars, staticCache, answer>>

CurrentVersion(t) == version[service[t].path]
Exists(v) == Sizes[v] # NoFile

OpenFile(t) ==
    /\ service[t].at = "open"
    /\ IF Exists(CurrentVersion(t))
         THEN /\ service' = [service EXCEPT ![t].at = "size",
                                            ![t].opened = CurrentVersion(t)]
              /\ UNCHANGED answer
         ELSE /\ Reply(t, {CurrentVersion(t)})
              /\ service' = [service EXCEPT ![t] = Idle]
    /\ UNCHANGED <<diskVars, staticCache>>

\* What is found in an open file that is replaced: the old version if the new one
\* took its name, the new one if it was written into the same file.
InOpenFile(t) == {v \in {service[t].opened, CurrentVersion(t)} : Exists(v)}

\* A small file is kept.
TestSize(t) ==
    /\ service[t].at = "size"
    /\ \E v \in InOpenFile(t) :
         service' = [service EXCEPT ![t] =
            [@ EXCEPT !.at = "read", !.keep = (Sizes[v] <= maxCachedFileSize)]]
    /\ UNCHANGED <<diskVars, staticCache, answer>>

ReadPart(t) ==
    /\ service[t].at = "read"
    /\ \E v \in InOpenFile(t) :
         service' = [service EXCEPT ![t].read = @ \cup {v}]
    /\ UNCHANGED <<diskVars, staticCache, answer>>

\* What was read has been written to the client.
EndOfFile(t) ==
    /\ service[t].at = "read" /\ service[t].read # {}
    /\ Reply(t, service[t].read)
    /\ service' = [service EXCEPT ![t] = IF service[t].keep
                                          THEN [service[t] EXCEPT !.at = "insert"]
                                          ELSE Idle]
    /\ UNCHANGED <<diskVars, staticCache>>

\* Mutant: the entry is given the time of its insertion.
InsertEntryLate(t) ==
    /\ service[t].at = "insert"
    /\ \E v \in service[t].read :
         staticCache' \in Inserted(staticCache, service[t].path,
            [document |-> service[t].read, created |-> second, cost |-> Sizes[v]], cacheSize)
    /\ service' = [service EXCEPT ![t] = Idle]
    /\ UNCHANGED <<diskVars, answer>>
\* The document has the size of one of the versions.
InsertEntry(t) ==
    /\ service[t].at = "insert"
    /\ \E v \in service[t].read :
         staticCache' \in Inserted(staticCache, service[t].path,
            [document |-> service[t].read, created |-> service[t].now,
             cost |-> Sizes[v]], cacheSize)
    /\ service' = [service EXCEPT ![t] = Idle]
    /\ UNCHANGED <<diskVars, answer>>

StaticNext ==
    \/ \E t \in Readers :
         \/ \E f \in Files : BeginService(t, f)
         \/ CacheHit(t) \/ CacheMiss(t) \/ OpenFile(t) \/ TestSize(t)
         \/ ReadPart(t) \/ EndOfFile(t) \/ InsertEntry(t)
    \/ DiskNext /\ UNCHANGED <<staticCache, service, answer>>

StaticSpec == StaticInit /\ [][StaticNext]_staticVars

-----------------------------------------------------------------------------
\* An answer is no older than cacheTime: every version it shows was on the disk
\* less than that time before the request began, even if the file is replaced while
\* it is read, and threads that read different versions insert them in the wrong
\* order (staticfilecontroller.cpp:47, 82-96).
NoStaleAnswer ==
    cacheTimeout > 0 =>
        \A t \in Readers : \A v \in answer[t].versions :
            replaced[answer[t].path][v] + cacheTimeout > answer[t].began
=============================================================================
