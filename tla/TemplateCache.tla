---------------------------- MODULE TemplateCache -----------------------------
(***************************************************************************)
(* TemplateLoader::getTemplate() with TemplateCache::tryFile() in several  *)
(* handler threads (templateloader.cpp, templatecache.cpp).  A file is     *)
(* looked up, loaded and stored under one lock, but the document is taken  *)
(* from the entry after the lock is released: by then the cache, which     *)
(* owns the entry, may have deleted it.                                    *)
(***************************************************************************)
EXTENDS CachedFiles

CONSTANTS
    Loaders,                \* handler threads
    Locales,                \* candidates for a name: files in order of preference
    templateTimeout, templateCacheSize

ASSUME TemplateAssumption ==
    /\ IsFiniteSet(Files) /\ IsFiniteSet(Loaders)
    /\ Locales \in Seq(Files) /\ Locales # <<>>
    /\ templateTimeout \in Nat /\ templateCacheSize \in Nat

VARIABLES
    templateCache,
    loading,                \* of each thread: where it is, the candidates left,
                            \* the candidate and the time of the call, its pointer
    returned,               \* what tryFile() returned last, of which call
    rivals                  \* who has inserted since each thread released the lock

templateVars == <<diskVars, templateCache, loading, returned, rivals>>

\* Entries are told apart by their addresses.
NoEntry == [address |-> 0, document |-> 0, cost |-> 0]
Nothing == [file |-> NoFile, now |-> 0, document |-> 0]
Rest == [at |-> "idle", left |-> <<>>, now |-> 0, entry |-> NoEntry]

Entry == [address : Nat, document : Versions \cup {0}, cost : Nat]

TemplateTypeOK ==
    /\ DiskTypeOK
    /\ DOMAIN templateCache \subseteq Files
    /\ \A f \in DOMAIN templateCache :
         templateCache[f] \in [entry : Entry, created : 0 .. Seconds, cost : Nat]
    /\ loading \in [Loaders -> [at : {"idle", "locked", "unlocked"}, left : Seq(Files),
                                now : 0 .. Seconds, entry : Entry]]
    /\ returned \in [Loaders -> [file : Files, now : 0 .. Seconds,
                                 document : Versions \cup {0}] \cup {Nothing}]
    /\ rivals \in [Loaders -> SUBSET Loaders]

TemplateInit ==
    /\ DiskInit
    /\ templateCache = NoEntries
    /\ loading = [t \in Loaders |-> Rest]
    /\ returned = [t \in Loaders |-> Nothing]
    /\ rivals = [t \in Loaders |-> {}]

\* tryFile() takes the time before it takes the lock.
TryFile(candidates) == [Rest EXCEPT !.at = "locked", !.left = candidates, !.now = second]

GetTemplate(t) ==
    /\ loading[t].at = "idle"
    /\ loading' = [loading EXCEPT ![t] = TryFile(Locales)]
    /\ returned' = [returned EXCEPT ![t] = Nothing]
    /\ UNCHANGED <<diskVars, templateCache, rivals>>

Candidate(t) == Head(loading[t].left)

\* An empty document, of size 0, is kept for a file that does not exist.
DocumentSize(v) == IF Sizes[v] = NoFile THEN 0 ELSE Sizes[v]

\* Mutant: the age is not looked at.
CachedAny(t) == Candidate(t) \in DOMAIN templateCache
Cached(t) ==
    /\ Candidate(t) \in DOMAIN templateCache
    /\ templateTimeout = 0
         \/ templateCache[Candidate(t)].created + templateTimeout > loading[t].now

\* Mutant: bytes are counted, of which a character has two.
CacheCostBytes(entry) == 2 * entry.cost
CacheCost(entry) == entry.cost

Alive(entry) == \E f \in DOMAIN templateCache : templateCache[f].entry = entry

\* No address is given out again while somebody holds it.
InUse == {templateCache[f].entry.address : f \in DOMAIN templateCache}
            \cup {loading[t].entry.address : t \in Loaders}
NewAddress == CHOOSE a \in 1 .. Cardinality(InUse) + 1 : a \notin InUse

Found(t) ==
    /\ loading[t].at = "locked" /\ Cached(t)
    /\ loading' = [loading EXCEPT ![t].at = "unlocked",
                                  ![t].entry = templateCache[Candidate(t)].entry]
    /\ UNCHANGED <<diskVars, templateCache, returned, rivals>>

LoadFile(t) ==
    /\ loading[t].at = "locked" /\ ~Cached(t)
    /\ LET v == version[Candidate(t)]
           entry == [address |-> NewAddress, document |-> v, cost |-> DocumentSize(v)]
       IN /\ templateCache' \in Inserted(templateCache, Candidate(t),
                [entry |-> entry, created |-> loading[t].now, cost |-> CacheCost(entry)],
                templateCacheSize)
          /\ loading' = [loading EXCEPT ![t].at = "unlocked", ![t].entry = entry]
          /\ rivals' = [u \in Loaders |-> IF loading[u].at = "unlocked" THEN rivals[u] \cup {t}
                                         ELSE rivals[u]]
    /\ UNCHANGED <<diskVars, returned>>

\* "return entry->document": anything may be found where an entry was deleted,
\* here document 0, which is taken for one that is not empty.
TakeDocument(t) ==
    /\ loading[t].at = "unlocked"
    /\ LET v == IF Alive(loading[t].entry) THEN loading[t].entry.document ELSE 0
           found == v = 0 \/ DocumentSize(v) > 0
       IN /\ returned' = [returned EXCEPT ![t] =
                [file |-> Candidate(t), now |-> loading[t].now, document |-> v]]
          /\ loading' = [loading EXCEPT ![t] =
                IF found \/ Tail(loading[t].left) = <<>> THEN Rest
                ELSE TryFile(Tail(loading[t].left))]
    /\ rivals' = [rivals EXCEPT ![t] = {}]
    /\ UNCHANGED <<diskVars, templateCache>>

TemplateNext ==
    \/ \E t \in Loaders :
         GetTemplate(t) \/ Found(t) \/ LoadFile(t) \/ TakeDocument(t)
    \/ DiskNext /\ UNCHANGED <<templateCache, loading, returned, rivals>>

TemplateSpec == TemplateInit /\ [][TemplateNext]_templateVars

-----------------------------------------------------------------------------
(* Properties.                                                             *)

\* A document that was taken in time is the text its file had less than
\* cacheTime before the try began (templatecache.cpp:18-31).
NoStaleTemplate ==
    templateTimeout > 0 =>
        \A t \in Loaders :
            returned[t].document # 0 =>
                replaced[returned[t].file][returned[t].document] + templateTimeout
                    > returned[t].now

\* The entry of a thread that has released the lock is deleted under its hands
\* only if another thread has stored a template since, or if the document is
\* larger than the whole cache (templatecache.cpp:25, 33-35).  Neither is
\* prevented; staticfilecontroller.cpp:49 copies the document for this reason.
DeletedByRivalsOnly ==
    \A t \in Loaders :
        loading[t].at = "unlocked" /\ ~Alive(loading[t].entry) =>
            rivals[t] # {} \/ loading[t].entry.cost > templateCacheSize
=============================================================================
