----------------------------- MODULE SessionStore -----------------------------
(***************************************************************************)
(* The session store of the HTTP library (httpsessionstore.cpp) and the    *)
(* handles it gives out (httpsession.cpp).  An HttpSession is a pointer to *)
(* counted data: each copy adds one to refCount under the lock of the      *)
(* data, each destructor takes one away, and the one that reaches zero     *)
(* deletes the data after it has released the lock.  The map holds a       *)
(* handle of each session.  It is guarded by a mutex, which a request      *)
(* takes twice to find its session and gives back before it renews         *)
(* lastAccess; the cleanup timer holds it for a whole pass.                *)
(*                                                                         *)
(* What is done under the mutex, or under the lock of the data, at once is *)
(* one step.  Data are known by the ID they get, which is never given out  *)
(* twice (QUuid).                                                          *)
(***************************************************************************)
EXTENDS Naturals, FiniteSets

CONSTANTS
    Users,              \* handler threads
    Timer,              \* the thread of the store, in which its timer fires
    SessionIds,
    NoSession,          \* the null session; also an empty cookie
    Keys,               \* of the values of a session
    ExpirationTime,
    Minutes             \* bound: the clock ends there

ASSUME StoreAssumption ==
    /\ IsFiniteSet(Users) /\ Timer \notin Users /\ NoSession \notin SessionIds
    /\ ExpirationTime \in Nat /\ Minutes \in Nat

VARIABLES
    clock,
    sessions,           \* the IDs in the map
    memory,             \* of the data of an ID: "new", "live" or "deleted"
    refCount, lastAccess, values,
    handle,             \* what each HttpSession object points at
    doing,              \* where each thread is
    cookie,             \* what getSessionId() finds in response or request
    sought,             \* sessionId in getSession()
    condemned,          \* data of which the thread has taken the last reference
    sweep               \* sessionTimerEvent()

dataVars == <<memory, refCount, lastAccess, values>>
userVars == <<doing, cookie, sought, condemned>>
storeVars == <<clock, sessions, dataVars, handle, userVars, sweep>>

\* The objects of a thread: what getSession() returns, and a variable of the
\* application.  The timer has the first only.
Slots == {"result", "own"}
StoreThreads == Users \cup {Timer}
Handles == StoreThreads \X Slots

StoreTypeOK ==
    /\ clock \in Nat
    /\ sessions \subseteq SessionIds
    /\ memory \in [SessionIds -> {"new", "live", "deleted"}]
    /\ refCount \in [SessionIds -> Nat]
    /\ lastAccess \in [SessionIds -> Nat]
    /\ values \in [SessionIds -> SUBSET Keys]
    /\ handle \in [Handles -> SessionIds \cup {NoSession}]
    /\ doing \in [Users -> {"idle", "service", "find", "refresh", "delete"}]
    /\ cookie \in [Users -> SessionIds \cup {NoSession}]
    /\ sought \in [Users -> SessionIds \cup {NoSession}]
    /\ condemned \in [StoreThreads -> SessionIds \cup {NoSession}]
    /\ sweep \in [at : {"idle", "walk", "judge", "delete"},
                  now : Nat, left : SUBSET SessionIds, seen : Nat]

StoreInit ==
    /\ clock = 0
    /\ sessions = {}
    /\ memory = [d \in SessionIds |-> "new"]
    /\ refCount = [d \in SessionIds |-> 0]
    /\ lastAccess = [d \in SessionIds |-> 0]
    /\ values = [d \in SessionIds |-> {}]
    /\ handle = [h \in Handles |-> NoSession]
    /\ doing = [t \in Users |-> "idle"]
    /\ cookie = [t \in Users |-> NoSession]
    /\ sought = [t \in Users |-> NoSession]
    /\ condemned = [t \in StoreThreads |-> NoSession]
    /\ sweep = [at |-> "idle", now |-> 0, left |-> {}, seen |-> 0]

MutexFree == sweep.at = "idle"

Result(t) == handle[<<t, "result">>]
Own(t) == handle[<<t, "own">>]

Goto(t, place) == doing' = [doing EXCEPT ![t] = place]

-----------------------------------------------------------------------------
(* HttpSession.                                                            *)

\* The copy constructor, in an object that pointed at nothing.
Copy(h, d) ==
    /\ handle' = [handle EXCEPT ![h] = d]
    /\ refCount' = [refCount EXCEPT ![d] = @ + 1]

\* Mutant: deleted with one reference left.
LastReferenceEarly(d, n) == refCount[d] <= n + 1
\* The caller's n handles of d are the last ones: it deletes the data.
LastReference(d, n) == refCount[d] = n

\* "delete dataPtr" comes after the lock of the data has been released.
Condemn(t, d, n) ==
    condemned' = [condemned EXCEPT ![t] = IF LastReference(d, n) THEN d ELSE NoSession]

\* The destructor.
Release(t, slot) ==
    /\ doing[t] = "service" /\ handle[<<t, slot>>] # NoSession
    /\ Condemn(t, handle[<<t, slot>>], 1)
    /\ refCount' = [refCount EXCEPT ![handle[<<t, slot>>]] = @ - 1]
    /\ handle' = [handle EXCEPT ![<<t, slot>>] = NoSession]
    /\ Goto(t, IF condemned'[t] = NoSession THEN "service" ELSE "delete")
    /\ UNCHANGED <<clock, sessions, memory, lastAccess, values, cookie, sought, sweep>>

\* operator=, which counts the new data up, and then the old data down: nobody
\* can tell when, since both are under different locks.  It sets lastAccess.
AssignFirst(t) ==
    /\ Own(t) = NoSession
    /\ refCount' = [refCount EXCEPT ![Result(t)] = @ + 1]
    /\ Goto(t, "service")
    /\ UNCHANGED condemned

AssignSame(t) ==
    /\ Own(t) = Result(t)
    /\ Goto(t, "service")
    /\ UNCHANGED <<refCount, condemned>>

\* Mutant: the old data are forgotten.
AssignOtherLeaks(t) ==
    /\ Own(t) \notin {NoSession, Result(t)}
    /\ refCount' = [refCount EXCEPT ![Result(t)] = @ + 1]
    /\ Goto(t, "service")
    /\ UNCHANGED condemned
AssignOther(t) ==
    /\ Own(t) \notin {NoSession, Result(t)}
    /\ Condemn(t, Own(t), 1)
    /\ refCount' = [refCount EXCEPT ![Result(t)] = @ + 1, ![Own(t)] = @ - 1]
    /\ Goto(t, IF condemned'[t] = NoSession THEN "service" ELSE "delete")

AssignSession(t) ==
    /\ doing[t] = "service" /\ Result(t) # NoSession
    /\ AssignFirst(t) \/ AssignSame(t) \/ AssignOther(t)
    /\ handle' = [handle EXCEPT ![<<t, "own">>] = Result(t)]
    /\ lastAccess' = [lastAccess EXCEPT ![Result(t)] = clock]
    /\ UNCHANGED <<clock, sessions, memory, values, cookie, sought, sweep>>

DeleteData(t) ==
    /\ doing[t] = "delete"
    /\ memory' = [memory EXCEPT ![condemned[t]] = "deleted"]
    /\ condemned' = [condemned EXCEPT ![t] = NoSession]
    /\ Goto(t, "service")
    /\ UNCHANGED <<clock, sessions, refCount, lastAccess, values, handle, cookie,
                   sought, sweep>>

SetValue(t, k) ==
    /\ doing[t] = "service" /\ Own(t) # NoSession
    /\ values' = [values EXCEPT ![Own(t)] = @ \cup {k}]
    /\ UNCHANGED <<clock, sessions, memory, refCount, lastAccess, handle, userVars, sweep>>

RemoveValue(t, k) ==
    /\ doing[t] = "service" /\ Own(t) # NoSession
    /\ values' = [values EXCEPT ![Own(t)] = @ \ {k}]
    /\ UNCHANGED <<clock, sessions, memory, refCount, lastAccess, handle, userVars, sweep>>

-----------------------------------------------------------------------------
(* HttpSessionStore.                                                       *)

\* A request comes with the cookie that some response has set, or none; the
\* cookie of a session that is gone does what none does.
BeginRequest(t, id) ==
    /\ doing[t] = "idle"
    /\ id # NoSession => memory[id] = "live"
    /\ cookie' = [cookie EXCEPT ![t] = id]
    /\ Goto(t, "service")
    /\ UNCHANGED <<clock, sessions, dataVars, handle, sought, condemned, sweep>>

EndRequest(t) ==
    /\ doing[t] = "service" /\ Result(t) = NoSession /\ Own(t) = NoSession
    /\ cookie' = [cookie EXCEPT ![t] = NoSession]
    /\ Goto(t, "idle")
    /\ UNCHANGED <<clock, sessions, dataVars, handle, sought, condemned, sweep>>

GetSessionId(t) ==
    /\ doing[t] = "service" /\ Result(t) = NoSession
    /\ MutexFree
    /\ sought' = [sought EXCEPT ![t] = IF cookie[t] \in sessions THEN cookie[t] ELSE NoSession]
    /\ Goto(t, "find")
    /\ UNCHANGED <<clock, sessions, dataVars, handle, cookie, condemned, sweep>>

\* sessions.value(): the copy is made under the mutex.
FindSession(t, id) ==
    /\ id \in sessions
    /\ Copy(<<t, "result">>, id)
    /\ sought' = [sought EXCEPT ![t] = NoSession]
    /\ Goto(t, "refresh")
    /\ UNCHANGED <<clock, sessions, memory, lastAccess, values, cookie, condemned, sweep>>

CreateSession(t, d) ==
    /\ memory[d] = "new"
    /\ sessions' = sessions \cup {d}
    /\ memory' = [memory EXCEPT ![d] = "live"]
    /\ refCount' = [refCount EXCEPT ![d] = 2]
    /\ lastAccess' = [lastAccess EXCEPT ![d] = clock]
    /\ handle' = [handle EXCEPT ![<<t, "result">>] = d]
    /\ cookie' = [cookie EXCEPT ![t] = d]
    /\ sought' = [sought EXCEPT ![t] = NoSession]
    /\ Goto(t, "service")
    /\ UNCHANGED <<clock, values, condemned, sweep>>

NullSession(t) ==
    /\ sought' = [sought EXCEPT ![t] = NoSession]
    /\ Goto(t, "service")
    /\ UNCHANGED <<clock, sessions, dataVars, handle, cookie, condemned, sweep>>

\* getSession(request, response, allowCreate), after getSessionId().
GetSession(t) ==
    /\ doing[t] = "find" /\ MutexFree
    /\ \/ FindSession(t, sought[t])
       \/ sought[t] \notin sessions /\ \E d \in SessionIds : CreateSession(t, d)
       \/ sought[t] \notin sessions /\ NullSession(t)      \* ~allowCreate

\* getSession(id).
GetSessionById(t, id) ==
    /\ doing[t] = "service" /\ Result(t) = NoSession /\ MutexFree
    /\ FindSession(t, id)

SetLastAccess(t) ==
    /\ doing[t] = "refresh"
    /\ lastAccess' = [lastAccess EXCEPT ![Result(t)] = clock]
    /\ Goto(t, "service")
    /\ UNCHANGED <<clock, sessions, memory, refCount, values, handle, cookie, sought,
                   condemned, sweep>>

\* The parameter is a copy that lives during the call only.
RemoveSession(t) ==
    /\ doing[t] = "service" /\ Own(t) \in sessions /\ MutexFree
    /\ sessions' = sessions \ {Own(t)}
    /\ refCount' = [refCount EXCEPT ![Own(t)] = @ - 1]
    /\ UNCHANGED <<clock, memory, lastAccess, values, handle, userVars, sweep>>

-----------------------------------------------------------------------------
(* sessionTimerEvent(), in the thread of the store.                        *)

TimerEvent ==
    /\ MutexFree
    /\ sweep' = [sweep EXCEPT !.at = "walk", !.now = clock, !.left = sessions]
    /\ UNCHANGED <<clock, sessions, dataVars, handle, userVars>>

\* Mutant: the session is assigned, which renews it.
LookAtRenewing(d) ==
    /\ sweep.at = "walk" /\ d \in sweep.left
    /\ Copy(<<Timer, "result">>, d)
    /\ lastAccess' = [lastAccess EXCEPT ![d] = clock]
    /\ sweep' = [sweep EXCEPT !.at = "judge", !.left = @ \ {d}, !.seen = clock]
    /\ UNCHANGED <<clock, sessions, memory, values, userVars>>
LookAt(d) ==
    /\ sweep.at = "walk" /\ d \in sweep.left
    /\ Copy(<<Timer, "result">>, d)
    /\ sweep' = [sweep EXCEPT !.at = "judge", !.left = @ \ {d}, !.seen = lastAccess[d]]
    /\ UNCHANGED <<clock, sessions, memory, lastAccess, values, userVars>>

\* Mutant: one tick too early.
ExpiredEarly == sweep.now >= sweep.seen + ExpirationTime
Expired == sweep.now > sweep.seen + ExpirationTime

\* The object of the loop is destroyed at the end of its body.
Judge ==
    /\ sweep.at = "judge"
    /\ LET d == Result(Timer)
           n == IF Expired /\ d \in sessions THEN 2 ELSE 1
       IN /\ sessions' = IF Expired THEN sessions \ {d} ELSE sessions
          /\ refCount' = [refCount EXCEPT ![d] = @ - n]
          /\ Condemn(Timer, d, n)
    /\ handle' = [handle EXCEPT ![<<Timer, "result">>] = NoSession]
    /\ sweep' = [sweep EXCEPT !.at = IF condemned'[Timer] = NoSession THEN "walk" ELSE "delete",
                              !.seen = 0]
    /\ UNCHANGED <<clock, memory, lastAccess, values, doing, cookie, sought>>

DeleteExpired ==
    /\ sweep.at = "delete"
    /\ memory' = [memory EXCEPT ![condemned[Timer]] = "deleted"]
    /\ condemned' = [condemned EXCEPT ![Timer] = NoSession]
    /\ sweep' = [sweep EXCEPT !.at = "walk"]
    /\ UNCHANGED <<clock, sessions, refCount, lastAccess, values, handle, doing, cookie,
                   sought>>

SweepEnds ==
    /\ sweep.at = "walk" /\ sweep.left = {}
    /\ sweep' = [sweep EXCEPT !.at = "idle", !.now = 0]
    /\ UNCHANGED <<clock, sessions, dataVars, handle, userVars>>

Sweep == (\E d \in SessionIds : LookAt(d)) \/ Judge \/ DeleteExpired \/ SweepEnds

Minute ==
    /\ clock < Minutes
    /\ clock' = clock + 1
    /\ UNCHANGED <<sessions, dataVars, handle, userVars, sweep>>

-----------------------------------------------------------------------------
HandleStep(t) ==
    \/ AssignSession(t) \/ DeleteData(t)
    \/ \E slot \in Slots : Release(t, slot)
    \/ \E k \in Keys : SetValue(t, k) \/ RemoveValue(t, k)

StoreStep(t) ==
    \/ \E id \in SessionIds \cup {NoSession} : BeginRequest(t, id)
    \/ EndRequest(t) \/ GetSessionId(t) \/ GetSession(t) \/ SetLastAccess(t)
    \/ \E id \in SessionIds : GetSessionById(t, id)
    \/ RemoveSession(t)

StoreNext ==
    \/ \E t \in Users : HandleStep(t) \/ StoreStep(t)
    \/ TimerEvent \/ Sweep \/ Minute

StoreSpec == StoreInit /\ [][StoreNext]_storeVars

\* The timer fires again and again, and its pass goes on: the mutex is free again
\* as soon as a request has done its step.
FairStoreSpec == StoreSpec /\ WF_storeVars(TimerEvent) /\ WF_storeVars(Sweep)

-----------------------------------------------------------------------------
(* Properties.                                                             *)

References(d) == Cardinality({h \in Handles : handle[h] = d})
                 + (IF d \in sessions THEN 1 ELSE 0)

\* refCount is the number of HttpSession objects that point at the data, however
\* copies, assignments, removals and the timer follow one another
\* (httpsession.cpp:30, 44, 76).
RefCountExact == \A d \in SessionIds : refCount[d] = References(d)

\* The test of refCount comes after the lock is released (httpsession.cpp:66-90): even so
\* no HttpSession object points at deleted data, neither one of a thread whose session the
\* timer or another thread has removed, nor one in the map; and one thread, and one only,
\* deletes data to which nothing points any more.
DeletedOnce ==
    \A d \in SessionIds :
        /\ d \in sessions \/ (\E h \in Handles : handle[h] = d) => memory[d] = "live"
        /\ memory[d] = "live" /\ refCount[d] = 0 =>
              \E w \in StoreThreads : condemned[w] = d
        /\ \A w \in StoreThreads : condemned[w] = d =>
              /\ memory[d] = "live" /\ refCount[d] = 0
              /\ \A v \in StoreThreads : condemned[v] = d => v = w

\* The timer erases no session that was used within the expiration time before
\* its pass began, though uses are not kept out while it passes
\* (httpsessionstore.cpp:61, 103-115).  A session used during the pass may go.
OnlyIdleExpire ==
    [][\A d \in sessions \ sessions' :
          sweep.at = "judge" =>
              \/ sweep.now > lastAccess[d] + ExpirationTime
              \/ lastAccess[d] >= sweep.now]_storeVars

\* A session that nobody has used for the expiration time leaves the map, unless
\* somebody comes back for it.
IdleSessionsEnd ==
    \A d \in SessionIds :
        (d \in sessions /\ clock > lastAccess[d] + ExpirationTime)
            ~> (d \notin sessions \/ \E t \in Users : Result(t) = d)
=============================================================================
