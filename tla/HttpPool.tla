------------------------------ MODULE HttpPool ------------------------------
(***************************************************************************)
(* The threads of the HTTP server: the listener and the pool of connection *)
(* handlers, which live in the main thread, and the handlers, each in a    *)
(* thread of its own (httplistener.cpp, httpconnectionhandlerpool.cpp,     *)
(* httpconnectionhandler.cpp).                                             *)
(*                                                                         *)
(* The pool mutex guards only main-thread code.  What the threads really   *)
(* share is the flag busy of every handler, which the main thread reads    *)
(* and sets without any lock against disconnected(), and the event queue   *)
(* that carries handleConnection().  The main thread scans the pool one    *)
(* handler at a time, so that a handler may change between two looks.  The *)
(* pool is a set: the order of the list only decides which of several idle *)
(* handlers is taken, and the model allows any.                            *)
(***************************************************************************)
EXTENDS Integers, FiniteSets

CONSTANTS
    Handlers,            \* identities of handler objects (and their threads)
    Connections,         \* TCP connections the clients may open
    FailingDescriptors,  \* connections whose setSocketDescriptor() fails
    MaxThreads,          \* setting maxThreads
    MinThreads,          \* setting minThreads
    MaxInput,            \* bound: pieces of input each client sends in all
    NoConn, NoHandler

ASSUME PoolAssumption ==
    /\ IsFiniteSet(Handlers)
    /\ FailingDescriptors \subseteq Connections
    /\ MaxThreads \in Nat /\ MinThreads \in Nat
    /\ MaxInput \in [Connections -> Nat]
    /\ NoConn \notin Connections /\ NoHandler \notin Handlers

VARIABLES
    \* main thread
    mainAt,       \* where the main thread is
    mainConn,     \* the connection incomingConnection() is working on
    chosen,       \* the handler taken for it, or the one being deleted
    scanned,      \* handlers the current foreach over the pool has passed
    idleCounter,  \* local of cleanup()
    pool,         \* the handlers of the pool
    \* handlers
    busy,         \* HttpConnectionHandler::busy
    posted,       \* connections of handleConnection() events not yet run
    sock,         \* the connection the handler's socket is connected to
    readTimer,    \* the read timer is running
    req,          \* connections whose bytes are in currentRequest ({}: null)
    pc,           \* where the handler's thread is
    closing,      \* local closeConnection of read()
    inTimeout,    \* how deep readTimeout() is: "no", "waits", "reads"
    \* clients and the operating system
    status, left, outbox,  \* as in ConnectionService
    inbox,        \* pieces of input that arrived and were not read
    sent          \* pieces of input sent so far

mainVars   == <<mainAt, mainConn, chosen, scanned, idleCounter, pool>>
threadVars == <<readTimer, req, pc, closing, inTimeout>>
clientVars == <<left, outbox, inbox, sent>>
vars == <<mainVars, busy, posted, sock, threadVars, status, clientVars>>

MainPlaces == {"loop", "scan", "post", "cleanup", "join", "closing", "stopped"}
Places == {"loop", "read", "service", "answered", "flush", "release"}
Status == {"away", "backlog", "accepted", "refused", "closed", "dropped"}

TypeOK ==
    /\ mainAt \in MainPlaces
    /\ mainConn \in Connections \cup {NoConn}
    /\ chosen \in Handlers \cup {NoHandler}
    /\ scanned \subseteq Handlers
    /\ idleCounter \in Nat
    /\ pool \subseteq Handlers
    /\ busy \in [Handlers -> BOOLEAN]
    /\ posted \in [Handlers -> SUBSET Connections]
    /\ sock \in [Handlers -> Connections \cup {NoConn}]
    /\ readTimer \in [Handlers -> BOOLEAN]
    /\ req \in [Handlers -> SUBSET Connections]
    /\ pc \in [Handlers -> Places]
    /\ closing \in [Handlers -> BOOLEAN]
    /\ inTimeout \in [Handlers -> {"no", "waits", "reads"}]
    /\ status \in [Connections -> Status]
    /\ left \in [Connections -> BOOLEAN]
    /\ outbox \in [Connections -> BOOLEAN]
    /\ inbox \in [Connections -> Nat]
    /\ sent \in [Connections -> Nat]

Init ==
    /\ mainAt = "loop" /\ mainConn = NoConn /\ chosen = NoHandler
    /\ scanned = {} /\ idleCounter = 0 /\ pool = {}
    /\ busy = [h \in Handlers |-> FALSE]
    /\ posted = [h \in Handlers |-> {}]
    /\ sock = [h \in Handlers |-> NoConn]
    /\ readTimer = [h \in Handlers |-> FALSE]
    /\ req = [h \in Handlers |-> {}]
    /\ pc = [h \in Handlers |-> "loop"]
    /\ closing = [h \in Handlers |-> FALSE]
    /\ inTimeout = [h \in Handlers |-> "no"]
    /\ status = [c \in Connections |-> "away"]
    /\ left = [c \in Connections |-> FALSE]
    /\ outbox = [c \in Connections |-> FALSE]
    /\ inbox = [c \in Connections |-> 0]
    /\ sent = [c \in Connections |-> 0]

-----------------------------------------------------------------------------
(* Pieces of several handlers.  A definition marked "mutant" is a wrong     *)
(* version of the one that follows it and is used by nothing here.         *)

\* Mutant: setBusy() does nothing.
SetBusyIgnored(h) == UNCHANGED busy
SetBusy(h) == busy' = [busy EXCEPT ![h] = TRUE]

\* Mutant: disconnected() forgets the flag.
ClearBusyForgotten(h) == UNCHANGED busy
ClearBusy(h) == busy' = [busy EXCEPT ![h] = FALSE]

\* Mutant: the timer is not started.
StartTimerForgotten(h) == UNCHANGED readTimer
StartTimer(h) == readTimer' = [readTimer EXCEPT ![h] = TRUE]
StopTimer(h) == readTimer' = [readTimer EXCEPT ![h] = FALSE]

\* Mutant: the request object is used again.
KeepRequest(h) == UNCHANGED req
\* delete currentRequest; currentRequest=nullptr
DeleteRequest(h) == req' = [req EXCEPT ![h] = {}]

\* Mutant: reads without asking for bytesAvailable().
AnyInput(h) == TRUE
HasInput(h) == inbox[sock[h]] > 0

\* Mutant: does not wait for bytesToWrite() to become 0.
WrittenOrNot(h) == TRUE
\* Mutant: waits until there is nothing left to read, too.
WrittenAndRead(h) == ~outbox[sock[h]] /\ inbox[sock[h]] = 0
Written(h) == ~outbox[sock[h]]

-----------------------------------------------------------------------------
(* Clients.  Each sends at most MaxInput[c] pieces of input; a piece is what  *)
(* one readFromSocket() call consumes, and the handler finds out which.    *)

Up == mainAt \notin {"closing", "stopped"}

Connect(c) ==
    /\ Up
    /\ status[c] = "away"
    /\ status' = [status EXCEPT ![c] = "backlog"]
    /\ UNCHANGED <<mainVars, busy, posted, sock, threadVars, clientVars>>

Send(c) ==
    /\ status[c] \in {"backlog", "accepted"} /\ ~left[c]
    /\ sent[c] < MaxInput[c]
    /\ sent' = [sent EXCEPT ![c] = @ + 1]
    /\ inbox' = [inbox EXCEPT ![c] = @ + 1]
    /\ UNCHANGED <<mainVars, busy, posted, sock, threadVars, status, left,
                   outbox>>

\* The operating system delivers what the server has written.
Transmit(c) ==
    /\ outbox[c]
    /\ outbox' = [outbox EXCEPT ![c] = FALSE]
    /\ UNCHANGED <<mainVars, busy, posted, sock, threadVars, status, left,
                   inbox, sent>>

Leave(c) ==
    /\ status[c] \in {"backlog", "accepted"} /\ ~left[c]
    /\ left' = [left EXCEPT ![c] = TRUE]
    /\ outbox' = [outbox EXCEPT ![c] = FALSE]
    /\ UNCHANGED <<mainVars, busy, posted, sock, threadVars, status, inbox,
                   sent>>

-----------------------------------------------------------------------------
(* Main thread: HttpListener::incomingConnection and                       *)
(* HttpConnectionHandlerPool::getConnectionHandler.                        *)

IncomingConnection(c) ==
    /\ mainAt = "loop"
    /\ status[c] = "backlog"
    /\ status' = [status EXCEPT ![c] = "accepted"]
    /\ mainAt' = "scan" /\ mainConn' = c /\ scanned' = {}
    /\ UNCHANGED <<chosen, idleCounter, pool, busy, posted, sock, threadVars,
                   clientVars>>

ScanBusy(h) ==
    /\ mainAt = "scan"
    /\ h \in pool \ scanned
    /\ busy[h]
    /\ scanned' = scanned \cup {h}
    /\ UNCHANGED <<mainAt, mainConn, chosen, idleCounter, pool, busy, posted,
                   sock, threadVars, status, clientVars>>

TakeIdle(h) ==
    /\ mainAt = "scan"
    /\ h \in pool \ scanned
    /\ ~busy[h]
    /\ SetBusy(h)
    /\ mainAt' = "post" /\ chosen' = h
    /\ UNCHANGED <<mainConn, scanned, idleCounter, pool, posted, sock,
                   threadVars, status, clientVars>>

\* Mutant: one handler too many.
RoomForOneMore == Cardinality(pool) <= MaxThreads
RoomForHandler == Cardinality(pool) < MaxThreads

CreateHandler(h) ==
    /\ mainAt = "scan"
    /\ pool \subseteq scanned
    /\ RoomForHandler
    /\ h \notin pool
    /\ pool' = pool \cup {h}
    /\ SetBusy(h)
    /\ mainAt' = "post" /\ chosen' = h
    /\ UNCHANGED <<mainConn, scanned, idleCounter, posted, sock, threadVars,
                   status, clientVars>>

\* QMetaObject::invokeMethod(freeHandler, "handleConnection", QueuedConnection)
PostConnection ==
    /\ mainAt = "post"
    /\ posted' = [posted EXCEPT ![chosen] = @ \cup {mainConn}]
    /\ mainAt' = "loop" /\ mainConn' = NoConn /\ chosen' = NoHandler
    /\ UNCHANGED <<scanned, idleCounter, pool, busy, sock, threadVars, status,
                   clientVars>>

\* Mutant: the 503 is forgotten and the socket with it.
RefuseSilently(c) == UNCHANGED status
Refuse(c) == status' = [status EXCEPT ![c] = "refused"]

\* No free handler: 503 on a socket of the main thread.
RejectConnection ==
    /\ mainAt = "scan"
    /\ pool \subseteq scanned
    /\ ~RoomForHandler
    /\ Refuse(mainConn)
    /\ mainAt' = "loop" /\ mainConn' = NoConn
    /\ UNCHANGED <<chosen, scanned, idleCounter, pool, busy, posted, sock,
                   threadVars, clientVars>>

-----------------------------------------------------------------------------
(* Main thread: HttpConnectionHandlerPool::cleanup.                        *)

CleanupTimeout ==
    /\ mainAt = "loop"
    /\ mainAt' = "cleanup" /\ scanned' = {} /\ idleCounter' = 0
    /\ UNCHANGED <<mainConn, chosen, pool, busy, posted, sock, threadVars,
                   status, clientVars>>

\* Mutant: one idle handler too few is kept.
ReachesMinThreads == idleCounter + 1 >= MinThreads
\* ++idleCounter > maxIdleHandlers
ExceedsMinThreads == idleCounter + 1 > MinThreads

CleanupPass(h) ==
    /\ mainAt = "cleanup"
    /\ h \in pool \ scanned
    /\ busy[h] \/ ~ExceedsMinThreads
    /\ scanned' = scanned \cup {h}
    /\ idleCounter' = IF busy[h] THEN idleCounter ELSE idleCounter + 1
    /\ UNCHANGED <<mainAt, mainConn, chosen, pool, busy, posted, sock,
                   threadVars, status, clientVars>>

\* delete handler: the destructor asks the thread to quit and waits for it.
CleanupDelete(h) ==
    /\ mainAt = "cleanup"
    /\ h \in pool \ scanned
    /\ ~busy[h] /\ ExceedsMinThreads
    /\ mainAt' = "join" /\ chosen' = h
    /\ UNCHANGED <<mainConn, scanned, idleCounter, pool, busy, posted, sock,
                   threadVars, status, clientVars>>

CleanupDone ==
    /\ mainAt = "cleanup"
    /\ pool \subseteq scanned
    /\ mainAt' = "loop"
    /\ UNCHANGED <<mainConn, chosen, scanned, idleCounter, pool, busy, posted,
                   sock, threadVars, status, clientVars>>

\* Mutant: the destructor does not wait for the thread.
ThreadAnywhere(h) == TRUE
\* quit() and wait() of the thread: its event loop has come round.
ThreadEnds(h) == pc[h] = "loop"

\* The event loop of h has ended and thread_done() has run: the object with
\* everything it holds is gone, and its events are discarded.
Destroy(h) ==
    /\ ThreadEnds(h)
    /\ pool' = pool \ {h}
    /\ ClearBusy(h)
    /\ posted' = [posted EXCEPT ![h] = {}]
    /\ sock' = [sock EXCEPT ![h] = NoConn]
    /\ StopTimer(h)
    /\ DeleteRequest(h)
    /\ status' = [c \in Connections |->
                    IF c = sock[h] THEN "closed"
                    ELSE IF c \in posted[h] THEN "dropped" ELSE status[c]]
    /\ inbox' = [c \in Connections |-> IF c = sock[h] THEN 0 ELSE inbox[c]]
    /\ UNCHANGED <<pc, closing, inTimeout, left, outbox, sent>>

JoinDeleted ==
    /\ mainAt = "join"
    /\ Destroy(chosen)
    /\ mainAt' = "loop" /\ chosen' = NoHandler
    /\ UNCHANGED <<mainConn, scanned, idleCounter>>

-----------------------------------------------------------------------------
(* Main thread: Startup::stop deletes the listener, which closes itself    *)
(* and deletes the pool handler by handler, and then ServerSettings.       *)

StopListening ==
    /\ mainAt = "loop"
    /\ mainAt' = "closing"
    /\ UNCHANGED <<mainConn, chosen, scanned, idleCounter, pool, busy, posted,
                   sock, threadVars, status, clientVars>>

DeleteHandler(h) ==
    /\ mainAt = "closing"
    /\ h \in pool
    /\ Destroy(h)
    /\ UNCHANGED <<mainAt, mainConn, chosen, scanned, idleCounter>>

DeleteSettings ==
    /\ mainAt = "closing"
    /\ pool = {}
    /\ mainAt' = "stopped"
    /\ UNCHANGED <<mainConn, chosen, scanned, idleCounter, pool, busy, posted,
                   sock, threadVars, status, clientVars>>

-----------------------------------------------------------------------------
(* Handler thread.                                                         *)

Goto(h, place) == pc' = [pc EXCEPT ![h] = place]

\* The socket of h loses its connection and emits disconnected(), whose slot
\* runs at once, also inside read() and readTimeout().
Disconnected(h) ==
    /\ sock' = [sock EXCEPT ![h] = NoConn]
    /\ StopTimer(h)
    /\ ClearBusy(h)
    /\ status' = [status EXCEPT ![sock[h]] = "closed"]
    /\ inbox' = [inbox EXCEPT ![sock[h]] = 0]

HandleConnection(h) ==
    /\ pc[h] = "loop"
    /\ \E c \in posted[h] \ FailingDescriptors :
         /\ posted' = [posted EXCEPT ![h] = @ \ {c}]
         /\ sock' = [sock EXCEPT ![h] = c]
    /\ SetBusy(h)
    /\ StartTimer(h)
    /\ DeleteRequest(h)
    /\ UNCHANGED <<mainVars, pc, closing, inTimeout, status, clientVars>>

\* setSocketDescriptor() fails: the early return leaves busy, the timer and
\* currentRequest as they are.
HandleConnectionFails(h) ==
    /\ pc[h] = "loop"
    /\ \E c \in posted[h] \cap FailingDescriptors :
         /\ posted' = [posted EXCEPT ![h] = @ \ {c}]
         /\ status' = [status EXCEPT ![c] = "dropped"]
    /\ SetBusy(h)
    /\ UNCHANGED <<mainVars, sock, threadVars, clientVars>>

\* Signal readyRead.  readTimeout() waits for written bytes in a loop whose
\* wait may emit readyRead too; a nested read() cannot be nested again.
CanRead(h) ==
    \/ pc[h] \in {"loop", "read"}
    \/ pc[h] = "flush" /\ inTimeout[h] = "waits" /\ ~Written(h)

\* One readFromSocket() call of read(), and what it makes of currentRequest.
Collect(h, result) ==
    /\ sock[h] # NoConn
    /\ CanRead(h)
    /\ HasInput(h)
    /\ inbox' = [inbox EXCEPT ![sock[h]] = @ - 1]
    /\ req' = [req EXCEPT ![h] = @ \cup {sock[h]}]
    /\ inTimeout' = [inTimeout EXCEPT ![h] =
                       IF pc[h] = "flush" THEN "reads" ELSE @]
    /\ result

\* waitForHeader or waitForBody; the latter restarts the timer.
ReadPart(h) ==
    /\ Collect(h, Goto(h, "read"))
    /\ StartTimer(h) \/ UNCHANGED readTimer
    /\ UNCHANGED <<mainVars, busy, posted, sock, closing, status, left, outbox,
                   sent>>

\* complete: the timer stops and the request handler is called.
ReadComplete(h) ==
    /\ Collect(h, Goto(h, "service"))
    /\ StopTimer(h)
    /\ \E close \in BOOLEAN : closing' = [closing EXCEPT ![h] = close]
    /\ UNCHANGED <<mainVars, busy, posted, sock, status, left, outbox, sent>>

\* abort: 413 is written, then the connection is closed.
ReadAbort(h) ==
    /\ Collect(h, Goto(h, "flush"))
    /\ outbox' = [outbox EXCEPT ![sock[h]] = ~left[sock[h]]]
    /\ UNCHANGED <<mainVars, busy, posted, sock, readTimer, closing, status,
                   left, sent>>

\* service() returned; the answer is in the write buffer of the socket.
Respond(h) ==
    /\ pc[h] = "service"
    /\ outbox' = [outbox EXCEPT ![sock[h]] = ~left[sock[h]]]
    /\ Goto(h, "answered")
    /\ UNCHANGED <<mainVars, busy, posted, sock, readTimer, req, closing,
                   inTimeout, status, left, inbox, sent>>

\* writeToSocket() waited for room in the buffer and met a closed connection.
RespondLost(h) ==
    /\ pc[h] = "service"
    /\ left[sock[h]]
    /\ Disconnected(h)
    /\ Goto(h, "answered")
    /\ UNCHANGED <<mainVars, posted, req, closing, inTimeout, left, outbox,
                   sent>>

CloseAnswered(h) ==
    /\ pc[h] = "answered" /\ closing[h]
    /\ Goto(h, "flush")
    /\ UNCHANGED <<mainVars, busy, posted, sock, readTimer, req, closing,
                   inTimeout, status, clientVars>>

\* Keep-alive: re-arm the timer, also when the connection is lost already.
KeepAlive(h) ==
    /\ pc[h] = "answered" /\ ~closing[h]
    /\ StartTimer(h)
    /\ DeleteRequest(h)
    /\ Goto(h, "read")
    /\ UNCHANGED <<mainVars, busy, posted, sock, closing, inTimeout, status,
                   clientVars>>

\* while(socket->bytesToWrite()) waitForBytesWritten(); disconnectFromHost().
\* On a socket that is no longer connected nothing happens.
DisconnectFromHost(h) ==
    /\ pc[h] = "flush"
    /\ IF sock[h] = NoConn
         THEN UNCHANGED <<sock, readTimer, busy, status, inbox>>
         ELSE Written(h) /\ Disconnected(h)
    /\ Goto(h, "release")
    /\ UNCHANGED <<mainVars, posted, req, closing, inTimeout, left, outbox,
                   sent>>

\* delete currentRequest; the slot returns, and the socket has no more bytes.
ReleaseRequest(h) ==
    /\ pc[h] = "release"
    /\ DeleteRequest(h)
    /\ inTimeout' = [inTimeout EXCEPT ![h] = "no"]
    /\ closing' = [closing EXCEPT ![h] = FALSE]
    /\ Goto(h, "loop")
    /\ UNCHANGED <<mainVars, busy, posted, sock, readTimer, status, clientVars>>

\* bytesAvailable() is 0: read() returns, to readTimeout() if that called it.
ReadReturns(h) ==
    /\ pc[h] = "read"
    /\ sock[h] # NoConn => inbox[sock[h]] = 0
    /\ Goto(h, IF inTimeout[h] = "reads" THEN "flush" ELSE "loop")
    /\ inTimeout' = [inTimeout EXCEPT ![h] =
                       IF @ = "reads" THEN "waits" ELSE @]
    /\ UNCHANGED <<mainVars, busy, posted, sock, readTimer, req, closing,
                   status, clientVars>>

\* Mutant: the timeout already clears busy.
ReadTimeoutFrees(h) ==
    /\ pc[h] = "loop" /\ readTimer[h]
    /\ StopTimer(h) /\ ClearBusy(h)
    /\ inTimeout' = [inTimeout EXCEPT ![h] = "waits"]
    /\ Goto(h, "flush")
    /\ UNCHANGED <<mainVars, posted, sock, req, closing, status, clientVars>>

\* The single-shot read timer fires.
ReadTimeout(h) ==
    /\ pc[h] = "loop" /\ readTimer[h]
    /\ StopTimer(h)
    /\ inTimeout' = [inTimeout EXCEPT ![h] = "waits"]
    /\ Goto(h, "flush")
    /\ UNCHANGED <<mainVars, busy, posted, sock, req, closing, status,
                   clientVars>>

\* The socket notices in the event loop that the client has left.
RemoteClosed(h) ==
    /\ pc[h] = "loop"
    /\ sock[h] # NoConn
    /\ left[sock[h]]
    /\ Disconnected(h)
    /\ UNCHANGED <<mainVars, posted, req, pc, closing, inTimeout, left, outbox,
                   sent>>

-----------------------------------------------------------------------------
ClientStep(c) == Connect(c) \/ Send(c) \/ Transmit(c) \/ Leave(c)

MainScan(h) == ScanBusy(h) \/ TakeIdle(h) \/ CreateHandler(h)

MainCleanup(h) == CleanupPass(h) \/ CleanupDelete(h)

MainProgress ==
    \/ \E c \in Connections : IncomingConnection(c)
    \/ \E h \in Handlers : MainScan(h) \/ MainCleanup(h) \/ DeleteHandler(h)
    \/ PostConnection \/ RejectConnection
    \/ CleanupDone \/ JoinDeleted \/ DeleteSettings

MainStep == MainProgress \/ CleanupTimeout \/ StopListening

ThreadStep(h) ==
    \/ HandleConnection(h) \/ HandleConnectionFails(h)
    \/ ReadPart(h) \/ ReadComplete(h) \/ ReadAbort(h)
    \/ Respond(h) \/ RespondLost(h) \/ CloseAnswered(h) \/ KeepAlive(h)
    \/ DisconnectFromHost(h) \/ ReleaseRequest(h) \/ ReadReturns(h)
    \/ ReadTimeout(h) \/ RemoteClosed(h)

Next ==
    \/ MainStep
    \/ \E h \in Handlers : ThreadStep(h)
    \/ \E c \in Connections : ClientStep(c)

Spec == Init /\ [][Next]_vars

(***************************************************************************)
(* Fairness.  A thread with something to run runs: the main thread, and    *)
(* every handler thread, in which an armed timer is one of the things to   *)
(* run.  The cleanup timer is periodic, and the event loop does not let it *)
(* starve the accept queue (strong fairness: a connection can be taken     *)
(* only between two cleanups).  Bytes written are delivered as long as the *)
(* client stays, which no timer of the server enforces.                    *)
(***************************************************************************)
Fairness ==
    /\ WF_vars(MainProgress)
    /\ WF_vars(CleanupTimeout)
    /\ \A h \in Handlers : WF_vars(ThreadStep(h))
    /\ \A c \in Connections : SF_vars(IncomingConnection(c))
    /\ \A c \in Connections : WF_vars(Transmit(c))

FairSpec == Spec /\ Fairness

-----------------------------------------------------------------------------
(* Safety.                                                                 *)

\* The connections handler h is responsible for.
Owned(h) == posted[h] \cup ({sock[h]} \ {NoConn})

\* The pool never holds more than maxThreads handlers: getConnectionHandler()
\* creates one only after a scan that other threads may overtake.
PoolBounded == Cardinality(pool) <= MaxThreads

\* A handler responsible for a connection is in the pool and busy, so that
\* neither cleanup() deletes it nor getConnectionHandler() gives it away,
\* although disconnected() clears busy without a lock in the middle of read().
OwnerIsBusy == \A h \in Handlers : Owned(h) # {} => h \in pool /\ busy[h]

\* No two handlers, and not the listener either, work on one connection; and
\* handleConnection() never meets a socket still open for another client (the
\* Q_ASSERT of httpconnectionhandler.cpp:84), nor a second posted event.
OneOwner ==
    /\ \A g, h \in Handlers : g # h => Owned(g) \cap Owned(h) = {}
    /\ \A h \in Handlers : mainConn \notin Owned(h)
    /\ \A h \in Handlers : \A c, d \in Owned(h) : c = d
    /\ \A h \in Handlers : posted[h] # {} => sock[h] = NoConn

\* The request handed to service() is made of bytes of the connection that
\* its answer goes to, although disconnected() keeps a half-read request.
RequestOfOneClient ==
    \A h \in Handlers :
        /\ sock[h] # NoConn => req[h] \subseteq {sock[h]}
        /\ pc[h] = "service" => sock[h] # NoConn /\ req[h] = {sock[h]}

\* Every accepted connection is in exactly the hands that will end it: the
\* listener's, or those of a handler (posted or connected).
NoConnectionForgotten ==
    \A c \in Connections :
        status[c] = "accepted" <=>
            c = mainConn \/ \E h \in Handlers : c \in Owned(h)

\* Startup::stop deletes ServerSettings after the listener: no handler may
\* still be inside service(), which uses it.
NoServiceAfterStop ==
    mainAt = "stopped" => \A h \in Handlers : pc[h] = "loop" /\ h \notin pool

\* What else makes these facts inductive: where the main thread is tells what
\* it holds, and nothing runs in a handler that is not in the pool.
MainInv ==
    /\ mainConn # NoConn <=> mainAt \in {"scan", "post"}
    /\ chosen # NoHandler <=> mainAt \in {"post", "join"}
    /\ chosen # NoHandler => chosen \in pool /\ Owned(chosen) = {}
    /\ mainAt = "post" => busy[chosen]
    /\ mainAt = "join" => ~busy[chosen]
    /\ mainAt = "stopped" => pool = {}

AbsentInv ==
    \A h \in Handlers \ pool :
        pc[h] = "loop" /\ ~readTimer[h] /\ Owned(h) = {} /\ req[h] = {}

IInv ==
    /\ TypeOK /\ MainInv /\ AbsentInv
    /\ OwnerIsBusy /\ OneOwner /\ RequestOfOneClient /\ NoConnectionForgotten

Idle == {h \in pool : ~busy[h]}

\* While the server runs, a handler is only removed when minThreads idle ones
\* remain: cleanup() counts flags that other threads change meanwhile.
KeepsMinThreads ==
    [][Up /\ ~(pool \subseteq pool') =>
         \E S \in SUBSET Idle' : Cardinality(S) = MinThreads]_vars

\* A handler marked busy is in use (httpconnectionhandler.h:67).
BusyMeansInUse ==
    \A h \in pool : busy[h] => Owned(h) # {} \/ chosen = h

-----------------------------------------------------------------------------
(* Liveness, under FairSpec.                                               *)

Ended == {"refused", "closed", "dropped"}

\* Every connection that is accepted comes to an end, the silent ones by the
\* read timer, and its place in the pool is free again.
ConnectionsEnd ==
    \A c \in Connections : status[c] = "accepted" ~> status[c] \in Ended

\* The main thread never waits forever for a handler thread, neither in
\* cleanup() nor when the service stops.
MainThreadReturns == [](mainAt # "loop" => <>(mainAt \in {"loop", "stopped"}))

\* When the clients are gone the pool shrinks to minThreads, one handler per
\* interval of the cleanup timer.
PoolShrinks == <>[](Cardinality(pool) <= MinThreads)
=============================================================================
