-------------------------- MODULE HttpPool_proofs --------------------------
(***************************************************************************)
(* Proofs about HttpPool, for any number of handlers and connections and   *)
(* any setting of maxThreads and minThreads, and that it implements        *)
(* ConnectionService.                                                      *)
(***************************************************************************)
EXTENDS HttpPoolRefinement, FiniteSetTheorems, TLAPS

USE DEF SetBusy, ClearBusy, StartTimer, StopTimer, DeleteRequest, HasInput, Written,
        Refuse, RoomForHandler, ExceedsMinThreads, ThreadEnds

USE PoolAssumption

LEMMA TypeInit == Init => TypeOK
BY DEF Init, TypeOK, MainPlaces, Places, Status

LEMMA TypeClient ==
  ASSUME TypeOK, NEW c \in Connections, ClientStep(c)
  PROVE  TypeOK'
<1> USE DEF TypeOK, Status, mainVars, threadVars, clientVars
<1>1. CASE Connect(c)
  BY <1>1 DEF Connect
<1>2. CASE Send(c)
  BY <1>2 DEF Send
<1>3. CASE Transmit(c)
  BY <1>3 DEF Transmit
<1>4. CASE Leave(c)
  BY <1>4 DEF Leave
<1> QED
  BY <1>1, <1>2, <1>3, <1>4 DEF ClientStep

LEMMA TypeDestroy ==
  ASSUME TypeOK, NEW h \in Handlers, Destroy(h),
         mainAt' \in MainPlaces, chosen' \in Handlers \cup {NoHandler},
         UNCHANGED <<mainConn, scanned, idleCounter>>
  PROVE  TypeOK'
BY DEF TypeOK, Destroy, Status

LEMMA TypeMain ==
  ASSUME TypeOK, MainInv, MainStep
  PROVE  TypeOK'
<1> USE DEF TypeOK, MainPlaces, threadVars, clientVars
<1>1. ASSUME NEW c \in Connections, IncomingConnection(c)
      PROVE  TypeOK'
  BY <1>1 DEF IncomingConnection, Status
<1>2. ASSUME NEW h \in Handlers, MainScan(h)
      PROVE  TypeOK'
  <2>1. CASE ScanBusy(h)
    BY <2>1 DEF ScanBusy
  <2>2. CASE TakeIdle(h)
    BY <2>2 DEF TakeIdle
  <2>3. CASE CreateHandler(h)
    BY <2>3 DEF CreateHandler
  <2> QED
    BY <1>2, <2>1, <2>2, <2>3 DEF MainScan
<1>3. ASSUME NEW h \in Handlers, MainCleanup(h)
      PROVE  TypeOK'
  <2>1. CASE CleanupPass(h)
    BY <2>1 DEF CleanupPass
  <2>2. CASE CleanupDelete(h)
    BY <2>2 DEF CleanupDelete
  <2> QED
    BY <1>3, <2>1, <2>2 DEF MainCleanup
<1>4. CASE PostConnection
  BY <1>4 DEF PostConnection, MainInv
<1>5. CASE RejectConnection
  BY <1>5 DEF RejectConnection, Status, MainInv
<1>6. CASE CleanupTimeout \/ CleanupDone \/ StopListening \/ DeleteSettings
  BY <1>6 DEF CleanupTimeout, CleanupDone, StopListening, DeleteSettings
<1>7. CASE JoinDeleted
  <2>1. chosen \in Handlers
    BY <1>7 DEF JoinDeleted, MainInv
  <2> QED
    BY <1>7, <2>1, TypeDestroy DEF JoinDeleted
<1>8. ASSUME NEW h \in Handlers, DeleteHandler(h)
      PROVE  TypeOK'
  BY <1>8, TypeDestroy DEF DeleteHandler
<1> QED
  BY <1>1, <1>2, <1>3, <1>4, <1>5, <1>6, <1>7, <1>8
     DEF MainStep, MainProgress

LEMMA TypeThread ==
  ASSUME TypeOK, NEW h \in Handlers, ThreadStep(h)
  PROVE  TypeOK'
<1> USE DEF TypeOK, Places, mainVars, threadVars, clientVars, Goto
<1>1. CASE HandleConnection(h)
  BY <1>1 DEF HandleConnection
<1>2. CASE HandleConnectionFails(h)
  BY <1>2 DEF HandleConnectionFails, Status
<1>3. CASE ReadPart(h)
  <2>1. readTimer' \in [Handlers -> BOOLEAN]
    BY <1>3 DEF ReadPart
  <2>2. /\ inbox' \in [Connections -> Nat]
        /\ req' \in [Handlers -> SUBSET Connections]
        /\ inTimeout' \in [Handlers -> {"no", "waits", "reads"}]
        /\ pc' \in [Handlers -> Places]
    BY <1>3 DEF ReadPart, Collect
  <2>3. UNCHANGED <<mainVars, busy, posted, sock, closing, status, left,
                    outbox, sent>>
    BY <1>3 DEF ReadPart
  <2> QED
    BY <2>1, <2>2, <2>3
<1>4. CASE ReadComplete(h)
  BY <1>4 DEF ReadComplete, Collect
<1>5. CASE ReadAbort(h)
  BY <1>5 DEF ReadAbort, Collect
<1>6. CASE Respond(h)
  BY <1>6 DEF Respond
<1>7. CASE RespondLost(h)
  BY <1>7 DEF RespondLost, Disconnected, Status
<1>8. CASE CloseAnswered(h)
  BY <1>8 DEF CloseAnswered
<1>9. CASE KeepAlive(h)
  BY <1>9 DEF KeepAlive
<1>10. CASE DisconnectFromHost(h)
  <2>1. CASE sock[h] = NoConn
    <3>1. /\ UNCHANGED <<sock, readTimer, busy, status, inbox>>
          /\ pc' = [pc EXCEPT ![h] = "release"]
      BY <1>10, <2>1 DEF DisconnectFromHost
    <3>2. UNCHANGED <<mainVars, posted, req, closing, inTimeout, left,
                      outbox, sent>>
      BY <1>10 DEF DisconnectFromHost
    <3> QED
      BY <3>1, <3>2
  <2>2. CASE sock[h] # NoConn
    <3>1. Disconnected(h) /\ pc' = [pc EXCEPT ![h] = "release"]
      BY <1>10, <2>2 DEF DisconnectFromHost
    <3>2. UNCHANGED <<mainVars, posted, req, closing, inTimeout, left,
                      outbox, sent>>
      BY <1>10 DEF DisconnectFromHost
    <3> QED
      BY <3>1, <3>2 DEF Disconnected, Status
  <2> QED
    BY <2>1, <2>2
<1>11. CASE ReleaseRequest(h)
  BY <1>11 DEF ReleaseRequest
<1>12. CASE ReadReturns(h)
  BY <1>12 DEF ReadReturns
<1>13. CASE ReadTimeout(h)
  BY <1>13 DEF ReadTimeout
<1>14. CASE RemoteClosed(h)
  BY <1>14 DEF RemoteClosed, Disconnected, Status
<1> QED
  BY <1>1, <1>2, <1>3, <1>4, <1>5, <1>6, <1>7, <1>8, <1>9, <1>10, <1>11,
     <1>12, <1>13, <1>14 DEF ThreadStep

LEMMA TypeStep == TypeOK /\ MainInv /\ [Next]_vars => TypeOK'
<1> SUFFICES ASSUME TypeOK, MainInv, [Next]_vars
             PROVE  TypeOK'
  OBVIOUS
<1>1. CASE UNCHANGED vars
  BY <1>1 DEF TypeOK, vars, mainVars, threadVars, clientVars
<1> QED
  BY <1>1, TypeMain, TypeThread, TypeClient DEF Next

-----------------------------------------------------------------------------
(* What a step of a handler thread does to the ownership of connections:   *)
(* nothing, or it adopts a posted connection, fails to adopt it, or hangs  *)
(* up.                                                                     *)

Quiet == UNCHANGED <<busy, posted, sock, status>>

Adopts(h) ==
    /\ \E c \in posted[h] : /\ posted' = [posted EXCEPT ![h] = @ \ {c}]
                           /\ sock' = [sock EXCEPT ![h] = c]
    /\ busy' = [busy EXCEPT ![h] = TRUE]
    /\ status' = status

Drops(h) ==
    /\ \E c \in posted[h] : /\ posted' = [posted EXCEPT ![h] = @ \ {c}]
                           /\ status' = [status EXCEPT ![c] = "dropped"]
    /\ busy' = [busy EXCEPT ![h] = TRUE]
    /\ sock' = sock

HangsUp(h) ==
    /\ sock[h] # NoConn
    /\ sock' = [sock EXCEPT ![h] = NoConn]
    /\ busy' = [busy EXCEPT ![h] = FALSE]
    /\ status' = [status EXCEPT ![sock[h]] = "closed"]
    /\ posted' = posted

LEMMA ThreadEffect ==
  ASSUME TypeOK, NEW h \in Handlers, ThreadStep(h),
         pc[h] = "service" => sock[h] # NoConn
  PROVE  /\ UNCHANGED mainVars
         /\ Quiet \/ Adopts(h) \/ Drops(h) \/ HangsUp(h)
<1>1. CASE HandleConnection(h)
  BY <1>1 DEF HandleConnection, Adopts
<1>2. CASE HandleConnectionFails(h)
  BY <1>2 DEF HandleConnectionFails, Drops
<1>3. CASE ReadPart(h) \/ ReadComplete(h) \/ ReadAbort(h)
  BY <1>3 DEF ReadPart, ReadComplete, ReadAbort, Quiet
<1>4. CASE Respond(h) \/ CloseAnswered(h) \/ KeepAlive(h)
  BY <1>4 DEF Respond, CloseAnswered, KeepAlive, Quiet
<1>5. CASE RespondLost(h)
  BY <1>5 DEF RespondLost, Disconnected, HangsUp
<1>6. CASE DisconnectFromHost(h)
  BY <1>6 DEF DisconnectFromHost, Disconnected, HangsUp, Quiet
<1>7. CASE ReleaseRequest(h) \/ ReadReturns(h) \/ ReadTimeout(h)
  BY <1>7 DEF ReleaseRequest, ReadReturns, ReadTimeout, Quiet
<1>8. CASE RemoteClosed(h)
  BY <1>8 DEF RemoteClosed, Disconnected, HangsUp
<1> QED
  BY <1>1, <1>2, <1>3, <1>4, <1>5, <1>6, <1>7, <1>8 DEF ThreadStep

\* Only handlers of the pool have anything to run.
LEMMA ThreadInPool ==
  ASSUME TypeOK, AbsentInv, NEW h \in Handlers, ThreadStep(h)
  PROVE  h \in pool
<1> SUFFICES ASSUME h \notin pool
             PROVE  FALSE
  OBVIOUS
<1>1. /\ pc[h] = "loop" /\ ~readTimer[h]
      /\ posted[h] = {} /\ sock[h] = NoConn
  BY DEF AbsentInv, Owned
<1> QED
  BY <1>1 DEF ThreadStep, HandleConnection, HandleConnectionFails, ReadPart,
     ReadComplete, ReadAbort, Collect, Respond, RespondLost, CloseAnswered,
     KeepAlive, DisconnectFromHost, ReleaseRequest, ReadReturns, ReadTimeout,
     RemoteClosed

\* A step of one handler thread leaves the variables of the others alone.
LEMMA ThreadLocal ==
  ASSUME TypeOK, NEW h \in Handlers, ThreadStep(h),
         NEW g \in Handlers, g # h
  PROVE  /\ pc'[g] = pc[g] /\ readTimer'[g] = readTimer[g]
         /\ req'[g] = req[g]
<1> USE DEF TypeOK, Goto
<1>1. CASE HandleConnection(h) \/ HandleConnectionFails(h)
  BY <1>1 DEF HandleConnection, HandleConnectionFails, threadVars
<1>2. CASE ReadPart(h)
  BY <1>2 DEF ReadPart, Collect
<1>3. CASE ReadComplete(h) \/ ReadAbort(h)
  BY <1>3 DEF ReadComplete, ReadAbort, Collect
<1>4. CASE Respond(h) \/ CloseAnswered(h) \/ KeepAlive(h)
  BY <1>4 DEF Respond, CloseAnswered, KeepAlive
<1>5. CASE RespondLost(h) \/ RemoteClosed(h)
  BY <1>5 DEF RespondLost, RemoteClosed, Disconnected
<1>6. CASE DisconnectFromHost(h)
  BY <1>6 DEF DisconnectFromHost, Disconnected
<1>7. CASE ReleaseRequest(h) \/ ReadReturns(h) \/ ReadTimeout(h)
  BY <1>7 DEF ReleaseRequest, ReadReturns, ReadTimeout
<1> QED
  BY <1>1, <1>2, <1>3, <1>4, <1>5, <1>6, <1>7 DEF ThreadStep

-----------------------------------------------------------------------------
(* Who owns which connection.                                              *)

Ownership == MainInv /\ OwnerIsBusy /\ OneOwner /\ NoConnectionForgotten

LEMMA OwnershipThread ==
  ASSUME TypeOK, AbsentInv, Ownership, NEW h \in Handlers, ThreadStep(h),
         pc[h] = "service" => sock[h] # NoConn
  PROVE  Ownership'
<1> USE DEF TypeOK, Ownership
<1>1. h \in pool
  BY ThreadInPool
<1>2. UNCHANGED mainVars /\ (Quiet \/ Adopts(h) \/ Drops(h) \/ HangsUp(h))
  BY ThreadEffect
<1>3. CASE Quiet
  <2>1. \A g \in Handlers : Owned(g)' = Owned(g)
    BY <1>3 DEF Quiet, Owned
  <2>2. MainInv' /\ OwnerIsBusy' /\ NoConnectionForgotten'
    BY <1>2, <1>3, <2>1
       DEF Quiet, mainVars, MainInv, OwnerIsBusy, NoConnectionForgotten
  <2>3. OneOwner'
    BY <1>2, <1>3, <2>1 DEF Quiet, mainVars, OneOwner
  <2> QED
    BY <2>2, <2>3
<1>4. CASE Adopts(h)
  <2>1. PICK c \in posted[h] : /\ posted' = [posted EXCEPT ![h] = @ \ {c}]
                               /\ sock' = [sock EXCEPT ![h] = c]
    BY <1>4 DEF Adopts
  <2>2. sock[h] = NoConn /\ posted[h] = {c} /\ c \in Connections /\ busy[h]
    BY <2>1 DEF OneOwner, OwnerIsBusy, Owned
  <2>3. Owned(h)' = {c} /\ Owned(h) = {c}
    BY <2>1, <2>2 DEF Owned
  <2>4. \A g \in Handlers : Owned(g)' = Owned(g)
    BY <2>1, <2>3 DEF Owned
  <2>5. busy' = busy /\ status' = status
    BY <1>4, <2>2 DEF Adopts
  <2>6. MainInv'
    BY <1>2, <2>4, <2>5 DEF MainInv, mainVars
  <2>7. OwnerIsBusy' /\ NoConnectionForgotten'
    BY <1>2, <2>4, <2>5 DEF OwnerIsBusy, NoConnectionForgotten, mainVars
  <2>8. OneOwner'
    BY <1>2, <2>1, <2>2, <2>4 DEF OneOwner, mainVars
  <2> QED
    BY <2>6, <2>7, <2>8
<1>5. CASE Drops(h)
  <2>1. PICK c \in posted[h] : /\ posted' = [posted EXCEPT ![h] = @ \ {c}]
                               /\ status' = [status EXCEPT ![c] = "dropped"]
    BY <1>5 DEF Drops
  <2>2. sock[h] = NoConn /\ posted[h] = {c} /\ c \in Connections /\ busy[h]
    BY <2>1 DEF OneOwner, OwnerIsBusy, Owned
  <2>3. busy' = busy /\ sock' = sock
    BY <1>5, <2>2 DEF Drops
  <2>4. Owned(h)' = {} /\ Owned(h) = {c}
    BY <2>1, <2>2, <2>3 DEF Owned
  <2>5. \A g \in Handlers : g # h => Owned(g)' = Owned(g)
    BY <2>1, <2>3 DEF Owned
  <2>6. MainInv'
    BY <1>2, <2>3, <2>4, <2>5 DEF MainInv, mainVars
  <2>7. OwnerIsBusy'
    BY <1>2, <2>3, <2>4, <2>5 DEF OwnerIsBusy, mainVars
  <2>8. OneOwner'
    BY <1>2, <2>1, <2>2, <2>3, <2>4, <2>5 DEF OneOwner, mainVars
  <2>9. NoConnectionForgotten'
    BY <1>2, <2>1, <2>2, <2>4, <2>5
       DEF NoConnectionForgotten, OneOwner, mainVars
  <2> QED
    BY <2>6, <2>7, <2>8, <2>9
<1>6. CASE HangsUp(h)
  <2>1. posted[h] = {} /\ sock[h] \in Connections /\ Owned(h) = {sock[h]}
    BY <1>6 DEF HangsUp, OneOwner, Owned
  <2>2. Owned(h)' = {}
    BY <1>6, <2>1 DEF HangsUp, Owned
  <2>3. \A g \in Handlers : g # h => Owned(g)' = Owned(g) /\ busy'[g] = busy[g]
    BY <1>6 DEF HangsUp, Owned
  <2>4. MainInv'
    <3>1. chosen # h
      BY <2>1 DEF MainInv
    <3> QED
      BY <1>2, <2>2, <2>3, <3>1 DEF MainInv, mainVars
  <2>5. OwnerIsBusy'
    BY <1>2, <2>2, <2>3 DEF OwnerIsBusy, mainVars
  <2>6. OneOwner'
    <3>1. \A g \in Handlers : posted'[g] # {} => sock'[g] = NoConn
      BY <1>6 DEF HangsUp, OneOwner
    <3> QED
      BY <1>2, <2>2, <2>3, <3>1, SMTT(30) DEF OneOwner, mainVars
  <2>7. NoConnectionForgotten'
    <3>1. \A c \in Connections :
            status'[c] = IF c = sock[h] THEN "closed" ELSE status[c]
      BY <1>6 DEF HangsUp
    <3> QED
      BY <1>2, <2>1, <2>2, <2>3, <3>1
         DEF NoConnectionForgotten, OneOwner, mainVars
  <2> QED
    BY <2>4, <2>5, <2>6, <2>7
<1> QED
  BY <1>2, <1>3, <1>4, <1>5, <1>6

LEMMA OwnershipClient ==
  ASSUME TypeOK, Ownership, NEW d \in Connections, ClientStep(d)
  PROVE  Ownership'
<1> USE DEF TypeOK, Ownership
<1>1. UNCHANGED <<mainVars, busy, posted, sock>>
  BY DEF ClientStep, Connect, Send, Transmit, Leave
<1>2. \A h \in Handlers : Owned(h)' = Owned(h)
  BY <1>1 DEF Owned
<1>3. MainInv' /\ OwnerIsBusy'
  BY <1>1, <1>2 DEF MainInv, OwnerIsBusy, mainVars
<1>4. OneOwner'
  BY <1>1, <1>2 DEF OneOwner, mainVars
<1>5. NoConnectionForgotten'
  <2>1. \A c \in Connections : status'[c] = "accepted" <=> status[c] = "accepted"
    <3>1. CASE Connect(d)
      BY <3>1 DEF Connect
    <3>2. CASE Send(d) \/ Transmit(d) \/ Leave(d)
      BY <3>2 DEF Send, Transmit, Leave
    <3> QED
      BY <3>1, <3>2 DEF ClientStep
  <2> QED
    BY <1>1, <1>2, <2>1 DEF NoConnectionForgotten, mainVars
<1> QED
  BY <1>3, <1>4, <1>5

\* Deleting an idle or, when the server stops, any handler ends exactly the
\* connections it owns.
LEMMA OwnershipDestroy ==
  ASSUME TypeOK, Ownership, NEW h \in Handlers, Destroy(h),
         UNCHANGED mainConn
  PROVE  /\ OwnerIsBusy' /\ OneOwner' /\ NoConnectionForgotten'
         /\ \A g \in Handlers : g # h => Owned(g)' = Owned(g)
         /\ Owned(h)' = {}
<1> USE DEF TypeOK, Ownership
<1>1. Owned(h)' = {}
  BY DEF Destroy, Owned
<1>2. \A g \in Handlers : g # h => Owned(g)' = Owned(g) /\ busy'[g] = busy[g]
                                   /\ (g \in pool' <=> g \in pool)
  BY DEF Destroy, Owned
<1>3. OwnerIsBusy'
  BY <1>1, <1>2 DEF OwnerIsBusy
<1>4. OneOwner'
  <2>1. \A g \in Handlers : posted'[g] # {} => sock'[g] = NoConn
    BY DEF Destroy, OneOwner
  <2> QED
    BY <1>1, <1>2, <2>1, SMTT(30) DEF OneOwner
<1>5. NoConnectionForgotten'
  <2>1. \A c \in Connections : status'[c] = "accepted" <=>
          status[c] = "accepted" /\ c \notin Owned(h)
    BY DEF Destroy, Owned
  <2> QED
    BY <1>1, <1>2, <2>1 DEF NoConnectionForgotten, OneOwner
<1> QED
  BY <1>1, <1>2, <1>3, <1>4, <1>5

LEMMA OwnershipMain ==
  ASSUME TypeOK, AbsentInv, Ownership, MainStep
  PROVE  Ownership'
<1> USE DEF TypeOK, Ownership
<1>1. ASSUME NEW c \in Connections, IncomingConnection(c)
      PROVE  Ownership'
  <2>1. \A h \in Handlers : Owned(h)' = Owned(h)
    BY <1>1 DEF IncomingConnection, Owned
  <2>2. c # mainConn /\ \A h \in Handlers : c \notin Owned(h)
    BY <1>1 DEF IncomingConnection, NoConnectionForgotten
  <2>3. MainInv' /\ OwnerIsBusy'
    BY <1>1, <2>1 DEF IncomingConnection, MainInv, OwnerIsBusy
  <2>4. OneOwner'
    BY <1>1, <2>1, <2>2 DEF IncomingConnection, OneOwner
  <2>5. NoConnectionForgotten'
    BY <1>1, <2>1, <2>2 DEF IncomingConnection, NoConnectionForgotten, MainInv
  <2> QED
    BY <2>3, <2>4, <2>5
<1>2. ASSUME NEW h \in Handlers,
             TakeIdle(h) \/ CreateHandler(h)
      PROVE  Ownership'
  <2>1. \A g \in Handlers : Owned(g)' = Owned(g)
    BY <1>2 DEF TakeIdle, CreateHandler, Owned
  <2>2. Owned(h) = {}
    BY <1>2 DEF TakeIdle, CreateHandler, OwnerIsBusy
  <2>3. /\ mainAt = "scan" /\ mainAt' = "post" /\ chosen' = h
        /\ h \in pool' /\ pool \subseteq pool'
        /\ busy' = [busy EXCEPT ![h] = TRUE]
        /\ UNCHANGED <<mainConn, posted, sock, status>>
    BY <1>2 DEF TakeIdle, CreateHandler
  <2>4. MainInv'
    BY <2>1, <2>2, <2>3 DEF MainInv
  <2>5. OwnerIsBusy'
    BY <2>1, <2>3 DEF OwnerIsBusy
  <2>6. OneOwner' /\ NoConnectionForgotten'
    BY <2>1, <2>3 DEF OneOwner, NoConnectionForgotten
  <2> QED
    BY <2>4, <2>5, <2>6
<1>3. CASE PostConnection
  <2>1. PICK h \in Handlers : h = chosen
    BY <1>3 DEF PostConnection, MainInv
  <2>2. /\ h \in pool /\ busy[h] /\ posted[h] = {} /\ sock[h] = NoConn
        /\ mainConn \in Connections
    BY <1>3, <2>1 DEF PostConnection, MainInv, Owned
  <2>3. Owned(h)' = {mainConn}
    BY <1>3, <2>1, <2>2 DEF PostConnection, Owned
  <2>4. \A g \in Handlers : g # h => Owned(g)' = Owned(g)
    BY <1>3, <2>1 DEF PostConnection, Owned
  <2>5. MainInv'
    BY <1>3 DEF PostConnection, MainInv
  <2>6. OwnerIsBusy'
    BY <1>3, <2>2, <2>4 DEF PostConnection, OwnerIsBusy
  <2>7. OneOwner'
    <3>1. \A g \in Handlers : posted'[g] # {} => sock'[g] = NoConn
      BY <1>3, <2>1, <2>2 DEF PostConnection, OneOwner
    <3>2. \A g \in Handlers : g # h => mainConn \notin Owned(g)'
      BY <2>4 DEF OneOwner
    <3>3. mainConn' = NoConn
      BY <1>3 DEF PostConnection
    <3>4. \A g \in Handlers : NoConn \notin Owned(g)'
      BY <2>2, <2>3, <2>4 DEF Owned
    <3> QED
      BY <2>3, <2>4, <3>1, <3>2, <3>3, <3>4 DEF OneOwner
  <2>8. NoConnectionForgotten'
    <3>1. UNCHANGED status /\ mainConn' = NoConn
      BY <1>3 DEF PostConnection
    <3>2. \A c \in Connections :
            (\E g \in Handlers : c \in Owned(g)') <=>
               c = mainConn \/ \E g \in Handlers : c \in Owned(g)
      BY <2>2, <2>3, <2>4 DEF Owned
    <3> QED
      BY <3>1, <3>2 DEF NoConnectionForgotten
  <2> QED
    BY <2>5, <2>6, <2>7, <2>8
<1>4. CASE RejectConnection
  <2>1. \A g \in Handlers : Owned(g)' = Owned(g)
    BY <1>4 DEF RejectConnection, Owned
  <2>2. mainConn \in Connections /\ mainConn' = NoConn
    BY <1>4 DEF RejectConnection, MainInv
  <2>3. MainInv'
    BY <1>4, <2>1, <2>2 DEF RejectConnection, MainInv
  <2>6. OwnerIsBusy'
    BY <1>4, <2>1 DEF RejectConnection, OwnerIsBusy
  <2>4. OneOwner'
    <3>1. \A g \in Handlers : NoConn \notin Owned(g)
      BY DEF Owned
    <3> QED
      BY <1>4, <2>1, <2>2, <3>1 DEF RejectConnection, OneOwner
  <2>5. NoConnectionForgotten'
    BY <1>4, <2>1, <2>2
       DEF RejectConnection, NoConnectionForgotten, OneOwner
  <2> QED
    BY <2>3, <2>4, <2>5, <2>6
<1>5. ASSUME NEW h \in Handlers, ScanBusy(h) \/ CleanupPass(h)
      PROVE  Ownership'
  <2>1. \A g \in Handlers : Owned(g)' = Owned(g)
    BY <1>5 DEF ScanBusy, CleanupPass, Owned
  <2>2. UNCHANGED <<mainAt, mainConn, chosen, pool, busy, posted, sock, status>>
    BY <1>5 DEF ScanBusy, CleanupPass
  <2> QED
    BY <2>1, <2>2 DEF MainInv, OwnerIsBusy, OneOwner, NoConnectionForgotten
<1>6. ASSUME NEW h \in Handlers, CleanupDelete(h)
      PROVE  Ownership'
  <2>1. \A g \in Handlers : Owned(g)' = Owned(g)
    BY <1>6 DEF CleanupDelete, Owned
  <2>2. MainInv'
    BY <1>6, <2>1 DEF CleanupDelete, MainInv, OwnerIsBusy
  <2>3. OwnerIsBusy' /\ OneOwner' /\ NoConnectionForgotten'
    BY <1>6, <2>1
       DEF CleanupDelete, OwnerIsBusy, OneOwner, NoConnectionForgotten
  <2> QED
    BY <2>2, <2>3
<1>7. CASE CleanupTimeout \/ CleanupDone \/ StopListening \/ DeleteSettings
  <2>1. \A g \in Handlers : Owned(g)' = Owned(g)
    BY <1>7 DEF CleanupTimeout, CleanupDone, StopListening, DeleteSettings,
       Owned
  <2>2. MainInv'
    BY <1>7, <2>1 DEF CleanupTimeout, CleanupDone, StopListening,
       DeleteSettings, MainInv
  <2>3. UNCHANGED <<mainConn, pool, busy, posted, sock, status>>
    BY <1>7 DEF CleanupTimeout, CleanupDone, StopListening, DeleteSettings
  <2>4. OwnerIsBusy' /\ OneOwner' /\ NoConnectionForgotten'
    BY <2>1, <2>3 DEF OwnerIsBusy, OneOwner, NoConnectionForgotten
  <2> QED
    BY <2>2, <2>4
<1>8. CASE JoinDeleted
  <2>1. /\ chosen \in Handlers /\ Destroy(chosen) /\ UNCHANGED mainConn
        /\ mainAt = "join" /\ mainAt' = "loop" /\ chosen' = NoHandler
    BY <1>8 DEF JoinDeleted, MainInv
  <2>2. MainInv'
    BY <2>1 DEF MainInv
  <2> QED
    BY <2>1, <2>2, OwnershipDestroy
<1>9. ASSUME NEW h \in Handlers, DeleteHandler(h)
      PROVE  Ownership'
  <2>1. /\ Destroy(h) /\ mainAt = "closing"
        /\ UNCHANGED <<mainAt, mainConn, chosen>>
    BY <1>9 DEF DeleteHandler
  <2>2. MainInv'
    BY <2>1 DEF MainInv
  <2> QED
    BY <2>1, <2>2, OwnershipDestroy
<1> QED
  BY <1>1, <1>2, <1>3, <1>4, <1>5, <1>6, <1>7, <1>8, <1>9
     DEF MainStep, MainProgress, MainScan, MainCleanup

-----------------------------------------------------------------------------
(* Deleted handlers stay silent, and a request stays with its connection.  *)

LEMMA AbsentStep ==
  ASSUME TypeOK, AbsentInv, Ownership, RequestOfOneClient, [Next]_vars
  PROVE  AbsentInv'
<1> USE DEF TypeOK, AbsentInv, Owned
<1>1. ASSUME NEW h \in Handlers, ThreadStep(h)
      PROVE  AbsentInv'
  <2>1. h \in pool
    BY <1>1, ThreadInPool
  <2>2. /\ UNCHANGED pool
        /\ \A g \in Handlers : g # h =>
              posted'[g] = posted[g] /\ sock'[g] = sock[g]
    BY <1>1, ThreadEffect
       DEF RequestOfOneClient, mainVars, Quiet, Adopts, Drops, HangsUp
  <2> QED
    BY <1>1, <2>1, <2>2, ThreadLocal
<1>2. ASSUME NEW c \in Connections, ClientStep(c)
      PROVE  AbsentInv'
  BY <1>2 DEF ClientStep, Connect, Send, Transmit, Leave, threadVars, mainVars
<1>3. ASSUME NEW h \in Handlers, Destroy(h)
      PROVE  AbsentInv'
  BY <1>3 DEF Destroy
<1>4. CASE MainStep
  <2>1. ASSUME NEW c \in Connections, IncomingConnection(c)
        PROVE  AbsentInv'
    BY <2>1 DEF IncomingConnection, threadVars
  <2>2. ASSUME NEW h \in Handlers, MainScan(h) \/ MainCleanup(h)
        PROVE  AbsentInv'
    BY <2>2 DEF MainScan, MainCleanup, ScanBusy, TakeIdle, CreateHandler,
       CleanupPass, CleanupDelete, threadVars
  <2>3. CASE PostConnection
    BY <2>3 DEF PostConnection, threadVars, Ownership, MainInv
  <2>4. CASE \/ RejectConnection \/ CleanupTimeout \/ CleanupDone
             \/ StopListening \/ DeleteSettings
    BY <2>4 DEF RejectConnection, CleanupTimeout, CleanupDone, StopListening,
       DeleteSettings, threadVars
  <2>5. CASE JoinDeleted
    BY <2>5, <1>3 DEF JoinDeleted, Ownership, MainInv
  <2>6. ASSUME NEW h \in Handlers, DeleteHandler(h)
        PROVE  AbsentInv'
    BY <2>6, <1>3 DEF DeleteHandler
  <2> QED
    BY <1>4, <2>1, <2>2, <2>3, <2>4, <2>5, <2>6 DEF MainStep, MainProgress
<1>5. CASE UNCHANGED vars
  BY <1>5 DEF vars, mainVars, threadVars
<1> QED
  BY <1>1, <1>2, <1>4, <1>5 DEF Next

LEMMA RequestThread ==
  ASSUME TypeOK, Ownership, RequestOfOneClient,
         NEW h \in Handlers, ThreadStep(h)
  PROVE  RequestOfOneClient'
<1> USE DEF TypeOK, Goto
<1>1. ASSUME NEW g \in Handlers, g # h
      PROVE  sock'[g] = sock[g] /\ pc'[g] = pc[g] /\ req'[g] = req[g]
  BY <1>1, ThreadEffect, ThreadLocal
     DEF RequestOfOneClient, Quiet, Adopts, Drops, HangsUp
<1> DEFINE One == /\ sock'[h] # NoConn => req'[h] \subseteq {sock'[h]}
                  /\ pc'[h] = "service" => /\ sock'[h] # NoConn
                                           /\ req'[h] = {sock'[h]}
<1>2. ASSUME HandleConnection(h) PROVE One
  BY <1>2 DEF HandleConnection
<1>3. ASSUME HandleConnectionFails(h) PROVE One
  BY <1>3 DEF HandleConnectionFails, threadVars, RequestOfOneClient
<1>4. ASSUME ReadPart(h) \/ ReadAbort(h) PROVE One
  <2>1. /\ sock'[h] = sock[h] /\ req'[h] = req[h] \cup {sock[h]}
        /\ sock[h] # NoConn /\ pc'[h] \in {"read", "flush"}
    BY <1>4 DEF ReadPart, ReadAbort, Collect
  <2> QED
    BY <2>1 DEF RequestOfOneClient
<1>5. ASSUME ReadComplete(h) PROVE One
  <2>1. /\ sock'[h] = sock[h] /\ req'[h] = req[h] \cup {sock[h]}
        /\ sock[h] # NoConn
    BY <1>5 DEF ReadComplete, Collect
  <2> QED
    BY <2>1 DEF RequestOfOneClient
<1>6. ASSUME Respond(h) \/ CloseAnswered(h) PROVE One
  BY <1>6 DEF Respond, CloseAnswered, RequestOfOneClient
<1>7. ASSUME RespondLost(h) PROVE One
  BY <1>7 DEF RespondLost, Disconnected
<1>8. ASSUME KeepAlive(h) \/ ReleaseRequest(h) PROVE One
  BY <1>8 DEF KeepAlive, ReleaseRequest
<1>9. ASSUME DisconnectFromHost(h) PROVE One
  BY <1>9 DEF DisconnectFromHost, Disconnected
<1>10. ASSUME ReadReturns(h) \/ ReadTimeout(h) PROVE One
  <2>1. /\ UNCHANGED <<sock, req>>
        /\ pc'[h] \in {"flush", "loop"}
    BY <1>10 DEF ReadReturns, ReadTimeout
  <2> QED
    BY <2>1 DEF RequestOfOneClient
<1>11. ASSUME RemoteClosed(h) PROVE One
  BY <1>11 DEF RemoteClosed, Disconnected
<1>12. One
  BY <1>2, <1>3, <1>4, <1>5, <1>6, <1>7, <1>8, <1>9, <1>10, <1>11
     DEF ThreadStep
<1> QED
  BY <1>1, <1>12 DEF RequestOfOneClient

LEMMA RequestStep ==
  ASSUME TypeOK, Ownership, RequestOfOneClient, [Next]_vars
  PROVE  RequestOfOneClient'
<1> USE DEF TypeOK, RequestOfOneClient
<1>1. CASE UNCHANGED <<sock, pc, req>>
  BY <1>1
<1>2. ASSUME NEW c \in Connections, ClientStep(c)
      PROVE  RequestOfOneClient'
  BY <1>1, <1>2 DEF ClientStep, Connect, Send, Transmit, Leave, threadVars
<1>3. ASSUME NEW h \in Handlers, Destroy(h)
      PROVE  RequestOfOneClient'
  BY <1>3 DEF Destroy
<1>4. CASE MainStep
  <2>1. ASSUME NEW c \in Connections, IncomingConnection(c)
        PROVE  UNCHANGED <<sock, pc, req>>
    BY <2>1 DEF IncomingConnection, threadVars
  <2>2. ASSUME NEW h \in Handlers, MainScan(h) \/ MainCleanup(h)
        PROVE  UNCHANGED <<sock, pc, req>>
    BY <2>2 DEF MainScan, MainCleanup, ScanBusy, TakeIdle, CreateHandler,
       CleanupPass, CleanupDelete, threadVars
  <2>3. ASSUME \/ PostConnection \/ RejectConnection \/ CleanupTimeout
               \/ CleanupDone \/ StopListening \/ DeleteSettings
        PROVE  UNCHANGED <<sock, pc, req>>
    BY <2>3 DEF PostConnection, RejectConnection, CleanupTimeout, CleanupDone,
       StopListening, DeleteSettings, threadVars
  <2>4. CASE JoinDeleted
    BY <2>4, <1>3 DEF JoinDeleted, Ownership, MainInv
  <2>5. ASSUME NEW h \in Handlers, DeleteHandler(h)
        PROVE  RequestOfOneClient'
    BY <2>5, <1>3 DEF DeleteHandler
  <2> QED
    BY <1>1, <1>4, <2>1, <2>2, <2>3, <2>4, <2>5 DEF MainStep, MainProgress
<1>5. CASE UNCHANGED vars
  BY <1>1, <1>5 DEF vars, threadVars
<1> QED
  BY <1>2, <1>4, <1>5, RequestThread DEF Next

-----------------------------------------------------------------------------
(* The theorems.                                                           *)

LEMMA InvInit == Init => IInv
BY TypeInit DEF Init, IInv, MainInv, AbsentInv, OwnerIsBusy, OneOwner,
   RequestOfOneClient, NoConnectionForgotten, Owned

LEMMA InvStep == IInv /\ [Next]_vars => IInv'
<1> SUFFICES ASSUME IInv, [Next]_vars
             PROVE  IInv'
  OBVIOUS
<1>1. TypeOK /\ AbsentInv /\ Ownership /\ RequestOfOneClient
  BY DEF IInv, Ownership
<1>2. Ownership'
  <2>1. CASE UNCHANGED vars
    <3>1. \A h \in Handlers : Owned(h)' = Owned(h)
      BY <2>1 DEF vars, Owned
    <3>2. UNCHANGED <<mainAt, mainConn, chosen, pool, busy, posted, sock,
                      status>>
      BY <2>1 DEF vars, mainVars
    <3>3. MainInv' /\ OwnerIsBusy'
      BY <1>1, <3>1, <3>2 DEF TypeOK, Ownership, MainInv, OwnerIsBusy
    <3>4. OneOwner'
      BY <1>1, <3>1, <3>2 DEF Ownership, OneOwner
    <3>5. NoConnectionForgotten'
      BY <1>1, <3>1, <3>2 DEF Ownership, NoConnectionForgotten
    <3> QED
      BY <3>3, <3>4, <3>5 DEF Ownership
  <2> QED
    BY <1>1, <2>1, OwnershipMain, OwnershipThread, OwnershipClient
       DEF Next, RequestOfOneClient
<1> QED
  BY <1>1, <1>2, TypeStep, AbsentStep, RequestStep DEF IInv, Ownership

\* The inductive invariant: types, ownership of connections and requests.
THEOREM Invariant == Spec => []IInv
BY InvInit, InvStep, PTL DEF Spec

\* Every variable keeps its type.
THEOREM TypeCorrect == Spec => []TypeOK
BY Invariant, PTL DEF IInv

\* A handler responsible for a connection is never idle: it can neither be
\* deleted by cleanup() nor be given a second connection.
THEOREM OwnersAreBusy == Spec => []OwnerIsBusy
BY Invariant, PTL DEF IInv

\* A connection has one owner, and a handler one connection at a time.
THEOREM OwnersAreUnique == Spec => []OneOwner
BY Invariant, PTL DEF IInv

\* A request is serviced for the connection its bytes came from.
THEOREM RequestsAreNotMixed == Spec => []RequestOfOneClient
BY Invariant, PTL DEF IInv

\* An accepted connection is always in somebody's hands.
THEOREM ConnectionsAreOwned == Spec => []NoConnectionForgotten
BY Invariant, PTL DEF IInv

\* When ServerSettings is deleted no handler thread is left.
THEOREM StopIsOrderly == Spec => []NoServiceAfterStop
<1>1. IInv => NoServiceAfterStop
  BY DEF IInv, MainInv, AbsentInv, NoServiceAfterStop
<1> QED
  BY <1>1, Invariant, PTL

-----------------------------------------------------------------------------
(* The size of the pool.                                                   *)

LEMMA PoolGrowth ==
  ASSUME IInv, [Next]_vars
  PROVE  \/ pool' \subseteq pool
         \/ \E h \in Handlers : /\ h \notin pool /\ pool' = pool \cup {h}
                                /\ Cardinality(pool) < MaxThreads
<1>1. ASSUME NEW h \in Handlers, ThreadStep(h)
      PROVE  pool' = pool
  BY <1>1, ThreadEffect DEF IInv, RequestOfOneClient, mainVars
<1>2. ASSUME NEW c \in Connections, ClientStep(c)
      PROVE  pool' = pool
  BY <1>2 DEF ClientStep, Connect, Send, Transmit, Leave, mainVars
<1>3. CASE MainStep
  BY <1>3 DEF MainStep, MainProgress, IncomingConnection, MainScan, ScanBusy,
     TakeIdle, CreateHandler, MainCleanup, CleanupPass, CleanupDelete,
     DeleteHandler, Destroy, PostConnection, RejectConnection, CleanupDone,
     JoinDeleted, DeleteSettings, CleanupTimeout, StopListening
<1> QED
  BY <1>1, <1>2, <1>3 DEF Next, vars, mainVars

\* The pool never exceeds maxThreads, for any number of connections.
THEOREM PoolIsBounded == Spec => []PoolBounded
<1>1. Init => PoolBounded
  BY FS_EmptySet DEF Init, PoolBounded
<1>2. IInv /\ PoolBounded /\ [Next]_vars => PoolBounded'
  <2> SUFFICES ASSUME IInv, PoolBounded, [Next]_vars
               PROVE  PoolBounded'
    OBVIOUS
  <2>1. IsFiniteSet(pool) /\ Cardinality(pool) \in Nat
    BY FS_Subset, FS_CardinalityType DEF IInv, TypeOK
  <2>2. CASE pool' \subseteq pool
    <3>1. Cardinality(pool') <= Cardinality(pool) /\ Cardinality(pool') \in Nat
      BY <2>1, <2>2, FS_Subset, FS_CardinalityType
    <3> QED
      BY <2>1, <3>1 DEF PoolBounded
  <2>3. ASSUME NEW h \in Handlers, h \notin pool, pool' = pool \cup {h},
               Cardinality(pool) < MaxThreads
        PROVE  PoolBounded'
    <3>1. Cardinality(pool') = Cardinality(pool) + 1
      BY <2>1, <2>3, FS_AddElement
    <3> QED
      BY <2>1, <2>3, <3>1 DEF PoolBounded
  <2> QED
    BY <2>2, <2>3, PoolGrowth
<1> QED
  BY <1>1, <1>2, Invariant, PTL DEF Spec

-----------------------------------------------------------------------------
(* cleanup() keeps minThreads idle handlers.  The handlers it has counted  *)
(* stay idle, because only the main thread makes an idle handler busy.     *)

CleanupInv ==
    /\ mainAt \in {"cleanup", "join"} =>
         /\ idleCounter <= MinThreads
         /\ \E S \in SUBSET (Idle \cap scanned) : Cardinality(S) = idleCounter
    /\ mainAt = "join" => idleCounter = MinThreads /\ chosen \notin scanned

LEMMA CleanupStep == IInv /\ CleanupInv /\ [Next]_vars => CleanupInv'
<1> SUFFICES ASSUME IInv, CleanupInv, [Next]_vars
             PROVE  CleanupInv'
  OBVIOUS
<1> USE DEF IInv, TypeOK, CleanupInv
<1>1. CASE /\ UNCHANGED <<mainAt, chosen, scanned, idleCounter>>
           /\ Idle \subseteq Idle'
  <2>1. Idle \cap scanned \subseteq (Idle \cap scanned)'
    BY <1>1
  <2> QED
    BY <1>1, <2>1
<1>2. ASSUME NEW h \in Handlers, ThreadStep(h)
      PROVE  CleanupInv'
  <2>1. /\ UNCHANGED <<mainAt, chosen, scanned, idleCounter, pool>>
        /\ Quiet \/ Adopts(h) \/ Drops(h) \/ HangsUp(h)
    BY <1>2, ThreadEffect DEF RequestOfOneClient, mainVars
  <2>2. \A g \in pool : ~busy[g] => ~busy'[g]
    <3>1. posted[h] # {} => busy[h]
      BY DEF OwnerIsBusy, Owned
    <3> QED
      BY <2>1, <3>1 DEF Quiet, Adopts, Drops, HangsUp
  <2> QED
    BY <1>1, <2>1, <2>2 DEF Idle
<1>3. ASSUME NEW c \in Connections, ClientStep(c)
      PROVE  CleanupInv'
  BY <1>1, <1>3 DEF ClientStep, Connect, Send, Transmit, Leave, mainVars, Idle
<1>4. ASSUME NEW h \in Handlers, CleanupPass(h)
      PROVE  CleanupInv'
  <2>1. CASE busy[h]
    <3>1. UNCHANGED <<mainAt, idleCounter, pool, busy>> /\ scanned \subseteq scanned'
      BY <1>4, <2>1 DEF CleanupPass
    <3> QED
      BY <1>4, <3>1 DEF CleanupPass, Idle
  <2>2. CASE ~busy[h]
    <3>1. PICK S \in SUBSET (Idle \cap scanned) : Cardinality(S) = idleCounter
      BY <1>4 DEF CleanupPass
    <3>2. IsFiniteSet(S) /\ h \notin S
      BY <1>4, FS_Subset DEF CleanupPass, Idle
    <3>3. Cardinality(S \cup {h}) = idleCounter + 1
      BY <3>1, <3>2, FS_AddElement
    <3>4. S \cup {h} \subseteq (Idle \cap scanned)'
      BY <1>4, <2>2 DEF CleanupPass, Idle
    <3>5. mainAt' = "cleanup" /\ idleCounter' = idleCounter + 1
          /\ idleCounter' <= MinThreads
      BY <1>4, <2>2 DEF CleanupPass
    <3> QED
      BY <3>3, <3>4, <3>5
  <2> QED
    BY <2>1, <2>2
<1>5. ASSUME NEW h \in Handlers, CleanupDelete(h)
      PROVE  CleanupInv'
  <2>1. UNCHANGED <<scanned, idleCounter, pool, busy>> /\ mainAt = "cleanup"
    BY <1>5 DEF CleanupDelete
  <2>2. Idle' = Idle
    BY <2>1 DEF Idle
  <2>3. idleCounter = MinThreads /\ chosen' = h /\ h \notin scanned
    BY <1>5 DEF CleanupDelete
  <2> QED
    BY <2>1, <2>2, <2>3
<1>6. CASE CleanupTimeout
  <2>1. {} \in SUBSET (Idle \cap scanned)' /\ Cardinality({}) = 0
    BY FS_EmptySet
  <2> QED
    BY <1>6, <2>1 DEF CleanupTimeout
<1>7. CASE mainAt' \notin {"cleanup", "join"}
  BY <1>7
<1>8. CASE MainStep
  BY <1>4, <1>5, <1>6, <1>7, <1>8 DEF MainStep, MainProgress, MainScan,
     MainCleanup, IncomingConnection, ScanBusy, TakeIdle, CreateHandler,
     PostConnection, RejectConnection, CleanupDone, JoinDeleted,
     DeleteHandler, DeleteSettings, StopListening
<1>9. CASE UNCHANGED vars
  BY <1>1, <1>9 DEF vars, mainVars, Idle
<1> QED
  BY <1>2, <1>3, <1>8, <1>9 DEF Next

\* A handler that is removed while the server runs leaves minThreads idle
\* handlers behind, however the threads interleave with the count.
THEOREM CleanupKeepsMinThreads == Spec => KeepsMinThreads
<1>1. Init => CleanupInv
  BY DEF Init, CleanupInv
<1>2. ASSUME IInv, CleanupInv, [Next]_vars, Up, ~(pool \subseteq pool')
      PROVE  \E S \in SUBSET Idle' : Cardinality(S) = MinThreads
  <2>1. CASE JoinDeleted
    <3>1. PICK S \in SUBSET (Idle \cap scanned) : Cardinality(S) = MinThreads
      BY <2>1, <1>2 DEF JoinDeleted, CleanupInv
    <3>2. S \subseteq Idle'
      BY <2>1, <1>2 DEF JoinDeleted, Destroy, Idle, CleanupInv, IInv, TypeOK
    <3> QED
      BY <3>1, <3>2
  <2>2. ASSUME ~JoinDeleted
        PROVE  FALSE
    <3>1. ASSUME NEW h \in Handlers, ThreadStep(h)
          PROVE  pool' = pool
      BY <3>1, <1>2, ThreadEffect DEF IInv, RequestOfOneClient, mainVars
    <3>2. ASSUME NEW c \in Connections, ClientStep(c)
          PROVE  pool' = pool
      BY <3>2 DEF ClientStep, Connect, Send, Transmit, Leave, mainVars
    <3>3. CASE MainStep
      BY <3>3, <2>2, <1>2 DEF MainStep, MainProgress, IncomingConnection,
         MainScan, ScanBusy, TakeIdle, CreateHandler, MainCleanup,
         CleanupPass, CleanupDelete, DeleteHandler, PostConnection,
         RejectConnection, CleanupDone, DeleteSettings, CleanupTimeout,
         StopListening, Up
    <3> QED
      BY <1>2, <3>1, <3>2, <3>3 DEF Next, vars, mainVars
  <2> QED
    BY <2>1, <2>2
<1> QED
  BY <1>1, <1>2, CleanupStep, Invariant, PTL DEF Spec, KeepsMinThreads

-----------------------------------------------------------------------------
(* The refinement.                                                         *)

HIDE PoolAssumption

\* An answer in the write buffer belongs to a connection some handler still
\* holds, or to one that was closed.
OutboxInv ==
    \A c \in Connections : outbox[c] =>
        /\ status[c] \in {"accepted", "closed"}
        /\ status[c] = "accepted" => \E h \in Handlers : sock[h] = c

RInv == IInv /\ OutboxInv

\* The connection of a handler is accepted, and owed an answer exactly while
\* that handler is in service().
LEMMA ConnectedFacts ==
  ASSUME IInv, NEW h \in Handlers, sock[h] # NoConn
  PROVE  /\ sock[h] \in Connections
         /\ status[sock[h]] = "accepted"
         /\ Owed[sock[h]] <=> pc[h] = "service"
         /\ posted[h] = {}
         /\ mainConn # sock[h]
         /\ \A g \in Handlers : g # h => sock[g] # sock[h]
<1> USE DEF IInv
<1>1. sock[h] \in Connections /\ sock[h] \in Owned(h)
  BY DEF TypeOK, Owned
<1>2. status[sock[h]] = "accepted" /\ posted[h] = {} /\ mainConn # sock[h]
  BY <1>1 DEF NoConnectionForgotten, OneOwner
<1>3. \A g \in Handlers : g # h => sock[g] # sock[h]
  BY <1>1 DEF OneOwner, Owned
<1>4. \A g \in Handlers : pc[g] = "service" /\ sock[h] \in req[g] => g = h
  BY <1>1, <1>3 DEF RequestOfOneClient
<1>5. pc[h] = "service" => sock[h] \in req[h]
  BY DEF RequestOfOneClient
<1> QED
  BY <1>1, <1>2, <1>3, <1>4, <1>5 DEF Owed

\* A connection on a socket is in nobody else's hands.
LEMMA SocketOwner ==
  ASSUME IInv, NEW c \in Connections, NEW g \in Handlers, sock[g] = c
  PROVE  /\ c # mainConn
         /\ posted[g] = {}
         /\ \A h \in Handlers : c \in Owned(h) => h = g
<1>1. c # NoConn
  BY PoolAssumption
<1>2. c \in Owned(g)
  BY <1>1 DEF Owned
<1>3. \A h \in Handlers : h # g => Owned(h) \cap Owned(g) = {}
  BY DEF IInv, OneOwner
<1>4. mainConn \notin Owned(g) /\ (posted[g] # {} => sock[g] = NoConn)
  BY DEF IInv, OneOwner
<1> QED
  BY <1>1, <1>2, <1>3, <1>4

\* Nothing is owed to, nor written for, a connection no socket holds.
LEMMA UnconnectedFacts ==
  ASSUME RInv, NEW c \in Connections, status[c] = "accepted",
         \A h \in Handlers : sock[h] # c
  PROVE  ~Owed[c] /\ ~outbox[c]
BY DEF RInv, IInv, OutboxInv, Owed, RequestOfOneClient

LEMMA OwedSame ==
  ASSUME \A h \in Handlers :
           /\ pc[h] = "service" <=> pc'[h] = "service"
           /\ pc[h] = "service" => req'[h] = req[h]
  PROVE  Owed' = Owed
BY DEF Owed

-----------------------------------------------------------------------------
(* Steps of the clients and of the main thread.                            *)

LEMMA ClientSimulation ==
  ASSUME RInv, NEW c \in Connections, ClientStep(c)
  PROVE  [Service!Next]_Service!vars /\ OutboxInv'
<1> USE DEF RInv, IInv, TypeOK
<1>1. /\ UNCHANGED <<mainAt, pc, req, sock>>
      /\ Up' = Up /\ Owed' = Owed
  BY OwedSame DEF ClientStep, Connect, Send, Transmit, Leave, mainVars,
     threadVars, Up
<1>2. CASE Connect(c)
  <2>1. Service!Connect(c)
    BY <1>1, <1>2 DEF Connect, Service!Connect, Service!Move, clientVars
  <2>2. OutboxInv'
    BY <1>1, <1>2 DEF Connect, OutboxInv, clientVars
  <2> QED
    BY <2>1, <2>2 DEF Service!Next
<1>3. CASE Send(c)
  <2>1. UNCHANGED Service!vars
    BY <1>1, <1>3 DEF Send, Service!vars
  <2>2. OutboxInv'
    BY <1>1, <1>3 DEF Send, OutboxInv
  <2> QED
    BY <2>1, <2>2
<1>4. CASE Transmit(c)
  <2>1. Service!Transmit(c)
    BY <1>1, <1>4 DEF Transmit, Service!Transmit
  <2>2. OutboxInv'
    BY <1>1, <1>4 DEF Transmit, OutboxInv
  <2> QED
    BY <2>1, <2>2 DEF Service!Next
<1>5. CASE Leave(c)
  <2>1. Service!Leave(c)
    BY <1>1, <1>5 DEF Leave, Service!Leave
  <2>2. OutboxInv'
    BY <1>1, <1>5 DEF Leave, OutboxInv
  <2> QED
    BY <2>1, <2>2 DEF Service!Next
<1> QED
  BY <1>2, <1>3, <1>4, <1>5 DEF ClientStep

LEMMA DestroySimulation ==
  ASSUME RInv, NEW h \in Handlers, Destroy(h), Up' = Up,
         Owned(h) # {} => ~Up
  PROVE  [Service!Next]_Service!vars /\ OutboxInv'
<1> USE DEF RInv, IInv, TypeOK
<1>1. Owed' = Owed /\ UNCHANGED <<left, outbox>>
  BY OwedSame DEF Destroy
<1>2. CASE sock[h] # NoConn
  <2>1. /\ sock[h] \in Connections /\ status[sock[h]] = "accepted"
        /\ ~Owed[sock[h]] /\ posted[h] = {} /\ ~Up
        /\ \A g \in Handlers : g # h => sock[g] # sock[h]
    BY <1>2, ConnectedFacts DEF Destroy, Owned
  <2>2. status' = [status EXCEPT ![sock[h]] = "closed"]
    BY <2>1 DEF Destroy
  <2>3. Service!HangUp(sock[h])
    BY <1>1, <2>1, <2>2 DEF Service!HangUp, Service!Move
  <2>4. OutboxInv'
    BY <1>1, <2>1, <2>2 DEF OutboxInv, Destroy
  <2> QED
    BY <2>1, <2>3, <2>4 DEF Service!Next
<1>3. CASE sock[h] = NoConn /\ posted[h] # {}
  <2>1. PICK c \in posted[h] : posted[h] = {c}
    BY <1>3 DEF OneOwner, Owned
  <2>2. c \in Connections /\ status[c] = "accepted"
    BY <2>1 DEF NoConnectionForgotten, Owned
  <2>3. \A g \in Handlers : sock[g] # c
    <3>1. c \in Owned(h)
      BY <2>1 DEF Owned
    <3> QED
      BY <1>3, <2>2, <3>1, SocketOwner
  <2>4. ~Owed[c] /\ ~outbox[c]
    BY <2>2, <2>3, UnconnectedFacts
  <2>5. status' = [status EXCEPT ![c] = "dropped"]
    <3>1. \A d \in Connections : status'[d] =
            IF d = c THEN "dropped" ELSE status[d]
      BY PoolAssumption, <1>3, <2>1 DEF Destroy
    <3>2. DOMAIN status' = Connections /\ DOMAIN status = Connections
      BY DEF Destroy
    <3>3. status' = [d \in Connections |-> status'[d]]
      BY DEF Destroy
    <3> QED
      BY <3>1, <3>2, <3>3, <2>2
  <2>6. Service!TurnAway(c)
    BY <1>1, <2>2, <2>4, <2>5 DEF Service!TurnAway, Service!Move
  <2>7. OutboxInv'
    BY <1>1, <1>3, <2>4, <2>5 DEF OutboxInv, Destroy
  <2> QED
    BY <2>2, <2>6, <2>7 DEF Service!Next
<1>4. CASE sock[h] = NoConn /\ posted[h] = {}
  <2>1. status' = status
    <3>1. \A d \in Connections : status'[d] = status[d]
      BY PoolAssumption, <1>4 DEF Destroy
    <3>2. status' = [d \in Connections |-> status'[d]]
      BY DEF Destroy
    <3> QED
      BY <3>1, <3>2
  <2>2. UNCHANGED Service!vars
    BY <1>1, <2>1 DEF Service!vars
  <2>3. OutboxInv'
    BY <1>1, <1>4, <2>1 DEF OutboxInv, Destroy
  <2> QED
    BY <2>2, <2>3
<1> QED
  BY <1>2, <1>3, <1>4

LEMMA MainSimulation ==
  ASSUME RInv, MainStep
  PROVE  [Service!Next]_Service!vars /\ OutboxInv'
<1> USE DEF RInv, IInv, TypeOK
<1>1. ASSUME UNCHANGED <<pc, req, sock, status, left, outbox>>, Up' = Up
      PROVE  UNCHANGED Service!vars /\ OutboxInv'
  <2>1. Owed' = Owed
    BY <1>1, OwedSame
  <2> QED
    BY <1>1, <2>1 DEF Service!vars, OutboxInv
<1>2. ASSUME NEW c \in Connections, IncomingConnection(c)
      PROVE  [Service!Next]_Service!vars /\ OutboxInv'
  <2>1. /\ UNCHANGED <<pc, req, sock, left, outbox>> /\ Up' = Up
        /\ status[c] = "backlog"
        /\ status' = [status EXCEPT ![c] = "accepted"]
    BY <1>2 DEF IncomingConnection, threadVars, clientVars, Up
  <2>2. Owed' = Owed
    BY <2>1, OwedSame
  <2>3. Service!Admit(c)
    BY <2>1, <2>2 DEF Service!Admit, Service!Move
  <2>4. OutboxInv'
    BY <2>1 DEF OutboxInv
  <2> QED
    BY <2>3, <2>4 DEF Service!Next
<1>3. CASE RejectConnection
  <2>1. PICK c \in Connections : c = mainConn
    BY <1>3 DEF RejectConnection, MainInv
  <2>2. /\ UNCHANGED <<pc, req, sock, left, outbox>> /\ Up' = Up
        /\ status' = [status EXCEPT ![c] = "refused"]
    BY <1>3, <2>1 DEF RejectConnection, threadVars, clientVars, Up
  <2>3. status[c] = "accepted" /\ \A h \in Handlers : sock[h] # c
    <3>1. status[c] = "accepted"
      BY <2>1 DEF NoConnectionForgotten
    <3> QED
      BY <2>1, <3>1, SocketOwner
  <2>4. ~Owed[c] /\ ~outbox[c]
    BY <2>3, UnconnectedFacts
  <2>5. Owed' = Owed
    BY <2>2, OwedSame
  <2>6. Service!TurnAway(c)
    BY <2>2, <2>3, <2>4, <2>5 DEF Service!TurnAway, Service!Move
  <2>7. OutboxInv'
    BY <2>2, <2>4 DEF OutboxInv
  <2> QED
    BY <2>6, <2>7 DEF Service!Next
<1>4. CASE StopListening
  <2>1. /\ UNCHANGED <<pc, req, sock, status, left, outbox>>
        /\ Up /\ Up' = FALSE
    BY <1>4 DEF StopListening, threadVars, clientVars, Up
  <2>2. Owed' = Owed
    BY <2>1, OwedSame
  <2>3. Service!Shutdown
    BY <2>1, <2>2 DEF Service!Shutdown
  <2>4. OutboxInv'
    BY <2>1 DEF OutboxInv
  <2> QED
    BY <2>3, <2>4 DEF Service!Next
<1>5. ASSUME NEW h \in Handlers, DeleteHandler(h)
      PROVE  [Service!Next]_Service!vars /\ OutboxInv'
  BY <1>5, DestroySimulation DEF DeleteHandler, Up
<1>6. CASE JoinDeleted
  <2>1. PICK h \in Handlers : h = chosen
    BY <1>6 DEF JoinDeleted, MainInv
  <2>2. Destroy(h) /\ Owned(h) = {} /\ Up' = Up
    BY <1>6, <2>1 DEF JoinDeleted, MainInv, Up
  <2> QED
    BY <2>2, DestroySimulation
<1>7. ASSUME NEW h \in Handlers, MainScan(h) \/ MainCleanup(h)
      PROVE  UNCHANGED Service!vars /\ OutboxInv'
  BY <1>1, <1>7 DEF MainScan, MainCleanup, ScanBusy, TakeIdle, CreateHandler,
     CleanupPass, CleanupDelete, threadVars, clientVars, Up
<1>8. CASE PostConnection \/ CleanupTimeout \/ CleanupDone \/ DeleteSettings
  BY <1>1, <1>8 DEF PostConnection, CleanupTimeout, CleanupDone,
     DeleteSettings, threadVars, clientVars, Up
<1> QED
  BY <1>2, <1>3, <1>4, <1>5, <1>6, <1>7, <1>8 DEF MainStep, MainProgress

-----------------------------------------------------------------------------
(* Steps of a handler thread.                                              *)

\* A step that moves nothing the clients see is a stutter.
LEMMA Unseen ==
  ASSUME RInv, Owed' = Owed,
         UNCHANGED <<mainAt, sock, status, left, outbox>>
  PROVE  UNCHANGED Service!vars /\ OutboxInv'
BY DEF RInv, OutboxInv, Service!vars, Up

LEMMA HangUpSimulation ==
  ASSUME RInv, NEW h \in Handlers, sock[h] # NoConn, Disconnected(h),
         UNCHANGED <<mainAt, left, outbox>>,
         \/ ~outbox[sock[h]] /\ pc[h] # "service" /\ Owed' = Owed
         \/ left[sock[h]] /\ Owed' = [Owed EXCEPT ![sock[h]] = FALSE]
  PROVE  [Service!Next]_Service!vars /\ OutboxInv'
<1> USE DEF RInv, IInv, TypeOK
<1>1. PICK c \in Connections : c = sock[h]
  BY DEF TypeOK
<1>2. /\ status[c] = "accepted"
      /\ status' = [status EXCEPT ![c] = "closed"]
      /\ Owed[c] <=> pc[h] = "service"
      /\ Up' = Up
  BY <1>1, ConnectedFacts DEF Disconnected, Up
<1>3. Service!HangUp(c) \/ Service!Lose(c)
  BY <1>1, <1>2 DEF Service!HangUp, Service!Lose, Service!Move
<1>4. OutboxInv'
  BY <1>1, <1>2 DEF OutboxInv, Disconnected
<1> QED
  BY <1>3, <1>4 DEF Service!Next

LEMMA ThreadSimulation ==
  ASSUME RInv, NEW h \in Handlers, ThreadStep(h)
  PROVE  [Service!Next]_Service!vars /\ OutboxInv'
<1> USE DEF RInv, IInv, TypeOK, Goto
<1>1. CASE HandleConnection(h)
  <2>1. Owed' = Owed
    BY <1>1, OwedSame DEF HandleConnection
  <2>2. UNCHANGED <<mainAt, status, left, outbox>>
    BY <1>1 DEF HandleConnection, mainVars, clientVars
  <2>3. UNCHANGED Service!vars
    BY <2>1, <2>2 DEF Service!vars, Up
  <2>4. OutboxInv'
    <3>1. sock[h] = NoConn
      BY <1>1 DEF HandleConnection, OneOwner
    <3>2. \A g \in Handlers : sock[g] # NoConn => sock'[g] = sock[g]
      BY <1>1, <3>1 DEF HandleConnection
    <3> QED
      BY PoolAssumption, <2>2, <3>2 DEF OutboxInv
  <2> QED
    BY <2>3, <2>4
<1>2. CASE HandleConnectionFails(h)
  <2>1. PICK c \in posted[h] : status' = [status EXCEPT ![c] = "dropped"]
    BY <1>2 DEF HandleConnectionFails
  <2>2. /\ UNCHANGED <<mainAt, pc, req, sock, left, outbox>>
        /\ Owed' = Owed
    BY <1>2, OwedSame DEF HandleConnectionFails, mainVars, threadVars,
       clientVars
  <2>3. c \in Connections /\ c \in Owned(h) /\ status[c] = "accepted"
    BY <2>1 DEF NoConnectionForgotten, Owned
  <2>4. \A g \in Handlers : sock[g] # c
    <3>1. sock[h] # c
      BY <2>1, <2>3, SocketOwner
    <3> QED
      BY <2>3, <3>1, SocketOwner
  <2>5. ~Owed[c] /\ ~outbox[c]
    BY <2>3, <2>4, UnconnectedFacts
  <2>6. Service!TurnAway(c)
    BY <2>1, <2>2, <2>3, <2>5 DEF Service!TurnAway, Service!Move, Up
  <2>7. OutboxInv'
    BY <2>1, <2>2, <2>5 DEF OutboxInv
  <2> QED
    BY <2>3, <2>6, <2>7 DEF Service!Next
<1>3. CASE ReadPart(h)
  <2>1. Owed' = Owed
    BY <1>3, OwedSame DEF ReadPart, Collect, CanRead
  <2>2. UNCHANGED <<mainAt, sock, status, left, outbox>>
    BY <1>3 DEF ReadPart, mainVars
  <2> QED
    BY <2>1, <2>2, Unseen
<1>4. CASE ReadComplete(h)
  <2>1. /\ sock[h] \in Connections /\ status[sock[h]] = "accepted"
        /\ ~Owed[sock[h]]
    BY <1>4, ConnectedFacts DEF ReadComplete, Collect, CanRead
  <2>2. UNCHANGED <<mainAt, sock, status, left, outbox>>
    BY <1>4 DEF ReadComplete, mainVars
  <2>3. Owed' = [Owed EXCEPT ![sock[h]] = TRUE]
    <3>1. /\ req[h] \subseteq {sock[h]} /\ req'[h] = {sock[h]}
          /\ pc[h] # "service" /\ pc'[h] = "service"
          /\ \A g \in Handlers : g # h => pc'[g] = pc[g] /\ req'[g] = req[g]
      BY <1>4, <2>1 DEF ReadComplete, Collect, CanRead, RequestOfOneClient
    <3>2. \A c \in Connections : Owed'[c] <=> Owed[c] \/ c = sock[h]
      BY <3>1 DEF Owed
    <3> QED
      BY <2>1, <3>2 DEF Owed
  <2>4. Service!Receive(sock[h])
    BY <2>1, <2>2, <2>3 DEF Service!Receive, Up
  <2>5. OutboxInv'
    BY <2>2 DEF OutboxInv
  <2> QED
    BY <2>1, <2>4, <2>5 DEF Service!Next
<1>5. CASE ReadAbort(h)
  <2>1. /\ sock[h] \in Connections /\ status[sock[h]] = "accepted"
        /\ ~Owed[sock[h]]
    BY <1>5, ConnectedFacts DEF ReadAbort, Collect, CanRead
  <2>2. Owed' = Owed
    BY <1>5, OwedSame DEF ReadAbort, Collect, CanRead
  <2>3. UNCHANGED <<mainAt, sock, status, left>>
    BY <1>5 DEF ReadAbort, mainVars
  <2>4. outbox' = [outbox EXCEPT ![sock[h]] = ~left[sock[h]]]
    BY <1>5 DEF ReadAbort
  <2>5. Service!Object(sock[h])
    BY <2>1, <2>2, <2>3, <2>4 DEF Service!Object, Up
  <2>6. OutboxInv'
    BY <2>1, <2>3, <2>4 DEF OutboxInv
  <2> QED
    BY <2>1, <2>5, <2>6 DEF Service!Next
<1>6. ASSUME pc[h] = "service", pc'[h] = "answered", UNCHANGED req,
             \A g \in Handlers : g # h => pc'[g] = pc[g]
      PROVE  /\ sock[h] # NoConn /\ sock[h] \in Connections
             /\ status[sock[h]] = "accepted" /\ Owed[sock[h]]
             /\ Owed' = [Owed EXCEPT ![sock[h]] = FALSE]
  <2>1. /\ sock[h] # NoConn /\ sock[h] \in Connections /\ req[h] = {sock[h]}
        /\ status[sock[h]] = "accepted" /\ Owed[sock[h]]
        /\ \A g \in Handlers : g # h => sock[g] # sock[h]
    BY <1>6, ConnectedFacts DEF RequestOfOneClient
  <2>2. \A c \in Connections : Owed'[c] <=> Owed[c] /\ c # sock[h]
    BY <1>6, <2>1 DEF Owed, RequestOfOneClient
  <2>3. \A c \in Connections :
          Owed'[c] = IF c = sock[h] THEN FALSE ELSE Owed[c]
    BY <2>2, Zenon DEF Owed
  <2>4. /\ Owed' = [c \in Connections |-> Owed'[c]]
        /\ DOMAIN Owed = Connections
    BY DEF Owed
  <2>5. Owed' = [c \in Connections |-> IF c = sock[h] THEN FALSE ELSE Owed[c]]
    BY ONLY <2>3, <2>4
  <2>6. [Owed EXCEPT ![sock[h]] = FALSE]
           = [c \in Connections |-> IF c = sock[h] THEN FALSE ELSE Owed[c]]
    BY ONLY <2>4
  <2> QED
    BY <2>1, <2>5, <2>6
<1>7. CASE Respond(h)
  <2>1. /\ UNCHANGED <<mainAt, sock, status, left>>
        /\ outbox' = [outbox EXCEPT ![sock[h]] = ~left[sock[h]]]
    BY <1>7 DEF Respond, mainVars
  <2>2. /\ sock[h] \in Connections
        /\ status[sock[h]] = "accepted" /\ Owed[sock[h]]
        /\ Owed' = [Owed EXCEPT ![sock[h]] = FALSE]
    BY <1>6, <1>7 DEF Respond
  <2>3. Service!Answer(sock[h])
    BY <2>1, <2>2 DEF Service!Answer, Up
  <2>4. OutboxInv'
    BY <2>1, <2>2 DEF OutboxInv
  <2> QED
    BY <2>2, <2>3, <2>4 DEF Service!Next
<1>8. CASE RespondLost(h)
  <2>1. sock[h] # NoConn /\ Owed' = [Owed EXCEPT ![sock[h]] = FALSE]
    BY <1>6, <1>8 DEF RespondLost
  <2> QED
    BY <1>8, <2>1, HangUpSimulation DEF RespondLost, mainVars
<1>9. CASE CloseAnswered(h) \/ KeepAlive(h)
  <2>1. Owed' = Owed
    BY <1>9, OwedSame DEF CloseAnswered, KeepAlive
  <2>2. UNCHANGED <<mainAt, sock, status, left, outbox>>
    BY <1>9 DEF CloseAnswered, KeepAlive, mainVars, clientVars
  <2> QED
    BY <2>1, <2>2, Unseen
<1>10. CASE DisconnectFromHost(h)
  <2>1. Owed' = Owed
    BY <1>10, OwedSame DEF DisconnectFromHost
  <2>2. UNCHANGED <<mainAt, left, outbox>> /\ pc[h] = "flush"
    BY <1>10 DEF DisconnectFromHost, mainVars
  <2>3. CASE sock[h] = NoConn
    <3>1. UNCHANGED <<sock, status>>
      BY <1>10, <2>3 DEF DisconnectFromHost
    <3> QED
      BY <2>1, <2>2, <3>1, Unseen
  <2>4. CASE sock[h] # NoConn
    <3>1. Disconnected(h) /\ ~outbox[sock[h]]
      BY <1>10, <2>4 DEF DisconnectFromHost
    <3> QED
      BY <2>1, <2>2, <2>4, <3>1, HangUpSimulation
  <2> QED
    BY <2>3, <2>4
<1>11. CASE ReleaseRequest(h) \/ ReadReturns(h) \/ ReadTimeout(h)
  <2>1. Owed' = Owed
    BY <1>11, OwedSame DEF ReleaseRequest, ReadReturns, ReadTimeout
  <2>2. UNCHANGED <<mainAt, sock, status, left, outbox>>
    BY <1>11 DEF ReleaseRequest, ReadReturns, ReadTimeout, mainVars,
       clientVars
  <2> QED
    BY <2>1, <2>2, Unseen
<1>12. CASE RemoteClosed(h)
  <2>1. /\ sock[h] # NoConn /\ left[sock[h]] /\ Disconnected(h)
        /\ UNCHANGED <<mainAt, left, outbox, pc, req>>
        /\ ~Owed[sock[h]]
    BY <1>12, ConnectedFacts DEF RemoteClosed, mainVars
  <2>2. Owed' = Owed
    BY <2>1, OwedSame
  <2>3. Owed' = [Owed EXCEPT ![sock[h]] = FALSE]
    BY <2>1, <2>2 DEF Owed
  <2> QED
    BY <2>1, <2>3, HangUpSimulation
<1> QED
  BY <1>1, <1>2, <1>3, <1>4, <1>5, <1>7, <1>8, <1>9, <1>10, <1>11, <1>12
     DEF ThreadStep

-----------------------------------------------------------------------------
\* Whatever the number of threads and however they interleave, the clients see
\* a server that answers every complete request on its own connection.
THEOREM PoolImplementsService == Spec => ImplementsService
<1>1. Init => Service!Init /\ OutboxInv
  BY DEF Init, Service!Init, OutboxInv, Up, Owed
<1>2. RInv /\ [Next]_vars => [Service!Next]_Service!vars /\ OutboxInv'
  <2> SUFFICES ASSUME RInv, [Next]_vars
               PROVE  [Service!Next]_Service!vars /\ OutboxInv'
    OBVIOUS
  <2>1. CASE UNCHANGED vars
    <3>1. /\ UNCHANGED <<mainAt, sock, status, left, outbox, pc, req>>
          /\ Owed' = Owed
      BY <2>1 DEF vars, mainVars, threadVars, clientVars, Owed
    <3> QED
      BY <3>1, Unseen
  <2> QED
    BY <2>1, ClientSimulation, MainSimulation, ThreadSimulation DEF Next
<1> QED
  BY <1>1, <1>2, Invariant, PTL DEF Spec, ImplementsService, Service!Spec, RInv
=============================================================================
