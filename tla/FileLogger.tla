----------------------------- MODULE FileLogger -------------------------------
(***************************************************************************)
(* FileLogger as the default message handler (logger.cpp, filelogger.cpp). *)
(* Every qDebug() or qWarning() of any thread comes through msgHandler(),  *)
(* one thread at a time; a message of the logger itself, which comes while *)
(* another one is handled, goes to stderr.  log() holds a third lock,      *)
(* which the timers of the main thread also take.                          *)
(*                                                                         *)
(* A message is its number and its level; what the threads log is          *)
(* external.  The file is known by its generation: a new one begins with   *)
(* each rotation.                                                          *)
(***************************************************************************)
EXTENDS Naturals, Sequences

CONSTANTS
    Writers,            \* threads that log
    Main,               \* the thread of the timers
    minLevel, bufferSize, maxLogSize, maxBackups,
    WriteMayFail, OpenMayFail,      \* what the disk may do
    Messages,           \* bound: messages in all
    Generations         \* bound: files in all

Nobody == "nobody"
Loggers == Writers \cup {Main}

ASSUME LoggerAssumption ==
    /\ Main \notin Writers /\ Nobody \notin Loggers
    /\ minLevel \in Nat /\ bufferSize \in Nat
    /\ maxLogSize \in Nat /\ maxBackups \in Nat

DEBUG == 0   CRITICAL == 2   INFO == 4

VARIABLES
    at,                 \* where each thread is
    message,            \* the message each thread is logging
    printing,           \* what it is about to write, the first one next
    recursiveMutex, nonRecursiveMutex, logMutex,    \* who holds it
    file,               \* the file is open
    size,               \* messages in it
    generation, backups,
    buffer,             \* of each thread
    next                \* number of the next message

lockVars == <<recursiveMutex, nonRecursiveMutex, logMutex>>
fileVars == <<file, size, generation, backups>>
logVars == <<at, message, printing, lockVars, fileVars, buffer, next>>

Message == [number : Nat, level : {DEBUG, CRITICAL, INFO}]
NoMessage == [number |-> 0, level |-> DEBUG]

LoggerTypeOK ==
    /\ at \in [Loggers -> {"idle", "enter", "try", "log", "print", "warn", "leave",
                           "flush", "crashed"}]
    /\ message \in [Loggers -> Message]
    /\ printing \in [Loggers -> Seq(Message)]
    /\ {recursiveMutex, nonRecursiveMutex, logMutex} \subseteq Loggers \cup {Nobody}
    /\ file \in BOOLEAN
    /\ size \in Nat /\ generation \in Nat /\ backups \in Seq(Nat)
    /\ buffer \in [Loggers -> Seq(Message)]
    /\ next \in Nat

LoggerInit ==
    /\ at = [t \in Loggers |-> "idle"]
    /\ message = [t \in Loggers |-> NoMessage]
    /\ printing = [t \in Loggers |-> <<>>]
    /\ recursiveMutex = Nobody /\ nonRecursiveMutex = Nobody /\ logMutex = Nobody
    /\ file = TRUE
    /\ size = 0 /\ generation = 1 /\ backups = <<>>
    /\ buffer = [t \in Loggers |-> <<>>]
    /\ next = 1

Proceed(t, place) == at' = [at EXCEPT ![t] = place]

-----------------------------------------------------------------------------
(* msgHandler().                                                           *)

Log(t, level) ==
    /\ at[t] = "idle" /\ next <= Messages
    /\ next' = next + 1
    /\ message' = [message EXCEPT ![t] = [number |-> next, level |-> level]]
    /\ Proceed(t, "enter")
    /\ UNCHANGED <<printing, lockVars, fileVars, buffer>>

\* Mutant: the lock is not recursive.
MayEnterOnce(t) == recursiveMutex = Nobody
MayEnter(t) == recursiveMutex \in {Nobody, t}

LockRecursive(t) ==
    /\ at[t] = "enter" /\ MayEnter(t)
    /\ recursiveMutex' = t
    /\ Proceed(t, "try")
    /\ UNCHANGED <<message, printing, nonRecursiveMutex, logMutex, fileVars, buffer, next>>

\* Nobody is inside, or the message goes to stderr.
TryLock(t) ==
    /\ at[t] = "try"
    /\ IF nonRecursiveMutex = Nobody
         THEN nonRecursiveMutex' = t /\ Proceed(t, "log")
         ELSE UNCHANGED nonRecursiveMutex /\ Proceed(t, "leave")
    /\ UNCHANGED <<message, printing, recursiveMutex, logMutex, fileVars, buffer, next>>

Leave(t) ==
    /\ at[t] = "leave"
    /\ recursiveMutex' = Nobody
    /\ message' = [message EXCEPT ![t] = NoMessage]
    /\ Proceed(t, "idle")
    /\ UNCHANGED <<printing, nonRecursiveMutex, logMutex, fileVars, buffer, next>>

-----------------------------------------------------------------------------
(* log(), write().                                                         *)

\* INFO, the greatest number, counts as DEBUG while messages are buffered.
Level(m) == IF m.level = INFO THEN DEBUG ELSE m.level

Ring(messages, m) ==
    LET all == Append(messages, m)
    IN IF Len(all) > bufferSize THEN Tail(all) ELSE all

LogUnbuffered(t) ==
    /\ bufferSize = 0
    /\ printing' = [printing EXCEPT ![t] =
                      IF message[t].level >= minLevel THEN <<message[t]>> ELSE <<>>]
    /\ UNCHANGED buffer

LogBuffered(t) ==
    /\ bufferSize > 0
    /\ IF Level(message[t]) >= minLevel
         THEN /\ printing' = [printing EXCEPT ![t] = Ring(buffer[t], message[t])]
              /\ buffer' = [buffer EXCEPT ![t] = <<>>]
         ELSE /\ buffer' = [buffer EXCEPT ![t] = Ring(buffer[t], message[t])]
              /\ UNCHANGED printing

LogMessage(t) ==
    /\ at[t] = "log" /\ logMutex = Nobody
    /\ logMutex' = t
    /\ LogUnbuffered(t) \/ LogBuffered(t)
    /\ Proceed(t, "print")
    /\ UNCHANGED <<message, recursiveMutex, nonRecursiveMutex, fileVars, next>>

Printed(t) == printing' = [printing EXCEPT ![t] = Tail(@)]

\* To the file, or to stderr if there is none.
Write(t) ==
    /\ at[t] = "print" /\ printing[t] # <<>>
    /\ Printed(t)
    /\ size' = IF file THEN size + 1 ELSE size
    /\ UNCHANGED <<at, message, lockVars, file, generation, backups, buffer, next>>

\* "Cannot write to log file".
WriteFails(t) ==
    /\ WriteMayFail /\ file
    /\ at[t] = "print" /\ printing[t] # <<>>
    /\ Proceed(t, "warn")
    /\ UNCHANGED <<message, printing, lockVars, fileVars, buffer, next>>

\* The warning of write() itself passes msgHandler(); then the file is closed, and
\* the message goes to stderr.
WarnOfWrite(t) ==
    /\ at[t] = "warn" /\ MayEnter(t) /\ nonRecursiveMutex # Nobody
    /\ file' = FALSE
    /\ Printed(t)
    /\ Proceed(t, "print")
    /\ UNCHANGED <<message, lockVars, size, generation, backups, buffer, next>>

EndLog(t) ==
    /\ at[t] = "print" /\ printing[t] = <<>>
    /\ logMutex' = Nobody /\ nonRecursiveMutex' = Nobody
    /\ Proceed(t, "leave")
    /\ UNCHANGED <<message, printing, recursiveMutex, fileVars, buffer, next>>

\* clear(true, ...), by the thread the buffer belongs to.
Clear(t) ==
    /\ at[t] = "idle" /\ logMutex = Nobody
    /\ buffer' = [buffer EXCEPT ![t] = <<>>]
    /\ UNCHANGED <<at, message, printing, lockVars, fileVars, next>>

-----------------------------------------------------------------------------
(* The timers.                                                             *)

\* rotate() makes room for one more.
KeptBackups == IF maxBackups > 0 /\ Len(backups) >= maxBackups
               THEN SubSeq(backups, 1, maxBackups - 1) ELSE backups

\* open() at the end of a timer event: after it the lock is released.
Reopened ==
    /\ file' = TRUE
    /\ UNCHANGED <<logMutex, message>>
    /\ Proceed(Main, "idle")

\* The warning of open() finds nobody inside msgHandler(), once it gets there.
CannotOpen ==
    /\ OpenMayFail
    /\ file' = FALSE
    /\ logMutex' = Main
    /\ message' = [message EXCEPT ![Main] = [number |-> next, level |-> CRITICAL]]
    /\ Proceed(Main, "enter")

\* refreshSettings() finds another name in the settings.
RefreshSettings ==
    /\ at[Main] = "idle" /\ logMutex = Nobody /\ generation < Generations
    /\ generation' = generation + 1
    /\ backups' = <<>> /\ size' = 0
    /\ Reopened \/ CannotOpen
    /\ UNCHANGED <<printing, recursiveMutex, nonRecursiveMutex, buffer, next>>

\* The file is tested before the lock is taken.
FlushTimer ==
    /\ at[Main] = "idle" /\ file
    /\ Proceed(Main, "flush")
    /\ UNCHANGED <<message, printing, lockVars, fileVars, buffer, next>>

Flush ==
    /\ at[Main] = "flush" /\ logMutex = Nobody /\ file
    /\ maxLogSize = 0 \/ size < maxLogSize
    /\ Proceed(Main, "idle")
    /\ UNCHANGED <<message, printing, lockVars, fileVars, buffer, next>>

Rotate ==
    /\ at[Main] = "flush" /\ logMutex = Nobody /\ file
    /\ maxLogSize > 0 /\ size >= maxLogSize
    /\ backups' = <<generation>> \o KeptBackups
    /\ generation' = generation + 1
    /\ size' = 0
    /\ Reopened \/ CannotOpen
    /\ UNCHANGED <<printing, recursiveMutex, nonRecursiveMutex, buffer, next>>

\* A thread has closed the file after the test: file is a null pointer.
FlushNull ==
    /\ at[Main] = "flush" /\ logMutex = Nobody /\ ~file
    /\ Proceed(Main, "crashed")
    /\ UNCHANGED <<message, printing, lockVars, fileVars, buffer, next>>

LoggerStep(t) ==
    \/ LockRecursive(t) \/ TryLock(t) \/ LogMessage(t) \/ Write(t) \/ WriteFails(t)
    \/ WarnOfWrite(t) \/ EndLog(t) \/ Leave(t)

LoggerNext ==
    /\ at[Main] # "crashed"
    /\ \/ \E t \in Writers : Clear(t) \/ \E level \in {DEBUG, CRITICAL, INFO} : Log(t, level)
       \/ \E t \in Loggers : LoggerStep(t)
       \/ RefreshSettings \/ FlushTimer \/ Flush \/ Rotate \/ FlushNull

LoggerSpec == LoggerInit /\ [][LoggerNext]_logVars

-----------------------------------------------------------------------------
(* Properties.                                                             *)

\* The lock a thread waits for is held by this one.
WaitsFor(t) ==
    IF at[t] \in {"enter", "warn"} /\ ~MayEnter(t) THEN recursiveMutex
    ELSE IF at[t] \in {"log", "flush"} THEN logMutex
    ELSE Nobody

\* Threads wait for each other, or for themselves, with the three locks of the logger in
\* one case only: the main thread could not open the file anew, warns of it with the lock
\* of log() in its hands (filelogger.cpp:121, 181-186), and cannot take it again.  The
\* recursive lock is there "to prevent a deadlock if the logger itself produces an error
\* message" (logger.cpp:50), and does so for the warnings of write().
DeadlockOnlyByOpen ==
    \A S \in SUBSET Loggers :
        S # {} /\ (\A t \in S : WaitsFor(t) \in S) => Main \in S /\ ~ file
=============================================================================
