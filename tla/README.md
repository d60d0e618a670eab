# QRInspector in TLA+

QRInspector admits people to rooms.  A member carries a QR code; an inspector
(a phone or tablet at a door) reads it and asks the server whether the member
is invited to what happens behind that door now; the server looks into an
SQLite database, records the visit and answers with the member's photo.
Administrators edit the database through the same server.

This directory holds models of the server's concurrent parts (the thread pool
that serves TCP connections, the request handler that all its threads run at
once, the request parser, sessions, caches and the logger of the HTTP library)
and of the inspector application (the camera filter, the encoder and decoder of
QR codes, and what the application does with what it reads), with the TLC
configurations that check them and the proofs that TLAPS checks.  Paths below
are relative to the repository; `httpserver/` stands for
`src/QRInspectorServer/QtWebApp/httpserver/`, `server/` for
`src/QRInspectorServer/src/`, `client/` for `src/QRInspectorClient/` and `zxing/`
for `client/QZXing/zxing/zxing/`.

## 1. Inventory

| Component | State it keeps | Operations | Modelled in |
|---|---|---|---|
| Connection pool and listener (`httplistener.cpp`, `httpconnectionhandlerpool.cpp`) | list of handlers, cleanup timer | `incomingConnection`, `getConnectionHandler`, `cleanup`, `close`, destruction | `HttpPool` |
| Connection handlers (`httpconnectionhandler.cpp`), one thread each | `busy`, socket, read timer, `currentRequest` | `handleConnection`, `read`, `readTimeout`, `disconnected`, `thread_done` | `HttpPool` |
| HTTP request parser (`httprequest.cpp`) | state of one request, its size, multipart file | `readFromSocket` and what it calls | `HttpRequest`; its outcomes in `HttpPool` |
| HTTP response, cookies (`httpresponse.cpp`, `httpcookie.cpp`) | `sentHeaders`, `sentLastPart` | `write`, `flush` | last part only |
| Request handler (`requesthandler.cpp`) | one object and one database connection for all threads | `service` with its SQL, visit, database and status branches | `VisitService` |
| Startup, settings, schema (`startup.cpp`) | `sqlite`, `databaseBusy`, passwords, the tables | `start`, `stop` | `VisitService`, `HttpPool` |
| Sessions (`httpsession.cpp`, `httpsessionstore.cpp`) | the map of sessions, counted data, last access | `getSession`, `removeSession`, copies, assignments, destructors, the timer | `SessionStore` |
| Static files (`staticfilecontroller.cpp`), templates (`templatecache.cpp`, `templateloader.cpp`) | a cache of limited cost each | `service`; `getTemplate`, `tryFile` | `CachedFiles`, `StaticFiles`, `TemplateCache` |
| Logging (`logger.cpp`, `filelogger.cpp`) | three locks, a ring per thread, file and backups | `msgHandler`, `log`, `write`, `rotate`, the two timers | `FileLogger` |
| Service wrapper, unused controllers | - | no request reaches the controllers | no |
| Inspector application (`ViewerPage.qml`, `main.qml`, `myclient.cpp`, `ClientSettingsPage.qml`) | recognised codes with their times, settings, pending requests, what is shown | `checkTag`, `configureClient`, `sendGet`, `getResponse` | `Inspector` |
| Administrator application (`DB*.qml`, `sqliteclient.cpp`) | tables shown, members being edited | batches of SQL statements | its deletions and insertions are requests of `VisitService`; its `UPDATE`s are not |
| Camera filter (`QZXingFilter.cpp`, `QZXing.cpp`) | the frame, `decoding`, the worker, the format found last | `run`, `processVideoFrameProbed`, `decodeImage`, the handlers of the signals | `CodeFilter`, `DecodedFrames` |
| QR encoder and decoder (`zxing/qrcode`, `zxing/common/reedsolomon`) | none: functions from texts to codes and back | `encode`, `decode` and all they call | `ReedSolomon`, `QRFormat`, `QRVersion`, `QRMatrix`, `QRBlocks`, `QRCode` |
| Other readers of zxing, pages, translations | - | never called; layout | no |

How they interact.  The listener and the pool live in the main thread.  The
listener hands a connection to a handler with a queued call
(`QMetaObject::invokeMethod(..., Qt::QueuedConnection)`), after which
everything about that connection happens in the handler's thread, in slots
that its socket and its timer call.  When a request is complete the slot
`read()` calls `RequestHandler::service()` in the same thread and then either
waits for the next request or closes.  All handler threads run `service()` on
the same `RequestHandler`, the same global `ServerSettings` and the same SQLite
connection; nothing there is locked.  Inspectors and administrators are
ordinary HTTP clients.  Sessions, static files, templates and the file logger
belong to the HTTP library the server is built on; the server of today installs
the plain logger and serves no session, so their callers in the models are those
their interfaces allow.  In the inspector the render thread passes each frame of
the camera to the filter, a worker decodes one of them, and the decoder's signals
are queued for the thread of the user interface, where the viewer page takes the
text.  The codes that members carry are drawn by the same library in the
administrator's pages.

What is hard.

* The flag `busy` is read and written by the main thread and by the handler's
  thread with no lock between them: the mutex of the pool protects only
  main-thread code.
* Qt runs slots from within waits: `disconnected()` is entered from `read()`
  and `readTimeout()`, and `read()` from `readTimeout()`.
* The cleanup and the shutdown wait for a handler's thread, which waits for a
  client.
* "new visit" is two SQL statements; between them other threads delete members
  and events, wipe the tables, switch databases, or count the same member.
* `set dbname` is a sequence of steps on a connection that every other
  thread uses, and reopens when it finds it closed; it has an error path; and it makes
  a path of a name in another way than the start of the server does.
* Time passes between the statements; the day is taken in UTC in one place and
  in local time in another.
* The inspector application sends a request per recognised code and goes on
  recognising: answers come late, in any order or not at all, and the slot
  that takes them is connected per request but disconnected for all of them.
* `decoding` and the state of the worker are tested by the render thread and
  written by two others; the page asks the decoder for the format of a code after
  the signal that told its text was queued.
* A code is read through damage: the decoder has to undo what the encoder did,
  for forty versions, four levels and eight masks, with blocks of two lengths.
* Session data is counted by its users and deleted by whoever counts to zero,
  after the lock is released; the timer removes sessions while they are used.
* Cached files are looked up and stored under a lock and read without it.
* The logger may log.
* The re-authorisation delay may change between two recognitions of a code,
  and the list of codes is cleaned with the delay of the moment.

What makes the components correct: every accepted connection has one owner, is
never mixed up with another one and comes to an end; the pool stays between
its limits; the shutdown leaves no thread in `service()`; a member is admitted
once a day and in hours only; a grant means a visit; references between tables
stay intact; the saved name of the database means the one that is open; a code is
sent once per delay, and whoever was sent to the server sees what it says; one
frame is decoded at a time, and what is told of it is its content; a code that
the administrator draws is read as it was meant; data of sessions is deleted
once, when nobody refers to it; no answer is older than its cache allows; no
thread waits for itself.

## 2. Modules

| Module | What it is |
|---|---|
| `ConnectionService` | abstract: what the HTTP layer promises about each connection |
| `HttpPool` | listener, pool and handler threads; properties; fairness |
| `HttpPoolRefinement` | `HttpPool` implements `ConnectionService` |
| `MCHttpPool` + 3 `.cfg` | instances for TLC |
| `HttpPool_proofs` | proofs, those of the refinement included |
| `HttpRequest` | the parser of one request: lines, body, size limits |
| `HttpRequest_proofs` | proofs |
| `SessionStore` | sessions, their handles and the cleanup timer |
| `SessionStore_proofs` | proofs |
| `CachedFiles` | external: files that change, and QCache |
| `StaticFiles`, `TemplateCache` | the two caches over `CachedFiles` |
| `FileLogger` | the message handler, its locks, the file and its timers |
| `MCHttpLibrary` + `.cfg` | `HttpRequest`, the sessions, both caches and the logger for TLC, one of the five in each behaviour |
| `HttpLibrary_proofs` | proofs of the caches, of the logger, and of how `MCHttpLibrary` is composed |
| `Attendance` | abstract: the registers of who was admitted where and when, and what a scan may do to them |
| `VisitService` | `service()` in several threads on one database connection |
| `AttendanceRefinement` | `VisitService` implements `Attendance` |
| `MCVisitService` + 4 `.cfg` | instances for TLC |
| `MCVisits` + `.cfg` | the two scenarios of the largest instance |
| `VisitService_proofs` | proofs of `VisitService`, those of the refinement included, and of the scenario "edits" of `MCVisits` |
| `DecodedFrames` | abstract: what the camera filter promises the page |
| `CodeFilter` | the filter on its three threads; implements `DecodedFrames` |
| `CodeFilter_proofs` | proofs |
| `ReedSolomon`, `QRFormat`, `QRVersion`, `QRMatrix`, `QRBlocks`, `QRCode` | the encoder and the decoder as operators |
| `QRMatrix_proofs` | proofs about what is drawn and what is read of it, from the blocks to the photograph and back |
| `QRPhotographs` | texts, encoded and damaged, and what is read of them |
| `MCCodeFilter` + `.cfg` | the filter before those photographs |
| `Inspector` | the inspector application: recognition, requests, answers, pages |
| `MCInspector` + 2 `.cfg` | instances for TLC |
| `Inspector_proofs` | proofs |

A definition whose comment begins with "Mutant:" is a wrong version of the one
below it, kept to show that a property notices the difference when the two are
exchanged.  Nothing uses it.

### HttpPool

`mainAt` is where the main thread is: in its event loop, in the scan of
`getConnectionHandler()`, about to post a connection, in `cleanup()`, waiting
for a deleted handler's thread (`join`), closing, or stopped.  Both loops over
the pool look at one handler per step, because `busy` changes meanwhile.
`pc[h]` is where the thread of handler `h` is: in its event loop, in `read()`,
in `service()`, back from it (`answered`), waiting for the write buffer to empty
(`flush`), or between the disconnection and `delete currentRequest`
(`release`).  `inTimeout` records that `readTimeout()` is on the stack, and
whether a nested `read()` is on top of it.

| Code | Definitions |
|---|---|
| `httplistener.cpp:63` `incomingConnection` | `IncomingConnection`, `PostConnection`, `RejectConnection` |
| `httpconnectionhandlerpool.cpp:37` `getConnectionHandler` | `ScanBusy`, `TakeIdle`, `CreateHandler` |
| `httpconnectionhandlerpool.cpp:70` `cleanup` | `CleanupTimeout`, `CleanupPass`, `CleanupDelete`, `CleanupDone`, `JoinDeleted` |
| `httpconnectionhandler.cpp` destructor, `thread_done` | `Destroy` |
| `startup.cpp` `stop`, the pool's destructor | `StopListening`, `DeleteHandler`, `DeleteSettings` |
| `httpconnectionhandler.cpp:79` `handleConnection` | `HandleConnection`, `HandleConnectionFails` |
| `read()` | `ReadPart`, `ReadComplete`, `ReadAbort`, `Respond`, `RespondLost`, `CloseAnswered`, `KeepAlive`, `DisconnectFromHost`, `ReleaseRequest`, `ReadReturns` |
| `readTimeout()`, `disconnected()` | `ReadTimeout`, `Disconnected`, `RemoteClosed` |

Data is abstract: a request is the set of connections its bytes came from
(`req`), input comes in pieces, a piece being what one `readFromSocket()` call
consumes, and the handler finds out which of complete, incomplete and too large
it makes.  What a client's operating system has not yet taken is one bit
(`outbox`).  The clients, and the sockets' behaviour as the code relies on it,
are external to the repository.

### HttpRequest

One request on one connection, from its first byte to the status `complete` or
`abort`, which the loop in `HttpConnectionHandler::read()` waits for.  A request
is known by its sizes (`IsRequest`): where its lines end, its Content-Length,
whether it has a boundary, how many bytes of form fields a multipart body
holds.  `arrived` and `taken` count bytes on the connection; `lineBuffer` is what
was taken since the last line.  Each call of `readFromSocket()` is one step; its
actions are told apart by what the call finds.

| Code (`httprequest.cpp`) | Definitions |
|---|---|
| `:24` `readRequest` | `CollectParts`, `EmptyLine`, `FirstLine` |
| `:62` `readHeader` | `CollectParts`, `HeaderLine`, `HeadersComplete`, `BodyTooLarge` |
| `:150` `readBody`, with `parseMultiPartFile` | `ReadPlainBody`, `ReadMultiPartBody` |
| `:291` `readFromSocket`, its last test | `ReadFromSocket`, `Become`, `TooManyBytes` |

`readLine(n)` is taken to return up to n bytes, as its documentation says and
the comment at line 29 supposes.  The sum with Content-Length is an `int` that wraps
(`Plus`).  Errors of the temporary file are left out.  `HttpPool` abstracts from
all this: its pieces complete a request, abort it, or do neither, whenever they
like.

### SessionStore

A session is known by its ID, its data by the same.  `handle` maps each
`HttpSession` object of a thread (what `getSession()` returns, and a variable of the
application) to the data it points at; `sessions` is the map, each entry of which is
one more object.  What happens under the mutex of the store, or under the lock of
the data, is one step; `condemned` holds the data of which a thread has taken the
last reference and which it deletes in a step of its own, as the code does after
the unlock.

| Code | Definitions |
|---|---|
| `httpsession.cpp:30` copy, `:44` `operator=`, `:76` destructor | `Copy`, `AssignSession`, `Release`, `DeleteData` |
| `httpsessionstore.cpp:28`, `:52`, `:91` | `GetSessionId`, `GetSession` (`FindSession`, `CreateSession`, `NullSession`), `GetSessionById`, `SetLastAccess` |
| `:122` `removeSession` | `RemoveSession` |
| `:100` `sessionTimerEvent` | `TimerEvent`, `LookAt`, `Judge`, `DeleteExpired`, `SweepEnds` |

### StaticFiles, TemplateCache

The disk is external (`CachedFiles`): a file goes through versions, each with a size,
and may vanish and come back.  So is QCache: insertion drops other entries, any of
them, until the cost fits, and drops the new one if it alone is too large.
`StaticFiles` has the two critical sections of `service()` and, between them, the opening
of the file, the test of its size and each part that is read, as steps of their own.  An
open file that is replaced gives its old content if the new one took its name, and the new
content if it was written over it (`InOpenFile`; a file that is first written over and then
takes a third one's place is left out), so a document may be made of several versions; its
size is taken to be that of one of them.  `TemplateCache` has the critical section of
`tryFile()` and, after it, the use of the entry that the lock no longer protects.
`rivals` is a history variable: who stored a template since the thread released the lock.

### FileLogger

The three locks are `recursiveMutex` and `nonRecursiveMutex` of `msgHandler()` and
`logMutex` of `log()`, which the timers take as well.  A thread that logs goes from
`enter` through `try` and `log` to `print`, one line at a time, and `leave`; a write or
an open that fails logs in its turn.  The ring of a thread keeps its last messages
until one of at least `minLevel` comes.  `crashed` is the use of a null file:
the flush timer tests it before it takes the lock, whose holder may close it after an error
(`filelogger.cpp:95-98`, 181-186).

### ConnectionService

A promise, and no threads: a connection is admitted or
turned away, a complete request is owed an answer on the connection it came
from, and the server hangs up only when nothing is owed or unsent, unless the
client is gone or the server is being stopped.  The mapping takes "owed" from
the bytes of the request being serviced, whereas the code writes the answer to
whatever socket the handler then holds; the implementation shows that they are
the same.

### VisitService

Each thread of `Threads` is in one of `Places`, which are the points of
`service()` between which another thread can act: before and after reopening
the database, at the if-chain (`dispatch`), before the SELECT and before the
INSERT of "new visit", within a batch of statements or a wipe, and the steps of
`set dbname`.  One SQL statement is one step, since the SQLite driver serialises
them.  A database is a record of tables with the constraints and cascades of
`startup.cpp:182`; `foreignKeys` is the pragma of the connection, which every
`open()` resets.  What a database is called and the file behind the name are told apart:
`InFolder` gives the file `docroot/../sqlite/` + name, `AsIs` the file of a name that is
itself a path.  `FileAtStart` chooses between the two as `startup.cpp:149-152` does, while
"set dbname" takes the folder always, also when it undoes a failed attempt
(`SetDatabaseName`, `RestoreName`).  The `CREATE TABLE` statements of lines 124-127 fail
where the tables are, and are left out.  A visit row carries, besides the columns of the code, the
number of the INSERT that made it (a history variable that only
`OneAdmissionPerDay` and `VisitsAreDue` read).

| Code (`requesthandler.cpp`) | Definitions |
|---|---|
| 26-44, reopening | `Receive`, `Reopen`, `ReopenPragma`, `Open`, `Pragma` |
| 48-86 photos, 155-160 "delete photo" | `AnswerImage`, `DeletePhoto` |
| 91-96 and the last branches | `GetName`, `AnswerText`, `AnswerPicture`, `SetDbStatus` |
| 114-139 "set dbname" | `CloseDatabase`, `SetDatabaseName`, `OpenNew`, `NewPragma`, `RecordName`, `Restore`, `OpenOld` |
| "wipe table", "execute sqlquery" | `BeginStatements`, `ExecuteStatement`, `StatementError`, `WipeError`, `EndStatements` |
| 226-261 "new visit" | `BeginVisit`, `CheckVisit`, `AddVisit`, `OpenEvents`, `NewVisits` |

The query is translated as it stands, including `eventid=visits.eventid` (a
column compared with itself, so that a visit to any event at the checkpoint
counts), the days in UTC and `'%w'` compared with 7.  Of the photo files the model knows
that any of them may fail to open at any time: then a photo is answered with
`defaultface`, an upload is rejected, and where `images/1.jpg` is to be sent nothing is
written.

### Attendance

What a reader who knows no SQL may rely on.  Each database has a register of who was
admitted at which checkpoint on which day, and a list of who would be welcome where at
the moment; a scan takes two looks at the database in use and is decided by the
second.  `Admit` enters the member in the same step in which it grants; it is the only
action that adds to a register, and `Edit`, of the database in use, the only one that
takes away.  `AdmitUncounted` is the one grant without an entry: between the two looks
another thread has entered the member, the member has lost the right to come in, or
the hour or the database has become another.
`Switch` carries nothing from one database into another.

The mapping (`AttendanceRefinement`) makes these of the rows and of the threads: the
register is the projection of `visits` on member, checkpoint of the event and date,
those welcome are the members with an event in its hours to which they are invited
(`EntitledTo`), and the state of a scan is where the thread is and, when it has
finished, the first answer that it wrote, or `"no answer"`.  So an answer written before the decision,
an INSERT that enters somebody else or nobody, or one that goes
into a database other than the one it looked at, is no step of `Attendance`.

### Inspector

One application at a door.  `tagsHistory` is the list of `ViewerPage.qml` as a
function from codes to the time and the place of their entry (places only order
the entries: the loop of `checkTag()` removes old ones until it comes to the
code).  `pending` are the requests under way; a request carries the number it
was sent with and whether another one was ever under way beside it.
`connected` stands for the connections of the slot `getResponse()`, of which
only "none" and "some" can be told apart: the first call of the slot undoes
them all, and Qt does not call a slot through a connection that is gone.
`photoImage` is the source of the picture and the request it answers.
`recognised` is a history variable: when each code was last sent by this viewer
and the least delay in force since.  Only `SentOncePerDelay` and
`RefusedWithinDelay` read it.

| Code | Definitions |
|---|---|
| `ViewerPage.qml:55` `onTagFound`, `:97` `checkTag` | `AcceptTag`, `RefuseTag`, `Accepts`, `Stale`, `Kept`, `Entries`, `AcceptedEntries` |
| `ViewerPage.qml:136` `configureClient` | `ConfigureClient`, `ApplySettings` |
| `myclient.cpp:14` `sendGet` | `SendGet`, `ConnectSlot` |
| `myclient.cpp:35` `getResponse`, `main.qml:122` its handlers | `Answer`, `NetworkError`, `Finished`, `DisconnectSlot`, `Show`, `Picture` |
| `main.qml:164` `pingGoodTimer` | `PingGood` |
| `ClientSettingsPage.qml`, `main.qml:198` | `OpenSettings`, `EditSettings`, `CloseSettings`, `ClearStack`, `OpenViewer` |
| end and start of the application | `Restart` |

A frame is decoded in another thread and its result delivered as an event, so
a code may still be recognised after the settings page was opened
(`ViewerExists`); the list, like everything else, is touched by the main
thread only.  A settings code is one whose nine fields are complete; one with
another client password changes nothing but is confirmed and pinged for like
the others, as in the code.  The server is external here: it gives any request any
of its answers.  (An answer without a body, which it gives where `images/1.jpg` is
missing, has the type of a picture all the same, and the application treats it as one.)
Visibility (animations, the timer that hides the picture, the hiding at a change of
page) is left out: "shown" means that the picture's source was set and its animation
started.

### CodeFilter and DecodedFrames

`decoding` and `frame` belong to the filter, `worker` is the place of the thread that
decodes, `events` the signals queued for the user interface, `founded` the frame to
which the decoder's format and character set belong, `tag` what the page took.
`run()` is two steps, its tests and the start of the worker; each emission of a
signal is a step.  `told` is a history variable for the refinement.

| Code | Definitions |
|---|---|
| `QZXingFilter.cpp:96` `run` | `Look`, `Accept` |
| `:235` `processVideoFrameProbed`, `:378` `decode` | `ConvertFails`, `Start`, `Return` |
| `QZXing.cpp:379` `decodeImage` | `ReadFails`, `ReadSucceeds`, `EmitFinished` |
| `QZXingFilter.cpp:62`, `:69` | `HandleDecodingStarted`, `HandleDecodingFinished` |
| `ViewerPage.qml:55`, `:81` | `OnTagFound`, `OnCameraResolution` |

`DecodedFrames` says what that amounts to for the page: a frame is taken when none is
worked on, its text is told once with the properties of the same frame, and the frame
is left only after its text, if it has one, has been told.  `Reading` is a constant:
what the decoder makes of a frame.

### QRCode and the modules it extends

Operators, without state.  `ReedSolomon` has the field of 256 elements, polynomials,
the encoder's division and the decoder's Euclidean algorithm; `QRFormat` the two words
that are written twice, with the decoder's search for the nearest; `QRVersion` the
table of forty versions; `QRMatrix` where everything stands in the square, the masks
and the penalties by which one is chosen; `QRBlocks` how bytes are divided into blocks
and interleaved, and how the decoder takes the blocks apart; `QRCode` the modes, and
`Encode` and `Decode`.  An exception is the empty set.  `QRMatrix` draws in the order
of `MatrixUtil::buildMatrix()`: `Drawn` puts the patterns and the words `Over` the
square of the masked data.  (`Computed` is the identity; it makes TLC compute a function
once instead of at each application.)

| Code (`zxing/`) | Definitions |
|---|---|
| `common/reedsolomon/GenericGF.cpp`, `GenericGFPoly.cpp` | `Multiply`, `Inverted`, `AddOrSubtract`, `Product`, `Divide`, `EvaluateAt` |
| `ReedSolomonEncoder.cpp`, `ReedSolomonDecoder.cpp` | `BuildGenerator`, `ECBytes`; `RSDecode`, `Syndrome`, `Euclid`, `ErrorLocations`, `ErrorMagnitude` |
| `qrcode/QRVersion.cpp`, `QRFormatInformation.cpp` | `VERSIONS`, `FunctionPattern`, `DecodeVersionInformation`; `DecodeFormatInformation` |
| `qrcode/encoder/MatrixUtil.cpp`, `MaskUtil.cpp` | `FunctionPatterns`, `DataBits`, `Masked`; `GetDataMaskBit`, `CalculateMaskPenalty` |
| `qrcode/encoder/QREncoder.cpp` | `ChooseMode`, `RecommendVersion`, `TerminateBits`, `DataBytesOfBlocks`, `DivideBytes`, `InterleaveBlocks`, `InterleaveWithECBytes`, `BuildMatrix`, `Encode` |
| `qrcode/decoder/QRBitMatrixParser.cpp`, `QRDataMask.cpp` | `ReadFormatInformation`, `ReadVersion`, `ReadCodewords`, `IsMasked` |
| `QRDataBlock.cpp`, `QRDecoder.cpp`, `QRDecodedBitStreamParser.cpp` | `GetDataBlocks`, `CorrectErrors`, `DecodeBits`, `Decode` |

Encoder and decoder hold the same facts in different tables (the order of blocks, the
words of format and version, the function patterns, the powers of the field); that
they agree is stated by the assumptions of these modules, for all forty versions,
which TLC evaluates.

## 3. Runs

| Run | Instance | Shows |
|---|---|---|
| `http_pool` | 3 connections, 3 handler identities, at most 2 in the pool and 1 kept; one descriptor that no socket adopts | the safety properties, `KeepsMinThreads` and the refinement |
| `http_pool_live` | 2 connections, one pipelining two pieces of input and one silent; `FairSpec` | every connection ends, the main thread returns, the pool shrinks |
| `http_pool_leak` | 1 handler | violation: see Findings |
| `http_library` | parser: 7 heads, multipart or not, Content-Length from -2 to the greatest `int` (9), limits 5 and 6, blocks of 3 bytes; sessions: 2 users, 2 sessions, 1 value, expiration after 1 of 2 minutes; files and templates: 2 threads, 2 files through 3 versions (the file vanishes and comes back too large to be kept), a cache of cost 2 and 1; logger: 2 threads and the timers, 3 messages, a ring of 2, 1 backup, writes and opens that fail | the verdict of the parser depends on the bytes only; counters and deletion of sessions, what expires and that it does; nothing stale is served; who may wait for whom |
| `visits` | 3 threads; either 4 requests, which are scans of two members, deletions, an edit, a wipe, switching visits off and on, from a Monday into the Tuesday, UTC one tick behind; or 3 requests to a server started with the path of its database: `set dbname` to that path (in the folder another file has this name), to a file and to one that cannot be opened, one at a time, a scan, a wipe, switching visits off, pictures and the short commands | one admission a day, in hours, references, answers; `VisitService` implements `Attendance`; the open file is one of the saved name; where foreign keys get lost |
| `visits_blocked`, `visits_sunday`, `visits_foreign_keys`, `visits_get_name` | one member, one event | violations: see Findings |
| `inspector` | 2 members, a settings code that raises the delay from 0 to 1, a typed delay of 0, 3 requests, 4 points of time | the delay is kept, nobody is put off, a request alone on the line is answered on the screen |
| `inspector_answers` | 2 members, 2 requests | violation: see Findings |
| `camera` | ten codes: every mode and level, versions 1 to 7, one block and several, damaged up to what can be corrected and, once, beyond; and the three frames that become no image | the filter implements `DecodedFrames`, takes frames again whatever happens, and the page is told what the code was made of |

The bounds and why they are enough.

* `Handlers` (3) is above `MaxThreads` (2), so the limit is met and a handler
  deleted by the cleanup can be followed by a new one; two pool members are
  needed for a connection to be given to the wrong one, three connections for
  one to be refused while two are served.  `MaxInput` lets a connection carry
  a request in one or two pieces, or two requests after one another
  (pipelining, keep-alive).  The theorems below do not depend on any of this.
* In `HttpRequest` the sizes lie on both sides of each limit and of each sum of
  limits that the tests form: heads end below, at, one above and two above
  `maxSize`; a body may be one block, several, or none; 9 overflows with any
  head.  The portions are all there are.
* The components in `http_library` share nothing, so that each behaviour runs one
  of them.  Two users, each with two objects, and the timer are enough for a session
  to be copied, assigned over another one and removed while the timer looks at it;
  the second user rests as soon as both sessions exist, and values are set in the
  first minute only.  In `files` and `templates` one step of the clock makes an
  entry out of date; in `files` only one file changes, in `templates` none comes
  back.  Three messages fill a ring of two; three generations of the file need one
  more than there are backups.
* The codes of `camera` are small because TLC computes them module by module; the
  assumptions of the modules add what larger versions do differently: blocks of two
  lengths with their correction (version 10), and the numbers of characters of
  versions 10 and 27.  `Spoil` inverts whole codewords, as many in each block as its
  level corrects.
* Three threads and four requests let two scans overlap while a third thread
  edits, with one more request before or after them; where the database is set, three
  requests let the tables be switched under a scan and under a wipe.  `TicksPerDay` = 3
  is the smallest number for two events that begin together, end apart and leave a
  time of day outside both.  The four ticks (Monday 1 to Tuesday 1) cross
  midnight in local time, with UTC crossing one tick later.
* `MaxSwitching` = 1 stands for one administrator who sets the database at a
  time; with two, `SettingsNameDatabase` does not hold, and no document
  promises it.
* Three requests (`MaxSends`) let two overlap, the first answer drop the second,
  and a third one find the line free again; `LastTick` = 3 lets a code be sent,
  the delay be raised, the code be refused and be sent again.  Two members and
  a settings code make three entries, enough for the loop to remove entries on
  both sides of the one it looks for.  A third password lets a settings code
  meet a device that has another one.
* `CHECK_DEADLOCK FALSE` throughout, because the server stops (`HttpPool`), no
  request is left (`VisitService`), the bounds are reached (`Inspector`, the HTTP
  library) or the camera sends nothing (`CodeFilter`).

Symmetry is used for handlers, threads and members in runs without liveness.

### Properties

`TypeOK` in each module is the type invariant.  `OwnerIsBusy`, `OneOwner`,
`RequestOfOneClient` and `NoConnectionForgotten` say that the unlocked flag
suffices to keep connections apart.  `KeepsMinThreads` is the lower limit of the
pool (the upper one is the theorem `PoolIsBounded`), `NoServiceAfterStop` the order
of destruction.
`VerdictOfBytes` compares the parser, which applies six tests as bytes come, with
`Acceptable`, which looks at the sizes at once; it shows two oddities that
`Acceptable` therefore has: a multipart body of exactly `maxMultiPartSize` is
refused (line 191 against line 136), and the lines of a multipart request may
be one byte longer than `maxRequestSize`.  `LeavesNextRequest` is what
pipelining rests on and `EveryRequestDecided` says that no cut of the bytes stalls
the parser.  That `readLine()` is never called with 0, which means no limit, is the
theorem `LimitStays`.

`RefCountExact` and `DeletedOnce` say that the sessions' counting is sound although the
last user decides after the unlock: whoever copies data holds a reference to it, or
finds it in the map under the mutex.  `OnlyIdleExpire` allows one thing that might
surprise: a session that is used while the timer's pass goes on may still be removed;
its user keeps the data and loses the session.  `IdleSessionsEnd` needs the timer's
look at a session not to count as a use of it.
`NoStaleAnswer` and `NoStaleTemplate` hold because an entry bears the time at which the
request began, not the one at which it was stored.  `DeletedByRivalsOnly` bounds a
defect of `templatecache.cpp:25, 35`, which use an entry after the unlock: only a
thread that stores another template, or an entry larger than the cache, can make it
vanish.  `DeadlockOnlyByOpen` says that the three locks of the logger cannot make
threads wait for each other, or for themselves, but in one case, which the model
reaches: the log file cannot be opened anew after a rotation, `open()` warns of that
under the lock of `log()`, and the handler takes that lock again.

`OneAdmissionPerDay` and `VisitsAreDue` rest on the INSERT repeating the test of
the SELECT.  `ImplementsAttendance` says of both statements together, on a connection
that other threads close and point at other files, that they amount to one decision
about one database.  `GrantsAreCounted`, which is proved and not run because it follows,
says when the photo may be shown: the INSERT is
answered with it even if it added no row, and the property lists the two ways
in which that can come about.  `ReferencesExist` rests on foreign keys being
on, `ForeignKeysKept` names the one step after which they are off for good.

`SettingsNameDatabase` relates the connection to what the saved name will mean when the
server is started again.  A failed `set dbname` is undone, and a successful one is what the
next start finds, if the name is not a path.  If it is, the file may be the one of that name
in the folder: after `set dbname` with a slash in the name, and after a failed `set dbname` on
a server that was started with the path of its database.  Then the undo does not bring back
the file that was open, though the saved name is that of the next start.  The property allows
these two cases and shows that there is no third.

`OneAnswer` says of each pass of `service()` that it ends with one answer, and lists where it
does not: "set dbstatus" and "delete photo" write none; where `images/1.jpg` is to be sent,
nothing is written if it cannot be opened, which is the only way for a scan to go
unanswered, and only while visits are switched off; "get name" writes two.

`SentOncePerDelay` is what the list of codes is for; it is stated with the least
delay that was in force since the code was sent, because entries that are
stale by a shorter delay are removed and forgotten, and it ends where the
viewer is made anew, which forgets the list.  `RefusedWithinDelay` is its
converse: a code held before the camera all the time is let through as soon
as the delay is over.  `ListensForLatest` and `LoneAnswerShown` say that the one
slot shared by all requests is never left disconnected, or connected, to the
harm of the next request; `EveryAnswerShown`, which would be wanted, fails.

`ImplementsDecodedFrames` is the promise of the camera filter.  It holds although
`decoding` is tested before it is set and cleared by another thread: the worker's own
state is the second test, and the signals are handled in the order in which they
were queued, so that the last one, which clears the flag, comes after the text.  A
change of that order, or a second signal that clears the flag, would break it.
`DecodingEnds` says that each of the early returns leaves the filter ready.
`ContentComesBack` says that encoder, damage, decoder and filter together are the
identity on the text.

### Fairness

`FairSpec` of `HttpPool` assumes

* weak fairness of the main thread's progress and of each handler thread: a
  thread with something to run runs, and an armed timer counts as something;
* weak fairness of `CleanupTimeout`: the timer is periodic;
* strong fairness of `IncomingConnection` for each connection: it is possible
  only while the main thread is in its event loop, which it leaves for the
  cleanup again and again;
* weak fairness of `Transmit`: a client takes what the server has written, or
  leaves.  No timer of the server enforces this: `read()` and `readTimeout()`
  wait for the write buffer in a loop (`httpconnectionhandler.cpp:261`).

`LibrarySpec` assumes weak fairness of `ReadFromSocket`, which the handler calls in a
loop while bytes are there, of `TimerEvent`, since the store's timer is periodic, and
of the steps of its pass, which no user can hold up for good: users keep the
mutex for one step.

`FilterSpec` assumes weak fairness of the start of the worker that `run()` has decided
upon, of the worker and of the event loop of the user interface.  The camera need
not send frames.

Nothing is assumed of `Connect`, `Send` and `Leave`, of the shutdown, or of what
a piece of input completes.

## 4. Findings

Each is a run that TLC ends with a counterexample.

1. `http_pool_leak` / `BusyMeansInUse`.  `handleConnection()` sets `busy` and
   returns when `setSocketDescriptor()` fails, without clearing it: the handler
   is lost to the pool (`httpconnectionhandler.cpp:91`).
2. `visits_blocked` / `GrantMeansVisit`.  While visits are switched off, a scan
   falls into the last `else` of `service()`, which sends a picture; the
   inspector shows that as a grant (`requesthandler.cpp:226`, 283).
3. `visits_sunday` / `InvitedAreAdmitted`.  `strftime('%w')` is 0 on Sunday and
   the query asks for 7 (`requesthandler.cpp:237`).
4. `visits_foreign_keys` / `ReferencesExist`.  After a failed `set dbname` the old
   database is opened without the pragma (`requesthandler.cpp:136`).
5. `visits_get_name` / `LastPartSentOnce`.  "get name" writes two last parts
   (`requesthandler.cpp:91`, 150).
6. `inspector_answers` / `EveryAnswerShown`.  The first answer disconnects the slot
   for all requests under way; the second member's answer is dropped
   (`myclient.cpp:30`, 47).

The deadlock of the logger and the use of a vanished template, described under
Properties, are in code of the library that this server does not call; no document
of the repository promises anything about them beyond the comment at
`logger.cpp:50`.

## 5. Proofs

All theorems hold for every value of the constants that satisfies the assumptions
of the modules:

* `PoolAssumption` (`HttpPool`): finitely many handlers, limits that are natural
  numbers, two distinct null values.
* `ServiceAssumption` (`VisitService`): the constants have their types, the threads are
  finitely many, keys of different tables differ, the databases are well-typed and
  their old visits are not numbered.  Which name means which file, in the folder or as a
  path, is left open.
* `RequestAssumption` (`HttpRequest`): requests are as `IsRequest` says, limits within
  an `int`.
* `StoreAssumption` (`SessionStore`): finitely many threads, the timer and the null
  session distinct from the rest.
* `DiskAssumption`, `StaticAssumption`, `TemplateAssumption`, `LoggerAssumption`
  (`CachedFiles`, `StaticFiles`, `TemplateCache`, `FileLogger`): the constants have their
  types, a file has at least one version, templates have finitely many files and
  threads, the main thread of the logger is not one of its writers.
* `InspectorAssumption` (`Inspector`): types, and no code is both a member's and one of
  settings.
* `FramesAssumption` (`CodeFilter`): the kinds of frames are distinct, and a frame has one
  reading at most.
* `WordsApart`, `ByteOfBits` (`QRFormat`), `SamePatterns`, `SameCells`, `CellsOnce`,
  `RoomForCodewords` (`QRMatrix`), `SameBlocks`, `BytesMatch` (`QRBlocks`): facts about the
  tables of the code, for all 32 formats, 40 versions and 4 levels, and about the 256
  bytes.  They have no parameters: TLC computes them, completely, when the run `camera`
  starts.

A theorem that needs more than that says so, and is marked below.

`HttpPool_proofs`.  The inductive invariant is `IInv`: `TypeOK`, `OwnerIsBusy`,
`OneOwner`, `RequestOfOneClient` and `NoConnectionForgotten`, which need each
other, and two auxiliary conjuncts.  `MainInv` says what the main thread holds
at each place: at `post` a busy handler without a connection, at `join` an
idle one (no other thread could make it busy); without it, posting could give
a second connection to a handler.  `AbsentInv` says that nothing runs in a
handler outside the pool.  `OwnerIsBusy` is the centre: a scan that finds
`busy` false may conclude that the handler owns nothing, and since only the main
thread gives handlers connections, the conclusion is still true when it acts.
`PoolIsBounded` needs one fact more, `PoolGrowth` (the pool grows only under
the test of `maxThreads`), and `CleanupKeepsMinThreads` another inductive
invariant, `CleanupInv`: while `cleanup()` runs there are at least `idleCounter`
idle handlers among those it has passed.  Threads only clear flags meanwhile,
so the count may be too low but not too high.

In the same module `PoolImplementsService` proves `Spec =>
ImplementsService`: every step of `HttpPool` under `IInv` is a step of
`ConnectionService` or a stutter.  It needs `OutboxInv` besides: only an accepted
or ended connection has unsent bytes, so that a new connection is turned away
with nothing owed.

`HttpRequest_proofs`.  Types, `VerdictOfBytes`, `LeavesNextRequest` and `LimitInForce` are theorems, for
limits, blocks and requests of any size.  The invariant `IInv` adds two facts
to them.  `LineInv`: while lines are read the size equals what was taken, and
is below the end of the present line.  `BodyInv`: while a body is read it lists
the tests the request has passed already, from which the verdict follows
when the body ends.  The case of the overflow is in `HeadersStep`.

`SessionStore_proofs`.  `RefCountExact`, `DeletedOnce` and `OnlyIdleExpire` are
theorems.  The invariant `StoreInv` adds to the first two where each thread is:
`PlaceInv` says that a thread has condemned data exactly at "delete", so that it takes
no second reference away before it has deleted, and `SweepInv` that what the timer has
left to look at is still in the map, and that what it has seen of a session is its last
access or was overtaken during the pass.  `ExactMove` does the counting once, for an
object that turns from some data to others; `DeletedAfter` draws the conclusion about
deletion from it: data are condemned only by the step that takes the last reference,
and nobody can copy a reference that no object has.

`VisitService_proofs`.  `TypeCorrect` needs `PlacesFit` (at each place the
request is of the right kind).  `OneAdmissionPerDay` is inductive with the types
and the fact that no row bears a number above `inserted`: the INSERT adds rows
only if the member has no row of that day at that checkpoint, and all its
rows bear one new number; the SELECT plays no part.  `VisitsCountedInTime`
is similar.  `ProtectionKept` (`ForeignKeysKept`) holds with any number of
administrators.

`ReferencesKept` says that `ReferencesExist` holds in every behaviour in which no "set
dbname" begins, if the files are consistent at first.  Its invariant `Enforced` says that
the connection is then as `Startup::start()` left it: closed, or with foreign keys
on; each statement is shown to keep `Consistent`, a wipe and a cascade included.
`EditsKeepReferences` draws from it what the run `visits` checks, in the scenario
"edits", in which nobody sets the database.

`AnsweredOnce` (`OneAnswer`) needs `Unanswered`: nothing has been written while a request
is served.  Each step then begins a response, leaves it empty, writes one answer
and ends the request, or ends it in silence where that is possible; the lemma
`AnswersChange` says so of them all, the error paths included.
`GrantedVisitsExist` (`GrantsAreCounted`) is an action property: the INSERT joins the
tables anew, so if any event still entitles the member, it has added a visit or one
was there.

`VisitsImplementAttendance` proves `Spec => ImplementsAttendance`, with no limit on
administrators who set the database at the same time.  Two invariants are needed.  The types
with `PlacesFit` say that the steps of other requests, which also answer, are not those
of a scan (`ScanStays`); `Unanswered`, that the answer a scan writes is its first, hence the
verdict (`ScanMoves`).  A thread that takes its next request has a verdict behind it, "no
answer" included, and not a scan in progress (`ReceiveAsks`).  What the two statements have in common is the
lemma `DueIsOpen`: the WHERE clause finds an event exactly if the member is welcome and
has no entry.  `InsertEnters` draws from it that an INSERT adds one entry or none, however
many events match.  A statement of a batch is an `Edit`, because no statement adds visits
(`ResultType`); everything about the connection is a `Switch`.

`SettingsAgree` (`SettingsNameDatabase`) assumes `MaxSwitching <= 1`, as the property's own
comment does: with two administrators it is false, which is listed as a hazard.
`OneSwitching` makes the administrator unique.  `FileOf` says which files a name may mean,
as a path and in the folder.  `NameInv` says at which steps of "set dbname" the file that the
connection names need not be one of the saved name, and the open file need not be the one it
names (`OtherName`, `OtherFile`), and that `curdbname` then remembers the saved name.  Any
other thread may reopen the connection at each of these steps; it opens the file the
connection names, which is why `OtherFile` is smaller than `OtherName`.

`HttpLibrary_proofs`.  The properties of the two caches are about times, and both rest on
facts that no later change of a file can undo: `Held` (the file had this version at that
time or later) and `InTime` (less than `cacheTime` before).  `StaticAnswersFresh` needs that
the version a thread has opened and each one it has read a part of are held at the time *its request began*, not at the
insertion: the entry bears that earlier time, so a thread that stalls
between reading and inserting makes an entry that is old at once.  Were the time taken
at the insertion the invariant would fail there.  `TemplatesFresh` is the same with the
source that stands in for a file.  `OnlyRivalsDelete` follows a pointer after the lock
is released; it needs that the address of an entry is free when it is given
(there are finitely many threads and entries, hence always a free one).
`DeadlockFreeButOpen` needs `LockInv`, which tells the holder of each of the three locks from
where the threads are, and says that the main thread goes through `msgHandler()` only when
it could not open the file; without that case the order of the three locks leaves no
circle.  `LibraryIsItsComponents` shows that a behaviour of `MCHttpLibrary` is a behaviour of
each component, hence `LibraryTypesCorrect` (`LibraryTypeOK`), and that what is
proved of the components holds in the run.

`Inspector_proofs`.  The five properties of the run `inspector` are theorems.
`HistoryInv` ties the list to the history: an entry has the time the
history has, a code that was recognised and has no entry is older than a delay
in force since.  The list alone would not do, because a removed entry
leaves no trace of why a code may be sent.  `AnswerInv` adds to
`ListensForLatest` that a request which met no other one is the only one under
way and has the slot connected.

`CodeFilter_proofs`.  `FilterRefinement` proves `FilterSpec => ImplementsDecodedFrames`, for
any frames and any readings of them.  The invariant `FilterInv` lists, for each
place of the worker, which signals can be queued and what `decoding`, `founded` and
`told` then are: while the last signal of a frame is queued the filter is decoding and
nothing else can come in front of it.  It is proved by one lemma per action.

`OnlyContentShown` is the filter's half of `ContentComesBack`: if the decoder reads no frame
wrongly, then the page never shows anything but the content of the frame whose properties
it has.  Its invariant `TagRead` follows the text and the properties through the queue.

`QRMatrix_proofs`.  `FormatIsRead`: with each copy of the format's word damaged in at most
three bits, any three, the decoder reads the format, since words at distance 7
leave no other as near (`Triangle`, `OthersFarther`).  The comment at `QRVersion.cpp:176`
gives as a reason that no two words "differ in less than 4 bits"; that would not be
enough to tell which of two words was meant, but the words of the table differ in more,
as `WordsApart` shows.  `VersionIsRead` is stronger: one copy
of the version's word may be lost entirely, because `readVersion()` compares what it found
with the size of the code.  `PhotographIsRead` joins them with the drawing, for every
version, format, mask and sequence of bits that fits: what is drawn later does not
cover the words or the data (`WordsDrawn`, `BitDrawn`), encoder and decoder walk through
the same free cells in the same order, the decoder's mask undoes the encoder's
(`SameMasks`), and so each undamaged bit is read as it was meant.

`BlocksComeBack`: whatever the bytes are, the decoder's formulas for where a codeword
stands find what the encoder put there by going round the blocks, though some blocks are
longer by a byte.  `FlattenSeqJoins` says once what a sequence of sequences holds at which
place; `RoundRobinEntries` applies it to the turns, of which the last may be shorter, and
`Divided` to the blocks, whose offsets the encoder adds up while the theorem needs them
in closed form (`Start`).  `SentIsPlaced` and `BlocksAreRead` then meet in one definition,
`Place`.  These are inductions along a sequence.  Since no theorem with a
predicate as parameter can be used, they take the least number for which the claim
would fail (`LeastNumber`, from the well-foundedness of the numbers).

`DamageSpoilsFewCodewords` joins that with the drawing, from bytes to a photograph and
back to blocks: of any set of codewords, such as those of one block, no more are wrong than
of the cells that hold them, wherever the damage is; the sizes of the blocks are always
right.  It needs that no two codewords have the same place (`PlaceOnce`) and no two bits
the same cell (`DataWay`), so that each wrong codeword has a wrong cell of its own.  As
the decoder corrects half as many codewords of a block as the block has error correction
bytes, that many wrong cells of each block are harmless, if the Reed-Solomon decoder does
what it should; that is what the run `camera` checks.

Only model-checked: the six liveness properties (TLAPS does not handle fairness), and
`ContentComesBack` as a whole.  Between the filter's part and the part from blocks to
photograph, which are proved, lie the Reed-Solomon decoder and the segments of the text:
both are modelled by recursive operators, as the decoder's loops call for, and TLAPS has
no induction over these.

## 6. Not modelled, and why

* The text of requests, answers and results; headers, cookies, chunks.
* What the parser stores: parameters, cookies, the parts of a multipart body, and
  errors of the temporary file.
* SSL sockets, and reading the `.ini` file.
* What photo files hold, and which there are: that one may fail to open is all the model
  knows of them.  The PostgreSQL branch.
* `UPDATE` statements.  Those for members and groups change names, which the model does not
  have; the one for an event changes its time and place, and `Schedule` is a constant.
  That an event is moved between the two statements of a scan is therefore not covered; that
  it is deleted is.
* `StaticFiles`: errors in the middle of a file, which cut a document short.
* The sharing of one `QSqlDatabase` between threads, which Qt leaves undefined;
  a statement is atomic here.
* Static files: directories, refused paths, types of content.  Templates: variables,
  conditions and loops (`template.cpp`), which format text.  Logging: the dual logger
  and the wording of messages.  The service wrapper (`qtservice`), which starts the
  program.
* Of the camera filter: the conversion of pixel formats, the time it measures
  (`QZXingFilter.cpp:72` reads it before `QZXing.cpp:485` sets it), and the
  destruction of the filter or the page while a worker runs, whose moment Qt
  chooses.
* Of the QR library: finding a code in a picture (binarizer, detector), whose result
  here is the square of modules; segments that the encoder never writes; the text as
  characters (a text is a sequence of ASCII codes).  The other readers of zxing
  (`oned`, `pdf417`, `aztec`, `datamatrix`), the conversion of character sets and
  the arithmetic of large numbers they need are vendored and never called; they, and
  `qtservice`, are most of the lines of this repository.
* Of the inspector application: the lock, the console, animations and the
  timer that hides the picture; a device clock that is set back; the second
  and a half in which a viewer may be opened twice (`main.qml:208`).
* Other pages and translations.

## 7. Plan

1. Inspectors with `VisitService`, end to end over `Attendance`: a grant that is shown at a
   door is an admission of that member at that door, or one of the two exceptions.
2. `SqlClient`: the administrator's client (`sqliteclient.cpp`), whose slot stays
   connected after an error.
3. Theorems: the bits of the modes (`AppendBytes` and `DecodePiece`, for each piece of a
   text); what becomes of the logger's messages when a file is rotated.
4. The times and places of events as rows that an administrator may update, in
   `VisitService`.
5. The detector: that three finder patterns and an alignment pattern give the
   square back whatever way the camera is turned.
