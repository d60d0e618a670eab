------------------------------ MODULE HttpRequest ------------------------------
(***************************************************************************)
(* The parser of one HTTP request (httprequest.cpp).  The handler calls    *)
(* readFromSocket() while bytes are there and the request is not decided;  *)
(* bytes arrive in whatever portions the network makes of them, and those  *)
(* of the next request may follow at once (pipelining).                    *)
(*                                                                         *)
(* A request is known by its sizes: where its lines end, what its          *)
(* Content-Length says, whether its Content-Type has a boundary, and how   *)
(* many bytes of a multipart body are values of form fields.               *)
(***************************************************************************)
EXTENDS Integers, Sequences

CONSTANTS
    Requests,           \* requests that clients send
    maxSize,            \* maxRequestSize
    maxMultiPartSize,
    BlockSize,          \* 65536
    IntMax,             \* the greatest int
    Following           \* bound: bytes that follow the request

\* Leading empty lines come before line first; it is the last one if it is
\* broken, and else headers follow, and an empty line.
IsRequest(r) ==
    /\ r.ends \in Seq(Nat) /\ r.first \in 1 .. Len(r.ends)
    /\ r.ends[1] > 0
    /\ \A i, j \in 1 .. Len(r.ends) : i < j => r.ends[i] < r.ends[j]
    /\ r.broken \in BOOLEAN /\ r.multipart \in BOOLEAN
    /\ r.broken <=> r.first = Len(r.ends)
    /\ r.length \in -(IntMax + 1) .. IntMax
    /\ r.fields \in Nat
    /\ r.fields <= IF r.length < 0 THEN 0 ELSE r.length

ASSUME RequestAssumption ==
    /\ \A r \in Requests : IsRequest(r)
    /\ IntMax \in Nat
    /\ maxSize \in 0 .. IntMax - 1 /\ maxMultiPartSize \in 0 .. IntMax
    /\ BlockSize \in Nat \ {0} /\ Following \in Nat

VARIABLES
    request,           \* what the client sends (never changes)
    arrived, taken,    \* bytes that arrived; bytes read from the socket
    line,              \* the line being read
    status, currentSize, expectedBodySize,
    boundary,          \* there is one
    bodySize,          \* bodyData.size()
    fileSize           \* tempFile->size()

socketVars == <<request, arrived>>
bodyVars == <<expectedBodySize, boundary, bodySize, fileSize>>
vars == <<socketVars, taken, line, status, currentSize, bodyVars>>

Statuses == {"waitForRequest", "waitForHeader", "waitForBody", "complete", "abort"}
Decided == status \in {"complete", "abort"}

\* The bytes of the lines, and of the whole request.
HeadEnd == request.ends[Len(request.ends)]
RequestEnd ==
    HeadEnd + IF request.broken \/ request.length < 0 THEN 0 ELSE request.length

TypeOK ==
    /\ request \in Requests
    /\ arrived \in Nat /\ taken \in 0 .. arrived
    /\ line \in 1 .. Len(request.ends) + 1
    /\ status \in Statuses
    /\ currentSize \in Nat /\ expectedBodySize \in Int
    /\ boundary \in BOOLEAN
    /\ bodySize \in Nat /\ fileSize \in Nat

Init ==
    /\ request \in Requests
    /\ arrived = 0 /\ taken = 0 /\ line = 1
    /\ status = "waitForRequest"
    /\ currentSize = 0 /\ expectedBodySize = 0
    /\ boundary = FALSE
    /\ bodySize = 0 /\ fileSize = 0

Arrive(n) ==
    /\ arrived + n <= RequestEnd + Following
    /\ arrived' = arrived + n
    /\ UNCHANGED <<request, taken, line, status, currentSize, bodyVars>>

-----------------------------------------------------------------------------
Lesser(m, n) == IF m < n THEN m ELSE n

\* Mutant: as if read() gave back bytes for a negative number.
ReadUnchecked(toRead) == Lesser(toRead, arrived - taken)
\* What read(toRead) returns.
Read(toRead) == IF toRead < 0 THEN 0 ELSE Lesser(toRead, arrived - taken)

\* readLine() stops after the line.
ReadLine == Lesser(Read(maxSize - currentSize + 1), request.ends[line] - taken)

LineRead == taken + ReadLine = request.ends[line]

\* int addition.  Only the test of Content-Length can overflow: what is read at
\* once is far smaller than an int.
Plus(m, n) == IF m + n > IntMax THEN m + n - 2 * (IntMax + 1) ELSE m + n

\* Mutant: a request that just fits is refused.
TooManyBytesEarly(size, multipart) ==
    IF multipart THEN size > maxMultiPartSize ELSE size >= maxSize
TooManyBytes(size, multipart) ==
    IF multipart THEN size > maxMultiPartSize ELSE size > maxSize

\* Mutant: the test is made for bodies only.
BecomeUntested(s) ==
    status' = IF s \in {"complete", "waitForBody"}
                   /\ TooManyBytes(currentSize', boundary') THEN "abort" ELSE s
\* The test at the end of readFromSocket(); also a complete request may fail it.
Become(s) ==
    status' = IF TooManyBytes(currentSize', boundary') THEN "abort" ELSE s

-----------------------------------------------------------------------------
(* readRequest() and readHeader().                                         *)

ReadsLines == status \in {"waitForRequest", "waitForHeader"}

TakeLine ==
    /\ ReadsLines
    /\ taken' = taken + ReadLine
    /\ currentSize' = currentSize + ReadLine
    /\ line' = IF LineRead THEN line + 1 ELSE line

CollectParts ==
    /\ TakeLine
    /\ ~LineRead
    /\ UNCHANGED <<socketVars, bodyVars>>
    /\ Become(status)

EmptyLine ==
    /\ TakeLine
    /\ LineRead /\ line < request.first
    /\ UNCHANGED <<socketVars, bodyVars>>
    /\ Become("waitForRequest")

FirstLine ==
    /\ TakeLine
    /\ LineRead /\ line = request.first
    /\ UNCHANGED <<socketVars, bodyVars>>
    /\ Become(IF request.broken THEN "abort" ELSE "waitForHeader")

HeaderLine ==
    /\ TakeLine
    /\ LineRead /\ request.first < line /\ line < Len(request.ends)
    /\ UNCHANGED <<socketVars, bodyVars>>
    /\ Become("waitForHeader")

BodyTooLarge ==
    IF request.multipart THEN request.length > maxMultiPartSize
    ELSE Plus(request.length, currentSize') > maxSize

HeadersComplete ==
    /\ TakeLine
    /\ LineRead /\ request.first < line /\ line = Len(request.ends)
    /\ boundary' = request.multipart
    /\ expectedBodySize' = request.length
    /\ UNCHANGED <<socketVars, bodySize, fileSize>>
    /\ \/ request.length = 0 /\ Become("complete")
       \/ request.length # 0 /\ BodyTooLarge /\ Become("abort")
       \/ request.length # 0 /\ ~BodyTooLarge /\ Become("waitForBody")

-----------------------------------------------------------------------------
(* readBody().                                                             *)

\* Mutant: what has been read before is asked for again.
MissingAnew(size) == expectedBodySize
Missing(size) == expectedBodySize - size

\* Mutant: one byte too many is waited for.
AllReadLate(size) == size > expectedBodySize
AllRead(size) == size >= expectedBodySize

ReadPlainBody ==
    /\ status = "waitForBody" /\ ~boundary
    /\ LET n == Read(Missing(bodySize))
       IN /\ taken' = taken + n
          /\ currentSize' = currentSize + n
          /\ bodySize' = bodySize + n
    /\ UNCHANGED <<socketVars, line, expectedBodySize, boundary, fileSize>>
    /\ Become(IF AllRead(bodySize') THEN "complete" ELSE "waitForBody")

\* parseMultiPartFile() counts the values of the form fields.
ReadMultiPartBody ==
    /\ status = "waitForBody" /\ boundary
    /\ LET n == Read(Lesser(Missing(fileSize), BlockSize))
       IN taken' = taken + n /\ fileSize' = fileSize + n
    /\ UNCHANGED <<socketVars, line, expectedBodySize, boundary, bodySize>>
    /\ \/ /\ fileSize' >= maxMultiPartSize
          /\ UNCHANGED currentSize
          /\ Become("abort")
       \/ /\ fileSize' < maxMultiPartSize /\ AllRead(fileSize')
          /\ currentSize' = currentSize + request.fields
          /\ Become("complete")
       \/ /\ fileSize' < maxMultiPartSize /\ ~AllRead(fileSize')
          /\ UNCHANGED currentSize
          /\ Become("waitForBody")

ReadFromSocket ==
    /\ arrived > taken
    /\ \/ CollectParts \/ EmptyLine \/ FirstLine \/ HeaderLine
       \/ HeadersComplete
       \/ ReadPlainBody \/ ReadMultiPartBody

Next == ReadFromSocket \/ \E n \in 1 .. RequestEnd + Following : Arrive(n)

Spec == Init /\ [][Next]_vars

\* The loop of HttpConnectionHandler::read() goes on while bytes are there.
FairSpec == Spec /\ WF_vars(ReadFromSocket)

-----------------------------------------------------------------------------
(* Properties.                                                             *)

\* Reference: which requests are taken, told from their sizes at one glance.
\* A multipart body must be smaller than maxMultiPartSize, by line 191, and the
\* lines before it may be one byte longer than others: that byte is read to
\* detect the overflow, and with it the boundary, which changes the limit.
Acceptable ==
    /\ ~request.broken
    /\ IF request.multipart
         THEN /\ HeadEnd <= maxSize + 1
              /\ HeadEnd + request.fields <= maxMultiPartSize
              /\ request.length < maxMultiPartSize \/ request.length = 0
         ELSE RequestEnd <= maxSize

\* The verdict does not depend on how the network cuts the bytes into portions,
\* nor on which of the tests comes first, nor on the int that overflows when
\* Content-Length is huge (httprequest.cpp:131, 191, 306).
VerdictOfBytes ==
    /\ status = "complete" => Acceptable
    /\ status = "abort" => ~Acceptable

\* A request never takes bytes of the one that follows on the same connection,
\* and leaves none of its own to it when it is complete
\* (httprequest.cpp:159, 185).
LeavesNextRequest ==
    /\ taken <= RequestEnd
    /\ status = "complete" => taken = RequestEnd

\* readLine() is never given 0, which would lift the limit instead of enforcing
\* it (httprequest.cpp:29, 64).
LimitInForce == ReadsLines => currentSize <= maxSize

\* A request that has arrived is decided: neither a line cut between its last
\* two bytes nor a size at the limit makes the parser wait for ever.
EveryRequestDecided == arrived >= RequestEnd /\ request.length >= 0 ~> Decided
=============================================================================
