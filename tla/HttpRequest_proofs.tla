--------------------------- MODULE HttpRequest_proofs ---------------------------
(***************************************************************************)
(* Proofs about the request parser, for requests and limits of any size.   *)
(***************************************************************************)
EXTENDS HttpRequest, TLAPS

\* While lines are read: where in them, and that the size is what was taken.
LineInv ==
    ReadsLines =>
      /\ line \in 1 .. Len(request.ends)
      /\ taken < request.ends[line] /\ currentSize = taken
      /\ ~boundary /\ bodySize = 0 /\ fileSize = 0
      /\ status = "waitForRequest" => line <= request.first
      /\ status = "waitForHeader" => request.first < line /\ ~request.broken

\* While a body is read: what was taken beyond the lines, and which of the
\* tests the request has passed.
BodyInv ==
    status = "waitForBody" =>
      /\ ~request.broken /\ request.length # 0
      /\ boundary = request.multipart /\ expectedBodySize = request.length
      /\ boundary =>
           /\ currentSize = HeadEnd /\ taken = HeadEnd + fileSize
           /\ HeadEnd <= maxSize + 1 /\ HeadEnd <= maxMultiPartSize
           /\ request.length <= maxMultiPartSize
           /\ IF request.length > 0 THEN fileSize < request.length
              ELSE fileSize = 0
      /\ ~boundary =>
           /\ currentSize = taken /\ taken = HeadEnd + bodySize
           /\ taken <= maxSize
           /\ IF request.length > 0 THEN bodySize < request.length
              ELSE bodySize = 0

IInv == TypeOK /\ LimitInForce /\ LineInv /\ BodyInv
            /\ VerdictOfBytes /\ LeavesNextRequest

-----------------------------------------------------------------------------
LEMMA RequestFacts ==
    ASSUME request \in Requests
    PROVE  /\ Len(request.ends) \in Nat /\ Len(request.ends) >= 1
           /\ request.first \in Nat /\ request.first >= 1
           /\ request.first <= Len(request.ends)
           /\ HeadEnd \in Nat /\ HeadEnd > 0
           /\ \A i \in 1 .. Len(request.ends) :
                 /\ request.ends[i] \in Nat
                 /\ i = Len(request.ends) => request.ends[i] = HeadEnd
                 /\ i < Len(request.ends) => /\ request.ends[i] < HeadEnd
                                             /\ request.ends[i] < request.ends[i + 1]
           /\ request.broken \in BOOLEAN /\ request.multipart \in BOOLEAN
           /\ request.broken <=> request.first = Len(request.ends)
           /\ request.length \in Int /\ request.length <= IntMax
           /\ request.length >= -(IntMax + 1)
           /\ request.fields \in Nat
           /\ request.fields <= IF request.length < 0 THEN 0 ELSE request.length
  <1>1. IsRequest(request)
    BY RequestAssumption
  <1>2. PICK k : k = request.first
    OBVIOUS
  <1>3. Len(request.ends) \in Nat /\ k \in 1 .. Len(request.ends)
    BY <1>1, <1>2 DEF IsRequest
  <1>4. Len(request.ends) \in Nat /\ Len(request.ends) >= 1
    BY <1>3
  <1>5. /\ request.first \in Nat /\ request.first >= 1
        /\ request.first <= Len(request.ends)
    BY <1>2, <1>3
  <1>6. \A i \in 1 .. Len(request.ends) : request.ends[i] \in Nat
    BY <1>1, <1>4 DEF IsRequest
  <1>7. \A i \in 1 .. Len(request.ends) :
           i < Len(request.ends) => /\ request.ends[i] < HeadEnd
                                    /\ request.ends[i] < request.ends[i + 1]
    BY <1>1, <1>4, <1>6 DEF IsRequest, HeadEnd
  <1>8. HeadEnd \in Nat /\ HeadEnd > 0
    <2>1. request.ends[1] > 0
      BY <1>1 DEF IsRequest
    <2>2. CASE Len(request.ends) = 1
      BY <1>4, <1>6, <2>1, <2>2 DEF HeadEnd
    <2>3. CASE Len(request.ends) > 1
      BY <1>4, <1>6, <1>7, <2>1, <2>3 DEF HeadEnd
    <2>4. Len(request.ends) = 1 \/ Len(request.ends) > 1
      <3>1. PICK n : n = Len(request.ends)
        OBVIOUS
      <3>2. n \in Nat /\ n >= 1
        BY <1>4, <3>1
      <3>3. n = 1 \/ n > 1
        BY <3>2
      <3> QED
        BY <3>1, <3>3
    <2> QED
      BY <2>2, <2>3, <2>4
  <1> QED
    BY <1>1, <1>4, <1>5, <1>6, <1>7, <1>8, RequestAssumption
       DEF IsRequest, HeadEnd

\* read() returns no more than was asked for, and no more than is there.
LEMMA ReadFacts ==
    ASSUME NEW n \in Int, TypeOK
    PROVE  /\ Read(n) \in Nat /\ Read(n) <= arrived - taken
           /\ n >= 0 => Read(n) <= n
           /\ n < 0 => Read(n) = 0
  BY DEF Read, Lesser, TypeOK

\* What any step that reads a line does to the sizes.
LEMMA LineFacts ==
    ASSUME IInv, TakeLine
    PROVE  /\ ReadLine \in Nat
           /\ taken' = taken + ReadLine /\ currentSize' = taken'
           /\ taken' \in Nat /\ taken' <= arrived
           /\ taken' <= request.ends[line] /\ taken' <= maxSize + 1
           /\ LineRead <=> taken' = request.ends[line]
           /\ line' = IF LineRead THEN line + 1 ELSE line
           /\ line \in 1 .. Len(request.ends)
           /\ ~boundary
  <1>1. ReadsLines /\ TypeOK /\ LineInv
    BY DEF TakeLine, IInv
  <1>2. /\ line \in 1 .. Len(request.ends) /\ currentSize = taken
        /\ taken < request.ends[line] /\ ~boundary
        /\ request.ends[line] \in Nat
    BY <1>1, RequestFacts DEF LineInv, TypeOK
  <1>3. currentSize <= maxSize
    BY <1>1 DEF IInv, LimitInForce
  <1> DEFINE toRead == maxSize - currentSize + 1
  <1>4. toRead \in Nat /\ maxSize \in Nat /\ currentSize \in Nat /\ taken \in Nat
        /\ arrived \in Nat /\ taken <= arrived
    BY <1>1, <1>3, RequestAssumption DEF TypeOK
  <1>5. Read(toRead) \in Nat /\ Read(toRead) <= toRead
        /\ Read(toRead) <= arrived - taken
    BY <1>1, <1>4, ReadFacts
  <1>6. ReadLine = Lesser(Read(toRead), request.ends[line] - taken)
    BY DEF ReadLine
  <1>7. taken' = taken + ReadLine /\ currentSize' = currentSize + ReadLine
        /\ line' = IF LineRead THEN line + 1 ELSE line
    BY DEF TakeLine
  <1> HIDE DEF toRead
  <1>8. ReadLine \in Nat /\ ReadLine <= Read(toRead)
        /\ ReadLine <= request.ends[line] - taken
    BY <1>2, <1>4, <1>5, <1>6 DEF Lesser
  <1>9. ReadLine <= maxSize - currentSize + 1
    BY <1>4, <1>5, <1>8 DEF toRead
  <1> QED
    BY <1>2, <1>4, <1>5, <1>7, <1>8, <1>9 DEF LineRead

\* The verdict of a request whose lines are too long, or that is broken.
LEMMA LinesRefused ==
    ASSUME TypeOK
    PROVE  /\ request.broken => ~Acceptable
           /\ HeadEnd > maxSize + 1 => ~Acceptable
           /\ ~request.multipart /\ HeadEnd > maxSize => ~Acceptable
  <1>1. /\ HeadEnd \in Nat /\ maxSize \in Nat /\ request.length \in Int
        /\ RequestEnd \in Int /\ RequestEnd >= HeadEnd
    BY RequestFacts, RequestAssumption DEF TypeOK, RequestEnd
  <1>2. ASSUME request.broken PROVE ~Acceptable
    BY <1>2 DEF Acceptable
  <1>3. ASSUME HeadEnd > maxSize + 1 PROVE ~Acceptable
    <2>1. ~(HeadEnd <= maxSize + 1) /\ ~(RequestEnd <= maxSize)
      BY <1>1, <1>3
    <2> QED
      BY <2>1 DEF Acceptable
  <1>4. ASSUME ~request.multipart, HeadEnd > maxSize PROVE ~Acceptable
    <2>1. ~(RequestEnd <= maxSize)
      BY <1>1, <1>4
    <2> QED
      BY <1>4, <2>1 DEF Acceptable
  <1> QED
    BY <1>2, <1>3, <1>4, Zenon

LEMMA InitInv == Init => IInv
  <1> SUFFICES ASSUME Init PROVE IInv
    OBVIOUS
  <1>1. TypeOK
    <2>1. request \in Requests /\ 1 \in 1 .. Len(request.ends) + 1
      BY RequestFacts DEF Init
    <2>2. 0 \in 0 .. 0 /\ 0 \in Nat /\ 0 \in Int
      OBVIOUS
    <2> QED
      BY <2>1, <2>2, Zenon DEF Init, TypeOK, Statuses
  <1>2. LimitInForce
    BY RequestAssumption DEF Init, LimitInForce
  <1>3. LineInv
    <2>1. 1 \in 1 .. Len(request.ends) /\ 0 < request.ends[1]
      BY RequestAssumption, RequestFacts DEF Init, IsRequest
    <2> QED
      BY <2>1, RequestFacts DEF Init, LineInv
  <1>4. BodyInv /\ VerdictOfBytes
    BY DEF Init, BodyInv, VerdictOfBytes
  <1>5. LeavesNextRequest
    BY RequestFacts DEF Init, LeavesNextRequest, RequestEnd
  <1> QED
    BY <1>1, <1>2, <1>3, <1>4, <1>5 DEF IInv

\* A step of the lines that does not end them: it goes on with status s, or
\* refuses the request.
LEMMA LineStep ==
    ASSUME IInv, TakeLine, UNCHANGED socketVars, UNCHANGED bodyVars,
           NEW s \in {"waitForRequest", "waitForHeader", "abort"}, Become(s),
           s = "abort" => request.broken,
           s # "abort" => taken' < HeadEnd,
           s # "abort" => /\ line' \in 1 .. Len(request.ends)
                          /\ taken' < request.ends[line'],
           s = "waitForRequest" => line' <= request.first,
           s = "waitForHeader" => request.first < line' /\ ~request.broken
    PROVE  IInv'
  <1>1. /\ request' = request /\ arrived' = arrived
        /\ expectedBodySize' = expectedBodySize /\ boundary' = boundary
        /\ bodySize' = bodySize /\ fileSize' = fileSize
    BY DEF socketVars, bodyVars
  <1>2. TypeOK /\ LineInv /\ ReadsLines
    BY DEF IInv, TakeLine
  <1>3. ~boundary /\ bodySize = 0 /\ fileSize = 0
    BY <1>2 DEF LineInv
  <1>4. /\ currentSize' = taken' /\ taken' \in Nat /\ taken' <= arrived
        /\ taken' <= maxSize + 1 /\ taken' <= request.ends[line]
        /\ line \in 1 .. Len(request.ends) /\ line' \in {line, line + 1}
    BY LineFacts
  <1>5. /\ maxSize \in Nat /\ HeadEnd \in Nat /\ HeadEnd' = HeadEnd
        /\ RequestEnd' = RequestEnd /\ RequestEnd >= HeadEnd
        /\ taken' <= HeadEnd /\ Acceptable' = Acceptable
    <2>1. request \in Requests
      BY <1>2 DEF TypeOK
    <2>2. HeadEnd \in Nat /\ request.ends[line] \in Nat
          /\ request.ends[line] <= HeadEnd
      <3>1. line = Len(request.ends) \/ line < Len(request.ends)
        BY <1>4, <2>1, RequestFacts
      <3> QED
        BY <1>4, <2>1, <3>1, RequestFacts
    <2>3. RequestEnd >= HeadEnd
      BY <2>1, RequestFacts DEF RequestEnd
    <2> QED
      BY <1>1, <1>4, <2>2, <2>3, RequestAssumption
         DEF HeadEnd, RequestEnd, Acceptable
  <1>6. status' = IF taken' > maxSize THEN "abort" ELSE s
    BY <1>1, <1>3, <1>4 DEF Become, TooManyBytes
  <1>7. status' = "abort" => ~Acceptable
    <2>1. CASE s = "abort"
      BY <2>1, <1>2, LinesRefused
    <2>2. CASE s # "abort"
      BY <2>2, <1>2, <1>4, <1>5, <1>6, LinesRefused
    <2> QED
      BY <2>1, <2>2
  <1>8. TypeOK'
    <2>1. line' \in 1 .. Len(request.ends) + 1
      BY <1>2, <1>4, RequestFacts DEF TypeOK
    <2> QED
      BY <1>1, <1>2, <1>4, <1>6, <2>1 DEF TypeOK, Statuses
  <1>9. LimitInForce' /\ LeavesNextRequest'
    <2>1. RequestEnd \in Int
      BY <1>2, <1>5, RequestFacts DEF RequestEnd, TypeOK
    <2>2. taken' <= RequestEnd' /\ status' # "complete"
      BY <1>4, <1>5, <1>6, <2>1
    <2>3. ReadsLines' => currentSize' <= maxSize
      BY <1>4, <1>5, <1>6 DEF ReadsLines
    <2> QED
      BY <2>2, <2>3 DEF LimitInForce, LeavesNextRequest
  <1>10. LineInv' /\ BodyInv' /\ VerdictOfBytes'
    BY <1>1, <1>3, <1>4, <1>5, <1>6, <1>7
       DEF LineInv, BodyInv, VerdictOfBytes, ReadsLines
  <1> QED
    BY <1>8, <1>9, <1>10 DEF IInv

LEMMA LinesStep ==
    ASSUME IInv, CollectParts \/ EmptyLine \/ FirstLine \/ HeaderLine
    PROVE  IInv'
  <1>1. TakeLine /\ UNCHANGED socketVars /\ UNCHANGED bodyVars
    BY DEF CollectParts, EmptyLine, FirstLine, HeaderLine
  <1>2. TypeOK /\ LineInv /\ ReadsLines
    BY <1>1 DEF IInv, TakeLine
  <1>3. request \in Requests /\ line \in 1 .. Len(request.ends)
    BY <1>1, <1>2, LineFacts DEF TypeOK
  <1>4. PICK n, f : n = Len(request.ends) /\ f = request.first
    OBVIOUS
  <1>5. /\ n \in Nat /\ f \in 1 .. n /\ line \in 1 .. n
        /\ request.ends[line] \in Nat /\ HeadEnd \in Nat
        /\ request.ends[line] <= HeadEnd
        /\ line < n => /\ request.ends[line] < request.ends[line + 1]
                       /\ request.ends[line] < HeadEnd
        /\ request.broken <=> f = n
    BY <1>3, <1>4, RequestFacts
  <1>6. /\ taken' \in Nat /\ taken' <= request.ends[line]
        /\ LineRead <=> taken' = request.ends[line]
        /\ line' = IF LineRead THEN line + 1 ELSE line
    BY <1>1, LineFacts
  <1>7. CASE CollectParts
    <2>1. ~LineRead /\ Become(status)
      BY <1>7 DEF CollectParts
    <2>2. line' = line /\ taken' < request.ends[line] /\ taken' < HeadEnd
      BY <2>1, <1>5, <1>6
    <2>3. status \in {"waitForRequest", "waitForHeader"}
      BY <1>2 DEF ReadsLines
    <2>4. /\ status = "waitForRequest" => line <= request.first
          /\ status = "waitForHeader" => request.first < line /\ ~request.broken
      BY <1>2 DEF LineInv
    <2> QED
      BY <1>1, <1>3, <2>1, <2>2, <2>3, <2>4, LineStep
  <1>8. CASE EmptyLine
    <2>1. LineRead /\ line < f /\ Become("waitForRequest")
      BY <1>4, <1>8 DEF EmptyLine
    <2>2. /\ line' = line + 1 /\ line' <= f /\ line' \in 1 .. n
          /\ taken' < HeadEnd /\ taken' < request.ends[line + 1]
      BY <2>1, <1>5, <1>6
    <2> QED
      BY <1>1, <1>4, <2>1, <2>2, LineStep
  <1>9. CASE FirstLine /\ request.broken
    BY <1>1, <1>9, LineStep DEF FirstLine
  <1>10. CASE FirstLine /\ ~request.broken
    <2>1. LineRead /\ line = f /\ Become("waitForHeader")
      BY <1>4, <1>10 DEF FirstLine
    <2>2. /\ line' = line + 1 /\ f < line' /\ line' \in 1 .. n
          /\ taken' < HeadEnd /\ taken' < request.ends[line + 1]
      BY <2>1, <1>5, <1>6, <1>10
    <2> QED
      BY <1>1, <1>4, <1>10, <2>1, <2>2, LineStep
  <1>11. CASE HeaderLine
    <2>1. LineRead /\ f < line /\ line < n /\ Become("waitForHeader")
      BY <1>4, <1>11 DEF HeaderLine
    <2>2. /\ line' = line + 1 /\ f < line' /\ line' \in 1 .. n
          /\ taken' < HeadEnd /\ taken' < request.ends[line + 1]
          /\ ~request.broken
      BY <2>1, <1>5, <1>6
    <2> QED
      BY <1>1, <1>4, <2>1, <2>2, LineStep
  <1> QED
    BY <1>7, <1>8, <1>9, <1>10, <1>11

\* The empty line after the headers: the limits are tested with what
\* Content-Length says, whose sum with the size may overflow.
LEMMA HeadersStep == IInv /\ HeadersComplete => IInv'
  <1> SUFFICES ASSUME IInv, HeadersComplete PROVE IInv'
    OBVIOUS
  <1>1. TakeLine /\ LineRead /\ request.first < line /\ line = Len(request.ends)
    BY DEF HeadersComplete
  <1>2. TypeOK /\ LineInv /\ ReadsLines /\ request \in Requests
    BY <1>1 DEF IInv, TakeLine, TypeOK
  <1>3. /\ request' = request /\ arrived' = arrived
        /\ boundary' = request.multipart /\ expectedBodySize' = request.length
        /\ bodySize' = 0 /\ fileSize' = 0
    BY <1>2 DEF HeadersComplete, socketVars, LineInv
  <1>4. /\ currentSize' = HeadEnd /\ taken' = HeadEnd /\ HeadEnd <= maxSize + 1
        /\ HeadEnd <= arrived /\ line' = line + 1
    BY <1>1, LineFacts DEF HeadEnd
  <1> DEFINE head == HeadEnd
             length == request.length
             fields == request.fields
  <1>5. /\ head \in Nat /\ maxSize \in Nat /\ maxMultiPartSize \in Nat
        /\ IntMax \in Nat /\ maxSize < IntMax
        /\ length \in Int /\ length <= IntMax /\ fields \in Nat
        /\ fields <= IF length < 0 THEN 0 ELSE length
        /\ request.multipart \in BOOLEAN
    BY <1>2, RequestFacts, RequestAssumption
  <1>6. ~request.broken
    <2>1. PICK n, f : n = Len(request.ends) /\ f = request.first
      OBVIOUS
    <2>2. f # n
      BY <1>1, <1>2, <2>1, RequestFacts
    <2>3. request.broken <=> f = n
      BY <1>2, <2>1, RequestFacts
    <2> QED
      BY <2>2, <2>3
  <1>7. /\ HeadEnd' = HeadEnd /\ RequestEnd' = RequestEnd
        /\ Acceptable' = Acceptable
        /\ RequestEnd = head + IF length < 0 THEN 0 ELSE length
    BY <1>3, <1>5, <1>6 DEF HeadEnd, RequestEnd, Acceptable
  <1>8. \/ length = 0 /\ Become("complete")
        \/ length # 0 /\ BodyTooLarge /\ status' = "abort"
        \/ length # 0 /\ ~BodyTooLarge /\ Become("waitForBody")
    BY DEF HeadersComplete, Become
  <1>9. status' \in {"complete", "abort", "waitForBody"}
        /\ (status' = "complete" => length = 0)
        /\ (status' = "waitForBody" => length # 0 /\ ~BodyTooLarge)
    BY <1>8 DEF Become
  <1>10. TypeOK'
    <2>1. PICK n : n = Len(request.ends)
      OBVIOUS
    <2>2. n \in Nat /\ n >= 1 /\ line = n
      BY <1>1, <1>2, <2>1, RequestFacts
    <2>3. line' \in 1 .. n + 1
      BY <1>4, <2>2
    <2>4. arrived \in Nat /\ head \in 0 .. arrived
      BY <1>2, <1>4, <1>5 DEF TypeOK
    <2> QED
      BY <1>2, <1>3, <1>4, <1>5, <1>9, <2>1, <2>3, <2>4 DEF TypeOK, Statuses
  <1>11. LimitInForce' /\ LineInv'
    BY <1>9 DEF LimitInForce, LineInv, ReadsLines
  <1>12. LeavesNextRequest'
    BY <1>4, <1>5, <1>7, <1>9 DEF LeavesNextRequest
  <1>13. BodyInv' /\ VerdictOfBytes'
    <2>1. CASE request.multipart
      <3>1. BodyTooLarge <=> length > maxMultiPartSize
        BY <2>1 DEF BodyTooLarge
      <3>2. \A s : Become(s) =>
              status' = IF head > maxMultiPartSize THEN "abort" ELSE s
        BY <1>3, <1>4, <2>1 DEF Become, TooManyBytes
      <3>3. Acceptable <=> /\ head + fields <= maxMultiPartSize
                           /\ length < maxMultiPartSize \/ length = 0
        BY <1>4, <1>5, <1>6, <2>1 DEF Acceptable
      <3>4. VerdictOfBytes'
        BY <1>5, <1>7, <1>8, <3>1, <3>2, <3>3 DEF VerdictOfBytes
      <3>5. status' = "waitForBody" =>
              head <= maxMultiPartSize /\ length <= maxMultiPartSize
        BY <1>5, <1>8, <3>1, <3>2
      <3> QED
        BY <1>3, <1>4, <1>5, <1>6, <1>7, <1>9, <2>1, <3>4, <3>5 DEF BodyInv
    <2>2. CASE ~request.multipart
      <3>1. BodyTooLarge <=> Plus(length, head) > maxSize
        BY <1>4, <2>2 DEF BodyTooLarge
      <3>2. \A s : Become(s) =>
              status' = IF head > maxSize THEN "abort" ELSE s
        BY <1>3, <1>4, <2>2 DEF Become, TooManyBytes
      <3>3. Acceptable <=> RequestEnd <= maxSize
        BY <1>6, <2>2 DEF Acceptable
      <3>4. BodyTooLarge => RequestEnd > maxSize
        BY <1>4, <1>5, <1>7, <3>1 DEF Plus
      <3>5. VerdictOfBytes'
        BY <1>5, <1>7, <1>8, <3>2, <3>3, <3>4 DEF VerdictOfBytes
      <3>6. status' = "waitForBody" => head <= maxSize
        BY <1>5, <1>8, <3>2
      <3> QED
        BY <1>3, <1>4, <1>5, <1>6, <1>7, <1>9, <2>2, <3>5, <3>6 DEF BodyInv
    <2> QED
      BY <1>5, <2>1, <2>2
  <1> QED
    BY <1>10, <1>11, <1>12, <1>13 DEF IInv

LEMMA PlainBodyStep == IInv /\ ReadPlainBody => IInv'
  <1> SUFFICES ASSUME IInv, ReadPlainBody PROVE IInv'
    OBVIOUS
  <1> DEFINE length == request.length
             n == Read(Missing(bodySize))
  <1>1. /\ TypeOK /\ request \in Requests
        /\ ~boundary /\ ~request.broken /\ ~request.multipart /\ length # 0
        /\ expectedBodySize = length /\ boundary = request.multipart
        /\ currentSize = taken /\ taken = HeadEnd + bodySize /\ taken <= maxSize
        /\ IF length > 0 THEN bodySize < length ELSE bodySize = 0
    BY DEF IInv, BodyInv, ReadPlainBody, TypeOK
  <1>2. /\ HeadEnd \in Nat /\ maxSize \in Nat /\ length \in Int
        /\ bodySize \in Nat /\ taken \in Nat /\ arrived \in Nat
        /\ taken <= arrived
    BY <1>1, RequestFacts, RequestAssumption DEF TypeOK
  <1>3. /\ n \in Nat /\ n <= arrived - taken
        /\ IF length > 0 THEN n <= length - bodySize ELSE n = 0
    <2>1. Missing(bodySize) = length - bodySize
      BY <1>1 DEF Missing
    <2> QED
      BY <1>1, <1>2, <2>1, ReadFacts
  <1>4. /\ taken' = taken + n /\ currentSize' = currentSize + n
        /\ bodySize' = bodySize + n
        /\ UNCHANGED <<request, arrived, line, expectedBodySize, boundary,
                       fileSize>>
        /\ Become(IF AllRead(bodySize') THEN "complete" ELSE "waitForBody")
    BY DEF ReadPlainBody, socketVars
  <1> HIDE DEF n
  <1>5. /\ HeadEnd' = HeadEnd /\ RequestEnd' = RequestEnd
        /\ Acceptable' = Acceptable
        /\ RequestEnd = HeadEnd + IF length < 0 THEN 0 ELSE length
        /\ Acceptable <=> RequestEnd <= maxSize
    BY <1>1, <1>2, <1>4 DEF HeadEnd, RequestEnd, Acceptable
  <1>6. status' = IF taken + n > maxSize THEN "abort"
                  ELSE IF bodySize + n >= length THEN "complete"
                  ELSE "waitForBody"
    BY <1>1, <1>4 DEF Become, TooManyBytes, AllRead
  <1>7. TypeOK'
    BY <1>1, <1>2, <1>3, <1>4, <1>6 DEF TypeOK, Statuses
  <1>8. LimitInForce' /\ LineInv'
    BY <1>6 DEF LimitInForce, LineInv, ReadsLines
  <1>9. BodyInv'
    <2>1. status' = "waitForBody" =>
             taken' <= maxSize /\ length > 0 /\ bodySize' < length
      BY <1>1, <1>2, <1>3, <1>4, <1>6
    <2>2. taken' = HeadEnd + bodySize' /\ currentSize' = taken'
      BY <1>1, <1>2, <1>3, <1>4
    <2>3. /\ ~boundary' /\ boundary' = request'.multipart
          /\ ~request'.broken /\ request'.length = length /\ length # 0
          /\ expectedBodySize' = length
      BY <1>1, <1>4
    <2> QED
      BY <2>1, <2>2, <2>3, <1>5 DEF BodyInv
  <1>10. VerdictOfBytes' /\ LeavesNextRequest'
    BY <1>1, <1>2, <1>3, <1>4, <1>5, <1>6 DEF VerdictOfBytes, LeavesNextRequest
  <1> QED
    BY <1>7, <1>8, <1>9, <1>10 DEF IInv

LEMMA MultiPartBodyStep == IInv /\ ReadMultiPartBody => IInv'
  <1> SUFFICES ASSUME IInv, ReadMultiPartBody PROVE IInv'
    OBVIOUS
  <1> DEFINE length == request.length
             fields == request.fields
             n == Read(Lesser(Missing(fileSize), BlockSize))
  <1>1. /\ TypeOK /\ request \in Requests
        /\ boundary /\ ~request.broken /\ request.multipart /\ length # 0
        /\ expectedBodySize = length /\ boundary = request.multipart
        /\ currentSize = HeadEnd /\ taken = HeadEnd + fileSize
        /\ HeadEnd <= maxSize + 1 /\ HeadEnd <= maxMultiPartSize
        /\ length <= maxMultiPartSize
        /\ IF length > 0 THEN fileSize < length ELSE fileSize = 0
    BY DEF IInv, BodyInv, ReadMultiPartBody, TypeOK
  <1>2. /\ HeadEnd \in Nat /\ HeadEnd > 0 /\ maxMultiPartSize \in Nat
        /\ length \in Int /\ fields \in Nat
        /\ fields <= IF length < 0 THEN 0 ELSE length
        /\ fileSize \in Nat /\ taken \in Nat /\ arrived \in Nat
        /\ taken <= arrived
    BY <1>1, RequestFacts, RequestAssumption DEF TypeOK
  <1>3. /\ n \in Nat /\ n <= arrived - taken
        /\ IF length > 0 THEN n <= length - fileSize ELSE n = 0
    <2>1. BlockSize \in Nat
      BY RequestAssumption
    <2>2. Missing(fileSize) = length - fileSize
      BY <1>1 DEF Missing
    <2> DEFINE toRead == Lesser(Missing(fileSize), BlockSize)
    <2>3. /\ toRead \in Int /\ toRead <= length - fileSize
          /\ length > 0 => toRead >= 0
          /\ length < 0 => toRead < 0
      BY <1>1, <1>2, <2>1, <2>2 DEF Lesser
    <2>4. n = Read(toRead)
      OBVIOUS
    <2> HIDE DEF toRead, n
    <2> QED
      BY <1>1, <1>2, <2>3, <2>4, ReadFacts
  <1>4. /\ taken' = taken + n /\ fileSize' = fileSize + n
        /\ UNCHANGED <<request, arrived, line, expectedBodySize, boundary,
                       bodySize>>
    BY DEF ReadMultiPartBody, socketVars
  <1>5. \/ /\ fileSize' >= maxMultiPartSize /\ currentSize' = currentSize
           /\ status' = "abort"
        \/ /\ fileSize' < maxMultiPartSize /\ fileSize' >= length
           /\ currentSize' = currentSize + fields /\ Become("complete")
        \/ /\ fileSize' < maxMultiPartSize /\ ~(fileSize' >= length)
           /\ currentSize' = currentSize /\ Become("waitForBody")
    BY <1>1 DEF ReadMultiPartBody, AllRead, Become
  <1> HIDE DEF n
  <1>6. /\ HeadEnd' = HeadEnd /\ RequestEnd' = RequestEnd
        /\ Acceptable' = Acceptable
        /\ RequestEnd = HeadEnd + IF length < 0 THEN 0 ELSE length
        /\ Acceptable <=> /\ HeadEnd + fields <= maxMultiPartSize
                          /\ length < maxMultiPartSize
    BY <1>1, <1>2, <1>4 DEF HeadEnd, RequestEnd, Acceptable
  <1>7. \A s : Become(s) =>
          status' = IF currentSize' > maxMultiPartSize THEN "abort" ELSE s
    BY <1>1, <1>4 DEF Become, TooManyBytes
  <1>8. currentSize' \in Nat /\ status' \in {"complete", "abort", "waitForBody"}
    BY <1>1, <1>2, <1>5, <1>7
  <1>9. TypeOK'
    BY <1>1, <1>2, <1>3, <1>4, <1>8 DEF TypeOK, Statuses
  <1>10. LimitInForce' /\ LineInv'
    BY <1>8 DEF LimitInForce, LineInv, ReadsLines
  <1>11. BodyInv'
    <2>1. status' = "waitForBody" =>
             /\ length > 0 /\ fileSize' < length /\ currentSize' = currentSize
      BY <1>1, <1>2, <1>3, <1>4, <1>5, <1>7
    <2>2. taken' = HeadEnd + fileSize'
      BY <1>1, <1>2, <1>3, <1>4
    <2>3. /\ boundary' /\ boundary' = request'.multipart
          /\ ~request'.broken /\ request'.length = length /\ length # 0
          /\ expectedBodySize' = length
      BY <1>1, <1>4
    <2> QED
      BY <2>1, <2>2, <2>3, <1>1, <1>6 DEF BodyInv
  <1>12. VerdictOfBytes' /\ LeavesNextRequest'
    BY <1>1, <1>2, <1>3, <1>4, <1>5, <1>6, <1>7
       DEF VerdictOfBytes, LeavesNextRequest
  <1> QED
    BY <1>9, <1>10, <1>11, <1>12 DEF IInv

-----------------------------------------------------------------------------
LEMMA ArriveStep ==
    ASSUME IInv, NEW n \in Nat, Arrive(n) \/ (UNCHANGED vars)
    PROVE  IInv'
  <1>1. /\ UNCHANGED <<request, taken, line, status, currentSize,
                       expectedBodySize, boundary, bodySize, fileSize>>
        /\ arrived' = arrived + n \/ arrived' = arrived
    BY DEF Arrive, vars, socketVars, bodyVars
  <1>2. TypeOK'
    BY <1>1 DEF IInv, TypeOK
  <1>3. /\ LimitInForce' /\ LineInv' /\ BodyInv' /\ VerdictOfBytes'
        /\ LeavesNextRequest'
    BY <1>1 DEF IInv, LimitInForce, LineInv, BodyInv, VerdictOfBytes,
                LeavesNextRequest, ReadsLines, HeadEnd, RequestEnd, Acceptable
  <1> QED
    BY <1>2, <1>3 DEF IInv

LEMMA Inductive == Spec => []IInv
  <1>1. IInv /\ [Next]_vars => IInv'
    <2> SUFFICES ASSUME IInv, [Next]_vars PROVE IInv'
      OBVIOUS
    <2>1. CASE ReadFromSocket
      BY <2>1, LinesStep, HeadersStep, PlainBodyStep, MultiPartBodyStep
         DEF ReadFromSocket
    <2>2. ASSUME NEW n \in 1 .. RequestEnd + Following, Arrive(n) PROVE IInv'
      <3>1. n \in Nat
        BY <2>2, RequestFacts, RequestAssumption DEF RequestEnd, IInv, TypeOK
      <3> QED
        BY <2>2, <3>1, ArriveStep
    <2>3. CASE UNCHANGED vars
      BY <2>3, ArriveStep
    <2> QED
      BY <2>1, <2>2, <2>3 DEF Next
  <1> QED
    BY <1>1, InitInv, PTL DEF Spec

\* Every variable keeps its type.
THEOREM TypeCorrect == Spec => []TypeOK
  <1>1. IInv => TypeOK
    BY DEF IInv
  <1> QED
    BY <1>1, Inductive, PTL

\* The verdict is a function of the request's sizes, however the network cuts
\* the bytes into portions.
THEOREM VerdictTold == Spec => []VerdictOfBytes
  <1>1. IInv => VerdictOfBytes
    BY DEF IInv
  <1> QED
    BY <1>1, Inductive, PTL

\* A request takes its own bytes and no others.
THEOREM NextRequestIntact == Spec => []LeavesNextRequest
  <1>1. IInv => LeavesNextRequest
    BY DEF IInv
  <1> QED
    BY <1>1, Inductive, PTL

\* readLine() always has a limit.
THEOREM LimitStays == Spec => []LimitInForce
  <1>1. IInv => LimitInForce
    BY DEF IInv
  <1> QED
    BY <1>1, Inductive, PTL
=============================================================================
