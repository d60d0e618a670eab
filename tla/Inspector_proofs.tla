---------------------------- MODULE Inspector_proofs ----------------------------
(***************************************************************************)
(* Proofs about Inspector: for any number of codes and requests, any       *)
(* settings codes and any delays.                                          *)
(***************************************************************************)
EXTENDS Inspector, TLAPS

\* What a settings code holds has the types of the settings.
LEMMA ConfigType ==
    ASSUME NEW c \in SettingsCodes
    PROVE  /\ Config[c].checkpointID \in Checkpoints
           /\ Config[c].recordDelay \in Nat
           /\ Config[c].clientPassword \in Passwords
  BY InspectorAssumption

\* The list after a code was accepted or refused is a list of codes.
LEMMA EntriesType ==
    ASSUME TypeOK, NEW c \in Codes
    PROVE  /\ PartlyOn(Entries(c), Codes, [time : Nat, place : Nat])
           /\ PartlyOn(AcceptedEntries(c), Codes, [time : Nat, place : Nat])
  <1>1. /\ Known \subseteq Codes /\ Kept(c) \subseteq Known
        /\ tagsHistory \in [Known -> [time : Nat, place : Nat]]
    BY DEF TypeOK, PartlyOn, Known, Kept
  <1>2. Entry(c) \in [time : Nat, place : Nat]
    BY <1>1 DEF TypeOK, Entry
  <1> QED
    BY <1>1, <1>2 DEF PartlyOn, Entries, AcceptedEntries

\* Lowering the least delays keeps the type of the history.
LEMMA LowerType ==
    ASSUME NEW f, PartlyOn(f, Codes, [time : Nat, least : Nat]),
           NEW delay \in Nat
    PROVE  /\ PartlyOn(Lower(f, delay), Codes, [time : Nat, least : Nat])
           /\ DOMAIN Lower(f, delay) = DOMAIN f
           /\ \A c \in DOMAIN f :
                 /\ Lower(f, delay)[c].time = f[c].time
                 /\ Lower(f, delay)[c].least <= f[c].least
                 /\ Lower(f, delay)[c].least <= delay
  BY DEF PartlyOn, Lower

\* A new request is a request.
LEMMA RequestType ==
    ASSUME NEW n \in Nat, NEW c \in Codes, NEW checkpoint \in Checkpoints,
           NEW command \in {"new visit", "ping"}, NEW b \in BOOLEAN
    PROVE  [number |-> n, code |-> c, checkpoint |-> checkpoint,
            command |-> command, overlapped |-> b] \in Requests
  BY DEF Requests

LEMMA IncrementType == \A n \in Nat : n + 1 \in Nat
  OBVIOUS

LEMMA SendType ==
    ASSUME TypeOK, NEW c \in Codes, NEW command \in {"new visit", "ping"},
           NEW checkpoint \in Checkpoints, SendGet(c, command, checkpoint)
    PROVE  sends' \in Nat /\ pending' \subseteq Requests /\ connected' \in BOOLEAN
  <1>0. sends + 1 \in Nat
    <2>1. sends \in Nat
      BY DEF TypeOK
    <2> QED
      BY <2>1, IncrementType, Zenon
  <1> DEFINE old == {[r EXCEPT !.overlapped = TRUE] : r \in pending}
             new == [number |-> sends + 1, code |-> c,
                     checkpoint |-> checkpoint, command |-> command,
                     overlapped |-> pending # {}]
  <1>1. old \subseteq Requests
    BY DEF TypeOK, Requests
  <1>3. new \in Requests
    <2>1. (pending # {}) \in BOOLEAN
      OBVIOUS
    <2> QED
      BY <1>0, <2>1, RequestType, Zenon
  <1>4. pending' = old \cup {new}
    BY Zenon DEF SendGet
  <1> HIDE DEF old, new
  <1>5. pending' \subseteq Requests
    BY <1>1, <1>3, <1>4
  <1> QED
    BY <1>0, <1>5 DEF SendGet, ConnectSlot

\* What AcceptTag() does to the settings and to the requests.
LEMMA AcceptType ==
    ASSUME TypeOK, NEW c \in Codes, AcceptTag(c)
    PROVE  /\ checkpointID' \in Checkpoints /\ recordDelay' \in Nat
           /\ clientPassword' \in Passwords
           /\ sends' \in Nat /\ pending' \subseteq Requests
           /\ connected' \in BOOLEAN
           /\ photoImage' \in [image : Images, request : Nat]
  <1>1. CASE ConfigureClient(c) /\ c \in SettingsCodes
    <2>1. /\ checkpointID' \in Checkpoints /\ recordDelay' \in Nat
          /\ clientPassword' \in Passwords
      BY <1>1, ConfigType
         DEF TypeOK, ConfigureClient, ApplySettings, settings
    <2>2. sends' \in Nat /\ pending' \subseteq Requests /\ connected' \in BOOLEAN
      BY <1>1, <2>1, SendType DEF ConfigureClient
    <2> QED
      BY <1>1, <2>1, <2>2 DEF ConfigureClient, Images
  <1>2. CASE NewVisit(c)
    <2>1. sends' \in Nat /\ pending' \subseteq Requests /\ connected' \in BOOLEAN
      BY <1>2, SendType DEF TypeOK, NewVisit
    <2> QED
      BY <1>2, <2>1 DEF TypeOK, NewVisit, settings
  <1> QED
    BY <1>1, <1>2 DEF AcceptTag

LEMMA RecogniseType ==
    ASSUME TypeOK, NEW c \in Codes, Recognise(c), recordDelay' \in Nat
    PROVE  /\ PartlyOn(recognised', Codes, [time : Nat, least : Nat])
           /\ DOMAIN recognised' = DOMAIN recognised \cup {c}
           /\ recognised'[c].time = clock
           /\ \A d \in DOMAIN recognised' : recognised'[d].least <= recordDelay'
           /\ \A d \in DOMAIN recognised \ {c} :
                 /\ recognised'[d].time = recognised[d].time
                 /\ recognised'[d].least <= recognised[d].least
  <1> DEFINE D == DOMAIN recognised \cup {c}
             f == [d \in D |-> IF d = c
                                 THEN [time |-> clock, least |-> recordDelay]
                                 ELSE recognised[d]]
  <1>1. PartlyOn(f, Codes, [time : Nat, least : Nat])
    BY DEF TypeOK, PartlyOn
  <1>2. DOMAIN f = D /\ f[c].time = clock
    OBVIOUS
  <1>3. \A d \in DOMAIN recognised \ {c} : f[d] = recognised[d]
    OBVIOUS
  <1>4. recognised' = Lower(f, recordDelay')
    BY DEF Recognise
  <1> HIDE DEF f
  <1>5. /\ PartlyOn(Lower(f, recordDelay'), Codes, [time : Nat, least : Nat])
        /\ DOMAIN Lower(f, recordDelay') = DOMAIN f
        /\ \A d \in DOMAIN f :
              /\ Lower(f, recordDelay')[d].time = f[d].time
              /\ Lower(f, recordDelay')[d].least <= f[d].least
              /\ Lower(f, recordDelay')[d].least <= recordDelay'
    BY <1>1, LowerType
  <1> QED
    BY <1>2, <1>3, <1>4, <1>5

\* The empty list is a list of codes.
LEMMA NoCodesType ==
    ASSUME NEW S, NEW T
    PROVE  PartlyOn(NoCodes, S, T) /\ DOMAIN NoCodes = {}
  BY DEF NoCodes, PartlyOn

LEMMA TypeInit == Init => TypeOK
  <1> SUFFICES ASSUME Init PROVE TypeOK
    OBVIOUS
  <1>1. photoImage \in [image : Images, request : Nat]
    BY DEF Init, NoImage, Images
  <1> QED
    BY <1>1, InspectorAssumption, NoCodesType DEF Init, TypeOK, Pages

LEMMA TypeStep == TypeOK /\ [Next]_vars => TypeOK'
  <1> SUFFICES ASSUME TypeOK, [Next]_vars PROVE TypeOK'
    OBVIOUS
  <1> USE DEF TypeOK
  <1>1. CASE Tick
    BY <1>1 DEF Tick, settings, clientVars, screenVars, PartlyOn
  <1>2. ASSUME NEW c \in Codes, AcceptTag(c) PROVE TypeOK'
    <2>1. PartlyOn(recognised', Codes, [time : Nat, least : Nat])
      BY <1>2, AcceptType, RecogniseType DEF AcceptTag
    <2>2. PartlyOn(tagsHistory', Codes, [time : Nat, place : Nat])
      BY <1>2, EntriesType DEF AcceptTag
    <2> QED
      BY <1>2, <2>1, <2>2, AcceptType DEF AcceptTag, PartlyOn
  <1>3. ASSUME NEW c \in Codes, RefuseTag(c) PROVE TypeOK'
    <2>1. PartlyOn(tagsHistory', Codes, [time : Nat, place : Nat])
      BY <1>3, EntriesType DEF RefuseTag
    <2> QED
      BY <1>3, <2>1
         DEF RefuseTag, PartlyOn, settings, clientVars, screenVars
  <1>4. ASSUME NEW r \in pending, Answer(r) \/ NetworkError(r) PROVE TypeOK'
    <2>1. PICK answer \in Answers(r) \cup {"error"} : Finished(r, answer)
      BY <1>4 DEF Answer, NetworkError
    <2>2. answer # "ping" => Picture(answer) \in Images
      BY DEF Answers, Picture, Images
    <2>3. /\ photoImage' \in [image : Images, request : Nat]
          /\ pingGoodTimer' \in BOOLEAN
      <3>1. r.number \in Nat
        BY DEF Requests
      <3>2. CASE connected /\ answer = "ping"
        BY <2>1, <3>2 DEF Finished, Show
      <3>3. CASE connected /\ answer # "ping"
        BY <2>1, <2>2, <3>1, <3>3 DEF Finished, Show
      <3>4. CASE ~connected
        BY <2>1, <3>4 DEF Finished, screenVars
      <3> QED
        BY <3>2, <3>3, <3>4
    <2> QED
      BY <2>1, <2>3 DEF Finished, DisconnectSlot, settings, PartlyOn
  <1>5. CASE PingGood
    BY <1>5 DEF PingGood, settings, clientVars, Images, PartlyOn
  <1>6. CASE OpenSettings \/ CloseSettings \/ OpenViewer
    BY <1>6 DEF OpenSettings, CloseSettings, OpenViewer, settings, clientVars,
                screenVars, Pages, PartlyOn
  <1>7. CASE EditSettings
    <2>1. recordDelay' \in Nat
      BY <1>7, InspectorAssumption DEF EditSettings
    <2>2. PartlyOn(recognised', Codes, [time : Nat, least : Nat])
      BY <1>7, <2>1, LowerType DEF EditSettings
    <2> QED
      BY <1>7, <2>1, <2>2 DEF EditSettings, clientVars, screenVars, PartlyOn
  <1>8. CASE ClearStack
    BY <1>8 DEF ClearStack, settings, clientVars, screenVars, Pages, NoCodes,
                PartlyOn
  <1>9. CASE Restart
    BY <1>9 DEF Restart, settings, Pages, NoCodes, NoImage, Images, PartlyOn
  <1>10. CASE UNCHANGED vars
    BY <1>10 DEF vars, settings, clientVars, screenVars, PartlyOn
  <1> QED
    BY <1>1, <1>2, <1>3, <1>4, <1>5, <1>6, <1>7, <1>8, <1>9, <1>10
       DEF Next, TagFound

\* Every variable keeps its type.
THEOREM TypeCorrect == Spec => []TypeOK
  <1> QED
    BY TypeInit, TypeStep, PTL DEF Spec

-----------------------------------------------------------------------------
(* The delay.  The inductive invariant relates the list, which is cleaned  *)
(* from time to time, to the history of what was recognised: an entry      *)
(* still there has the time of the history, and one that is gone was older *)
(* than a delay in force since.                                            *)

HistoryInv ==
    /\ Known \subseteq DOMAIN recognised
    /\ \A c \in DOMAIN recognised :
          /\ recognised[c].time <= clock
          /\ recognised[c].least <= recordDelay
          /\ c \in Known => tagsHistory[c].time = recognised[c].time
          /\ c \notin Known => clock - recognised[c].time > recognised[c].least

\* Types of the entries, in the form the arithmetic needs.
LEMMA EntryTypes ==
    ASSUME TypeOK
    PROVE  /\ clock \in Nat /\ recordDelay \in Nat
           /\ \A c \in Known : tagsHistory[c].time \in Nat
           /\ \A c \in DOMAIN recognised : /\ recognised[c].time \in Nat
                                          /\ recognised[c].least \in Nat
  BY DEF TypeOK, PartlyOn, Known

\* What the loop leaves in the list, and what it takes out.
LEMMA KeptEntries ==
    ASSUME NEW c
    PROVE  /\ DOMAIN Entries(c) = Kept(c)
           /\ \A d \in Kept(c) : Entries(c)[d] = tagsHistory[d]
           /\ DOMAIN AcceptedEntries(c) = Kept(c) \cup {c}
           /\ \A d \in Kept(c) \ {c} : AcceptedEntries(c)[d] = tagsHistory[d]
           /\ AcceptedEntries(c)[c].time = clock
           /\ Kept(c) \subseteq Known
           /\ \A d \in Known \ Kept(c) : Stale(d)
  BY DEF Entries, AcceptedEntries, Entry, Kept, Known, Passed

LEMMA HistoryInit == Init => HistoryInv
  BY NoCodesType DEF Init, HistoryInv, Known

LEMMA HistoryStep ==
    TypeOK /\ TypeOK' /\ HistoryInv /\ [Next]_vars => HistoryInv'
  <1> SUFFICES ASSUME TypeOK, TypeOK', HistoryInv, [Next]_vars
               PROVE  HistoryInv'
    OBVIOUS
  <1>0. /\ clock' \in Nat /\ recordDelay' \in Nat
        /\ \A c \in Known' : tagsHistory'[c].time \in Nat
        /\ \A c \in DOMAIN recognised' : /\ recognised'[c].time \in Nat
                                        /\ recognised'[c].least \in Nat
    BY DEF TypeOK, PartlyOn, Known
  <1>1. CASE Tick
    BY <1>1, EntryTypes DEF Tick, HistoryInv, Known, settings
  <1>2. ASSUME NEW c \in Codes, AcceptTag(c) PROVE HistoryInv'
    <2>1. /\ DOMAIN recognised' = DOMAIN recognised \cup {c}
          /\ recognised'[c].time = clock
          /\ \A d \in DOMAIN recognised' : recognised'[d].least <= recordDelay'
          /\ \A d \in DOMAIN recognised \ {c} :
                /\ recognised'[d].time = recognised[d].time
                /\ recognised'[d].least <= recognised[d].least
      BY <1>2, AcceptType, RecogniseType DEF AcceptTag
    <2>2. clock' = clock /\ tagsHistory' = AcceptedEntries(c)
      BY <1>2 DEF AcceptTag
    <2>3. Known' = Kept(c) \cup {c}
      BY <2>2, KeptEntries DEF Known
    <2>4. Known' \subseteq DOMAIN recognised'
      BY <2>1, <2>3, KeptEntries DEF HistoryInv
    <2>5. ASSUME NEW d \in DOMAIN recognised'
          PROVE  /\ recognised'[d].time <= clock'
                 /\ d \in Known' => tagsHistory'[d].time = recognised'[d].time
                 /\ d \notin Known' =>
                      clock' - recognised'[d].time > recognised'[d].least
      <3>1. CASE d = c
        <4>1. c \in Known' /\ tagsHistory'[c].time = clock
          BY <2>2, <2>3, KeptEntries
        <4>2. recognised'[c].time = clock /\ clock <= clock'
          BY <2>1, <2>2, EntryTypes
        <4> QED
          BY <3>1, <4>1, <4>2
      <3>2. CASE d # c /\ d \in Kept(c)
        <4>1. tagsHistory'[d] = tagsHistory[d] /\ d \in Known
          BY <3>2, <2>2, KeptEntries
        <4> QED
          BY <4>1, <3>2, <2>1, <2>2, <2>3 DEF HistoryInv
      <3>3. CASE d # c /\ d \notin Kept(c)
        <4>1. d \notin Known' /\ d \in DOMAIN recognised
          BY <3>3, <2>1, <2>3
        <4>2. clock - recognised[d].time > recognised[d].least
          <5>1. CASE d \in Known
            <6>1. clock - tagsHistory[d].time > recordDelay
              BY <5>1, <3>3, KeptEntries DEF Stale, Age
            <6> QED
              BY <6>1, <5>1, <4>1, EntryTypes DEF HistoryInv
          <5>2. CASE d \notin Known
            BY <5>2, <4>1 DEF HistoryInv
          <5> QED
            BY <5>1, <5>2
        <4> QED
          BY <4>1, <4>2, <3>3, <2>1, <2>2, <1>0, EntryTypes DEF HistoryInv
      <3> QED
        BY <3>1, <3>2, <3>3
    <2> QED
      BY <2>1, <2>4, <2>5 DEF HistoryInv
  <1>3. ASSUME NEW c \in Codes, RefuseTag(c) PROVE HistoryInv'
    <2>1. /\ clock' = clock /\ tagsHistory' = Entries(c)
          /\ recordDelay' = recordDelay /\ recognised' = recognised
      BY <1>3 DEF RefuseTag, settings
    <2>2. Known' = Kept(c) /\ Kept(c) \subseteq Known
      BY <2>1, KeptEntries DEF Known
    <2>3. ASSUME NEW d \in DOMAIN recognised, d \notin Kept(c)
          PROVE  clock - recognised[d].time > recognised[d].least
      <3>1. CASE d \in Known
        <4>1. clock - tagsHistory[d].time > recordDelay
          BY <3>1, <2>3, KeptEntries DEF Stale, Age
        <4> QED
          BY <4>1, <3>1, EntryTypes DEF HistoryInv
      <3>2. CASE d \notin Known
        BY <3>2 DEF HistoryInv
      <3> QED
        BY <3>1, <3>2
    <2>4. \A d \in Kept(c) : tagsHistory'[d] = tagsHistory[d]
      BY <2>1, KeptEntries
    <2> QED
      BY <2>1, <2>2, <2>3, <2>4 DEF HistoryInv
  <1>4. CASE EditSettings
    <2>1. /\ clock' = clock /\ tagsHistory' = tagsHistory
          /\ recognised' = Lower(recognised, recordDelay')
      BY <1>4 DEF EditSettings
    <2>2. PartlyOn(recognised, Codes, [time : Nat, least : Nat])
      BY DEF TypeOK
    <2>3. /\ DOMAIN recognised' = DOMAIN recognised
          /\ \A c \in DOMAIN recognised :
                /\ recognised'[c].time = recognised[c].time
                /\ recognised'[c].least <= recognised[c].least
                /\ recognised'[c].least <= recordDelay'
      BY <2>1, <2>2, <1>0, LowerType
    <2> QED
      BY <2>1, <2>3, <1>0, EntryTypes DEF HistoryInv, Known
  <1>5. CASE ClearStack \/ Restart
    BY <1>5, NoCodesType DEF ClearStack, Restart, HistoryInv, Known
  <1>6. CASE UNCHANGED <<clock, recordDelay, tagsHistory, recognised>>
    BY <1>6 DEF HistoryInv, Known
  <1>7. ASSUME NEW r \in pending, Answer(r) \/ NetworkError(r)
        PROVE  UNCHANGED <<clock, recordDelay, tagsHistory, recognised>>
    BY <1>7 DEF Answer, NetworkError, Finished, settings
  <1>8. CASE PingGood \/ OpenSettings \/ CloseSettings \/ OpenViewer
    BY <1>8, <1>6 DEF PingGood, OpenSettings, CloseSettings, OpenViewer, settings
  <1>9. CASE UNCHANGED vars
    BY <1>9, <1>6 DEF vars, settings
  <1> QED
    BY <1>1, <1>2, <1>3, <1>4, <1>5, <1>6, <1>7, <1>8, <1>9
       DEF Next, TagFound

LEMMA HistoryAlways == Spec => [](TypeOK /\ HistoryInv)
  <1>1. Init => TypeOK /\ HistoryInv
    BY TypeInit, HistoryInit
  <1>2. TypeOK /\ HistoryInv /\ [Next]_vars => TypeOK' /\ HistoryInv'
    BY TypeStep, HistoryStep
  <1> QED
    BY <1>1, <1>2, PTL DEF Spec

\* A code is not sent again before the least delay that was in force since it
\* was sent, however the list was cleaned meanwhile.
THEOREM NotSentTooSoon == Spec => SentOncePerDelay
  <1>1. TypeOK /\ HistoryInv /\ [Next]_vars =>
          [\A c \in DOMAIN recognised :
             AcceptTag(c) => clock - recognised[c].time > recognised[c].least]_vars
    <2> SUFFICES ASSUME TypeOK, HistoryInv,
                        NEW c \in DOMAIN recognised, AcceptTag(c)
                 PROVE  clock - recognised[c].time > recognised[c].least
      OBVIOUS
    <2>1. CASE c \in Known
      <3>1. clock - tagsHistory[c].time > recordDelay
        BY <2>1 DEF AcceptTag, Accepts, Stale, Age
      <3> QED
        BY <2>1, <3>1, EntryTypes DEF HistoryInv
    <2>2. CASE c \notin Known
      BY <2>2 DEF HistoryInv
    <2> QED
      BY <2>1, <2>2
  <1> QED
    BY <1>1, HistoryAlways, PTL DEF Spec, SentOncePerDelay

\* A code is only refused within the delay since this page sent it.
THEOREM NotPutOff == Spec => RefusedWithinDelay
  <1>1. TypeOK /\ HistoryInv /\ [Next]_vars =>
          [\A c \in Codes :
             RefuseTag(c) => /\ c \in DOMAIN recognised
                             /\ clock - recognised[c].time <= recordDelay]_vars
    <2> SUFFICES ASSUME TypeOK, HistoryInv, NEW c \in Codes, RefuseTag(c)
                 PROVE  /\ c \in DOMAIN recognised
                        /\ clock - recognised[c].time <= recordDelay
      OBVIOUS
    <2>1. c \in Known /\ ~(clock - tagsHistory[c].time > recordDelay)
      BY DEF RefuseTag, Accepts, Stale, Age
    <2> QED
      BY <2>1, EntryTypes DEF HistoryInv
  <1> QED
    BY <1>1, HistoryAlways, PTL DEF Spec, RefusedWithinDelay

-----------------------------------------------------------------------------
(* Answers.                                                                *)

\* A request that never met another one has the line for itself.
LoneInv ==
    \A r \in pending : ~r.overlapped => pending = {r} /\ connected

AnswerInv == ListensForLatest /\ LoneInv

\* What sending does to the requests under way.
LEMMA SendEffect ==
    ASSUME NEW c, NEW command, NEW checkpoint, TypeOK,
           SendGet(c, command, checkpoint)
    PROVE  AnswerInv'
  <1> DEFINE old == {[r EXCEPT !.overlapped = TRUE] : r \in pending}
             new == [number |-> sends + 1, code |-> c,
                     checkpoint |-> checkpoint, command |-> command,
                     overlapped |-> pending # {}]
  <1>1. pending' = old \cup {new} /\ sends' = sends + 1 /\ connected'
    BY Zenon DEF SendGet, ConnectSlot
  <1>2. new.number = sends + 1 /\ (new.overlapped <=> pending # {})
    BY Zenon
  <1>3. pending = {} => old = {}
    OBVIOUS
  <1>4. ASSUME NEW r \in old PROVE r.overlapped
    <2>1. PICK q \in pending : r = [q EXCEPT !.overlapped = TRUE]
      OBVIOUS
    <2> QED
      BY <2>1 DEF TypeOK, Requests
  <1> HIDE DEF old, new
  <1>5. ListensForLatest'
    BY <1>1, <1>2 DEF ListensForLatest
  <1>6. LoneInv'
    BY <1>1, <1>2, <1>3, <1>4, Zenon DEF LoneInv
  <1> QED
    BY <1>5, <1>6 DEF AnswerInv

LEMMA AnswerStep == TypeOK /\ AnswerInv /\ [Next]_vars => AnswerInv'
  <1> SUFFICES ASSUME TypeOK, AnswerInv, [Next]_vars PROVE AnswerInv'
    OBVIOUS
  <1>1. ASSUME NEW c \in Codes, AcceptTag(c) PROVE AnswerInv'
    BY <1>1, SendEffect DEF AcceptTag, ConfigureClient, NewVisit
  <1>2. ASSUME NEW r \in pending, Answer(r) \/ NetworkError(r) PROVE AnswerInv'
    <2>1. PICK answer : Finished(r, answer)
      BY <1>2 DEF Answer, NetworkError
    <2>2. pending' = pending \ {r} /\ ~connected' /\ sends' = sends
      BY <2>1 DEF Finished, DisconnectSlot
    <2> QED
      BY <2>2 DEF AnswerInv, ListensForLatest, LoneInv
  <1>3. CASE Restart
    BY <1>3 DEF Restart, AnswerInv, ListensForLatest, LoneInv
  <1>4. CASE UNCHANGED clientVars
    BY <1>4 DEF clientVars, AnswerInv, ListensForLatest, LoneInv
  <1> QED
    BY <1>1, <1>2, <1>3, <1>4
       DEF Next, TagFound, Tick, RefuseTag, PingGood, OpenSettings,
           EditSettings, CloseSettings, ClearStack, OpenViewer, vars

LEMMA AnswerAlways == Spec => []AnswerInv
  <1>1. Init => AnswerInv
    BY DEF Init, AnswerInv, ListensForLatest, LoneInv
  <1> QED
    BY <1>1, AnswerStep, TypeCorrect, PTL DEF Spec

\* The slot is connected only while the latest request is under way.
THEOREM ListensOnlyForAnswers == Spec => []ListensForLatest
  <1>1. AnswerInv => ListensForLatest
    BY DEF AnswerInv
  <1> QED
    BY <1>1, AnswerAlways, PTL

\* A member whose request met no other one sees the answer to it.
THEOREM LoneRequestsAreShown == Spec => LoneAnswerShown
  <1>1. AnswerInv /\ [Next]_vars =>
          [\A r \in pending :
             Answered(r) /\ r.command = "new visit" /\ ~r.overlapped
             => photoImage'.request = r.number]_vars
    <2> SUFFICES ASSUME AnswerInv, NEW r \in pending, Answered(r),
                        r.command = "new visit", ~r.overlapped
                 PROVE  photoImage'.request = r.number
      OBVIOUS
    <2>1. PICK answer \in Answers(r) \cup {"error"} : Finished(r, answer)
      BY DEF Answered, Answer, NetworkError
    <2>2. answer # "ping"
      BY DEF Answers
    <2>3. connected
      BY DEF AnswerInv, LoneInv
    <2>4. Show(r, answer)
      BY <2>1, <2>3 DEF Finished
    <2>5. photoImage' = [image |-> Picture(answer), request |-> r.number]
      BY <2>2, <2>4, Zenon DEF Show
    <2> QED
      BY <2>5
  <1> QED
    BY <1>1, AnswerAlways, PTL DEF Spec, LoneAnswerShown
=============================================================================
