-------------------------- MODULE CodeFilter_proofs --------------------------
(***************************************************************************)
(* Proofs about CodeFilter: whatever the frames are and whatever is read   *)
(* of them, the filter implements DecodedFrames.                           *)
(***************************************************************************)
EXTENDS CodeFilter, TLAPS

Kinds == {"started", "finished", "resolution", "tag"}
Events == [kind : Kinds, text : Texts]

Told(f) == Reading(f) \ {<<>>}

\* The signals that wait: what is not the size of the first frame belongs to the frame
\* in work, and of it "finished" comes last and the tag comes once.
QueueInv ==
    \A i \in 1 .. Len(events) :
        /\ events[i].kind # "resolution" => decoding /\ worker # "convert"
        /\ events[i].kind = "finished" =>
              /\ worker \in {"return", "idle"}
              /\ \A j \in 1 .. Len(events) : j > i => events[j].kind = "resolution"
        /\ events[i].kind = "tag" =>
              /\ worker \in {"finish", "return", "idle"}
              /\ ~ told /\ frame \in Images /\ events[i].text \in Told(frame)
              /\ founded = frame
              /\ \A j \in 1 .. Len(events) : events[j].kind = "tag" => j = i

TagWaits == \E i \in 1 .. Len(events) : events[i].kind = "tag"

\* Where the worker is tells what it works on; after the reading its text is told or waits.
StageInv ==
    /\ worker \in {"convert", "read", "finish"} => decoding
    /\ worker # "idle" \/ decoding => frame \in Frames
    /\ worker \in {"convert", "read"} => ~ told
    /\ worker \in {"read", "finish", "return"} => frame \notin {Empty, Unconvertible}
    /\ worker = "finish" => frame \in Images
    /\ arriving # NoFrame => ~ decoding /\ worker = "idle"
    /\ decoding /\ worker \in {"finish", "return", "idle"} /\ frame \in Images
          /\ Told(frame) # {} => told \/ TagWaits

FilterInv == FilterTypeOK /\ QueueInv /\ StageInv

-----------------------------------------------------------------------------
LEMMA TextsOfReading ==
    ASSUME NEW f \in Images, NEW t \in Reading(f)
    PROVE  t \in Texts
  BY DEF Texts

LEMMA EventsType ==
    ASSUME FilterTypeOK
    PROVE  /\ events \in Seq(Events)
           /\ Started \in Events /\ Finished \in Events /\ Resolution \in Events
           /\ \A t \in Texts : Found(t) \in Events
           /\ Started.kind = "started" /\ Finished.kind = "finished"
           /\ Resolution.kind = "resolution"
           /\ \A t \in Texts : Found(t).kind = "tag" /\ Found(t).text = t
  <1>1. <<>> \in Texts
    BY DEF Texts
  <1>2. events \in Seq(Events)
    BY DEF FilterTypeOK, Events, Kinds
  <1>3. \A k \in Kinds, t \in Texts :
           Event(k, t) \in Events /\ Event(k, t).kind = k /\ Event(k, t).text = t
    BY DEF Events, Event
  <1> QED
    BY <1>1, <1>2, <1>3 DEF Kinds, Started, Finished, Resolution, Found

\* What a queue holds after a signal was added, and after the first was taken.
LEMMA Appended ==
    ASSUME NEW S, NEW s \in Seq(S), NEW e \in S
    PROVE  /\ Append(s, e) \in Seq(S)
           /\ Len(Append(s, e)) = Len(s) + 1
           /\ Append(s, e)[Len(s) + 1] = e
           /\ \A i \in 1 .. Len(s) : Append(s, e)[i] = s[i]
           /\ Len(s) \in Nat
  OBVIOUS

LEMMA Taken ==
    ASSUME NEW S, NEW s \in Seq(S), s # <<>>
    PROVE  /\ Tail(s) \in Seq(S)
           /\ Len(s) \in Nat /\ Len(s) >= 1
           /\ Len(Tail(s)) = Len(s) - 1
           /\ \A i \in 1 .. Len(s) - 1 : Tail(s)[i] = s[i + 1]
           /\ Head(s) = s[1] /\ Head(s) \in S
  OBVIOUS

-----------------------------------------------------------------------------
(* The signals only matter by the queue they make.                         *)

\* A signal that is added to the queue of the worker.
LEMMA EmitFacts ==
    ASSUME FilterTypeOK, NEW e \in Events, Emit(e)
    PROVE  /\ events' \in Seq(Events)
           /\ Len(events) \in Nat
           /\ Len(events') = Len(events) + 1
           /\ events'[Len(events) + 1] = e
           /\ \A i \in 1 .. Len(events) : events'[i] = events[i]
           /\ 1 .. Len(events') = (1 .. Len(events)) \cup {Len(events) + 1}
  BY EventsType, Appended DEF Emit

LEMMA HandleFacts ==
    ASSUME FilterTypeOK, NEW kind, Handle(kind)
    PROVE  /\ events' \in Seq(Events)
           /\ Len(events) \in Nat /\ 1 \in 1 .. Len(events)
           /\ Len(events') = Len(events) - 1
           /\ events[1].kind = kind
           /\ Head(events) = events[1] /\ Head(events) \in Events
           /\ \A i \in 1 .. Len(events') :
                 i + 1 \in 1 .. Len(events) /\ i + 1 > 1 /\ events'[i] = events[i + 1]
           /\ \A i \in 1 .. Len(events) : i # 1 => i - 1 \in 1 .. Len(events')
                                                    /\ events'[i - 1] = events[i]
           /\ \A i \in 1 .. Len(events') : i \in Int
  BY EventsType, Taken DEF Handle

-----------------------------------------------------------------------------
(* Types.                                                                  *)

LEMMA TypeInit == FilterInit => FilterTypeOK
  <1> SUFFICES ASSUME FilterInit PROVE FilterTypeOK
    OBVIOUS
  <1>1. <<>> \in Texts
    BY DEF Texts
  <1>2. events \in Seq([kind : {"started", "finished", "resolution", "tag"}, text : Texts])
    BY DEF FilterInit
  <1>3. tag \in [text : Texts, properties : Images \cup {NoFrame}]
    BY <1>1 DEF FilterInit
  <1>4. /\ decoding \in BOOLEAN /\ firstFrame \in BOOLEAN /\ told \in BOOLEAN
        /\ frame = NoFrame /\ arriving = NoFrame /\ founded = NoFrame /\ worker = "idle"
    BY DEF FilterInit
  <1> QED
    BY <1>2, <1>3, <1>4 DEF FilterTypeOK

LEMMA TypeStep == FilterTypeOK /\ StageInv /\ QueueInv /\ [FilterNext]_filterVars => FilterTypeOK'
  <1> SUFFICES ASSUME FilterTypeOK, StageInv, QueueInv, [FilterNext]_filterVars
               PROVE  FilterTypeOK'
    OBVIOUS
  <1>0. FilterTypeOK' <=>
          /\ decoding' \in BOOLEAN /\ frame' \in Frames \cup {NoFrame}
          /\ arriving' \in Frames \cup {NoFrame}
          /\ worker' \in {"idle", "convert", "read", "finish", "return"}
          /\ founded' \in Images \cup {NoFrame} /\ firstFrame' \in BOOLEAN
          /\ events' \in Seq(Events) /\ told' \in BOOLEAN
          /\ tag' \in [text : Texts, properties : Images \cup {NoFrame}]
    BY Zenon DEF FilterTypeOK, Events, Kinds
  <1>1. events \in Seq(Events) /\ Started \in Events /\ Finished \in Events /\ Resolution \in Events
    BY EventsType
  <1>2. ASSUME NEW f \in Frames, Look(f) PROVE FilterTypeOK'
    BY <1>0, <1>1, <1>2 DEF Look, FilterTypeOK
  <1>3. CASE Accept
    BY <1>0, <1>1, <1>3 DEF Accept, FilterTypeOK
  <1>4. CASE ConvertFails
    BY <1>0, <1>1, <1>4 DEF ConvertFails, FilterTypeOK
  <1>5. CASE Start
    <2>1. events' \in Seq(Events)
      BY <1>1, <1>5, EmitFacts DEF Start
    <2> QED
      BY <1>0, <2>1, <1>5 DEF Start, FilterTypeOK
  <1>6. CASE ReadFails
    <2>1. events' \in Seq(Events)
      BY <1>1, <1>6, EmitFacts DEF ReadFails
    <2> QED
      BY <1>0, <2>1, <1>6 DEF ReadFails, FilterTypeOK
  <1>7. CASE ReadSucceeds
    <2>1. frame \in Images
      BY <1>7 DEF ReadSucceeds, StageInv, Frames
    <2>2. PICK text \in Reading(frame) :
             IF text = <<>> THEN UNCHANGED <<founded, events>>
             ELSE founded' = frame /\ Emit(Found(text))
      BY <1>7 DEF ReadSucceeds
    <2>3. Found(text) \in Events
      BY <2>1, TextsOfReading, EventsType
    <2>4. events' \in Seq(Events) /\ founded' \in Images \cup {NoFrame}
      BY <1>1, <2>1, <2>2, <2>3, EmitFacts DEF FilterTypeOK
    <2> QED
      BY <1>0, <2>4, <1>7 DEF ReadSucceeds, FilterTypeOK
  <1>8. CASE EmitFinished
    <2>1. events' \in Seq(Events)
      BY <1>1, <1>8, EmitFacts DEF EmitFinished
    <2> QED
      BY <1>0, <2>1, <1>8 DEF EmitFinished, FilterTypeOK
  <1>9. CASE Return
    <2>1. events' \in Seq(Events)
      BY <1>1, <1>9, EmitFacts DEF Return
    <2> QED
      BY <1>0, <2>1, <1>9 DEF Return, FilterTypeOK
  <1>10. CASE HandleDecodingStarted
    <2>1. events' \in Seq(Events)
      BY <1>10, HandleFacts DEF HandleDecodingStarted
    <2> QED
      BY <1>0, <2>1, <1>10 DEF HandleDecodingStarted, Handle, FilterTypeOK
  <1>11. CASE HandleDecodingFinished
    <2>1. events' \in Seq(Events)
      BY <1>11, HandleFacts DEF HandleDecodingFinished
    <2> QED
      BY <1>0, <2>1, <1>11 DEF HandleDecodingFinished, Handle, FilterTypeOK
  <1>12. CASE OnTagFound
    <2>1. events' \in Seq(Events) /\ Head(events) \in Events
      BY <1>12, HandleFacts DEF OnTagFound
    <2>2. Head(events).text \in Texts
      BY <2>1 DEF Events
    <2>3. tag' \in [text : Texts, properties : Images \cup {NoFrame}]
      BY <2>2, <1>12 DEF OnTagFound, FilterTypeOK
    <2> QED
      BY <1>0, <2>1, <2>3, <1>12 DEF OnTagFound, Handle, FilterTypeOK
  <1>13. CASE OnCameraResolution
    <2>1. events' \in Seq(Events)
      BY <1>13, HandleFacts DEF OnCameraResolution
    <2> QED
      BY <1>0, <2>1, <1>13 DEF OnCameraResolution, Handle, FilterTypeOK
  <1>14. CASE UNCHANGED filterVars
    BY <1>0, <1>1, <1>14 DEF filterVars, FilterTypeOK
  <1> QED
    BY <1>2, <1>3, <1>4, <1>5, <1>6, <1>7, <1>8, <1>9, <1>10, <1>11, <1>12, <1>13, <1>14
       DEF FilterNext, Worker, UserInterface

-----------------------------------------------------------------------------
(* The queue and the stages.                                               *)

LEMMA InvInit == FilterInit => QueueInv /\ StageInv
  BY DEF FilterInit, QueueInv, StageInv

\* While no signal of a frame waits, the filter may take the next one.
LEMMA Quiet ==
    ASSUME QueueInv, ~ decoding \/ worker = "convert", NEW i \in 1 .. Len(events)
    PROVE  events[i].kind = "resolution"
  BY DEF QueueInv

LEMMA AcceptStep == ASSUME FilterInv, Accept PROVE QueueInv' /\ StageInv'
  <1>1. ~ decoding /\ arriving \in Frames
    BY DEF FilterInv, StageInv, FilterTypeOK, Accept
  <1>2. QueueInv'
    BY <1>1, Quiet DEF QueueInv, Accept, FilterInv
  <1>3. StageInv'
    BY <1>1 DEF StageInv, Accept
  <1> QED
    BY <1>2, <1>3

LEMMA LookStep == ASSUME FilterInv, NEW f \in Frames, Look(f) PROVE QueueInv' /\ StageInv'
  <1>1. QueueInv'
    BY DEF QueueInv, Look, FilterInv
  <1>2. StageInv'
    BY DEF StageInv, Look, MayAccept, FilterInv, TagWaits
  <1> QED
    BY <1>1, <1>2

LEMMA ConvertFailsStep == ASSUME FilterInv, ConvertFails PROVE QueueInv' /\ StageInv'
  <1>1. QueueInv'
    BY Quiet DEF QueueInv, ConvertFails, FilterInv
  <1>2. StageInv'
    BY DEF StageInv, ConvertFails, FilterInv
  <1> QED
    BY <1>1, <1>2

LEMMA StartStep == ASSUME FilterInv, Start PROVE QueueInv' /\ StageInv'
  <1>1. /\ worker = "convert" /\ worker' = "read" /\ decoding /\ decoding' /\ Emit(Started)
        /\ Started.kind = "started" /\ Started \in Events /\ FilterTypeOK
    BY EventsType DEF FilterInv, StageInv, Start
  <1>2. \A i \in 1 .. Len(events) : events'[i].kind = "resolution"
    BY <1>1, Quiet, EmitFacts DEF FilterInv
  <1>3. \A i \in 1 .. Len(events') : events'[i].kind \in {"resolution", "started"}
    BY <1>1, <1>2, EmitFacts
  <1>4. QueueInv'
    BY <1>1, <1>3 DEF QueueInv
  <1>5. StageInv'
    BY <1>1 DEF StageInv, Start, FilterInv
  <1> QED
    BY <1>4, <1>5

\* Of a frame that is still read only "started" may wait.
LEMMA OnlyStarted ==
    ASSUME QueueInv, worker = "read", NEW i \in 1 .. Len(events)
    PROVE  events[i].kind \notin {"finished", "tag"}
  BY DEF QueueInv

LEMMA ReadFailsStep == ASSUME FilterInv, ReadFails PROVE QueueInv' /\ StageInv'
  <1>1. /\ worker = "read" /\ worker' = "return" /\ decoding /\ decoding' /\ Emit(Finished)
        /\ Finished.kind = "finished" /\ Finished \in Events /\ FilterTypeOK
    BY EventsType DEF FilterInv, StageInv, ReadFails
  <1>2. /\ \A i \in 1 .. Len(events) : events'[i].kind \notin {"finished", "tag"}
        /\ events'[Len(events) + 1] = Finished /\ Len(events) \in Nat
        /\ 1 .. Len(events') = (1 .. Len(events)) \cup {Len(events) + 1}
    BY <1>1, OnlyStarted, EmitFacts DEF FilterInv
  <1>3. \A i \in 1 .. Len(events') :
           /\ events'[i].kind # "tag"
           /\ events'[i].kind = "finished" => i = Len(events) + 1
    BY <1>1, <1>2
  <1>4. \A i, j \in 1 .. Len(events') : j > i => i # Len(events) + 1
    BY <1>2
  <1>5. QueueInv'
    BY <1>1, <1>3, <1>4 DEF QueueInv
  <1>6. frame' = frame /\ (frame \in Images => Told(frame) = {})
    BY FramesAssumption DEF ReadFails, Told
  <1>7. StageInv'
    BY <1>1, <1>6 DEF StageInv, ReadFails, FilterInv
  <1> QED
    BY <1>5, <1>7

LEMMA ReadSucceedsStep == ASSUME FilterInv, ReadSucceeds PROVE QueueInv' /\ StageInv'
  <1>1. /\ worker = "read" /\ worker' = "finish" /\ decoding /\ decoding' = decoding
        /\ FilterTypeOK /\ ~ told /\ told' = told /\ frame' = frame /\ frame \in Images
        /\ arriving' = arriving /\ QueueInv
    BY DEF FilterInv, StageInv, ReadSucceeds, Frames
  <1>2. PICK text \in Reading(frame) :
           IF text = <<>> THEN UNCHANGED <<founded, events>>
           ELSE founded' = frame /\ Emit(Found(text))
    BY DEF ReadSucceeds
  <1>3. CASE text = <<>>
    <2>1. events' = events /\ founded' = founded
      BY <1>2, <1>3
    <2>2. QueueInv'
      BY <1>1, <2>1, OnlyStarted DEF QueueInv
    <2>3. Told(frame) = {}
      BY <1>1, <1>3, FramesAssumption DEF Told
    <2>4. StageInv'
      BY <1>1, <2>3 DEF StageInv, FilterInv
    <2> QED
      BY <2>2, <2>4
  <1>4. CASE text # <<>>
    <2>1. /\ founded' = frame /\ Emit(Found(text)) /\ Found(text) \in Events
          /\ Found(text).kind = "tag" /\ Found(text).text = text
      BY <1>1, <1>2, <1>4, TextsOfReading, EventsType
    <2>2. /\ \A i \in 1 .. Len(events) : events'[i].kind \notin {"finished", "tag"}
          /\ events'[Len(events) + 1] = Found(text) /\ Len(events) \in Nat
          /\ 1 .. Len(events') = (1 .. Len(events)) \cup {Len(events) + 1}
      BY <1>1, <2>1, OnlyStarted, EmitFacts
    <2>3. \A i \in 1 .. Len(events') :
             /\ events'[i].kind # "finished"
             /\ events'[i].kind = "tag" => i = Len(events) + 1 /\ events'[i].text = text
      BY <2>1, <2>2
    <2>4. text \in Told(frame)
      BY <1>2, <1>4 DEF Told
    <2>5. QueueInv'
      BY <1>1, <2>1, <2>3, <2>4 DEF QueueInv
    <2>6. TagWaits'
      BY <2>1, <2>2 DEF TagWaits
    <2>7. StageInv'
      BY <1>1, <2>6 DEF StageInv, FilterInv
    <2> QED
      BY <2>5, <2>7
  <1> QED
    BY <1>3, <1>4

LEMMA EmitFinishedStep == ASSUME FilterInv, EmitFinished PROVE QueueInv' /\ StageInv'
  <1>1. /\ worker = "finish" /\ worker' = "return" /\ decoding /\ decoding' = decoding
        /\ FilterTypeOK /\ told' = told /\ frame' = frame /\ frame \in Images
        /\ arriving' = arriving /\ founded' = founded /\ QueueInv /\ Emit(Finished)
        /\ Finished.kind = "finished" /\ Finished \in Events
    BY EventsType DEF FilterInv, StageInv, EmitFinished
  <1>2. /\ \A i \in 1 .. Len(events) : events'[i] = events[i] /\ events[i].kind # "finished"
        /\ events'[Len(events) + 1] = Finished /\ Len(events) \in Nat
        /\ 1 .. Len(events') = (1 .. Len(events)) \cup {Len(events) + 1}
    <2>1. \A i \in 1 .. Len(events) : events[i].kind # "finished"
      BY <1>1 DEF QueueInv
    <2> QED
      BY <1>1, <2>1, EmitFacts
  <1>3. \A i \in 1 .. Len(events') :
           /\ events'[i].kind = "finished" => i = Len(events) + 1
           /\ events'[i].kind = "tag" => i \in 1 .. Len(events) /\ events'[i] = events[i]
    BY <1>1, <1>2
  <1>4. \A i, j \in 1 .. Len(events') : j > i => i # Len(events) + 1
    BY <1>2
  <1>5. QueueInv'
    BY <1>1, <1>3, <1>4 DEF QueueInv
  <1>6. TagWaits => TagWaits'
    BY <1>2 DEF TagWaits
  <1>7. StageInv'
    BY <1>1, <1>6 DEF StageInv, FilterInv
  <1> QED
    BY <1>5, <1>7

LEMMA ReturnStep == ASSUME FilterInv, Return PROVE QueueInv' /\ StageInv'
  <1>1. /\ worker = "return" /\ worker' = "idle" /\ decoding' = decoding /\ told' = told
        /\ frame' = frame /\ arriving' = arriving /\ founded' = founded
        /\ FilterTypeOK /\ QueueInv
        /\ Resolution.kind = "resolution" /\ Resolution \in Events
    BY EventsType DEF FilterInv, Return
  <1>2. CASE events' = events
    <2>1. QueueInv'
      BY <1>1, <1>2 DEF QueueInv
    <2>2. StageInv'
      BY <1>1, <1>2 DEF StageInv, FilterInv, TagWaits
    <2> QED
      BY <2>1, <2>2
  <1>3. CASE Emit(Resolution)
    <2>1. /\ \A i \in 1 .. Len(events) : events'[i] = events[i]
          /\ events'[Len(events) + 1].kind = "resolution" /\ Len(events) \in Nat
          /\ 1 .. Len(events') = (1 .. Len(events)) \cup {Len(events) + 1}
      BY <1>1, <1>3, EmitFacts
    <2>2. \A i \in 1 .. Len(events') : events'[i].kind # "resolution" =>
             i \in 1 .. Len(events) /\ events'[i] = events[i]
      BY <2>1
    <2>3. QueueInv'
      BY <1>1, <2>1, <2>2, SMTT(30) DEF QueueInv
    <2>4. TagWaits => TagWaits'
      BY <2>1 DEF TagWaits
    <2>5. StageInv'
      BY <1>1, <2>4 DEF StageInv, FilterInv
    <2> QED
      BY <2>3, <2>5
  <1> QED
    BY <1>2, <1>3 DEF Return

\* Taking a signal from the queue leaves the others what they are.
LEMMA HandledQueue ==
    ASSUME FilterInv, NEW kind, Handle(kind), decoding' = decoding,
           told' = told \/ kind = "tag"
    PROVE  QueueInv'
  <1>1. /\ worker' = worker /\ frame' = frame /\ founded' = founded /\ QueueInv
        /\ events[1].kind = kind /\ 1 \in 1 .. Len(events)
        /\ \A i \in 1 .. Len(events') :
              i + 1 \in 1 .. Len(events) /\ i + 1 > 1 /\ events'[i] = events[i + 1] /\ i \in Int
    BY HandleFacts DEF FilterInv, Handle
  <1>2. \A i \in 1 .. Len(events') : events'[i].kind = "tag" => told' = told
    BY <1>1 DEF QueueInv
  <1>3. \A i, j \in 1 .. Len(events') : j > i => j + 1 > i + 1
    BY <1>1
  <1>4. \A i, j \in 1 .. Len(events') : j + 1 = i + 1 => j = i
    BY <1>1
  <1> SUFFICES ASSUME NEW i \in 1 .. Len(events')
               PROVE
        /\ events'[i].kind # "resolution" => decoding' /\ worker' # "convert"
        /\ events'[i].kind = "finished" =>
              /\ worker' \in {"return", "idle"}
              /\ \A j \in 1 .. Len(events') : j > i => events'[j].kind = "resolution"
        /\ events'[i].kind = "tag" =>
              /\ worker' \in {"finish", "return", "idle"}
              /\ ~ told' /\ frame' \in Images /\ events'[i].text \in Told(frame')
              /\ founded' = frame'
              /\ \A j \in 1 .. Len(events') : events'[j].kind = "tag" => j = i
    BY DEF QueueInv, Told
  <1>5. events'[i].kind # "resolution" => decoding' /\ worker' # "convert"
    BY <1>1 DEF QueueInv
  <1>6. events'[i].kind = "finished" =>
              /\ worker' \in {"return", "idle"}
              /\ \A j \in 1 .. Len(events') : j > i => events'[j].kind = "resolution"
    BY <1>1, <1>3, SMTT(30) DEF QueueInv
  <1>7. events'[i].kind = "tag" =>
              /\ worker' \in {"finish", "return", "idle"}
              /\ ~ told' /\ frame' \in Images /\ events'[i].text \in Told(frame')
              /\ founded' = frame'
    BY <1>1, <1>2, SMTT(30) DEF QueueInv
  <1>8. events'[i].kind = "tag" =>
              \A j \in 1 .. Len(events') : events'[j].kind = "tag" => j = i
    BY <1>1, <1>4 DEF QueueInv
  <1> QED
    BY <1>5, <1>6, <1>7, <1>8

LEMMA HandledTag ==
    ASSUME FilterInv, NEW kind, Handle(kind), kind # "tag", TagWaits
    PROVE  TagWaits'
  <1>1. PICK i \in 1 .. Len(events) : events[i].kind = "tag"
    BY DEF TagWaits
  <1>2. i # 1 /\ i - 1 \in 1 .. Len(events') /\ events'[i - 1] = events[i]
    BY <1>1, HandleFacts DEF FilterInv
  <1> QED
    BY <1>1, <1>2 DEF TagWaits

LEMMA StartedStep == ASSUME FilterInv, HandleDecodingStarted PROVE QueueInv' /\ StageInv'
  <1>1. Handle("started") /\ events[1].kind = "started" /\ 1 \in 1 .. Len(events)
    BY HandleFacts DEF FilterInv, HandleDecodingStarted
  <1>2. decoding' = decoding /\ told' = told
    BY <1>1 DEF FilterInv, QueueInv, HandleDecodingStarted, FilterTypeOK
  <1>3. QueueInv'
    BY <1>1, <1>2, HandledQueue
  <1>4. TagWaits => TagWaits'
    BY <1>1, HandledTag
  <1>5. StageInv'
    BY <1>1, <1>2, <1>4 DEF FilterInv, StageInv, Handle
  <1> QED
    BY <1>3, <1>5

LEMMA ResolutionStep == ASSUME FilterInv, OnCameraResolution PROVE QueueInv' /\ StageInv'
  <1>1. Handle("resolution") /\ decoding' = decoding /\ told' = told
    BY DEF OnCameraResolution
  <1>2. QueueInv'
    BY <1>1, HandledQueue
  <1>3. TagWaits => TagWaits'
    BY <1>1, HandledTag
  <1>4. StageInv'
    BY <1>1, <1>3 DEF FilterInv, StageInv, Handle
  <1> QED
    BY <1>2, <1>4

\* When "finished" is handled no other signal of the frame waits, and its text was told.
LEMMA LastSignal ==
    ASSUME FilterInv, Handle("finished")
    PROVE  /\ decoding /\ frame \in Frames /\ worker \in {"return", "idle"}
           /\ \A i \in 1 .. Len(events') : events'[i].kind = "resolution"
           /\ frame \in Images => told \/ Told(frame) = {}
  <1>1. /\ events[1].kind = "finished" /\ 1 \in 1 .. Len(events)
        /\ \A i \in 1 .. Len(events') :
              i + 1 \in 1 .. Len(events) /\ i + 1 > 1 /\ events'[i] = events[i + 1]
    BY HandleFacts DEF FilterInv
  <1>2. \A i \in 1 .. Len(events) : i > 1 => events[i].kind = "resolution"
    BY <1>1 DEF FilterInv, QueueInv
  <1>3. decoding /\ worker \in {"return", "idle"}
    BY <1>1 DEF FilterInv, QueueInv
  <1>4. ~ TagWaits
    <2>1. \A i \in 1 .. Len(events) : i = 1 \/ i > 1
      OBVIOUS
    <2> QED
      BY <1>1, <1>2, <2>1 DEF TagWaits
  <1>5. frame \in Images => told \/ Told(frame) = {}
    BY <1>3, <1>4 DEF FilterInv, StageInv
  <1> QED
    BY <1>1, <1>2, <1>3, <1>5 DEF FilterInv, StageInv

LEMMA FinishedStep == ASSUME FilterInv, HandleDecodingFinished PROVE QueueInv' /\ StageInv'
  <1>1. /\ Handle("finished") /\ decoding' = FALSE /\ told' = told
    BY DEF HandleDecodingFinished
  <1>2. QueueInv'
    BY <1>1, LastSignal DEF QueueInv
  <1>3. StageInv'
    BY <1>1, LastSignal DEF FilterInv, StageInv, Handle
  <1> QED
    BY <1>2, <1>3

LEMMA TagStep == ASSUME FilterInv, OnTagFound PROVE QueueInv' /\ StageInv'
  <1>1. Handle("tag") /\ decoding' = decoding /\ told' = TRUE
    BY DEF OnTagFound
  <1>2. worker \in {"finish", "return", "idle"}
    BY <1>1, HandleFacts DEF FilterInv, QueueInv
  <1>3. QueueInv'
    BY <1>1, HandledQueue
  <1>4. StageInv'
    BY <1>1, <1>2 DEF FilterInv, StageInv, Handle
  <1> QED
    BY <1>3, <1>4

LEMMA InvStep == FilterInv /\ [FilterNext]_filterVars => FilterInv'
  <1> SUFFICES ASSUME FilterInv, [FilterNext]_filterVars PROVE QueueInv' /\ StageInv'
    BY TypeStep DEF FilterInv
  <1>1. CASE UNCHANGED filterVars
    BY <1>1 DEF FilterInv, QueueInv, StageInv, TagWaits, filterVars
  <1>2. CASE FilterNext
    BY <1>2, LookStep, AcceptStep, ConvertFailsStep, StartStep, ReadFailsStep,
       ReadSucceedsStep, EmitFinishedStep, ReturnStep, StartedStep, FinishedStep, TagStep,
       ResolutionStep
       DEF FilterNext, Worker, UserInterface
  <1> QED
    BY <1>1, <1>2

-----------------------------------------------------------------------------
(* The theorems.                                                           *)

\* Every variable has its type, and the queue never holds signals of two frames.
THEOREM InvariantOfFilter == FilterSpec => []FilterInv
  <1>1. FilterInit => FilterInv
    BY TypeInit, InvInit DEF FilterInv
  <1> QED
    BY <1>1, InvStep, PTL DEF FilterSpec

\* Every variable has its type.
THEOREM FilterTypeCorrect == FilterSpec => []FilterTypeOK
  <1>1. FilterInv => FilterTypeOK
    BY DEF FilterInv
  <1> QED
    BY <1>1, InvariantOfFilter, PTL

\* What a step is for the viewer page: a frame is taken, its text is told with its own
\* properties, it is done with, or nothing happens.
LEMMA RefinedStep == FilterInv /\ [FilterNext]_filterVars => [Filter!FramesNext]_Filter!frameVars
  <1> USE DEF Filter!FramesNext, Filter!frameVars, Filter!Take, Filter!Tell, Filter!Finish
  <1> SUFFICES ASSUME FilterInv, [FilterNext]_filterVars
               PROVE  [Filter!FramesNext]_Filter!frameVars
    OBVIOUS
  <1>0. decoding => frame # NoFrame
    BY FramesAssumption DEF FilterInv, StageInv
  <1>1. ASSUME NEW f \in Frames, Look(f) PROVE UNCHANGED Filter!frameVars
    BY <1>1 DEF Look
  <1>2. CASE Accept
    <2>1. ~ decoding /\ arriving \in Frames /\ decoding' /\ frame' = arriving /\ told' = FALSE
          /\ tag' = tag
      BY <1>2 DEF Accept, FilterInv, StageInv, FilterTypeOK
    <2>2. Filter!Take(arriving)
      BY <2>1
    <2> QED
      BY <2>1, <2>2
  <1>3. CASE ConvertFails
    <2>1. decoding /\ decoding' = FALSE /\ tag' = tag /\ frame \in Frames \ Images
      BY <1>3, FramesAssumption DEF ConvertFails, FilterInv, StageInv
    <2>2. Content[frame] = {}
      BY <2>1 DEF Content
    <2> QED
      BY <1>0, <2>1, <2>2
  <1>4. CASE Start \/ ReadFails \/ ReadSucceeds \/ EmitFinished \/ Return
    BY <1>4 DEF Start, ReadFails, ReadSucceeds, EmitFinished, Return
  <1>5. CASE HandleDecodingStarted
    <2>1. decoding /\ decoding' /\ told' = told /\ tag' = tag /\ frame' = frame
      BY <1>5, HandleFacts DEF HandleDecodingStarted, Handle, FilterInv, QueueInv
    <2> QED
      BY <2>1
  <1>6. CASE HandleDecodingFinished
    <2>1. /\ decoding /\ frame \in Frames /\ decoding' = FALSE /\ tag' = tag
          /\ frame \in Images => told \/ Told(frame) = {}
      BY <1>6, LastSignal DEF HandleDecodingFinished
    <2>2. told \/ Content[frame] = {}
      BY <2>1 DEF Content, Told
    <2> QED
      BY <1>0, <2>1, <2>2
  <1>7. CASE OnTagFound
    <2>1. /\ decoding /\ ~ told /\ frame \in Images /\ founded = frame
          /\ Head(events).text \in Told(frame)
      BY <1>7, HandleFacts DEF OnTagFound, FilterInv, QueueInv
    <2>2. Head(events).text \in Content[frame]
      BY <2>1 DEF Content, Told, Frames
    <2>3. decoding' = decoding /\ told' = TRUE /\ frame' = frame
          /\ tag' = [text |-> Head(events).text, properties |-> frame]
      BY <1>7, <2>1 DEF OnTagFound, Handle
    <2> QED
      BY <1>0, <2>1, <2>2, <2>3
  <1>8. CASE OnCameraResolution
    BY <1>8 DEF OnCameraResolution, Handle
  <1>9. CASE UNCHANGED filterVars
    BY <1>9 DEF filterVars
  <1> QED
    BY <1>1, <1>2, <1>3, <1>4, <1>5, <1>6, <1>7, <1>8, <1>9
       DEF FilterNext, Worker, UserInterface

\* For the viewer page the filter is one that takes frames one at a time and tells the text
\* of each, with its properties, before it takes another.
THEOREM FilterRefinement == FilterSpec => ImplementsDecodedFrames
  <1>1. FilterInit => Filter!FramesInit
    BY DEF FilterInit, Filter!FramesInit
  <1> QED
    BY <1>1, RefinedStep, InvariantOfFilter, PTL
       DEF FilterSpec, ImplementsDecodedFrames, Filter!FramesSpec

\* The tag that the page took shows what was read of the frame whose properties it shows.
TagRead ==
    tag.properties # NoFrame =>
        tag.properties \in Images /\ tag.text \in Told(tag.properties)

LEMMA TagReadStep == FilterInv /\ TagRead /\ [FilterNext]_filterVars => TagRead'
  <1> SUFFICES ASSUME FilterInv, TagRead, [FilterNext]_filterVars PROVE TagRead'
    OBVIOUS
  <1>1. CASE OnTagFound
    <2>1. frame \in Images /\ founded = frame /\ Head(events).text \in Told(frame)
      BY <1>1, HandleFacts DEF OnTagFound, FilterInv, QueueInv
    <2>2. tag' = [text |-> Head(events).text, properties |-> frame]
      BY <1>1, <2>1 DEF OnTagFound
    <2> QED
      BY <2>1, <2>2 DEF TagRead, Told
  <1>2. CASE ~ OnTagFound
    <2>1. tag' = tag
      BY <1>2 DEF FilterNext, Look, Accept, Worker, ConvertFails, Start, ReadFails,
         ReadSucceeds, EmitFinished, Return, UserInterface, HandleDecodingStarted,
         HandleDecodingFinished, OnCameraResolution, filterVars
    <2> QED
      BY <2>1 DEF TagRead, Told
  <1> QED
    BY <1>1, <1>2

\* If the decoder reads nothing but what the code of a frame was made of, the page shows
\* nothing else, and with the properties of that frame, whatever frames come in
\* between: the filter's part of what makes a member's code come back as it was drawn.
THEOREM OnlyContentShown ==
    ASSUME NEW content, \A f \in Images : Reading(f) \subseteq {content[f]}
    PROVE  FilterSpec => [](tag.properties # NoFrame => tag.text = content[tag.properties])
  <1>1. FilterInit => TagRead
    BY DEF FilterInit, TagRead
  <1>2. TagRead => (tag.properties # NoFrame => tag.text = content[tag.properties])
    BY DEF TagRead, Told
  <1> QED
    BY <1>1, <1>2, TagReadStep, InvariantOfFilter, PTL DEF FilterSpec
==============================================================================
