------------------------------ MODULE CodeFilter -----------------------------
(***************************************************************************)
(* The camera filter of the inspector (QZXingFilter.cpp and decodeImage()  *)
(* of QZXing.cpp) on three threads: the scene's render thread calls run()  *)
(* with each frame of the camera, a worker of QtConcurrent decodes one of  *)
(* them, and the signals of the decoder are queued for the thread of the   *)
(* user interface, where the filter and the page handle them in order.     *)
(***************************************************************************)
EXTENDS Integers, Sequences, FiniteSets

CONSTANTS
    Images,         \* frames that become an image
    Empty,          \* a frame without data
    Unconvertible,  \* a frame of a pixel format that becomes no image
    NullWhenScaled, \* a frame that is nothing after scaledToHeight()
    NoFrame,
    Reading(_)      \* of each image what the decoder reads: a text, or none

Frames == Images \cup {Empty, Unconvertible, NullWhenScaled}

ASSUME FramesAssumption ==
    /\ NoFrame \notin Frames
    /\ {Empty, Unconvertible, NullWhenScaled} \cap Images = {}
    /\ NullWhenScaled \notin {Empty, Unconvertible}
    /\ \A f \in Images : \A t, u \in Reading(f) : t = u

VARIABLES
    decoding,       \* of the filter; three threads write it
    frame,          \* the copy in the filter
    arriving,       \* the frame with which run() has passed its tests, or NoFrame
    worker,         \* where the worker is; "idle" when processThread is finished
    founded,          \* the frame that foundedFmt and charSet_ describe
    firstFrame,
    events,         \* signals for the user interface
    told,           \* whether the page has been told the text of the frame
    tag             \* the page: the last tag, with the properties it read then

filterVars ==
    <<decoding, frame, arriving, worker, founded, firstFrame, events, told, tag>>

Event(kind, text) == [kind |-> kind, text |-> text]
Started == Event("started", <<>>)
Finished == Event("finished", <<>>)
Resolution == Event("resolution", <<>>)
\* Mutant: the text is sent with another signal.
FoundResult(text) == Event("result", text)
Found(text) == Event("tag", text)

FilterInit ==
    /\ decoding = FALSE
    /\ frame = NoFrame
    /\ arriving = NoFrame
    /\ worker = "idle"
    /\ founded = NoFrame
    /\ firstFrame = TRUE
    /\ events = <<>>
    /\ told = FALSE
    /\ tag = [text |-> <<>>, properties |-> NoFrame]

-----------------------------------------------------------------------------
(* The render thread: run().                                               *)

\* Mutant: the test of isDecoding() is missing.
MayAcceptDecoding == worker = "idle"
MayAccept == ~ decoding /\ worker = "idle"

\* The tests; a frame that does not pass them is shown and not decoded.
Look(f) ==
    /\ arriving = NoFrame
    /\ MayAccept
    /\ arriving' = f
    /\ UNCHANGED <<decoding, frame, worker, founded, firstFrame, events, told, tag>>

Accept ==
    /\ arriving # NoFrame
    /\ decoding' = TRUE
    /\ frame' = arriving
    /\ worker' = "convert"
    /\ arriving' = NoFrame
    /\ told' = FALSE
    /\ UNCHANGED <<founded, firstFrame, events, tag>>

-----------------------------------------------------------------------------
(* The worker: processVideoFrameProbed(), decode(), decodeImage().         *)

Emit(event) == events' = Append(events, event)

\* Mutant: one of the early returns leaves the filter decoding.
ConvertFailsBusy ==
    /\ worker = "convert" /\ frame \in {Empty, Unconvertible}
    /\ decoding' = (frame = Unconvertible)
    /\ worker' = "idle"
    /\ UNCHANGED <<frame, arriving, founded, firstFrame, events, told, tag>>
\* The early returns: no signal is emitted.
ConvertFails ==
    /\ worker = "convert" /\ frame \in {Empty, Unconvertible}
    /\ decoding' = FALSE
    /\ worker' = "idle"
    /\ UNCHANGED <<frame, arriving, founded, firstFrame, events, told, tag>>

Start ==
    /\ worker = "convert" /\ frame \notin {Empty, Unconvertible}
    /\ Emit(Started)
    /\ worker' = "read"
    /\ UNCHANGED <<decoding, frame, arriving, founded, firstFrame, told, tag>>

\* A null image, or an exception of the decoder.
ReadFails ==
    /\ worker = "read" /\ frame \in {NullWhenScaled} \cup {f \in Images : Reading(f) = {}}
    /\ Emit(Finished)
    /\ worker' = "return"
    /\ UNCHANGED <<decoding, frame, arriving, founded, firstFrame, told, tag>>

\* An empty text is not told.
ReadSucceeds ==
    /\ worker = "read" /\ frame # NullWhenScaled
    /\ \E text \in Reading(frame) :
         IF text = <<>> THEN UNCHANGED <<founded, events>>
         ELSE founded' = frame /\ Emit(Found(text))
    /\ worker' = "finish"
    /\ UNCHANGED <<decoding, frame, arriving, firstFrame, told, tag>>

EmitFinished ==
    /\ worker = "finish"
    /\ Emit(Finished)
    /\ worker' = "return"
    /\ UNCHANGED <<decoding, frame, arriving, founded, firstFrame, told, tag>>

\* The end of decode(): the first frame tells its size.
Return ==
    /\ worker = "return"
    /\ IF firstFrame THEN Emit(Resolution) ELSE UNCHANGED events
    /\ firstFrame' = FALSE
    /\ worker' = "idle"
    /\ UNCHANGED <<decoding, frame, arriving, founded, told, tag>>

Worker ==
    ConvertFails \/ Start \/ ReadFails \/ ReadSucceeds \/ EmitFinished \/ Return

-----------------------------------------------------------------------------
(* The thread of the user interface.                                       *)

Handle(kind) ==
    /\ events # <<>> /\ Head(events).kind = kind
    /\ events' = Tail(events)
    /\ UNCHANGED <<frame, arriving, worker, founded, firstFrame>>

HandleDecodingStarted ==
    /\ Handle("started")
    /\ decoding' = TRUE
    /\ UNCHANGED <<told, tag>>

HandleDecodingFinished ==
    /\ Handle("finished")
    /\ decoding' = FALSE
    /\ UNCHANGED <<told, tag>>

\* onTagFound of the page: it takes the text from the signal and asks the decoder for
\* the format and the character set.
OnTagFound ==
    /\ Handle("tag")
    /\ tag' = [text |-> Head(events).text, properties |-> founded]
    /\ told' = TRUE
    /\ UNCHANGED decoding

\* onCameraResolution of the page, which sets the scaling.
OnCameraResolution ==
    /\ Handle("resolution")
    /\ UNCHANGED <<decoding, told, tag>>

UserInterface ==
    HandleDecodingStarted \/ HandleDecodingFinished \/ OnTagFound \/ OnCameraResolution

FilterNext ==
    (\E f \in Frames : Look(f)) \/ Accept \/ Worker \/ UserInterface

\* A thread that has something to do does it; the camera need not send frames.
FilterSpec ==
    /\ FilterInit /\ [][FilterNext]_filterVars
    /\ WF_filterVars(Accept) /\ WF_filterVars(Worker) /\ WF_filterVars(UserInterface)

-----------------------------------------------------------------------------
(* Properties.                                                             *)

Texts == (UNION {Reading(f) : f \in Images}) \cup {<<>>}

FilterTypeOK ==
    /\ decoding \in BOOLEAN
    /\ frame \in Frames \cup {NoFrame}
    /\ arriving \in Frames \cup {NoFrame}
    /\ worker \in {"idle", "convert", "read", "finish", "return"}
    /\ founded \in Images \cup {NoFrame}
    /\ firstFrame \in BOOLEAN
    /\ events \in Seq([kind : {"started", "finished", "resolution", "tag"}, text : Texts])
    /\ told \in BOOLEAN
    /\ tag \in [text : Texts, properties : Images \cup {NoFrame}]

\* The text of a frame that is told.
Content ==
    [f \in Frames |-> IF f \in Images THEN Reading(f) \ {<<>>} ELSE {}]

\* run() tests two flags that other threads write (QZXingFilter.cpp:108-117) and the page
\* asks the decoder, later, for the properties of a tag (ViewerPage.qml:68): even so the
\* filter works on one frame at a time, as the comment at :102 hopes, and a tag is told
\* once, with the properties of its frame, before the next frame is taken.
Filter == INSTANCE DecodedFrames WITH
    current <- IF decoding THEN frame ELSE NoFrame,
    told <- decoding /\ told
ImplementsDecodedFrames == Filter!FramesSpec

\* Whatever becomes of a frame (an early return, a null image, an exception), the
\* filter takes frames again.
DecodingEnds == decoding ~> ~ decoding /\ worker = "idle"
==============================================================================
