---------------------------- MODULE DecodedFrames ----------------------------
(***************************************************************************)
(* What the camera filter promises the viewer page: it works on one frame  *)
(* at a time; the page is told the text of that frame, with the format and *)
(* the character set of the same frame, once, before the frame is done     *)
(* with; and no text that was read is lost.                                *)
(***************************************************************************)
CONSTANTS
    Frames,
    NoFrame,
    Content         \* of each frame the texts that may be told: one or none

VARIABLES
    current,        \* the frame that is worked on, or NoFrame
    told,           \* whether its text has been told
    tag             \* the last text told, and the frame its properties belong to

frameVars == <<current, told, tag>>

FramesInit ==
    /\ current = NoFrame
    /\ told = FALSE
    /\ tag = [text |-> <<>>, properties |-> NoFrame]

Take(f) ==
    /\ current = NoFrame
    /\ current' = f
    /\ told' = FALSE
    /\ UNCHANGED tag

Tell ==
    /\ current # NoFrame /\ ~ told
    /\ \E text \in Content[current] : tag' = [text |-> text, properties |-> current]
    /\ told' = TRUE
    /\ UNCHANGED current

Finish ==
    /\ current # NoFrame
    /\ told \/ Content[current] = {}
    /\ current' = NoFrame
    /\ told' = FALSE
    /\ UNCHANGED tag

FramesNext == (\E f \in Frames : Take(f)) \/ Tell \/ Finish

FramesSpec == FramesInit /\ [][FramesNext]_frameVars
==============================================================================
