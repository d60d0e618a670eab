----------------------------- MODULE MCCodeFilter ----------------------------
(***************************************************************************)
(* The camera filter for TLC, before codes that the applications might     *)
(* show: each image is a text encoded and damaged by QRPhotographs, and    *)
(* read by the decoder of QRCode.                                          *)
(***************************************************************************)
EXTENDS QRPhotographs, CodeFilter

Reads(shot) == readings[shot]

\* What the code shows is what the page is told: for the codes of QRPhotographs (every
\* mode and level, versions 1 to 7), with as much damage as the level allows, the encoder
\* and the decoder are inverses, and the filter gives the page the text of the frame it
\* took, or no text of a spoilt one.
ContentComesBack ==
    /\ tag.properties # NoFrame => tag.text = Codes[tag.properties].text
    /\ frame \in Images /\ Codes[frame].damage # "too much" => Reading(frame) # {}
=============================================================================
