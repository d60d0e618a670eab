\* Ten codes of versions 1 to 7 and the three frames that become no image.
CONSTANTS
    Images <- Shots
    Reading <- Reads
    Empty = Empty
    Unconvertible = Unconvertible
    NullWhenScaled = NullWhenScaled
    NoFrame = NoFrame
SPECIFICATION FilterSpec
CHECK_DEADLOCK FALSE
INVARIANTS
    FilterTypeOK
    ContentComesBack
PROPERTIES
    ImplementsDecodedFrames
    DecodingEnds
