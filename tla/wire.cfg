\* Every kind of response, in every wire form, cut into reads of up to MaxRead octets.
SPECIFICATION Spec
CONSTANTS
    Max64 = 999
    Word32 = 64
    kMaxBodyStructureDepth = 2
    MaxRead = 40
    Conversations <- Understandable
    Streams <- UnderstandableScripts
INVARIANT CursorInBounds
INVARIANT NoLineEndSkipped
INVARIANT FramingExact
INVARIANT RoundTrip
INVARIANT RequestUnderstood
CHECK_DEADLOCK FALSE
