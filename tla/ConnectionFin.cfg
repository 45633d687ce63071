\* Data and the end of the stream arrive together.
CONSTANTS
    MaxSent = 2
    MaxMessage = 3
    SndBuf = 1
    Intruders = 0
SPECIFICATION Spec
INVARIANT AllSeen
CHECK_DEADLOCK FALSE
