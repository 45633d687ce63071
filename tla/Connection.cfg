\* The system may really stop: the peer has sent all it has to send.
CONSTANTS
    MaxSent = 2
    MaxMessage = 4
    SndBuf = 2
    Intruders = 1
SPECIFICATION FairSpec
INVARIANTS NoLostEdge StreamWhole UnitsOnce
PROPERTIES Answered NothingStays
CHECK_DEADLOCK FALSE
