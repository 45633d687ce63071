\* One request whose head comes in two pieces.
CONSTANTS
    Requests = 1
    HeadSize = 5
    Lines = {2, 4, 5}
    Returns = {}
    MaxBody = 1
SPECIFICATION Spec
INVARIANT NreadInBuffer
CHECK_DEADLOCK FALSE
