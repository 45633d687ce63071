\* The system stops when the peer has sent all its requests.
CONSTANTS
    Requests = 2
    HeadSize = 8
    Lines = {2, 5, 7, 8}
    Returns = {4}
    MaxBody = 2
SPECIFICATION Spec
INVARIANTS Understood FirstIntact
CHECK_DEADLOCK FALSE
