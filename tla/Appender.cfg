\* The system may really stop: the writer has ended and all calls are made.
CONSTANTS
    Loggers = {l1, l2}
    Stoppers = {s1}
    Null = Null
    Cap = 2
    Sizes = {1, 2, 3}
    MaxLogs = 2
SPECIFICATION FairSpec
INVARIANT CurrentThere
PROPERTIES ImplementsLogPipe NobodyWaits
CHECK_DEADLOCK FALSE
