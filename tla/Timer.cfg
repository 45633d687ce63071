CONSTANTS
    Delays = {0, 1}
    MaxNow = 1
    MaxCalls = 3
SPECIFICATION FairSpec
INVARIANTS OnePlace NoOversleep
PROPERTIES ImplementsTimerService Runs
