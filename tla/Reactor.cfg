\* The program ends.
CONSTANT N = 2
SPECIFICATION FairSpec
INVARIANTS EndsInPeace StopMeansEnded RemovalIsLast
PROPERTIES ServerEnds StaysUnlistened
CHECK_DEADLOCK FALSE
