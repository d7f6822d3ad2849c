\* The shell ends.
CHECK_DEADLOCK FALSE
CONSTANTS
    Pids = {p1, p2}
    NoPid = NoPid
SPECIFICATION FairSpec
PROPERTIES ExitEnds
