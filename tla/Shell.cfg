\* The shell ends.
CHECK_DEADLOCK FALSE
CONSTANTS
    Pids = {p1, p2, p3}
    NoPid = NoPid
SPECIFICATION FairSpec
INVARIANTS Inv JobsCountChildren ExitClosesEverything NoLostJob
PROPERTIES ForegroundAlone PromptReturns ExitEndsUnlessStale
