\* The program may end.
CHECK_DEADLOCK FALSE
CONSTANTS
    MAXGRID = 3
    MAXTHREAD = 2
    NoFile = NoFile
    Inputs <- AllInputs
    NoMsg = NoMsg
SPECIFICATION FairSpec
INVARIANTS FinalResultAtLimit
