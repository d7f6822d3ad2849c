\* The program may end.
CHECK_DEADLOCK FALSE
CONSTANTS
    MAXGRID = 4
    MAXTHREAD = 2
    NoFile = NoFile
    Inputs <- FewInputs
    NoMsg = NoMsg
SPECIFICATION FairSpec
PROPERTIES Termination
