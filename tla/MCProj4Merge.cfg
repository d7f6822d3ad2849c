\* The program ends.
CHECK_DEADLOCK FALSE
CONSTANTS
    MAXTHREAD = 3
    MAXBUF = 4
    DEFAULTBUF = 3
    Inputs <- ShortInputs
    NoMsg = NoMsg
SPECIFICATION FairSpec
INVARIANTS ThreadsRight
