\* The program ends.
CHECK_DEADLOCK FALSE
CONSTANTS
    MAXTHREAD = 3
    MAXBUF = 4
    DEFAULTBUF = 3
    Inputs <- ManyInputs
    NoMsg = NoMsg
SPECIFICATION FairSpec
INVARIANTS FullInv SequentialRight MergedCountRight MergedLengthRight MergesReplies
PROPERTIES Termination
