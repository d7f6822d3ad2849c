\* The program ends, and it can stop for ever in the state StoppedTooLate.
CHECK_DEADLOCK FALSE
CONSTANTS
    MAXGRID = 4
    MAXTHREAD = 4
    NoFile = NoFile
    Inputs <- ManyInputs
    NoMsg = NoMsg
SPECIFICATION FairSpec
INVARIANTS FullInv CompleteGeneration FinalResult AllDoneAfterGenDone ExpectedMessages
PROPERTIES ImplementsGame TerminationUnlessStoppedTooLate
