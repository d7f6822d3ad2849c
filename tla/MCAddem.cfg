\* The program ends.
CHECK_DEADLOCK FALSE
CONSTANTS
    MAXTHREAD = 3
    INT_MAX = 15
    ThreadArgs = {0, 1, 2, 3, 4}
    ValueArgs <- SomeValues
    NoMsg = NoMsg
SPECIFICATION FairSpec
INVARIANTS Inv SumConserved TotalModuloInt CleanEnd
PROPERTIES Termination
