CONSTANTS
    Processes = {p1}
    NULL = NULL
SPECIFICATION Spec
INVARIANTS Inv CallsOn Reverted Intercepts OpencloseFindsTable
