\* Every thread may call recvMsg on an empty mailbox: the clients can really stop.
CHECK_DEADLOCK FALSE
CONSTANTS
    Threads = {t0, t1, t2}
    Boxes = {b0}
    Messages = {m1, m2}
    NoMsg = NoMsg
SPECIFICATION FairSpec
INVARIANTS MutualExclusion Inv
PROPERTIES ImplementsChannel WaitersProgress
