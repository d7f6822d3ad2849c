\* Tasks run out.
CHECK_DEADLOCK FALSE
CONSTANTS
    N = 4
    Ignoring = {2}
    HeadTimes <- SomeHeadTimes
    HeadPids = {0, 7}
    NoReport = NoReport
SPECIFICATION Spec
INVARIANTS ChildrenAsDocumented
