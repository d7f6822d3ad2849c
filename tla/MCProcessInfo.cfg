\* Tasks run out.
CHECK_DEADLOCK FALSE
CONSTANTS
    N = 4
    Ignoring = {2}
    HeadTimes <- SomeHeadTimes
    HeadPids = {0, 7}
    NoReport = NoReport
SPECIFICATION FairSpec
INVARIANTS FullInv ChildrenReported SiblingsReported InOwnList TestOutput
PROPERTIES ReturnsUnlessLost
