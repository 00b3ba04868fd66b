SPECIFICATION SleeperFairSpec
CONSTANTS
    init = init
    io = io
    c1 = c1
    c2 = c2
    c3 = c3
    Thread <- MCThread
    Client <- MCTwo
    Main = init
    Io = io
    NoThread = NoThread
    MaxMail = 4
    MaxFork = 0
    ExitValue = {0}
    Duration = {0, 1, 4}
    NotFixnum = 4
    Fixed = 3
    MaxSleep = 3
    MaxCut = 1
INVARIANTS FirstSleepWhole NotLate NoneForgotten
PROPERTY WakesUp
CHECK_DEADLOCK FALSE
