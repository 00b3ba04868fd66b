SPECIFICATION InteropFairSpec
CONSTANTS
    init = init
    c1 = c1
    c2 = c2
    n1 = n1
    intern = intern
    Thread <- MCThread
    Main = init
    NoThread = NoThread
    MaxMail = 2
    MaxFork = 0
    ExitValue = {0}
    Client = {c1, c2}
    Late = {c2}
    Server = intern
    Casts <- All
    MaxAsk = 2
    Ticks = 30
    Reserve = 10
    UserCost = {15, 25}
    AskCost = 9
    LookCost = 11
INVARIANTS NotCut AnswerMatches NoStaleAnswer
PROPERTIES TurnComes Answered AcceptedOnce
CHECK_DEADLOCK FALSE
