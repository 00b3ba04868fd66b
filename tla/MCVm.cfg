SPECIFICATION VmSpec
CONSTANTS
    Nil = Nil
    Const <- MCConst
    NRegs = 2
    Base <- MCBase
    Loaded <- MCLoaded
    MaxCells = 60
    MemPad = 4
    Into = {1}
    RawSize = {9}
    MaxBurst = 3
    MaxSteps = 4
    Ticks = 1
    Deposit = 0
    Quanta = {1}
    Place <- MCPlace
    MaxDepth = 2
    MaxFd = 4
    Room = 2
    Sizes <- MCSizes
    Numbers <- MCNumbers
    MaxCalls = 3
    FfKeys <- MCFfKeys
    FfVals = {"v", "w"}
    MaxOps = 8
    VBits = 3
    W = 2
    TopReg = 8
    Mantissa = 5
    LongBits = 8
    MaxTurns = 7
    MaxFrac = 8
    MaxInt = 150
    Radix = 3
    WordSize = 2
    Numbers0 = {0, 8}
    RawBytes = {0, 1, 2, 5}
    MaxObjs = 3
    HashBang = {0, 2, 4}
    Argv <- MCArgv
    Platforms = {"sysv", "win64", "x86", "js"}
    Lists0 <- MCLists
    FilledWith <- MCFilledWith
    Calls0 <- MCCalls
    Calls1 <- MCNested
    Callbacks <- MCCallbacks
    Shifts <- MCShifts
    CallbackLast = 5
    MaxNest = 3
    WordBits = 6
    ValueBits = 4
    Scale = 2
    MaxRequest = 5
    Value <- MCValue
    Default = Default
    QueueError = QueueError
    MaxLen = 5
    QueueOps = 11
INVARIANTS
    Down BossKept NoLeak Finds Balanced
    DigitsExact NumbersKept ListsApplied SetThenRef
    GraphLoaded FileRun ArgsArrive ParamsHeard EchoKept
    EndsStayNear LoopHalves
PROPERTIES
    KeepsGraph RoomToRun Resumed CallbackReturns SandboxClosed Accounted WroteBack AnswersAdvance
    ImplementsDeque
CHECK_DEADLOCK FALSE
