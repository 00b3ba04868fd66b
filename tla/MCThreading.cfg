SPECIFICATION Spec
CONSTANTS
    init = init
    repl = repl
    io = io
    Thread <- MCThread
    Main = init
    NoThread = NoThread
    MaxMail = 2
    MaxFork = 2
    ExitValue = {0}
SYMMETRY Symmetry
INVARIANTS TypeOK RunsOnce NothingOutlives OnlyOnce
PROPERTY ImplementsActorMail
CHECK_DEADLOCK FALSE
