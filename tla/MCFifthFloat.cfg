SPECIFICATION NativeSpec
CONSTANTS
    Platforms = {"sysv"}
    Lists0 <- MCLists
    FilledWith = {0}
    Calls0 <- MCCalls
    Calls1 <- MCCalls
    Callbacks <- MCTypes
    Shifts = {0}
    CallbackLast = 5
    MaxNest = 2
    WordBits = 6
    ValueBits = 4
    Scale = 2
INVARIANT FloatsHeard
CHECK_DEADLOCK FALSE
