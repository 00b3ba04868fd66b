SPECIFICATION MachineSpec
CONSTANTS
    Ticks = 1
    Deposit = 0
    Quanta = {1}
    Place = {0, 1}
    MaxDepth = 1
INVARIANT IpInCode
CHECK_DEADLOCK FALSE
