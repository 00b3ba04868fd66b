SPECIFICATION FfSpec
CONSTANTS
    FfKeys <- MCFfKeys
    FfVals = {"v"}
    MaxOps = 4
INVARIANT AppliedFinds
CHECK_DEADLOCK FALSE
