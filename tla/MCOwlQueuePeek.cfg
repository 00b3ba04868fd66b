SPECIFICATION QueueSpec
CONSTANTS
    a = a
    b = b
    Value <- MCValue
    Default = Default
    QueueError = QueueError
    MaxLen = 5
    QueueOps = 12

PROPERTY PeekSucceeds
CHECK_DEADLOCK FALSE
