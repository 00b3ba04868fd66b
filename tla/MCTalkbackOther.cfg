SPECIFICATION Spec
CONSTANT MaxRequest = 3
INVARIANT NoOtherAnswer
CHECK_DEADLOCK FALSE
