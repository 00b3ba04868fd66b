SPECIFICATION Spec
CONSTANT MaxRequest = 2
INVARIANT AnswerKept
CHECK_DEADLOCK FALSE
