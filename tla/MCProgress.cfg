CONSTANT None = None
SPECIFICATION Spec
PROPERTIES CallsReturn WorkIsFinished NobodyIsHeldUp
CHECK_DEADLOCK FALSE
