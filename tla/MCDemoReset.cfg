SPECIFICATION DrSpec
INVARIANT UndisturbedResetPasses
CHECK_DEADLOCK FALSE
