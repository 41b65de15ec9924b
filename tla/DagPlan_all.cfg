SPECIFICATION Spec
CHECK_DEADLOCK FALSE
CONSTANT N = 4
INVARIANT TypeOK
INVARIANT OrderRespectsDeps
INVARIANT CyclesRejected
