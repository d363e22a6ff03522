\* Labels that suffice: eight per function, in five bits.
CONSTANTS
    Programs <- MCPrograms
    PC_STRIDE = 8
    MaxPc = 31
    MAX_OPT_RUN_ITERS = 128
    Widths = {1, 3}
    Shuffles <- MCShuffles
    Sparse <- MCSparse
    Oracles <- MCOracles
    Fuel = 12
SPECIFICATION Spec
INVARIANTS TypeOK TargetsExist NothingDangles StoredIsContinuation OptSettles SameTrace
CHECK_DEADLOCK FALSE
