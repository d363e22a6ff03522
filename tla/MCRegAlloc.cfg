\* Every callee of two blocks of up to MaxLen and MaxLen - 1 instructions.
SPECIFICATION RASpec
CONSTANTS
    Programs <- MCPrograms
    Scheduled <- MCScheduled
    Starts <- BlockStarts
    MaxPhysRegs = 16
    MaxLen = 2
INVARIANTS
    NoSharing
    BiasNeverFires
    AllocationSound
    BanksDisjoint
    ParametersApart
CHECK_DEADLOCK FALSE
