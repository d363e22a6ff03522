\* Blocks of up to 4 instructions, limits small enough to be reached.
SPECIFICATION Spec
CONSTANTS
    Blocks <- MCBlocks
    Inputs <- MCInputs
    MaxLen = 4
    MaxOps = 3
    MaxComplexity = 7
    MaxStores = 1
    Radix = 4
    MemEnd = 6
    CsSlots = 3
    Registers = {"a", "b", "c", "d"}
    Globals = {0}
    ExcCells = {1}
    Compute <- MCCompute
INVARIANTS
    ReadyIsExact
    OrderRespected
    CyclesCompatible
    ScheduleComplete
    SameMeaning
PROPERTY Terminates
CHECK_DEADLOCK FALSE
