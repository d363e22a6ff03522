\* A recursive call that exchanges its parameters.
SPECIFICATION Spec
CONSTANTS
    Programs <- SwapPrograms
    Table <- MCTable
    BYTE = 8
    SlotsCap = 12
    SlotsFor <- StaticSlots
    Keys = {0, 2}
    MaxOut = 4
    MaxLen = 2
PROPERTY ArgumentsParallel
CHECK_DEADLOCK FALSE
