\* Calls, recursion and tail calls against activations with words of their own.
SPECIFICATION Spec
CONSTANTS
    Programs <- MCPrograms
    Table <- MCTable
    BYTE = 8
    SlotsCap = 12
    SlotsFor <- StaticSlots
    Keys = {0, 2}
    MaxOut = 4
    MaxLen = 3
INVARIANTS
    TypeOK
    StackBalanced
    SlotsSuffice
PROPERTY ImplementsActivations
CHECK_DEADLOCK FALSE
