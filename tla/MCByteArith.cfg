SPECIFICATION Spec
CONSTANTS
    BITS = 4
    MemEnd = 20
    Fuel = 1
    Callee <- NoCallee
    Words = {0, 1, 2, 7, 15, 16, 17, 255, 256, 4095, 4096, 23127, 32767, 32768, 36540, 65535}
    FewWords = {0, 1, 32768, 65535}
    Amounts = {0, 1, 3, 4, 5, 7, 8, 9, 11, 12, 15, 16, 17, 28, 65535}
    Offsets = {0, 1, 3, 4, 17, 20, 248, 252, 253, 254, 255}
    Addresses = {0, 1, 2, 11, 12, 15, 16, 17, 19, 255}
    Tasks <- MCTasks
INVARIANTS
    SameNumbers
    ExpressionsExact
CHECK_DEADLOCK FALSE
