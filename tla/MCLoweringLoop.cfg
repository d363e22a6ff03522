\* A loop that ends by falling off a print.
CONSTANTS
    Modules <- LoopModules
    Oracles <- MCOracles
    Fuel = 3
    BlockFuel = 60
    MaxCalls = 4
SPECIFICATION Spec
INVARIANTS SameMeaning
CHECK_DEADLOCK FALSE
