CONSTANTS
    Modules <- MCModules
    Oracles <- MCOracles
    Fuel = 3
    BlockFuel = 60
    MaxCalls = 4
SPECIFICATION Spec
INVARIANTS BlocksClosedOnce RefsNameValues SameMeaning FlagMeansPending
CHECK_DEADLOCK FALSE
