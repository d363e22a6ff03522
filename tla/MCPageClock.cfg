SPECIFICATION Spec
CONSTANTS
    Regs <- MCRegs
    Mems <- MCMems
    Inputs <- MCInputs
    NoInput = 2
    Cops <- MCCops
    NoCop = 0
    Exec <- MCExec
    Cop <- MCCop
    Start <- MCStart
    Unset = Unset
    TerminalRegs <- MCTerminal
    Builds <- MCBuilds
    Scale = 2
    Speeds = {1, 2, 4}
    MaxPending = 2
INVARIANTS TypeOK OneLoop NeverStuck StepsExact StickyStepped
PROPERTIES AtomicCycles KeepsRunning StepsServed
