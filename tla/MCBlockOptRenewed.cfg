\* A condition that is negated after its operand was set anew.
CONSTANTS
    BITS = 2
    MemEnd = 16
    Fuel = 12
    Callee <- MCCallee
    BOOL_NARY_MAX_INPUTS = 3
    MaxDelta = 20
    MAX_UNROLLS_PER_FUNC = 8
    Programs <- Renewed
    Envs <- MCEnvs
    Image <- MCImage
    External = {9}
    MAX_OPT_RUN_ITERS = 128
    MAX_COPY_ELIM_FUNC_ITERS = 64
SPECIFICATION Spec
INVARIANTS SameMeaning
CHECK_DEADLOCK FALSE
