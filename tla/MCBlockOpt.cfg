\* Two-bit bytes, words of four bytes.
CONSTANTS
    BITS = 2
    MemEnd = 16
    Fuel = 12
    Callee <- MCCallee
    BOOL_NARY_MAX_INPUTS = 3
    MaxDelta = 20
    MAX_UNROLLS_PER_FUNC = 8
    Programs <- MCPrograms
    Envs <- MCEnvs
    Image <- MCImage
    External = {9}
    MAX_OPT_RUN_ITERS = 128
    MAX_COPY_ELIM_FUNC_ITERS = 64
SPECIFICATION Spec
INVARIANTS SameMeaning StillDefined NoCircle
CHECK_DEADLOCK FALSE
