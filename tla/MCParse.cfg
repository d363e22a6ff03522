\* Bytes of four values, words of four bytes, a memory of eight.
CONSTANTS
    BASE = 4
    MemEnd = 8
    Fuel = 9
    Signatures <- MCSignatures
    PayloadTags = {1}
    Functions <- MCFunctions
    Envs <- MCEnvs
SPECIFICATION Spec
INVARIANTS RefsFit SameMeaning
CHECK_DEADLOCK FALSE
