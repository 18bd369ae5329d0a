SPECIFICATION Spec
CONSTANTS
    WordSize = 16
    Align = 2
    PageSize = 8
    NumRegs = 2
    MaxBytes = 3
    CounterSize = 8
    Resume = FALSE
    Insn <- MCInsn
    Alu <- MCAlu
    Images <- UncheckedImages
    ImagePages = {0}
INVARIANT OperandsChecked
CHECK_DEADLOCK FALSE
