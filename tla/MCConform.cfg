SPECIFICATION ConformSpec
CONSTANTS
    WordSize = 16
    Align = 2
    PageSize = 8
    NumRegs = 2
    MaxBytes = 3
    CounterSize = 8
    Limits = {4, 9}
    Insn <- MCInsn
    Alu <- MCAlu
    Images <- BroadImages
    ImagePages = {0}
INVARIANTS PcAligned OutcomeIsRight
CHECK_DEADLOCK FALSE
