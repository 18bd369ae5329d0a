SPECIFICATION DisciplinedSpec
CONSTANTS
    WordSize = 16
    Align = 2
    PageSize = 8
    NumRegs = 2
    MaxBytes = 3
    CounterSize = 8
    Resume = FALSE
    Insn <- MCInsn
    Alu <- MCAlu
    Images <- ShortImages
    ImagePages = {0}
PROPERTIES KeepsGoing HaltCommits
CHECK_DEADLOCK FALSE
