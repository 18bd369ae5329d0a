SPECIFICATION DisciplinedSpec
CONSTANTS
    WordSize = 16
    Align = 2
    PageSize = 8
    NumRegs = 2
    MaxBytes = 3
    CounterSize = 8
    Resume = FALSE
    Insn <- MCInsn
    Alu <- MCAlu
    Images <- BroadImages
    ImagePages = {0}
INVARIANTS OperandsCurrent PathCurrent FaultIsOnesteps FetchFaultIsOnesteps OnePerCycle NothingBehindHalt
PROPERTIES RefinesOnestep
CHECK_DEADLOCK FALSE
