SPECIFICATION Spec
CONSTANTS
    WordSize = 64
    NumRegs = 2
    PcSize = 16
    ResetPc = 0
    Programs <- MCPrograms
    Code <- MCCode
    MemSize = 2
    Memories <- MCMemories
    Alu <- MCAlu
    Narrow <- MCNarrow
    MulStages = 5
INVARIANTS OperandsCurrent UnitsInStep WaitingIsLive
PROPERTY RefinesArch
