SPECIFICATION FairSpec
CONSTANTS
    WordSize = 64
    NumRegs = 2
    PcSize = 16
    ResetPc = 0
    Programs <- MCLoops
    Code <- MCLoopCode
    MemSize = 2
    Memories <- MCMemories
    Alu <- MCAlu
    Narrow <- MCNarrow
    MulStages = 5
PROPERTIES KeepsRetiring QuietOnceStopped RefinesFetch
