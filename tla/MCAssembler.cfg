CONSTANTS
    WordSize = 256
    NumRegs = 4
    Sources <- Texts
    Alignment = 4
    ByteSize = 4
    RelMax = 3
    AbsMax = 4
SPECIFICATION Spec
INVARIANT ReadsBack ReferencesLand ShortestThatFits NeverGivesUp
CHECK_DEADLOCK FALSE
