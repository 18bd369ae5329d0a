SPECIFICATION FairSpec
CONSTANTS
    PcSize = 3
    ResetPc = 0
    Lens <- MCLens
INVARIANTS OneOutstanding FrameIsItsOwn NothingBehindHalt
PROPERTIES InOrder FetchDelivers
