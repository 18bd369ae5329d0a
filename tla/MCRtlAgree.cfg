SPECIFICATION Spec
CONSTANTS
    WordSize = 256
    Width = 8
    NumRegs = 32
    SampleBytes <- MCSampleBytes
INVARIANTS ResultsAgree FlagsAgree BranchMeansOrder DecodeAgrees
