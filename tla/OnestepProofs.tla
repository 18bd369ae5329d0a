--------------------------- MODULE OnestepProofs ---------------------------
(***************************************************************************)
(* Proofs about the reference simulator, and about vea conform, which runs *)
(* it, for every word size, alignment, register count, instruction table,  *)
(* program and cap.                                                        *)
(***************************************************************************)
EXTENDS Conform, TLAPS
-----------------------------------------------------------------------------
(* Words, flags and addresses.                                             *)
LEMMA WrapWord == ASSUME NEW x \in Int PROVE Wrap(x) \in Word
  BY WordSizeAssumption DEF Wrap, Word

LEMMA ComplementWord == ASSUME NEW x \in Word PROVE Complement(x) \in Word
  BY WordSizeAssumption DEF Complement, Word

LEMMA PageOfPage == ASSUME NEW a \in Word PROVE PageOf(a) \in Page
<1> DEFINE p == PageSize
           w == WordSize - 1
<1>1. p \in Nat /\ p > 0 /\ w \in Nat /\ a \in 0 .. w
  BY SizesAssumption, WordSizeAssumption DEF Word
<1>2. a \div p \in Nat /\ w \div p \in Nat
  BY <1>1
<1>3. a \div p <= w \div p
  <2> HIDE DEF p, w
  <2> DEFINE q == a \div p
             s == w \div p
  <2>1. a >= p * q /\ w < p * (s + 1)
    BY <1>1
  <2>2. p * q < p * (s + 1)
    BY <2>1, <1>1, <1>2
  <2>3. q \in Nat /\ s \in Nat
    BY <1>2
  <2> HIDE DEF q, s
  <2>4. q < s + 1
    BY <2>2, <2>3, <1>1
  <2>5. q <= s
    BY <2>4, <2>3
  <2> QED
    BY <2>5 DEF q, s
<1> QED
  BY <1>2, <1>3 DEF PageOf, Page

(* The multiple of the granule below y: not above y, and aligned. *)
LEMMA Granule ==
    ASSUME NEW y \in Nat, NEW g \in Nat \ {0}
    PROVE  /\ (y \div g) * g \in 0 .. y
           /\ ((y \div g) * g) % g = 0
<1> DEFINE q == y \div g
<1>1. q \in Nat
  OBVIOUS
<1>2. y >= g * q
  OBVIOUS
<1> HIDE DEF q
<1>3. q * g \in Nat /\ q * g <= y
  BY <1>1, <1>2
<1>4. (q * g) % g = 0
  BY <1>1
<1> QED
  BY <1>3, <1>4 DEF q

LEMMA AlignUpWord == ASSUME NEW v \in Int PROVE AlignUp(v) \in Word /\ Aligned(AlignUp(v))
<1> DEFINE y == Wrap(v + Align - 1)
<1>1. y \in Word /\ y \in Nat
  BY WrapWord, SizesAssumption, WordSizeAssumption DEF Word
<1> HIDE DEF y
<1>2. (y \div Align) * Align \in 0 .. y /\ ((y \div Align) * Align) % Align = 0
  BY <1>1, Granule, SizesAssumption
<1>3. AlignUp(v) = (y \div Align) * Align
  BY DEF AlignUp, y
<1>4. 0 .. y \subseteq Word
  BY <1>1, WordSizeAssumption DEF Word
<1> QED
  BY <1>2, <1>3, <1>4, Zenon DEF Aligned

LEMMA CompareFlags ==
    ASSUME NEW a \in Word, NEW b \in Word, NEW sign PROVE Compare(a, b, sign) \in Flags
<1> DEFINE diff == Signed(a) - Signed(b)
<1>1. (a = b) \in BOOLEAN /\ (a >= b) \in BOOLEAN /\ (a < b) \in BOOLEAN
  OBVIOUS
<1>2. (Signed(Wrap(diff)) < 0) \in BOOLEAN
  OBVIOUS
<1>3. (sign = "signed" /\ Signed(Wrap(diff)) # diff) \in BOOLEAN
  OBVIOUS
<1>4. (IF sign = "signed" THEN Signed(Wrap(diff)) < 0 ELSE a < b) \in BOOLEAN
  BY <1>1, <1>2, Zenon
<1> QED
  BY <1>1, <1>3, <1>4, Zenon DEF Compare, Flags
-----------------------------------------------------------------------------
(* Counters wrap: what is added to one before or after the wrap is the     *)
(* same to the remainder.                                                  *)
LEMMA ModUnique ==
    ASSUME NEW c \in Nat \ {0}, NEW q \in Int, NEW t \in 0 .. c - 1
    PROVE  (c * q + t) % c = t
<1> DEFINE n == c * q + t
           d == n \div c
           m == n % c
<1>1. n \in Int /\ d \in Int /\ m \in 0 .. c - 1 /\ n = c * d + m
  OBVIOUS
<1> HIDE DEF d, m
<1>2. c * (d - q) = t - m
  BY <1>1
<1>3. d - q < 1 /\ d - q > -1
  <2>1. c * (d - q) < c * 1 /\ c * (d - q) > c * (-1)
    BY <1>1, <1>2
  <2> QED
    BY <2>1, <1>1
<1>4. d = q
  BY <1>1, <1>3
<1> QED
  BY <1>1, <1>4 DEF m

LEMMA ModAdd ==
    ASSUME NEW c \in Nat \ {0}, NEW a \in Int, NEW b \in Int
    PROVE  ((a % c) + b) % c = (a + b) % c
<1> DEFINE q == a \div c
           r == a % c
           s == (r + b) \div c
           t == (r + b) % c
<1>1. q \in Int /\ r \in 0 .. c - 1 /\ a = c * q + r
  OBVIOUS
<1>2. s \in Int /\ t \in 0 .. c - 1 /\ r + b = c * s + t
  OBVIOUS
<1> HIDE DEF q, r, s, t
<1>3. a + b = c * (q + s) + t
  BY <1>1, <1>2
<1>4. (c * (q + s) + t) % c = t
  BY <1>1, <1>2, ModUnique
<1> QED
  BY <1>3, <1>4 DEF t, r
-----------------------------------------------------------------------------
LEMMA HeadTyped ==
    ASSUME TypeOK
    PROVE  head \in Head /\ (head.op = "alu" => head.fn \in AluFn) /\ ImmLen(head) \in Nat
<1>1. frame[0] \in Word
  <2>1. 0 \in 0 .. MaxBytes - 1 /\ pc + 0 \in Int
    BY SizesAssumption, WordSizeAssumption DEF TypeOK, Word
  <2>2. Wrap(pc + 0) \in Word
    BY <2>1, WrapWord
  <2> QED
    BY <2>1, <2>2 DEF frame, FrameAt, TypeOK
<1>2. head \in Head /\ (head.op = "alu" => head.fn \in AluFn)
  BY <1>1, InsnAssumption DEF head, HeadOf
<1> QED
  BY <1>2 DEF ImmLen, HeadBytes, Head

(* The operands of an instruction that does not fault. *)
LEMMA ImmTyped == ASSUME TypeOK, HasImm(head), ~Faults PROVE Imm \in Word
<1>1. ImmLen(head) \in 0 .. 1
  BY HeadTyped DEF Faults, MaxImm
<1>2. CASE ImmLen(head) = 0
  BY <1>2, WordSizeAssumption DEF Imm, Word
<1>3. CASE ImmLen(head) = 1 /\ 1 \in 0 .. MaxBytes - 1
  <2>1. pc + 1 \in Int
    BY WordSizeAssumption DEF TypeOK, Word
  <2>2. frame[1] \in Word
    BY <1>3, <2>1, WrapWord DEF frame, FrameAt, TypeOK
  <2> QED
    BY <1>3, <2>2 DEF Imm
<1> QED
  BY <1>1, <1>2, <1>3, SizesAssumption

LEMMA OperandsTyped ==
    ASSUME TypeOK, ~Faults, head.op \in {"mov", "not", "cmp", "alu", "ld", "st"}
    PROVE  /\ Source \in Word
           /\ head.rd \in Regs
           /\ head.op \in {"alu", "ld", "st"} => head.rs \in Regs
<1>1. Checked(head) \cup Trailing(head) \subseteq Regs
  BY DEF Faults
<1>2. head.rd \in Regs
  BY <1>1 DEF Checked, IsBranch
<1>3. ASSUME head.op \in {"alu", "ld", "st"} PROVE head.rs \in Regs
  BY <1>1, <1>3 DEF Checked, IsBranch
<1>4. CASE head.imm
  BY <1>2, <1>3, <1>4, ImmTyped DEF Source, HasImm, HasOperand
<1>5. CASE ~head.imm
  <2>1. head.src \in Regs
    BY <1>1, <1>5 DEF Trailing, HasOperand, IsBranch
  <2> QED
    BY <1>2, <1>3, <1>5, <2>1 DEF Source, TypeOK
<1> QED
  BY <1>4, <1>5

LEMMA EffAddrTyped ==
    ASSUME TypeOK, ~Faults, head.op \in {"ld", "st"} PROVE EffAddr \in Word
<1>1. head.rs \in Regs /\ Source \in Word
  BY OperandsTyped
<1>2. regs[head.rs] \in Word
  BY <1>1 DEF TypeOK
<1>3. regs[head.rs] + Source \in Int
  BY <1>1, <1>2, WordSizeAssumption DEF Word
<1> QED
  BY <1>3, WrapWord DEF EffAddr

LEMMA TargetTyped == ASSUME TypeOK, ~Faults, Taken PROVE Target \in Word /\ Aligned(Target)
<1>1. IsBranch(head)
  BY DEF Taken, IsBranch
<1>2. Aligned(Target)
  BY DEF Faults
<1>3. CASE head.imm
  <2>1. Imm \in Word
    BY <1>1, <1>3, ImmTyped DEF HasImm, HasOperand, IsBranch
  <2>2. pc + Imm \in Int
    BY <2>1, WordSizeAssumption DEF TypeOK, Word
  <2> QED
    BY <1>2, <1>3, <2>1, <2>2, WrapWord DEF Target
<1>4. CASE ~head.imm
  <2>1. head.rd \in Regs
    BY <1>1, <1>4 DEF Faults, Checked, IsBranch
  <2> QED
    BY <1>2, <1>4, <2>1 DEF Target, TypeOK
<1> QED
  BY <1>3, <1>4

LEMMA ResultTyped ==
    ASSUME TypeOK, ~Faults, head.op \in {"mov", "not", "alu", "ld"} PROVE Result \in Word
<1>1. CASE head.op \in {"mov", "not"}
  BY <1>1, OperandsTyped, ComplementWord DEF Result
<1>2. CASE head.op = "alu"
  <2>1. head.fn \in AluFn /\ regs[head.rs] \in Word /\ Source \in Word
    BY <1>2, HeadTyped, OperandsTyped DEF TypeOK
  <2>2. Alu[<<head.fn, regs[head.rs], Source>>] \in Word \cup {Undefined}
    BY <2>1, AluAssumption
  <2>3. Alu[<<head.fn, regs[head.rs], Source>>] # Undefined
    BY <1>2 DEF Faults
  <2> QED
    BY <1>2, <2>2, <2>3 DEF Result
<1>3. CASE head.op = "ld"
  BY <1>3, EffAddrTyped DEF Result, TypeOK
<1> QED
  BY <1>1, <1>2, <1>3
-----------------------------------------------------------------------------
Inv == TypeOK /\ PcAligned

LEMMA RetireTyped ==
    ASSUME TypeOK, ~Faults, Retire
    PROVE  /\ pc' \in Word /\ Aligned(pc')
           /\ completed' \in 0 .. CounterSize - 1 /\ cycles' \in 0 .. CounterSize - 1
<1>1. completed' \in 0 .. CounterSize - 1 /\ cycles' \in 0 .. CounterSize - 1
  BY CounterAssumption DEF Retire, TypeOK, CyclesPerInstr
<1>2. CASE Taken
  BY <1>1, <1>2, TargetTyped DEF Retire
<1>3. CASE ~Taken
  <2>1. Consumed \in Nat
    <3>1. ImmLen(head) \in Nat
      BY <1>1, HeadTyped
    <3> QED
      BY <3>1 DEF Consumed, HeadBytes
  <2>2. pc + Consumed \in Int
    BY <2>1, WordSizeAssumption DEF TypeOK, Word
  <2> QED
    BY <1>1, <1>3, <2>2, AlignUpWord DEF Retire
<1> QED
  BY <1>2, <1>3

LEMMA TickInv == ASSUME Inv, Tick PROVE Inv'
<1>1. TypeOK /\ ~Faults /\ Retire
  BY DEF Inv, Tick
<1>2. /\ pc' \in Word /\ Aligned(pc')
      /\ completed' \in 0 .. CounterSize - 1 /\ cycles' \in 0 .. CounterSize - 1
  BY <1>1, RetireTyped
<1>3. PcAligned'
  BY <1>2 DEF PcAligned, Aligned
<1>4. /\ regs' \in [Regs -> Word] /\ cc' \in Flags /\ mem' \in [Word -> Word]
      /\ mapped' \subseteq Page /\ halted' \in BOOLEAN
  <2>1. CASE Nop
    BY <1>1, <2>1, Zenon DEF Nop, TypeOK
  <2>2. CASE Halt
    BY <1>1, <2>2, Zenon DEF Halt, TypeOK
  <2>3. CASE SetReg
    <3>1. Result \in Word /\ head.rd \in Regs
      BY <1>1, <2>3, ResultTyped, OperandsTyped DEF SetReg, Faults, Checked, IsBranch
    <3>2. regs' \in [Regs -> Word]
      BY <1>1, <2>3, <3>1 DEF SetReg, TypeOK
    <3> QED
      BY <1>1, <2>3, <3>2, Zenon DEF SetReg, TypeOK
  <2>4. CASE SetFlags
    <3>1. regs[head.rd] \in Word /\ Source \in Word
      BY <1>1, <2>4, OperandsTyped DEF SetFlags, TypeOK
    <3>2. cc' \in Flags
      BY <2>4, <3>1, CompareFlags DEF SetFlags
    <3> QED
      BY <1>1, <2>4, <3>2, Zenon DEF SetFlags, TypeOK
  <2>5. CASE Store
    <3>1. EffAddr \in Word /\ regs[head.rd] \in Word
      BY <1>1, <2>5, EffAddrTyped, OperandsTyped DEF Store, TypeOK
    <3>2. mem' \in [Word -> Word] /\ mapped' \subseteq Page
      BY <1>1, <2>5, <3>1, PageOfPage DEF Store, TypeOK
    <3> QED
      BY <1>1, <2>5, <3>2, Zenon DEF Store, TypeOK
  <2> QED
    BY <2>1, <2>2, <2>3, <2>4, <2>5 DEF Tick
<1> QED
  BY <1>2, <1>3, <1>4 DEF Inv, TypeOK

LEMMA InitInv == Init => Inv
<1> SUFFICES ASSUME Init PROVE Inv
  OBVIOUS
<1>1. 0 \in Word /\ 0 \in 0 .. CounterSize - 1
  BY WordSizeAssumption, CounterAssumption DEF Word
<1>2. cc \in Flags
  BY DEF Init, Flags
<1>3. Aligned(pc)
  BY SizesAssumption DEF Init, Aligned
<1> QED
  BY <1>1, <1>2, <1>3, ImagesAssumption DEF Init, Inv, TypeOK, PcAligned

LEMMA Invariance == Spec => []Inv
<1>1. Inv /\ [Next]_vars => Inv'
  <2> SUFFICES ASSUME Inv, [Next]_vars PROVE Inv'
    OBVIOUS
  <2>1. CASE Tick
    BY <2>1, TickInv
  <2>2. CASE UNCHANGED vars
    BY <2>2, Zenon DEF vars, Inv, TypeOK, PcAligned, Aligned
  <2> QED
    BY <2>1, <2>2 DEF Next, FaultTick
<1> QED
  BY <1>1, InitInv, PTL DEF Spec

(* Every instruction that does not fault leaves the machine well formed:   *)
(* tick's checks cover every operand it goes on to use.                    *)
THEOREM TypeCorrect == Spec => []TypeOK
<1>1. Inv => TypeOK
  BY DEF Inv
<1> QED
  BY <1>1, Invariance, PTL

(* The PC is a multiple of ALIGNMENT whatever runs: the fall-through is    *)
(* rounded up past the payload and a taken branch is checked.              *)
THEOREM PcAlignedAlways == Spec => []PcAligned
<1>1. Inv => PcAligned
  BY DEF Inv
<1> QED
  BY <1>1, Invariance, PTL
-----------------------------------------------------------------------------
(* vea conform.  What it prints is the bus, so the bus has to be the       *)
(* register file after every cycle; what it has counted is what onestep    *)
(* has counted.                                                            *)
DriverInv ==
    /\ Inv
    /\ limit \in Nat /\ steps \in Nat
    /\ snapshot = regs
    /\ completed = steps % CounterSize
    /\ cycles = (CyclesPerInstr * steps) % CounterSize
    /\ OutcomeIsRight

LEMMA CountersStep ==
    ASSUME NEW n \in Nat
    PROVE  /\ ((n % CounterSize) + 1) % CounterSize = (n + 1) % CounterSize
           /\ (((CyclesPerInstr * n) % CounterSize) + CyclesPerInstr) % CounterSize
                  = (CyclesPerInstr * (n + 1)) % CounterSize
<1>1. /\ n \in Int /\ 1 \in Int /\ CyclesPerInstr \in Int /\ CyclesPerInstr * n \in Int
      /\ CyclesPerInstr * (n + 1) = CyclesPerInstr * n + CyclesPerInstr
  BY DEF CyclesPerInstr
<1>2. ((n % CounterSize) + 1) % CounterSize = (n + 1) % CounterSize
  BY <1>1, ModAdd, CounterAssumption, Zenon
<1>3. (((CyclesPerInstr * n) % CounterSize) + CyclesPerInstr) % CounterSize
          = (CyclesPerInstr * n + CyclesPerInstr) % CounterSize
  BY <1>1, ModAdd, CounterAssumption, Zenon
<1> QED
  BY <1>1, <1>2, <1>3

LEMMA StepDriver == ASSUME DriverInv, Step PROVE DriverInv'
<1>1. /\ Tick /\ outcome = "running" /\ outcome' = "running"
      /\ steps' = steps + 1 /\ snapshot' = regs' /\ limit' = limit
  BY DEF Step, Running
<1>2. Inv'
  BY <1>1, TickInv DEF DriverInv
<1>3. /\ completed' = (completed + 1) % CounterSize
      /\ cycles' = (cycles + CyclesPerInstr) % CounterSize
  BY <1>1 DEF Tick, Retire
<1>4. /\ completed' = (steps + 1) % CounterSize
      /\ cycles' = (CyclesPerInstr * (steps + 1)) % CounterSize
  BY <1>3, CountersStep, Zenon DEF DriverInv
<1>5. OutcomeIsRight'
  BY <1>1 DEF OutcomeIsRight
<1>6. limit' \in Nat /\ steps' \in Nat
  BY <1>1 DEF DriverInv
<1> QED
  BY <1>1, <1>2, <1>4, <1>5, <1>6, Zenon DEF DriverInv

(* The processor stands still. *)
LEMMA ProcessorKept ==
    ASSUME DriverInv, UNCHANGED <<vars, limit, steps>>
    PROVE  /\ Inv' /\ limit' \in Nat /\ steps' \in Nat
           /\ completed' = steps' % CounterSize
           /\ cycles' = (CyclesPerInstr * steps') % CounterSize
           /\ regs' = regs /\ (Faults => Faults') /\ halted' = halted
<1>1. /\ pc' = pc /\ regs' = regs /\ cc' = cc /\ mem' = mem /\ mapped' = mapped
      /\ halted' = halted /\ completed' = completed /\ cycles' = cycles
      /\ limit' = limit /\ steps' = steps
  BY DEF vars
<1>2. Inv'
  BY <1>1, Zenon DEF DriverInv, Inv, TypeOK, PcAligned, Aligned
<1>3. Faults => Faults'
  BY <1>1, Zenon DEF Faults, Source, Target, Taken, Imm, head, frame
<1> QED
  BY <1>1, <1>2, <1>3, Zenon DEF DriverInv

LEMMA NextDriver == DriverInv /\ [ConformNext]_<<vars, driver>> => DriverInv'
<1> SUFFICES ASSUME DriverInv, [ConformNext]_<<vars, driver>> PROVE DriverInv'
  OBVIOUS
<1>1. CASE Step
  BY <1>1, StepDriver
<1>2. CASE StepFaults
  <2>1. UNCHANGED <<vars, limit, steps>> /\ ~halted /\ Faults
        /\ outcome' = "failed" /\ snapshot' = regs'
    BY <1>2 DEF StepFaults, FaultTick
  <2>2. OutcomeIsRight'
    BY <2>1, ProcessorKept DEF OutcomeIsRight
  <2> QED
    BY <2>1, <2>2, ProcessorKept DEF DriverInv
<1>3. CASE GiveUp
  <2>1. UNCHANGED <<vars, limit, steps>> /\ ~halted /\ steps = limit
        /\ outcome' = "gave up" /\ snapshot' = snapshot /\ steps' = steps /\ limit' = limit
    BY <1>3 DEF GiveUp
  <2>2. halted' = halted
    BY <2>1, ProcessorKept
  <2>3. ~halted' /\ steps' = limit'
    BY <2>1, <2>2
  <2>4. OutcomeIsRight'
    BY <2>1, <2>3 DEF OutcomeIsRight
  <2> QED
    BY <2>1, <2>4, ProcessorKept DEF DriverInv
<1>4. CASE WriteGolden
  <2>1. UNCHANGED <<vars, limit, steps>> /\ halted
        /\ outcome' = "printed" /\ snapshot' = snapshot /\ output' = snapshot
    BY <1>4 DEF WriteGolden
  <2>2. output' = regs' /\ halted'
    <3>1. regs' = regs /\ halted' = halted
      BY <2>1, ProcessorKept
    <3> QED
      BY <2>1, <3>1 DEF DriverInv
  <2>3. OutcomeIsRight'
    BY <2>1, <2>2, ProcessorKept DEF OutcomeIsRight
  <2> QED
    BY <2>1, <2>3, ProcessorKept DEF DriverInv
<1>5. CASE UNCHANGED <<vars, driver>>
  <2>1. UNCHANGED <<vars, limit, steps>> /\ UNCHANGED <<snapshot, outcome, output>>
    BY <1>5 DEF driver
  <2>2. /\ regs' = regs /\ completed' = completed /\ cycles' = cycles
        /\ steps' = steps /\ limit' = limit
    BY <2>1 DEF vars
  <2>3. halted' = halted /\ (Faults => Faults')
    BY <2>1, ProcessorKept
  <2>4. OutcomeIsRight
    BY DEF DriverInv
  <2>5. OutcomeIsRight'
    BY <2>1, <2>2, <2>3, <2>4, Zenon DEF OutcomeIsRight
  <2> QED
    BY <2>1, <2>5, ProcessorKept DEF DriverInv
<1> QED
  BY <1>1, <1>2, <1>3, <1>4, <1>5 DEF ConformNext

(* The golden file is the register file of a program that halted, after as *)
(* many instructions as cycles were spent on it; the driver gives up only  *)
(* at the cap, on a program that has not halted, and fails only where      *)
(* onestep does.                                                           *)
THEOREM OutcomeIsRightAlways == ConformSpec => []OutcomeIsRight
<1>1. ConformInit => DriverInv
  <2> SUFFICES ASSUME ConformInit PROVE DriverInv
    OBVIOUS
  <2>1. Inv
    BY InitInv DEF ConformInit
  <2>2. 0 % CounterSize = 0 /\ CyclesPerInstr * 0 = 0
    BY CounterAssumption DEF CyclesPerInstr
  <2>3. limit \in Nat /\ steps = 0 /\ snapshot = regs /\ completed = 0 /\ cycles = 0
    BY LimitAssumption DEF ConformInit, Init, Blank
  <2>4. OutcomeIsRight
    BY DEF ConformInit, OutcomeIsRight
  <2> QED
    BY <2>1, <2>2, <2>3, <2>4 DEF DriverInv
<1>2. DriverInv => OutcomeIsRight
  BY DEF DriverInv
<1> QED
  BY <1>1, <1>2, NextDriver, PTL DEF ConformSpec
=============================================================================
