---------------------------- MODULE NstepProofs ----------------------------
(***************************************************************************)
(* Proofs about the pipelined simulator, for every word size, alignment,   *)
(* register count, instruction table and program.                          *)
(***************************************************************************)
EXTENDS NstepRefines, TLAPS
-----------------------------------------------------------------------------
(* Words, flags and addresses.                                             *)
LEMMA WrapWord == ASSUME NEW x \in Int PROVE Wrap(x) \in Word
  BY WordSizeAssumption DEF Wrap, Word

LEMMA ComplementWord == ASSUME NEW x \in Word PROVE Complement(x) \in Word
  BY WordSizeAssumption DEF Complement, Word

LEMMA PageOfPage == ASSUME NEW a \in Word PROVE PageOf(a) \in Page
<1> DEFINE p == PageSize
           w == WordSize - 1
<1>1. p \in Nat /\ p > 0 /\ w \in Nat /\ a \in 0 .. w
  BY SizesAssumption, WordSizeAssumption DEF Word
<1>2. a \div p \in Nat /\ w \div p \in Nat
  BY <1>1
<1>3. a \div p <= w \div p
  <2> HIDE DEF p, w
  <2> DEFINE q == a \div p
             s == w \div p
  <2>1. a >= p * q /\ w < p * (s + 1)
    BY <1>1
  <2>2. p * q < p * (s + 1)
    BY <2>1, <1>1, <1>2
  <2>3. q \in Nat /\ s \in Nat
    BY <1>2
  <2> HIDE DEF q, s
  <2>4. q < s + 1
    BY <2>2, <2>3, <1>1
  <2>5. q <= s
    BY <2>4, <2>3
  <2> QED
    BY <2>5 DEF q, s
<1> QED
  BY <1>2, <1>3 DEF PageOf, Page

(* The multiple of the granule below y: not above y, and aligned. *)
LEMMA Granule ==
    ASSUME NEW y \in Nat, NEW g \in Nat \ {0}
    PROVE  /\ (y \div g) * g \in 0 .. y
           /\ ((y \div g) * g) % g = 0
<1> DEFINE q == y \div g
<1>1. q \in Nat
  OBVIOUS
<1>2. y >= g * q
  OBVIOUS
<1> HIDE DEF q
<1>3. q * g \in Nat /\ q * g <= y
  BY <1>1, <1>2
<1>4. (q * g) % g = 0
  BY <1>1
<1> QED
  BY <1>3, <1>4 DEF q

LEMMA AlignUpWord == ASSUME NEW v \in Int PROVE AlignUp(v) \in Word /\ Aligned(AlignUp(v))
<1> DEFINE y == Wrap(v + Align - 1)
<1>1. y \in Word /\ y \in Nat
  BY WrapWord, SizesAssumption, WordSizeAssumption DEF Word
<1> HIDE DEF y
<1>2. (y \div Align) * Align \in 0 .. y /\ ((y \div Align) * Align) % Align = 0
  BY <1>1, Granule, SizesAssumption
<1>3. AlignUp(v) = (y \div Align) * Align
  BY DEF AlignUp, y
<1>4. 0 .. y \subseteq Word
  BY <1>1, WordSizeAssumption DEF Word
<1> QED
  BY <1>2, <1>3, <1>4, Zenon DEF Aligned

LEMMA CompareFlags ==
    ASSUME NEW a \in Word, NEW b \in Word, NEW sign PROVE Compare(a, b, sign) \in Flags
<1> DEFINE diff == Signed(a) - Signed(b)
<1>1. (a = b) \in BOOLEAN /\ (a >= b) \in BOOLEAN /\ (a < b) \in BOOLEAN
  OBVIOUS
<1>2. (Signed(Wrap(diff)) < 0) \in BOOLEAN
  OBVIOUS
<1>3. (sign = "signed" /\ Signed(Wrap(diff)) # diff) \in BOOLEAN
  OBVIOUS
<1>4. (IF sign = "signed" THEN Signed(Wrap(diff)) < 0 ELSE a < b) \in BOOLEAN
  BY <1>1, <1>2, Zenon
<1> QED
  BY <1>1, <1>3, <1>4, Zenon DEF Compare, Flags
-----------------------------------------------------------------------------
(* Counters wrap: what is added to one before or after the wrap is the     *)
(* same to the remainder.                                                  *)
LEMMA ModUnique ==
    ASSUME NEW c \in Nat \ {0}, NEW q \in Int, NEW t \in 0 .. c - 1
    PROVE  (c * q + t) % c = t
<1> DEFINE n == c * q + t
           d == n \div c
           m == n % c
<1>1. n \in Int /\ d \in Int /\ m \in 0 .. c - 1 /\ n = c * d + m
  OBVIOUS
<1> HIDE DEF d, m
<1>2. c * (d - q) = t - m
  BY <1>1
<1>3. d - q < 1 /\ d - q > -1
  <2>1. c * (d - q) < c * 1 /\ c * (d - q) > c * (-1)
    BY <1>1, <1>2
  <2> QED
    BY <2>1, <1>1
<1>4. d = q
  BY <1>1, <1>3
<1> QED
  BY <1>1, <1>4 DEF m

LEMMA ModAdd ==
    ASSUME NEW c \in Nat \ {0}, NEW a \in Int, NEW b \in Int
    PROVE  ((a % c) + b) % c = (a + b) % c
<1> DEFINE q == a \div c
           r == a % c
           s == (r + b) \div c
           t == (r + b) % c
<1>1. q \in Int /\ r \in 0 .. c - 1 /\ a = c * q + r
  OBVIOUS
<1>2. s \in Int /\ t \in 0 .. c - 1 /\ r + b = c * s + t
  OBVIOUS
<1> HIDE DEF q, r, s, t
<1>3. a + b = c * (q + s) + t
  BY <1>1, <1>2
<1>4. (c * (q + s) + t) % c = t
  BY <1>1, <1>2, ModUnique
<1> QED
  BY <1>3, <1>4 DEF t, r

LEMMA ModTimes ==
    ASSUME NEW c \in Nat \ {0}, NEW a \in Int, NEW n \in Int
    PROVE  (n * (a % c)) % c = (n * a) % c
<1> DEFINE q == a \div c
           r == a % c
           s == (n * r) \div c
           t == (n * r) % c
<1>1. q \in Int /\ r \in 0 .. c - 1 /\ a = c * q + r
  OBVIOUS
<1> HIDE DEF q, r
<1>2. s \in Int /\ t \in 0 .. c - 1 /\ n * r = c * s + t
  BY <1>1
<1> HIDE DEF s, t
<1>3. n * a = c * (n * q + s) + t
  BY <1>1, <1>2
<1>4. (c * (n * q + s) + t) % c = t
  <2>1. n * q + s \in Int
    BY <1>1, <1>2
  <2> QED
    BY <2>1, <1>2, ModUnique
<1> QED
  BY <1>3, <1>4 DEF t, r
-----------------------------------------------------------------------------
(* The ALU table has an entry for what ID/EX asks of it. *)
FnKnown == id_ex.op.kind = "alu" => id_ex.op.fn \in AluFn

TInv == TypeOK /\ FnKnown
-----------------------------------------------------------------------------
(* What each stage leaves for the ones behind it is typed.                 *)
LEMMA CounterNext ==
    ASSUME NEW n \in 0 .. CounterSize - 1
    PROVE  (n + 1) % CounterSize \in 0 .. CounterSize - 1
  BY CounterAssumption

LEMMA WritebackTyped ==
    ASSUME TypeOK
    PROVE  WbRegs \in [Regs -> Word] /\ WbCc \in Flags /\ WbCompleted \in 0 .. CounterSize - 1
<1>1. WbRegs \in [Regs -> Word] /\ WbCc \in Flags
  BY DEF TypeOK, WbRegs, WbCc, ExWb, Commit
<1>2. WbCompleted \in 0 .. CounterSize - 1
  BY CounterNext DEF TypeOK, WbCompleted
<1> QED
  BY <1>1, <1>2

LEMMA RunTyped ==
    ASSUME TInv, id_ex.valid, ~ExecuteFaults
    PROVE  Run(id_ex.op) \in Commit
<1> DEFINE op == id_ex.op
<1>1. op \in DecodedOp
  BY DEF TInv, TypeOK, IdEx
<1>2. 0 \in Word /\ 0 \in Regs /\ NoFlags \in Flags
  BY WordSizeAssumption, SizesAssumption DEF Word, Regs, NoFlags, Flags
<1>3. CommitNothing \in Commit
  BY <1>2 DEF CommitNothing, Commit
<1>4. ASSUME NEW v \in Word PROVE RegCommit(op.rd, v) \in Commit
  BY <1>1, <1>2 DEF RegCommit, CommitNothing, Commit, DecodedOp
<1>5. op.a \in Word /\ op.b \in Word
  BY <1>1 DEF DecodedOp
<1>6. CASE op.kind = "alu"
  <2>1. op.fn \in AluFn /\ Alu[<<op.fn, op.a, op.b>>] # Undefined
    BY <1>6 DEF TInv, FnKnown, ExecuteFaults, RunFaults
  <2>2. Alu[<<op.fn, op.a, op.b>>] \in Word \cup {Undefined}
    BY <1>5, <2>1, AluAssumption
  <2> QED
    BY <1>4, <1>6, <2>1, <2>2 DEF Run
<1>7. CASE op.kind = "cmp"
  <2>1. Compare(op.a, op.b, op.fn) \in Flags
    BY <1>5, CompareFlags
  <2> QED
    BY <1>2, <1>7, <2>1 DEF Run, CommitNothing, Commit
<1>8. CASE op.kind = "ld"
  <2>1. mem[op.a] \in Word
    BY <1>5 DEF TInv, TypeOK
  <2> QED
    BY <1>4, <1>8, <2>1 DEF Run
<1>9. CASE op.kind \in {"mov", "not"}
  BY <1>4, <1>5, <1>9, ComplementWord DEF Run
<1>10. CASE op.kind \notin {"alu", "cmp", "ld", "mov", "not"}
  BY <1>2, <1>3, <1>10 DEF Run, CommitNothing, Commit
<1> QED
  BY <1>6, <1>7, <1>8, <1>9, <1>10

LEMMA NothingTyped ==
    NoCommit \in ExWb /\ NoOp \in IdEx /\ NoFrame \in IfId /\ NoOp.op.kind = "nop"
<1>1. 0 \in Word /\ 0 \in Regs /\ NoFlags \in Flags
  BY WordSizeAssumption, SizesAssumption DEF Word, Regs, NoFlags, Flags
<1>2. NoCommit \in ExWb
  BY <1>1 DEF NoCommit, CommitNothing, ExWb, Commit
<1>3. NoOp \in IdEx /\ NoOp.op.kind = "nop"
  <2>1. NopOp \in DecodedOp
    BY <1>1 DEF NopOp, DecodedOp, OpKinds, Fn
  <2>2. NopOp.kind = "nop"
    BY DEF NopOp
  <2> QED
    BY <1>1, <2>1, <2>2 DEF NoOp, IdEx
<1>4. NoFrame \in IfId
  BY <1>1 DEF NoFrame, IfId, Frame
<1> QED
  BY <1>2, <1>3, <1>4

LEMMA ExecuteTyped ==
    ASSUME TInv, ~ExecuteFaults
    PROVE  ExLatch \in ExWb /\ ExMem \in [Word -> Word] /\ ExMapped \subseteq Page
<1>1. ExLatch \in ExWb
  BY RunTyped, NothingTyped DEF ExLatch, ExWb
<1>2. id_ex.op.a \in Word /\ id_ex.op.b \in Word /\ mem \in [Word -> Word] /\ mapped \subseteq Page
  BY DEF TInv, TypeOK, IdEx, DecodedOp
<1>3. ExMem \in [Word -> Word]
  BY <1>2 DEF ExMem
<1>4. PageOf(id_ex.op.a) \in Page
  BY <1>2, PageOfPage
<1>5. ExMapped \subseteq Page
  BY <1>2, <1>4 DEF ExMapped
<1> QED
  BY <1>1, <1>3, <1>5

(* The head of the frame in IF/ID, and of any fetched frame. *)
LEMMA HeadTyped ==
    ASSUME NEW f \in Frame
    PROVE  HeadOf(f) \in Head /\ (HeadOf(f).op = "alu" => HeadOf(f).fn \in AluFn)
<1>1. f[0] \in Word
  BY SizesAssumption DEF Frame
<1> QED
  BY <1>1, InsnAssumption DEF HeadOf

LEMMA FrameTyped ==
    ASSUME NEW m \in [Word -> Word], NEW a \in Word PROVE FrameAt(m, a) \in Frame
<1>1. ASSUME NEW k \in 0 .. MaxBytes - 1 PROVE Wrap(a + k) \in Word
  <2>1. a + k \in Int
    BY SizesAssumption, WordSizeAssumption DEF Word
  <2> QED
    BY <2>1, WrapWord
<1> QED
  BY <1>1 DEF FrameAt, Frame

(* Decode has something to work on that it neither faults nor panics on.   *)
Decodable == TInv /\ ~ExecuteFaults /\ if_id.valid /\ ~Undecodable /\ ~IndexPanics

LEMMA RegValueTyped ==
    ASSUME TInv, ~ExecuteFaults, NEW r \in Regs PROVE RegValue(r) \in Word
<1>1. WbRegs \in [Regs -> Word] /\ ExLatch \in ExWb
  BY WritebackTyped, ExecuteTyped DEF TInv
<1> QED
  BY <1>1 DEF RegValue, ExWb, Commit

LEMMA ImmTyped ==
    ASSUME TInv, HasImm(head), ~IndexPanics PROVE ImmAt \in Word
<1>1. head \in Head /\ if_id.bytes \in Frame
  BY HeadTyped DEF TInv, TypeOK, IfId, head
<1>2. ImmLen(head) \in Nat
  BY <1>1 DEF ImmLen, HeadBytes, Head
<1>3. ImmLen(head) \in 0 .. MaxBytes - 1
  BY <1>2, SizesAssumption DEF IndexPanics
<1>4. 0 \in Word
  BY WordSizeAssumption DEF Word
<1> QED
  BY <1>1, <1>3, <1>4 DEF ImmAt, Frame

LEMMA SourceTyped ==
    ASSUME Decodable, head.op \in {"mov", "not", "cmp", "alu", "ld", "st"} PROVE Source \in Word
<1>1. CASE head.imm
  <2>1. HasImm(head)
    BY <1>1 DEF HasImm, HasOperand
  <2> QED
    BY <1>1, <2>1, ImmTyped DEF Decodable, Source
<1>2. CASE ~head.imm
  <2>1. head.src \in Regs
    BY <1>2 DEF Decodable, IndexPanics, Trailing, HasOperand, IsBranch
  <2> QED
    BY <1>2, <2>1, RegValueTyped DEF Decodable, Source
<1> QED
  BY <1>1, <1>2

LEMMA TargetTyped == ASSUME Decodable, IsBranch(head) PROVE BranchTarget \in Word
<1>1. CASE head.imm
  <2>1. HasImm(head)
    BY <1>1 DEF HasImm, HasOperand, IsBranch
  <2>2. ImmAt \in Word
    BY <2>1, ImmTyped DEF Decodable
  <2>3. if_id.pc + ImmAt \in Int
    BY <2>2, WordSizeAssumption DEF Decodable, TInv, TypeOK, IfId, Word
  <2> QED
    BY <1>1, <2>2, <2>3, WrapWord DEF BranchTarget
<1>2. CASE ~head.imm
  <2>1. head.rd \in Regs
    BY <1>2 DEF Decodable, Undecodable, Checked, IsBranch
  <2> QED
    BY <1>2, <2>1, RegValueTyped DEF Decodable, BranchTarget
<1> QED
  BY <1>1, <1>2

LEMMA DecodeOpTyped ==
    ASSUME Decodable
    PROVE  DecodeOp \in DecodedOp /\ (DecodeOp.kind = "alu" => DecodeOp.fn \in AluFn)
<1>1. head \in Head /\ (head.op = "alu" => head.fn \in AluFn)
  BY HeadTyped DEF Decodable, TInv, TypeOK, IfId, head
<1>2. head.op \in Ops \ {"illegal"} /\ head.fn \in Fn
  BY <1>1 DEF Head, Decodable, Undecodable
<1>3. 0 \in Word /\ 0 \in Regs
  BY WordSizeAssumption, SizesAssumption DEF Word, Regs
<1>4. CASE head.op \in {"mov", "not", "cmp"}
  <2>1. head.rd \in Regs
    BY <1>4 DEF Decodable, Undecodable, Checked
  <2>2. RegValue(head.rd) \in Word /\ Source \in Word
    BY <1>4, <2>1, RegValueTyped, SourceTyped DEF Decodable
  <2>3. CASE head.op \in {"mov", "not"}
    BY <1>2, <1>3, <2>1, <2>2, <2>3 DEF DecodeOp, DecodedOp, NopOp, OpKinds, Fn, IsBranch
  <2>4. CASE head.op = "cmp"
    BY <1>2, <1>3, <2>1, <2>2, <2>4 DEF DecodeOp, DecodedOp, NopOp, OpKinds, Fn, IsBranch
  <2> QED
    BY <1>4, <2>3, <2>4
<1>5. CASE head.op \in {"alu", "ld", "st"}
  <2>1. head.rd \in Regs /\ head.rs \in Regs
    <3>1. Checked(head) = {head.rd, head.rs}
      BY <1>5 DEF Checked, IsBranch
    <3> QED
      BY <3>1 DEF Decodable, Undecodable
  <2>2. RegValue(head.rd) \in Word /\ RegValue(head.rs) \in Word /\ Source \in Word
    BY <1>5, <2>1, RegValueTyped, SourceTyped DEF Decodable
  <2>3. Wrap(RegValue(head.rs) + Source) \in Word
    BY <2>2, WrapWord, WordSizeAssumption DEF Word
  <2>4. CASE head.op = "alu"
    BY <1>1, <2>1, <2>2, <2>4 DEF DecodeOp, DecodedOp, NopOp, OpKinds, Head, IsBranch
  <2>5. CASE head.op = "ld"
    BY <1>3, <2>1, <2>3, <2>5 DEF DecodeOp, DecodedOp, NopOp, OpKinds, Fn, IsBranch
  <2>6. CASE head.op = "st"
    BY <1>3, <2>2, <2>3, <2>6 DEF DecodeOp, DecodedOp, NopOp, OpKinds, Fn, IsBranch
  <2> QED
    BY <1>5, <2>4, <2>5, <2>6
<1>6. CASE IsBranch(head)
  <2>1. BranchTarget \in Word
    BY <1>6, TargetTyped
  <2> QED
    BY <1>2, <1>3, <1>6, <2>1 DEF DecodeOp, DecodedOp, NopOp, OpKinds, Fn, IsBranch
<1>7. CASE head.op = "trap"
  <2>1. ImmAt \in Word
    BY <1>7, ImmTyped DEF HasImm, Decodable
  <2> QED
    BY <1>2, <1>3, <1>7, <2>1 DEF DecodeOp, DecodedOp, NopOp, OpKinds, Fn, IsBranch
<1>8. CASE head.op \in {"nop", "halt"}
  BY <1>2, <1>3, <1>8 DEF DecodeOp, DecodedOp, NopOp, OpKinds, Fn, IsBranch
<1> QED
  BY <1>2, <1>4, <1>5, <1>6, <1>7, <1>8 DEF Ops, IsBranch

LEMMA DecodeTyped ==
    ASSUME TInv, ~ExecuteFaults, ~DecodeFaults, ~DecodePanics
    PROVE  /\ IdLatch \in IdEx
           /\ IdLatch.op.kind = "alu" => IdLatch.op.fn \in AluFn
           /\ FetchPc \in Word
<1>1. CASE ~if_id.valid
  BY <1>1, NothingTyped DEF IdLatch, FetchPc, TInv, TypeOK
<1>2. CASE if_id.valid
  <2>1. Decodable
    BY <1>2 DEF Decodable, DecodeFaults, DecodePanics
  <2>2. IdLatch \in IdEx /\ (IdLatch.op.kind = "alu" => IdLatch.op.fn \in AluFn)
    <3>1. IdLatch = [valid |-> TRUE, pc |-> if_id.pc, op |-> DecodeOp]
      BY <1>2 DEF IdLatch
    <3>2. if_id.pc \in Word
      BY DEF TInv, TypeOK, IfId
    <3>3. DecodeOp \in DecodedOp /\ (DecodeOp.kind = "alu" => DecodeOp.fn \in AluFn)
      BY <2>1, DecodeOpTyped
    <3> QED
      BY <3>1, <3>2, <3>3 DEF IdEx
  <2>3. FetchPc \in Word
    BY <2>1, TargetTyped DEF FetchPc, Taken, IsBranch, TInv, TypeOK
  <2> QED
    BY <2>2, <2>3
<1> QED
  BY <1>1, <1>2
-----------------------------------------------------------------------------
(* The type invariant. *)
LEMMA InitTyped == Init => TInv
<1> SUFFICES ASSUME Init PROVE TInv
  OBVIOUS
<1>1. 0 \in Word /\ 0 \in Regs /\ 0 \in 0 .. CounterSize - 1
  BY WordSizeAssumption, SizesAssumption, CounterAssumption DEF Word, Regs
<1>2. mem \in [Word -> Word] /\ mapped \subseteq Page /\ pc \in Word /\ regs \in [Regs -> Word]
  BY <1>1, ImagesAssumption DEF Init
<1>3. cc \in Flags
  BY DEF Init, NoFlags, Flags
<1>4. if_id \in IfId /\ id_ex \in IdEx /\ ex_wb \in ExWb /\ id_ex.op.kind = "nop"
  BY NothingTyped DEF Init
<1>5. fault \in [kind : FaultKinds, pc : Word]
  BY <1>1 DEF Init, NoFault, FaultKinds
<1>6. completed \in 0 .. CounterSize - 1 /\ cycles \in 0 .. CounterSize - 1
  BY <1>1 DEF Init
<1>7. halt_pending \in BOOLEAN /\ halted \in BOOLEAN
  BY DEF Init
<1> QED
  BY <1>2, <1>3, <1>4, <1>5, <1>6, <1>7 DEF TInv, TypeOK, FnKnown

LEMMA WritebackNext ==
    ASSUME TypeOK, Writeback
    PROVE  /\ regs' \in [Regs -> Word] /\ cc' \in Flags /\ halted' \in BOOLEAN
           /\ completed' \in 0 .. CounterSize - 1
<1>1. halted' \in BOOLEAN
  BY Zenon DEF Writeback, TypeOK
<1> QED
  BY <1>1, WritebackTyped DEF Writeback

LEMMA HaltSeenTyped == ASSUME TypeOK PROVE HaltSeen \in BOOLEAN
  BY Zenon DEF TypeOK, HaltSeen

LEMMA TickTyped == ASSUME TInv, Tick PROVE TInv'
<1>1. ~ExecuteFaults /\ ~DecodePanics /\ ~DecodeFaults
  BY DEF Tick, Fetching
<1>2. regs' \in [Regs -> Word] /\ cc' \in Flags /\ halted' \in BOOLEAN
      /\ completed' \in 0 .. CounterSize - 1
  BY WritebackNext DEF Tick, TInv
<1>3. ex_wb' \in ExWb /\ mem' \in [Word -> Word] /\ mapped' \subseteq Page
  BY <1>1, ExecuteTyped DEF Tick, Execute
<1>4. id_ex' \in IdEx /\ FnKnown' /\ FetchPc \in Word
  BY <1>1, DecodeTyped DEF Tick, Decode, FnKnown
<1>5. halt_pending' \in BOOLEAN
  BY HaltSeenTyped DEF Tick, Decode, TInv
<1>6. if_id' \in IfId /\ pc' \in Word
  <2>1. FetchedFrame \in Frame
    BY <1>1, <1>4, ExecuteTyped, FrameTyped DEF FetchedFrame
  <2>2. FrameLen \in Nat
    BY <2>1, HeadTyped DEF FrameLen, Head
  <2>3. AlignUp(FetchPc + FrameLen) \in Word
    <3>1. FetchPc + FrameLen \in Int
      BY <1>4, <2>2, WordSizeAssumption DEF Word
    <3> QED
      BY <3>1, AlignUpWord
  <2>4. [valid |-> TRUE, pc |-> FetchPc, bytes |-> FetchedFrame] \in IfId
    BY <1>4, <2>1 DEF IfId
  <2> QED
    BY <1>4, <2>3, <2>4, NothingTyped DEF Tick, Fetch
<1>7. cycles' \in 0 .. CounterSize - 1
  BY CounterNext DEF Tick, TInv, TypeOK
<1>8. fault' \in [kind : FaultKinds, pc : Word]
  <2>1. 0 \in Word
    BY WordSizeAssumption DEF Word
  <2> QED
    BY <2>1 DEF Tick, NoFault, FaultKinds
<1> QED
  BY <1>2, <1>3, <1>4, <1>5, <1>6, <1>7, <1>8 DEF TInv, TypeOK

LEMMA TickExecuteFaultTyped == ASSUME TInv, TickExecuteFault PROVE TInv'
<1>1. regs' \in [Regs -> Word] /\ cc' \in Flags /\ halted' \in BOOLEAN
      /\ completed' \in 0 .. CounterSize - 1
  BY WritebackNext DEF TickExecuteFault, TInv
<1>2. ex_wb' \in ExWb /\ id_ex' \in IdEx /\ FnKnown'
  BY NothingTyped DEF TickExecuteFault, FnKnown
<1>3. fault' \in [kind : FaultKinds, pc : Word]
  BY DEF TickExecuteFault, FaultKinds, TInv, TypeOK, IdEx
<1> QED
  BY <1>1, <1>2, <1>3 DEF TInv, TypeOK, TickExecuteFault

LEMMA DecodeStopsTyped ==
    ASSUME TInv, ~ExecuteFaults, NEW kind \in {"decode", "panic"}, DecodeStops(kind)
    PROVE  TInv'
<1>1. regs' \in [Regs -> Word] /\ cc' \in Flags /\ halted' \in BOOLEAN
      /\ completed' \in 0 .. CounterSize - 1
  BY WritebackNext DEF DecodeStops, TInv
<1>2. ex_wb' \in ExWb /\ mem' \in [Word -> Word] /\ mapped' \subseteq Page
  BY ExecuteTyped DEF DecodeStops, Execute
<1>3. id_ex' \in IdEx /\ FnKnown' /\ if_id' \in IfId
  BY NothingTyped DEF DecodeStops, FnKnown
<1>4. fault' \in [kind : FaultKinds, pc : Word]
  BY DEF DecodeStops, FaultKinds, TInv, TypeOK, IfId
<1> QED
  BY <1>1, <1>2, <1>3, <1>4 DEF TInv, TypeOK, DecodeStops

LEMMA TickFetchFaultTyped == ASSUME TInv, TickFetchFault PROVE TInv'
<1>1. ~ExecuteFaults /\ ~DecodePanics /\ ~DecodeFaults
  BY DEF TickFetchFault, Fetching
<1>2. regs' \in [Regs -> Word] /\ cc' \in Flags /\ halted' \in BOOLEAN
      /\ completed' \in 0 .. CounterSize - 1
  BY WritebackNext DEF TickFetchFault, TInv
<1>3. ex_wb' \in ExWb /\ mem' \in [Word -> Word] /\ mapped' \subseteq Page
  BY <1>1, ExecuteTyped DEF TickFetchFault, Execute
<1>4. id_ex' \in IdEx /\ FnKnown' /\ FetchPc \in Word
  BY <1>1, DecodeTyped DEF TickFetchFault, Decode, FnKnown
<1>5. halt_pending' \in BOOLEAN
  BY HaltSeenTyped DEF TickFetchFault, Decode, TInv
<1>6. if_id' \in IfId /\ pc' \in Word /\ fault' \in [kind : FaultKinds, pc : Word]
  BY <1>4, NothingTyped DEF TickFetchFault, FaultKinds
<1> QED
  BY <1>2, <1>3, <1>4, <1>5, <1>6 DEF TInv, TypeOK, TickFetchFault

LEMMA NextTyped == TInv /\ [Next]_vars => TInv'
<1> SUFFICES ASSUME TInv, [Next]_vars PROVE TInv'
  OBVIOUS
<1>1. CASE Tick
  BY <1>1, TickTyped
<1>2. CASE TickExecuteFault
  BY <1>2, TickExecuteFaultTyped
<1>3. CASE TickDecodeFault
  BY <1>3, DecodeStopsTyped DEF TickDecodeFault
<1>4. CASE TickDecodePanic
  BY <1>4, DecodeStopsTyped DEF TickDecodePanic
<1>5. CASE TickFetchFault
  BY <1>5, TickFetchFaultTyped
<1>6. CASE UNCHANGED vars
  BY <1>6, Zenon DEF vars, TInv, TypeOK, FnKnown
<1> QED
  BY <1>1, <1>2, <1>3, <1>4, <1>5, <1>6 DEF Next

LEMMA Typed == Spec => []TInv
  BY InitTyped, NextTyped, PTL DEF Spec

(* Whatever frames memory holds, decoding and executing them keeps every   *)
(* latch, register and counter of the pipeline in its range: Execute never *)
(* runs an operation Decode left half-made.                                *)
THEOREM TypeCorrect == Spec => []TypeOK
<1>1. TInv => TypeOK
  BY DEF TInv
<1> QED
  BY <1>1, Typed, PTL
-----------------------------------------------------------------------------
(* Halt.  NothingBehindHalt is not inductive: that nothing is left when    *)
(* the halt commits has to be known while it is still in ID/EX and EX/WB.  *)
HaltInIdEx == id_ex.valid /\ id_ex.op.kind = "halt"

HInv ==
    /\ halt_pending => ~if_id.valid
    /\ HaltInIdEx => halt_pending
    /\ Committing("halt") => halt_pending /\ ~id_ex.valid
    /\ halted => halt_pending /\ ~id_ex.valid /\ ~ex_wb.valid

(* The empty latches. *)
LEMMA Empty == ~NoFrame.valid /\ ~NoOp.valid /\ ~NoCommit.valid
  BY DEF NoFrame, NoOp, NoCommit

(* Only a halt turns into a halt on its way down the pipe. *)
LEMMA HaltDecoded == ASSUME DecodeOp.kind = "halt" PROVE head.op = "halt"
<1>1. CASE head.op \in {"mov", "not"}
  BY <1>1 DEF DecodeOp, NopOp, IsBranch
<1>2. CASE head.op = "cmp"
  BY <1>2 DEF DecodeOp, NopOp, IsBranch
<1>3. CASE head.op = "alu"
  BY <1>3 DEF DecodeOp, NopOp, IsBranch
<1>4. CASE head.op \in {"branch", "jmp"}
  BY <1>4 DEF DecodeOp, NopOp, IsBranch
<1>5. CASE head.op \in {"ld", "st", "trap"}
  BY <1>5 DEF DecodeOp, NopOp, IsBranch
<1>6. CASE head.op \notin {"mov", "not", "cmp", "alu", "branch", "jmp", "ld", "st", "trap"}
  BY <1>6 DEF DecodeOp, NopOp, IsBranch
<1> QED
  BY <1>1, <1>2, <1>3, <1>4, <1>5, <1>6

LEMMA HaltRun == ASSUME NEW op, Run(op).kind = "halt" PROVE op.kind = "halt"
<1>1. CommitNothing.kind = "nothing" /\ \A rd, v : RegCommit(rd, v).kind = "reg"
  BY DEF RegCommit, CommitNothing
<1>2. \A f : [CommitNothing EXCEPT !.kind = "flags", !.flags = f].kind = "flags"
  BY DEF CommitNothing
<1> QED
  BY <1>1, <1>2 DEF Run

LEMMA HaltLatched ==
    ASSUME ExLatch.valid, ExLatch.commit.kind = "halt" PROVE HaltInIdEx
  BY Empty, HaltRun DEF ExLatch, HaltInIdEx

LEMMA HaltIdLatch ==
    ASSUME IdLatch.valid PROVE if_id.valid /\ (IdLatch.op.kind = "halt" => head.op = "halt")
  BY Empty, HaltDecoded DEF IdLatch

(* Nothing in IF/ID or ID/EX when a halt commits, and Execute leaves       *)
(* nothing either.                                                         *)
LEMMA HaltCommitting ==
    ASSUME HInv, Committing("halt")
    PROVE  ~if_id.valid /\ ~id_ex.valid /\ halt_pending /\ ~ExLatch.valid /\ ~IdLatch.valid
  BY Empty DEF HInv, ExLatch, IdLatch

LEMMA TickHalt == ASSUME HInv, Tick PROVE HInv'
<1>1. ~halted /\ id_ex' = IdLatch /\ ex_wb' = ExLatch /\ halt_pending' = HaltSeen
  BY DEF Tick, Running, Decode, Execute
<1>2. halted' = Committing("halt")
  BY <1>1, Zenon DEF Tick, Writeback, Committing
<1>3. HaltSeen => ~if_id'.valid
  BY Empty DEF Tick, Fetch
<1>4. HaltInIdEx' => HaltSeen
  BY <1>1, HaltIdLatch DEF HaltInIdEx, HaltSeen
<1>5. Committing("halt")' => HaltSeen /\ ~id_ex'.valid
  <2> SUFFICES ASSUME ExLatch.valid, ExLatch.commit.kind = "halt"
               PROVE  HaltSeen /\ ~IdLatch.valid
    BY <1>1 DEF Committing
  <2>1. halt_pending /\ ~if_id.valid
    BY HaltLatched DEF HInv
  <2> QED
    BY <2>1, HaltIdLatch DEF HaltSeen
<1>6. Committing("halt") => HaltSeen /\ ~id_ex'.valid /\ ~ex_wb'.valid
  BY <1>1, HaltCommitting DEF HaltSeen
<1> QED
  BY <1>1, <1>2, <1>3, <1>4, <1>5, <1>6, Zenon DEF HInv

LEMMA TickExecuteFaultHalt == ASSUME HInv, TickExecuteFault PROVE HInv'
<1>1. ~halted /\ id_ex.valid
  BY DEF TickExecuteFault, Running, ExecuteFaults
<1>2. ~Committing("halt")
  BY <1>1 DEF HInv
<1>3. ~halted'
  BY <1>1, <1>2, Zenon DEF TickExecuteFault, Writeback
<1>4. ~HaltInIdEx' /\ ~Committing("halt")'
  BY Empty DEF TickExecuteFault, HaltInIdEx, Committing
<1>5. halt_pending' = halt_pending /\ if_id' = if_id
  BY DEF TickExecuteFault
<1> QED
  BY <1>3, <1>4, <1>5, Zenon DEF HInv

(* A frame in IF/ID means no halt anywhere. *)
LEMMA DecodeStopsHalt ==
    ASSUME HInv, ~halted, if_id.valid, NEW kind, DecodeStops(kind) PROVE HInv'
<1>1. ~halt_pending
  BY Zenon DEF HInv
<1>2. ~HaltInIdEx /\ ~Committing("halt")
  BY <1>1, Zenon DEF HInv
<1>3. ~halted'
  BY <1>2, Zenon DEF DecodeStops, Writeback
<1>4. ~HaltInIdEx' /\ ~if_id'.valid /\ ~halt_pending'
  BY <1>1, Empty DEF DecodeStops, HaltInIdEx
<1>5. ~Committing("halt")'
  <2>1. ex_wb' = ExLatch
    BY DEF DecodeStops, Execute
  <2> QED
    BY <1>2, <2>1, HaltLatched DEF Committing
<1> QED
  BY <1>3, <1>4, <1>5, Zenon DEF HInv

LEMMA TickFetchFaultHalt == ASSUME HInv, TickFetchFault PROVE HInv'
<1>1. ~halted /\ id_ex' = IdLatch /\ ex_wb' = ExLatch /\ ~HaltSeen /\ halt_pending' = HaltSeen
  BY DEF TickFetchFault, Running, Decode, Execute, FetchFaults
<1>2. ~halt_pending
  BY <1>1, Zenon DEF HaltSeen
<1>3. ~HaltInIdEx /\ ~Committing("halt")
  BY <1>2, Zenon DEF HInv
<1>4. ~halted'
  BY <1>1, <1>3, Zenon DEF TickFetchFault, Writeback
<1>5. ~Committing("halt")'
  BY <1>1, <1>3, HaltLatched DEF Committing
<1>6. ~HaltInIdEx'
  BY <1>1, HaltIdLatch DEF HaltInIdEx, HaltSeen
<1> QED
  BY <1>1, <1>4, <1>5, <1>6, Zenon DEF HInv

LEMMA NextHalt == HInv /\ [Next]_vars => HInv'
<1> SUFFICES ASSUME HInv, [Next]_vars PROVE HInv'
  OBVIOUS
<1>1. CASE Tick
  BY <1>1, TickHalt
<1>2. CASE TickExecuteFault
  BY <1>2, TickExecuteFaultHalt
<1>3. CASE TickDecodeFault
  BY <1>3, DecodeStopsHalt DEF TickDecodeFault, Running, DecodeFaults
<1>4. CASE TickDecodePanic
  BY <1>4, DecodeStopsHalt DEF TickDecodePanic, Running, DecodePanics
<1>5. CASE TickFetchFault
  BY <1>5, TickFetchFaultHalt
<1>6. CASE UNCHANGED vars
  BY <1>6, Zenon DEF vars, HInv, HaltInIdEx, Committing
<1> QED
  BY <1>1, <1>2, <1>3, <1>4, <1>5, <1>6 DEF Next

LEMMA InitHalt == Init => HInv
  BY Empty DEF Init, HInv, HaltInIdEx, Committing

(* Nothing enters the pipe behind a halt, and everything ahead of it has   *)
(* landed when the machine stops, whatever faults the driver ran through.  *)
THEOREM NothingBehindHaltAlways == Spec => []NothingBehindHalt
<1>1. HInv => NothingBehindHalt
  BY Zenon DEF HInv, NothingBehindHalt
<1> QED
  BY <1>1, InitHalt, NextHalt, PTL DEF Spec
-----------------------------------------------------------------------------
(* From here on the driver stops at the first fault, as vea conform and    *)
(* the tests do.                                                           *)
LEMMA RunningClean ==
    ASSUME Resume = FALSE, Running PROVE ~halted /\ fault.kind = "none"
  BY DEF Running

LEMMA ValidTyped ==
    ASSUME TypeOK
    PROVE  /\ if_id.valid \in BOOLEAN /\ id_ex.valid \in BOOLEAN /\ ex_wb.valid \in BOOLEAN
           /\ completed \in Nat /\ cycles \in Nat
<1>1. if_id.valid \in BOOLEAN /\ id_ex.valid \in BOOLEAN /\ ex_wb.valid \in BOOLEAN
  BY Zenon DEF TypeOK, IfId, IdEx, ExWb
<1> QED
  BY <1>1, CounterAssumption DEF TypeOK
-----------------------------------------------------------------------------
(* One instruction per cycle.  Behind a halt nothing is fetched: the cycle *)
(* in which it is decoded, the one in which it executes and the one in     *)
(* which it commits each leave one slot of the pipe empty, so the count    *)
(* needs to know how far the halt has come.                                *)
Draining ==
    IF ~halt_pending THEN 0
    ELSE IF HaltInIdEx THEN 1 ELSE IF Committing("halt") THEN 2 ELSE 3

CInv ==
    fault.kind = "none" =>
        /\ halt_pending => HaltInIdEx \/ Committing("halt") \/ halted
        /\ cycles = (completed + InFlight + Draining) % CounterSize

(* The occupancy of each latch, and whether this cycle fetches. *)
InIfId == IF if_id.valid THEN 1 ELSE 0
InIdEx == IF id_ex.valid THEN 1 ELSE 0
InExWb == IF ex_wb.valid THEN 1 ELSE 0
Fetched == IF HaltSeen THEN 0 ELSE 1

LEMMA TickOccupancy ==
    ASSUME TInv, HInv, CInv, fault.kind = "none", ~halted, Tick
    PROVE  /\ InExWb + (InFlight' + Draining') = (InFlight + Draining) + 1
           /\ halt_pending' => HaltInIdEx' \/ Committing("halt")' \/ halted'
<1>1. /\ id_ex' = IdLatch /\ ex_wb' = ExLatch /\ halt_pending' = HaltSeen
      /\ ~ExecuteFaults /\ ~DecodePanics /\ ~DecodeFaults
  BY DEF Tick, Decode, Execute, Fetching
<1>2. InFlight = InIfId + InIdEx + InExWb
  BY DEF InFlight, InIfId, InIdEx, InExWb
<1>3. InFlight' = Fetched + InIfId + InIdEx
  <2>1. if_id.valid \in BOOLEAN /\ id_ex.valid \in BOOLEAN
    BY ValidTyped DEF TInv
  <2>2. (IF ex_wb'.valid THEN 1 ELSE 0) = InIdEx
    BY <1>1, <2>1, Empty DEF ExLatch, InIdEx
  <2>3. (IF id_ex'.valid THEN 1 ELSE 0) = InIfId
    BY <1>1, <2>1, Empty DEF IdLatch, InIfId
  <2>4. (IF if_id'.valid THEN 1 ELSE 0) = Fetched
    BY Empty DEF Tick, Fetch, Fetched
  <2> QED
    BY <2>2, <2>3, <2>4 DEF InFlight, InIfId, InIdEx, Fetched
<1>4. InIfId \in 0 .. 1 /\ InIdEx \in 0 .. 1 /\ InExWb \in 0 .. 1
  BY DEF InIfId, InIdEx, InExWb
<1>5. CASE ~HaltSeen
  <2>1. ~halt_pending /\ ~halt_pending'
    BY <1>1, <1>5 DEF HaltSeen
  <2>2. Draining' = 0 /\ Draining = 0 /\ Fetched = 1
    BY <1>5, <2>1 DEF Draining, Fetched
  <2> QED
    BY <1>2, <1>3, <1>4, <2>1, <2>2
<1>6. CASE HaltSeen
  <2>1. Fetched = 0 /\ halt_pending'
    BY <1>1, <1>6 DEF Fetched
  <2>2. CASE ~halt_pending
    <3>1. if_id.valid /\ head.op = "halt" /\ Draining = 0
      BY <1>6, <2>2, Zenon DEF HaltSeen, Draining
    <3>2. HaltInIdEx'
      <4>1. DecodeOp.kind = "halt"
        BY <3>1 DEF DecodeOp, IsBranch, NopOp
      <4> QED
        BY <1>1, <3>1, <4>1 DEF HaltInIdEx, IdLatch
    <3>3. Draining' = 1
      BY <2>1, <3>2, Zenon DEF Draining
    <3> QED
      BY <1>2, <1>3, <1>4, <2>1, <3>1, <3>2, <3>3
  <2>3. CASE halt_pending /\ HaltInIdEx
    <3>1. ~if_id.valid /\ Draining = 1
      BY <2>3, Zenon DEF HInv, Draining
    <3>2. ~HaltInIdEx'
      BY <1>1, <3>1, Empty DEF HaltInIdEx, IdLatch
    <3>3. Committing("halt")'
      <4>1. Run(id_ex.op).kind = "halt"
        BY <2>3 DEF HaltInIdEx, Run, CommitNothing
      <4>2. ex_wb' = [valid |-> TRUE, commit |-> Run(id_ex.op)]
        BY <1>1, <2>3 DEF ExLatch, HaltInIdEx
      <4> QED
        BY <4>1, <4>2 DEF Committing
    <3>4. Draining' = 2
      BY <2>1, <3>2, <3>3, Zenon DEF Draining
    <3> QED
      BY <1>2, <1>3, <1>4, <2>1, <3>1, <3>3, <3>4
  <2>4. CASE halt_pending /\ ~HaltInIdEx
    <3>1. Committing("halt")
      BY <2>4, Zenon DEF CInv
    <3>2. Draining = 2 /\ halted'
      BY <2>4, <3>1, Zenon DEF Draining, Tick, Writeback
    <3>3. ~HaltInIdEx' /\ ~Committing("halt")'
      BY <1>1, <3>1, HaltCommitting DEF HaltInIdEx, Committing
    <3>4. Draining' = 3
      BY <2>1, <3>3, Zenon DEF Draining
    <3> QED
      BY <1>2, <1>3, <1>4, <2>1, <3>2, <3>4
  <2> QED
    BY <2>2, <2>3, <2>4
<1> QED
  BY <1>5, <1>6

(* The counters wrap at CounterSize. *)
LEMMA CounterSum ==
    ASSUME NEW a \in Int, NEW b \in Int
    PROVE  ((a % CounterSize) + b) % CounterSize = (a + b) % CounterSize
  BY ModAdd, CounterAssumption, Zenon

LEMMA TickCounts ==
    ASSUME TInv, HInv, CInv, fault.kind = "none", ~halted, Tick PROVE CInv'
<1> DEFINE x == InFlight + Draining
           y == InFlight' + Draining'
<1>1. InExWb \in Int /\ x \in Int /\ y \in Int
  BY DEF InExWb, InFlight, Draining
<1>2. InExWb + y = x + 1
  BY TickOccupancy
<1>3. completed \in Int /\ completed' \in Int
  BY CounterNext, CounterAssumption DEF TInv, TypeOK, Tick, Writeback, WbCompleted
<1>4. completed' = (completed + InExWb) % CounterSize
  <2>1. completed % CounterSize = completed
    BY CounterAssumption DEF TInv, TypeOK
  <2> QED
    BY <1>3, <2>1 DEF Tick, Writeback, WbCompleted, InExWb
<1>5. cycles = (completed + x) % CounterSize
  <2>1. completed + InFlight + Draining = completed + x
    BY <1>3 DEF InFlight, Draining
  <2> QED
    BY <2>1 DEF CInv
<1>6. completed' + InFlight' + Draining' = completed' + y
  BY <1>3 DEF InFlight, Draining
<1> HIDE DEF x, y
<1>7. cycles' = (completed + x + 1) % CounterSize
  <2>1. completed + x \in Int /\ 1 \in Int
    BY <1>1, <1>3
  <2> QED
    BY <1>5, <2>1, CounterSum, Zenon DEF Tick
<1>8. (completed' + y) % CounterSize = (completed + x + 1) % CounterSize
  <2>1. completed + InExWb \in Int
    BY <1>1, <1>3
  <2>2. (completed' + y) % CounterSize = (completed + InExWb + y) % CounterSize
    BY <1>1, <1>4, <2>1, CounterSum, Zenon
  <2>3. completed + InExWb + y = completed + x + 1
    BY <1>1, <1>2, <1>3
  <2> QED
    BY <2>2, <2>3
<1> QED
  BY <1>6, <1>7, <1>8, TickOccupancy, Zenon DEF CInv

LEMMA FaultKept ==
    ASSUME TickExecuteFault \/ TickDecodeFault \/ TickDecodePanic \/ TickFetchFault
    PROVE  fault'.kind # "none"
  BY DEF TickExecuteFault, TickDecodeFault, TickDecodePanic, TickFetchFault, DecodeStops

(* A pipeline that never faults spends one cycle per instruction and three *)
(* more to fill and drain.  A tick that faults is not counted, so with a   *)
(* driver that ticks on after one the equation would not survive it.       *)
THEOREM OnePerCycleAlways == ASSUME Resume = FALSE PROVE Spec => []OnePerCycle
<1>1. Init => CInv
  <2> SUFFICES ASSUME Init PROVE CInv
    OBVIOUS
  <2>1. InFlight = 0 /\ Draining = 0 /\ ~halt_pending
    BY Empty DEF Init, InFlight, Draining
  <2>2. 0 % CounterSize = 0
    BY CounterAssumption
  <2> QED
    BY <2>1, <2>2 DEF Init, CInv
<1>2. TInv /\ HInv /\ CInv /\ [Next]_vars => CInv'
  <2> SUFFICES ASSUME TInv, HInv, CInv, [Next]_vars PROVE CInv'
    OBVIOUS
  <2>1. CASE Tick
    BY <2>1, RunningClean, TickCounts DEF Tick
  <2>2. CASE UNCHANGED vars
    BY <2>2 DEF vars, CInv, HaltInIdEx, Committing, Draining, InFlight
  <2>3. CASE TickExecuteFault \/ TickDecodeFault \/ TickDecodePanic \/ TickFetchFault
    BY <2>3, FaultKept DEF CInv
  <2> QED
    BY <2>1, <2>2, <2>3 DEF Next
<1>3. TInv /\ HInv /\ CInv => OnePerCycle
  <2> SUFFICES ASSUME TInv, HInv, CInv, fault.kind = "none"
               PROVE  /\ ~halt_pending => cycles = (completed + InFlight) % CounterSize
                      /\ halted => cycles = (completed + 3) % CounterSize
    BY DEF OnePerCycle
  <2>1. completed \in Nat /\ InFlight \in Nat
    BY ValidTyped DEF TInv, InFlight
  <2>2. CASE ~halt_pending
    <3>1. Draining = 0 /\ ~halted
      BY <2>2, Zenon DEF Draining, HInv
    <3>2. completed + InFlight + Draining = completed + InFlight
      BY <2>1, <3>1
    <3> QED
      BY <3>1, <3>2 DEF CInv
  <2>3. CASE halted
    <3>1. halt_pending /\ ~id_ex.valid /\ ~ex_wb.valid /\ ~if_id.valid
      BY <2>3, Zenon DEF HInv
    <3>2. Draining = 3
      BY <3>1 DEF Draining, HaltInIdEx, Committing
    <3>3. InFlight = 0
      BY <3>1 DEF InFlight
    <3>4. completed + InFlight + Draining = completed + 3
      BY <2>1, <3>2, <3>3
    <3> QED
      BY <3>1, <3>4 DEF CInv
  <2> QED
    BY <2>2, <2>3
<1>4. Init => HInv
  BY InitHalt
<1> QED
  BY <1>1, <1>2, <1>3, <1>4, Typed, NextHalt, PTL DEF Spec
-----------------------------------------------------------------------------
(* The latches against the architecture.  What is fetched is what memory   *)
(* holds, and lies on mapped pages; what is decoded is an instruction that *)
(* onestep accepts up to its execution.                                    *)
FetchedCurrent ==
    fault.kind = "none" /\ if_id.valid =>
        /\ PageOf(if_id.pc) \in mapped
        /\ AssembledHead(head)
        /\ \A k \in 0 .. head.len - 1 : if_id.bytes[k] = mem[Wrap(if_id.pc + k)]
        /\ pc = AlignUp(if_id.pc + head.len)

DecodedLegal ==
    id_ex.valid =>
        /\ PageOf(id_ex.pc) \in mapped
        /\ AssembledHead(ArchHead)
        /\ ArchHead.op # "illegal"
        /\ Checked(ArchHead) \cup Trailing(ArchHead) \subseteq Regs
        /\ ArchHead.op = "branch" => ArchHead.fn \in Predicates
        /\ OS!Taken => Aligned(OS!Target)

(* Only a fault of Fetch leaves an instruction in ID/EX, and it is the     *)
(* successor of that instruction that could not be fetched.                *)
FetchBlocked ==
    fault.kind # "none" /\ id_ex.valid =>
        /\ fault.kind = "fetch" /\ ~halt_pending
        /\ fault.pc = OnestepNextPc /\ PageOf(fault.pc) \notin mapped

RInv ==
    TInv /\ HInv /\ FetchedCurrent /\ DecodedLegal
    /\ OperandsCurrent /\ PathCurrent /\ FaultIsOnesteps /\ FetchBlocked

(* Onestep's copy of the instruction set is the pipeline's, and what it    *)
(* reads through the refinement mapping, spelled out.                      *)
LEMMA SameIsa ==
    /\ OS!Regs = Regs /\ OS!Word = Word /\ OS!Predicates = Predicates
    /\ \A x : OS!Wrap(x) = Wrap(x) /\ OS!Aligned(x) = Aligned(x) /\ OS!AlignUp(x) = AlignUp(x)
              /\ OS!PageOf(x) = PageOf(x) /\ OS!Complement(x) = Complement(x)
    /\ \A m, a : OS!FrameAt(m, a) = FrameAt(m, a)
    /\ \A f : OS!HeadOf(f) = HeadOf(f)
    /\ \A h : OS!ImmLen(h) = ImmLen(h) /\ OS!HasImm(h) = HasImm(h) /\ OS!IsBranch(h) = IsBranch(h)
              /\ OS!Checked(h) = Checked(h) /\ OS!Trailing(h) = Trailing(h)
    /\ \A p, f : OS!Predicate(p, f) = Predicate(p, f)
    /\ \A a, b, s : OS!Compare(a, b, s) = Compare(a, b, s)
    /\ OS!HeadBytes = HeadBytes /\ OS!MaxImm = MaxImm /\ OS!Undefined = Undefined
<1>1. OS!Regs = Regs /\ OS!Word = Word /\ OS!Predicates = Predicates
  BY DEF OS!Regs, Regs, OS!Word, Word, OS!Predicates, Predicates
<1>2. \A x : OS!Wrap(x) = Wrap(x)
  BY DEF OS!Wrap, Wrap
<1>3. \A x : OS!Aligned(x) = Aligned(x) /\ OS!AlignUp(x) = AlignUp(x)
              /\ OS!PageOf(x) = PageOf(x) /\ OS!Complement(x) = Complement(x)
  BY <1>2 DEF OS!Aligned, Aligned, OS!AlignUp, AlignUp, OS!PageOf, PageOf, OS!Complement, Complement
<1>4. \A m, a : OS!FrameAt(m, a) = FrameAt(m, a)
  BY <1>2 DEF OS!FrameAt, FrameAt
<1>5. \A f : OS!HeadOf(f) = HeadOf(f)
  BY DEF OS!HeadOf, HeadOf
<1>6. OS!HeadBytes = HeadBytes /\ OS!MaxImm = MaxImm /\ OS!Undefined = Undefined
  BY DEF OS!HeadBytes, HeadBytes, OS!MaxImm, MaxImm, OS!Undefined, Undefined
<1>7. \A h : OS!ImmLen(h) = ImmLen(h) /\ OS!HasImm(h) = HasImm(h) /\ OS!IsBranch(h) = IsBranch(h)
  BY DEF OS!ImmLen, ImmLen, OS!HasImm, HasImm, OS!IsBranch, IsBranch, OS!HasOperand, HasOperand, OS!HeadBytes, HeadBytes
<1>8. \A h : OS!Checked(h) = Checked(h) /\ OS!Trailing(h) = Trailing(h)
  BY DEF OS!Checked, Checked, OS!Trailing, Trailing, OS!IsBranch, IsBranch, OS!HasOperand, HasOperand
<1>9. \A p, f : OS!Predicate(p, f) = Predicate(p, f)
  BY DEF OS!Predicate, Predicate
<1>10. \A a, b, s : OS!Compare(a, b, s) = Compare(a, b, s)
  BY DEF OS!Compare, Compare, OS!Signed, Signed, OS!Wrap, Wrap
<1> QED
  BY <1>1, <1>2, <1>3, <1>4, <1>5, <1>6, <1>7, <1>8, <1>9, <1>10

ArchFaults ==
    \/ PageOf(ArchPc) \notin mapped
    \/ OS!head.op \in {"illegal", "trap"}
    \/ ~(Checked(OS!head) \cup Trailing(OS!head) \subseteq Regs)
    \/ HasImm(OS!head) /\ ImmLen(OS!head) > MaxImm
    \/ OS!head.op = "branch" /\ OS!head.fn \notin Predicates
    \/ OS!Taken /\ ~Aligned(OS!Target)
    \/ OS!head.op = "alu" /\ Alu[<<OS!head.fn, WbRegs[OS!head.rs], OS!Source>>] = Undefined

OnestepReads ==
    /\ OS!head = HeadOf(FrameAt(mem, ArchPc))
    /\ OS!Imm = IF ImmLen(OS!head) = 0 THEN 0 ELSE FrameAt(mem, ArchPc)[1]
    /\ OS!Source = IF OS!head.imm THEN OS!Imm ELSE WbRegs[OS!head.src]
    /\ OS!EffAddr = Wrap(WbRegs[OS!head.rs] + OS!Source)
    /\ OS!Target = IF ~OS!head.imm THEN WbRegs[OS!head.rd]
                   ELSE IF OS!head.op = "jmp" THEN OS!Imm ELSE Wrap(ArchPc + OS!Imm)
    /\ OS!Taken = (OS!head.op = "jmp"
                    \/ (OS!head.op = "branch" /\ Predicate(OS!head.fn, WbCc)))
    /\ OS!Consumed = HeadBytes + (IF HasImm(OS!head) THEN ImmLen(OS!head) ELSE 0)
    /\ OS!Faults = ArchFaults

LEMMA View == OnestepReads
<1>1. OS!head = HeadOf(FrameAt(mem, ArchPc))
  BY SameIsa DEF OS!head, OS!frame
<1>2. OS!Imm = IF ImmLen(OS!head) = 0 THEN 0 ELSE FrameAt(mem, ArchPc)[1]
  BY SameIsa DEF OS!Imm, OS!frame
<1>3. /\ OS!Source = IF OS!head.imm THEN OS!Imm ELSE WbRegs[OS!head.src]
      /\ OS!EffAddr = Wrap(WbRegs[OS!head.rs] + OS!Source)
  BY SameIsa DEF OS!Source, OS!EffAddr
<1>4. OS!Target = IF ~OS!head.imm THEN WbRegs[OS!head.rd]
                   ELSE IF OS!head.op = "jmp" THEN OS!Imm ELSE Wrap(ArchPc + OS!Imm)
  BY SameIsa DEF OS!Target
<1>5. OS!Taken = (OS!head.op = "jmp"
                    \/ (OS!head.op = "branch" /\ Predicate(OS!head.fn, WbCc)))
  BY SameIsa DEF OS!Taken
<1>6. OS!Consumed = HeadBytes + (IF HasImm(OS!head) THEN ImmLen(OS!head) ELSE 0)
  BY SameIsa DEF OS!Consumed
<1>7. OS!Faults = ArchFaults
  BY SameIsa DEF OS!Faults, ArchFaults
<1> QED
  BY <1>1, <1>2, <1>3, <1>4, <1>5, <1>6, <1>7 DEF OnestepReads

LEMMA ViewNext == OnestepReads'
  BY View, PTL

(* An assembled frame is a head and at most one byte behind it. *)
LEMMA Assembled ==
    ASSUME NEW h \in Head, AssembledHead(h)
    PROVE  /\ h.len \in {1, 2} /\ ImmLen(h) = h.len - 1 /\ ImmLen(h) \in {0, 1}
           /\ HeadBytes + (IF HasImm(h) THEN ImmLen(h) ELSE 0) = h.len
           /\ ~(HasImm(h) /\ ImmLen(h) > MaxImm)
<1>1. h.len \in Nat
  BY DEF Head
<1> QED
  BY <1>1 DEF AssembledHead, ImmLen, HeadBytes, MaxImm

LEMMA WrapId == ASSUME NEW a \in Word PROVE Wrap(a) = a /\ Wrap(a + 0) = a
  BY WordSizeAssumption DEF Wrap, Word

LEMMA FrameByte ==
    ASSUME NEW m, NEW a \in Word
    PROVE  /\ FrameAt(m, a)[0] = m[a] /\ FrameAt(m, a)[1] = m[Wrap(a + 1)]
           /\ HeadOf(FrameAt(m, a)) = Insn[m[a]]
<1>1. 0 \in 0 .. MaxBytes - 1 /\ 1 \in 0 .. MaxBytes - 1
  BY SizesAssumption
<1>2. FrameAt(m, a)[0] = m[Wrap(a + 0)] /\ FrameAt(m, a)[1] = m[Wrap(a + 1)]
  BY <1>1 DEF FrameAt
<1> QED
  BY <1>2, WrapId DEF HeadOf

(* What Writeback and Execute leave pending is what Decode reads.          *)
LEMMA PendingRead ==
    ASSUME TInv, ~ExecuteFaults, regs' = WbRegs, cc' = WbCc, ex_wb' = ExLatch
    PROVE  /\ \A r \in Regs : WbRegs'[r] = RegValue(r)
           /\ WbCc' = CcBits
<1>1. WbRegs \in [Regs -> Word] /\ ExLatch \in ExWb
  BY WritebackTyped, ExecuteTyped DEF TInv
<1>2. ASSUME NEW r \in Regs PROVE WbRegs'[r] = RegValue(r)
  <2>1. CASE ExLatch.valid /\ ExLatch.commit.kind = "reg"
    <3>1. WbRegs' = [WbRegs EXCEPT ![ExLatch.commit.rd] = ExLatch.commit.value]
      BY <2>1 DEF WbRegs, Committing
    <3> QED
      BY <1>1, <2>1, <3>1 DEF RegValue
  <2>2. CASE ~(ExLatch.valid /\ ExLatch.commit.kind = "reg")
    <3>1. WbRegs' = WbRegs
      BY <2>2 DEF WbRegs, Committing
    <3> QED
      BY <2>2, <3>1 DEF RegValue
  <2> QED
    BY <2>1, <2>2
<1>3. WbCc' = CcBits
  BY DEF WbCc, CcBits, Committing
<1> QED
  BY <1>2, <1>3

(* The store in Execute misses the frame in IF/ID, so memory still holds   *)
(* that frame after it.                                                    *)
LEMMA FrameSurvives ==
    ASSUME TInv, FetchedCurrent, fault.kind = "none", if_id.valid, ~StoreHitsFetched
    PROVE  /\ ExMem[if_id.pc] = if_id.bytes[0]
           /\ ImmLen(head) = 1 => ExMem[Wrap(if_id.pc + 1)] = if_id.bytes[1]
<1>1. /\ mem \in [Word -> Word] /\ if_id.pc \in Word /\ if_id.bytes \in Frame
      /\ id_ex.op.a \in Word /\ id_ex.op.b \in Word
  BY DEF TInv, TypeOK, IfId, IdEx, DecodedOp
<1>2. head \in Head /\ AssembledHead(head)
  BY <1>1, HeadTyped DEF FetchedCurrent, head
<1>3. ASSUME NEW k \in 0 .. head.len - 1
      PROVE  ExMem[Wrap(if_id.pc + k)] = if_id.bytes[k]
  <2>1. Wrap(if_id.pc + k) \in Word
    <3>1. k \in Int
      OBVIOUS
    <3>2. if_id.pc \in Int
      <4>1. if_id.pc \in Word
        BY <1>1
      <4> QED
        BY <4>1, WordSizeAssumption DEF Word
    <3>3. if_id.pc + k \in Int
      BY <3>1, <3>2
    <3> QED
      BY <3>3, WrapWord
  <2>2. if_id.bytes[k] = mem[Wrap(if_id.pc + k)]
    BY DEF FetchedCurrent
  <2>3. Storing => Wrap(if_id.pc + k) # id_ex.op.a
    BY DEF StoreHitsFetched, head
  <2> QED
    BY <1>1, <2>1, <2>2, <2>3 DEF ExMem
<1>4. 0 \in 0 .. head.len - 1 /\ (ImmLen(head) = 1 => 1 \in 0 .. head.len - 1)
  BY <1>2, Assembled
<1> QED
  BY <1>1, <1>3, <1>4, WrapId

(* Onestep at the instruction in IF/ID, once the one ahead of it has       *)
(* executed, sees what Decode sees.                                        *)
LEMMA DecodeView ==
    ASSUME TInv, FetchedCurrent, fault.kind = "none", if_id.valid,
           ~ExecuteFaults, ~StoreHitsFetched, Writeback, Execute, ArchPc' = if_id.pc
    PROVE  /\ head \in Head /\ AssembledHead(head)
           /\ HeadOf(FrameAt(mem', if_id.pc)) = head
           /\ OS!head' = head /\ OS!Imm' = ImmAt /\ OS!Taken' = Taken
           /\ OS!Consumed' = head.len
           /\ ImmLen(head) # 0 => mem'[Wrap(if_id.pc + ImmLen(head))] = ImmAt
           /\ \A r \in Regs : WbRegs'[r] = RegValue(r)
           /\ IsBranch(head) /\ Checked(head) \subseteq Regs => OS!Target' = BranchTarget
<1>1. if_id.pc \in Word /\ if_id.bytes \in Frame /\ mem' = ExMem
  BY DEF TInv, TypeOK, IfId, Execute
<1>2. head \in Head /\ AssembledHead(head)
  BY <1>1, HeadTyped DEF FetchedCurrent, head
<1>3. HeadOf(FrameAt(mem', if_id.pc)) = head
  BY <1>1, FrameByte, FrameSurvives DEF head, HeadOf
<1>5. OS!head' = head
  BY <1>3, ViewNext DEF OnestepReads
<1>6. OS!Imm' = ImmAt
  <2>1. CASE ImmLen(head) = 0
    BY <1>5, <2>1, ViewNext DEF OnestepReads, ImmAt
  <2>2. CASE ImmLen(head) = 1
    <3>1. FrameAt(mem', if_id.pc)[1] = if_id.bytes[1]
      BY <1>1, <2>2, FrameByte, FrameSurvives
    <3> QED
      BY <1>5, <2>2, <3>1, ViewNext DEF OnestepReads, ImmAt
  <2> QED
    BY <1>2, <2>1, <2>2, Assembled
<1>7. (\A r \in Regs : WbRegs'[r] = RegValue(r)) /\ WbCc' = CcBits
  BY PendingRead DEF Writeback, Execute
<1>8. OS!Taken' = Taken
  BY <1>5, <1>7, ViewNext DEF OnestepReads, Taken
<1>9. OS!Consumed' = head.len
  BY <1>2, <1>5, Assembled, ViewNext DEF OnestepReads
<1>10. ASSUME IsBranch(head), Checked(head) \subseteq Regs PROVE OS!Target' = BranchTarget
  <2>1. CASE head.imm
    BY <1>5, <1>6, <2>1, ViewNext DEF OnestepReads, BranchTarget
  <2>2. CASE ~head.imm
    <3>1. head.rd \in Regs
      BY <1>10, <2>2 DEF Checked, IsBranch
    <3> QED
      BY <1>5, <1>7, <2>2, <3>1, ViewNext DEF OnestepReads, BranchTarget
  <2> QED
    BY <2>1, <2>2
<1>11. ImmLen(head) # 0 => mem'[Wrap(if_id.pc + ImmLen(head))] = ImmAt
  <2> SUFFICES ASSUME ImmLen(head) = 1
               PROVE  mem'[Wrap(if_id.pc + ImmLen(head))] = ImmAt
    BY <1>2, Assembled
  <2> QED
    BY <1>1, FrameSurvives DEF ImmAt
<1> QED
  BY <1>2, <1>3, <1>5, <1>6, <1>7, <1>8, <1>9, <1>10, <1>11
-----------------------------------------------------------------------------
(* Where the architectural PC goes: to what is fetched next, however the   *)
(* tick ends once the instruction in ID/EX has executed.                   *)
LEMMA ArchPcNext ==
    ASSUME TInv, fault.kind = "none",
           Tick \/ TickDecodeFault \/ TickDecodePanic \/ TickFetchFault
    PROVE  ArchPc' = NextFetched
<1>1. CASE Tick
  <2>1. fault'.kind = "none" /\ id_ex' = IdLatch
    BY <1>1 DEF Tick, NoFault, Decode
  <2>2. CASE if_id.valid
    <3>1. id_ex'.valid /\ id_ex'.pc = if_id.pc
      BY <2>1, <2>2 DEF IdLatch
    <3> QED
      BY <2>1, <2>2, <3>1 DEF ArchPc, NextFetched
  <2>3. CASE ~if_id.valid
    <3>1. ~id_ex'.valid
      BY <2>1, <2>3, Empty DEF IdLatch
    <3>2. FetchPc = pc
      BY <2>3 DEF FetchPc
    <3>3. if_id'.valid => if_id'.pc = pc
      BY <1>1, <3>2, Empty DEF Tick, Fetch
    <3>4. ~if_id'.valid => pc' = pc
      BY <1>1, <3>2 DEF Tick, Fetch
    <3> QED
      BY <2>1, <2>3, <3>1, <3>3, <3>4 DEF ArchPc, NextFetched
  <2> QED
    BY <2>2, <2>3
<1>2. CASE TickDecodeFault
  <2>1. if_id.valid /\ fault'.kind = "decode" /\ fault'.pc = if_id.pc
    BY <1>2 DEF TickDecodeFault, DecodeStops, DecodeFaults
  <2> QED
    BY <2>1 DEF ArchPc, NextFetched
<1>3. CASE TickDecodePanic
  <2>1. if_id.valid /\ fault'.kind = "panic" /\ fault'.pc = if_id.pc
    BY <1>3 DEF TickDecodePanic, DecodeStops, DecodePanics
  <2> QED
    BY <2>1 DEF ArchPc, NextFetched
<1>4. CASE TickFetchFault
  <2>1. fault'.kind = "fetch" /\ id_ex' = IdLatch /\ ~if_id'.valid /\ pc' = FetchPc
    BY <1>4, Empty DEF TickFetchFault, Decode
  <2>2. CASE if_id.valid
    <3>1. id_ex'.valid /\ id_ex'.pc = if_id.pc
      BY <2>1, <2>2 DEF IdLatch
    <3> QED
      BY <2>1, <2>2, <3>1 DEF ArchPc, NextFetched
  <2>3. CASE ~if_id.valid
    <3>1. ~id_ex'.valid /\ pc' = pc
      BY <2>1, <2>3, Empty DEF IdLatch, FetchPc
    <3> QED
      BY <2>1, <2>3, <3>1 DEF ArchPc, NextFetched
  <2> QED
    BY <2>2, <2>3
<1> QED
  BY <1>1, <1>2, <1>3, <1>4

(* Onestep at the instruction in ID/EX. *)
LEMMA ExecuteView ==
    ASSUME TInv, DecodedLegal, fault.kind \in {"none", "fetch"}, id_ex.valid
    PROVE  /\ ArchPc = id_ex.pc /\ ArchHead \in Head /\ AssembledHead(ArchHead)
           /\ OS!head = ArchHead /\ OS!Imm = ArchImm /\ OS!Source = ArchSource
<1>1. ArchPc = id_ex.pc /\ id_ex.pc \in Word
  BY DEF ArchPc, TInv, TypeOK, IdEx
<1>2. ArchHead \in Head /\ AssembledHead(ArchHead)
  BY <1>1, FrameTyped, HeadTyped DEF DecodedLegal, ArchHead, TInv, TypeOK
<1>3. OS!head = ArchHead
  BY <1>1, View DEF OnestepReads, ArchHead
<1>4. ImmLen(ArchHead) \in {0, 1}
  BY <1>2, Assembled
<1>5. OS!Imm = ArchImm
  BY <1>1, <1>3, <1>4, View, FrameByte DEF OnestepReads, ArchImm
<1>6. OS!Source = ArchSource
  BY <1>3, <1>5, View DEF OnestepReads, ArchSource
<1> QED
  BY <1>1, <1>2, <1>3, <1>5, <1>6

(* An instruction that Decode let through and Execute does not fault on is *)
(* one onestep runs, and the other way round.                              *)
LEMMA ExecuteFaultsAgree ==
    ASSUME TInv, DecodedLegal, OperandsCurrent, fault.kind \in {"none", "fetch"}, id_ex.valid
    PROVE  ExecuteFaults <=> OS!Faults
<1> DEFINE h == ArchHead
<1>1. /\ OS!Faults <=> \/ h.op = "trap"
                       \/ h.op = "alu" /\ Alu[<<h.fn, WbRegs[h.rs], ArchSource>>] = Undefined
  <2>1. OS!Faults = ArchFaults /\ OS!head = h /\ OS!Source = ArchSource /\ ArchPc = id_ex.pc
    BY View, ExecuteView DEF OnestepReads
  <2>2. ~(HasImm(h) /\ ImmLen(h) > MaxImm)
    BY ExecuteView, Assembled
  <2> QED
    BY <2>1, <2>2 DEF ArchFaults, DecodedLegal
<1>2. ExecuteFaults <=> RunFaults(id_ex.op)
  BY DEF ExecuteFaults
<1>3. id_ex.op.kind = (IF h.op = "jmp" THEN "branch" ELSE h.op)
  BY DEF OperandsCurrent
<1>4. CASE h.op = "alu"
  <2>1. id_ex.op.fn = h.fn /\ id_ex.op.a = WbRegs[h.rs] /\ id_ex.op.b = ArchSource
    BY <1>4 DEF OperandsCurrent
  <2> QED
    BY <1>1, <1>2, <1>3, <1>4, <2>1 DEF RunFaults
<1>5. CASE h.op # "alu"
  BY <1>1, <1>2, <1>3, <1>5 DEF RunFaults
<1> QED
  BY <1>4, <1>5

(* The counters advance together. *)
LEMMA CyclesNext ==
    ASSUME NEW n \in 0 .. CounterSize - 1
    PROVE  (4 * ((n + 1) % CounterSize)) % CounterSize
                = (((4 * n) % CounterSize) + 4) % CounterSize
<1>1. n + 1 \in Int /\ 4 * n \in Int /\ 4 \in Int /\ 4 * (n + 1) = 4 * n + 4
  BY CounterAssumption
<1>2. (4 * ((n + 1) % CounterSize)) % CounterSize = (4 * (n + 1)) % CounterSize
  BY <1>1, ModTimes, CounterAssumption, Zenon
<1>3. (((4 * n) % CounterSize) + 4) % CounterSize = (4 * n + 4) % CounterSize
  BY <1>1, CounterSum, Zenon
<1> QED
  BY <1>1, <1>2, <1>3
-----------------------------------------------------------------------------
(* The simulation: an instruction that executes is a step of onestep, an   *)
(* empty ID/EX is none, and neither is a fault.                            *)
Advances ==
    Writeback /\ Execute /\ ~ExecuteFaults /\ ArchPc' = NextFetched

LEMMA RetireNext ==
    ASSUME TInv, HInv, PathCurrent, fault.kind = "none", ~halted, id_ex.valid, Advances
    PROVE  /\ ~ArchHalted /\ OS!Retire
           /\ regs' = WbRegs /\ cc' = WbCc /\ ~halted'
           /\ ex_wb' = [valid |-> TRUE, commit |-> Run(id_ex.op)]
<1>1. ~Committing("halt")
  BY Zenon DEF HInv
<1>2. ~ArchHalted
  BY <1>1, Zenon DEF ArchHalted
<1>3. regs' = WbRegs /\ cc' = WbCc /\ completed' = WbCompleted
  BY DEF Advances, Writeback
<1>4. ~halted'
  BY <1>1, Zenon DEF Advances, Writeback
<1>5. ex_wb' = [valid |-> TRUE, commit |-> Run(id_ex.op)]
  BY DEF Advances, Execute, ExLatch
<1>6. ArchPc' = IF OS!Taken THEN OS!Target ELSE OS!AlignUp(ArchPc + OS!Consumed)
  BY SameIsa DEF Advances, PathCurrent, OnestepNextPc
<1>7. ArchCompleted' = (ArchCompleted + 1) % CounterSize
  BY <1>3, <1>5 DEF ArchCompleted, WbCompleted
<1>8. ArchCompleted \in 0 .. CounterSize - 1
  BY WritebackTyped DEF ArchCompleted, TInv
<1>9. (4 * ArchCompleted') % CounterSize = (((4 * ArchCompleted) % CounterSize) + 4) % CounterSize
  BY <1>7, <1>8, CyclesNext, Zenon
<1>10. OS!Retire
  BY <1>6, <1>7, <1>9, Zenon DEF OS!Retire, OS!CyclesPerInstr
<1> QED
  BY <1>2, <1>3, <1>4, <1>5, <1>10

(* What an instruction leaves in EX/WB is its effect on the registers, the *)
(* flags and the halt.                                                     *)
LEMMA CommitNext ==
    ASSUME regs' = WbRegs, cc' = WbCc, ~halted', NEW c, ex_wb' = [valid |-> TRUE, commit |-> c]
    PROVE  /\ c.kind = "reg" => WbRegs' = [WbRegs EXCEPT ![c.rd] = c.value]
           /\ c.kind # "reg" => WbRegs' = WbRegs
           /\ c.kind = "flags" => WbCc' = c.flags
           /\ c.kind # "flags" => WbCc' = WbCc
           /\ ArchHalted' <=> c.kind = "halt"
<1>1. ex_wb'.valid /\ ex_wb'.commit = c
  OBVIOUS
<1>2. \A k : Committing(k)' <=> c.kind = k
  BY <1>1 DEF Committing
<1>3. /\ c.kind = "reg" => WbRegs' = [WbRegs EXCEPT ![c.rd] = c.value]
      /\ c.kind # "reg" => WbRegs' = WbRegs
  BY <1>1, <1>2 DEF WbRegs
<1>4. /\ c.kind = "flags" => WbCc' = c.flags
      /\ c.kind # "flags" => WbCc' = WbCc
  BY <1>1, <1>2 DEF WbCc
<1>5. ArchHalted' <=> c.kind = "halt"
  BY <1>2, Zenon DEF ArchHalted
<1> QED
  BY <1>3, <1>4, <1>5

LEMMA Commits ==
    /\ CommitNothing.kind = "nothing"
    /\ \A rd, v : /\ RegCommit(rd, v).kind = "reg" /\ RegCommit(rd, v).rd = rd
                  /\ RegCommit(rd, v).value = v
    /\ \A f : /\ [CommitNothing EXCEPT !.kind = "flags", !.flags = f].kind = "flags"
              /\ [CommitNothing EXCEPT !.kind = "flags", !.flags = f].flags = f
    /\ [CommitNothing EXCEPT !.kind = "halt"].kind = "halt"
  BY DEF RegCommit, CommitNothing

LEMMA ExecuteSimulates ==
    ASSUME RInv, fault.kind = "none", ~halted, id_ex.valid, Advances
    PROVE  OS!Tick
<1> DEFINE h == ArchHead
           op == id_ex.op
           c == Run(op)
<1>1. /\ TInv /\ HInv /\ DecodedLegal /\ OperandsCurrent /\ PathCurrent
      /\ OS!head = h /\ OS!Source = ArchSource /\ h \in Head
  BY ExecuteView DEF RInv
<1>2. ~OS!Faults
  BY <1>1, ExecuteFaultsAgree DEF Advances
<1>3. /\ ~ArchHalted /\ OS!Retire
      /\ regs' = WbRegs /\ cc' = WbCc /\ ~halted' /\ ex_wb' = [valid |-> TRUE, commit |-> c]
  BY <1>1, RetireNext
<1>4. mem' = ExMem /\ mapped' = ExMapped
  BY DEF Advances, Execute
<1>5. op.kind = (IF h.op = "jmp" THEN "branch" ELSE h.op)
  BY <1>1 DEF OperandsCurrent
<1>6. CASE h.op \in {"nop", "branch", "jmp"}
  <2>1. c.kind = "nothing" /\ ~Storing
    BY <1>5, <1>6, Commits DEF Run, Storing
  <2>2. WbRegs' = WbRegs /\ WbCc' = WbCc /\ ~ArchHalted' /\ mem' = mem /\ mapped' = mapped
    BY <1>3, <1>4, <2>1, CommitNext DEF ExMem, ExMapped
  <2>3. ArchHalted' = ArchHalted
    BY <1>3, <2>2, Zenon DEF ArchHalted
  <2>4. OS!Nop
    BY <1>1, <1>6, <2>2, <2>3 DEF OS!Nop
  <2> QED
    BY <1>2, <1>3, <2>4 DEF OS!Tick
<1>7. CASE h.op = "halt"
  <2>1. c.kind = "halt" /\ ~Storing
    BY <1>5, <1>7, Commits DEF Run, Storing
  <2>2. WbRegs' = WbRegs /\ WbCc' = WbCc /\ ArchHalted' /\ mem' = mem /\ mapped' = mapped
    BY <1>3, <1>4, <2>1, CommitNext DEF ExMem, ExMapped
  <2>3. ArchHalted' = TRUE
    BY <2>2, Zenon DEF ArchHalted
  <2>4. OS!Halt
    BY <1>1, <1>7, <2>2, <2>3 DEF OS!Halt
  <2> QED
    BY <1>2, <1>3, <2>4 DEF OS!Tick
<1>8. CASE h.op \in {"mov", "not", "alu", "ld"}
  <2>1. c = RegCommit(h.rd, OS!Result) /\ ~Storing
    <3>1. CASE h.op = "mov"
      BY <1>1, <1>5, <3>1 DEF Run, Storing, OperandsCurrent, OS!Result
    <3>2. CASE h.op = "not"
      BY <1>1, <1>5, <3>2, SameIsa DEF Run, Storing, OperandsCurrent, OS!Result
    <3>3. CASE h.op = "alu"
      BY <1>1, <1>5, <3>3 DEF Run, Storing, OperandsCurrent, OS!Result
    <3>4. CASE h.op = "ld"
      <4>1. OS!EffAddr = Wrap(WbRegs[h.rs] + ArchSource)
        BY <1>1, View DEF OnestepReads
      <4> QED
        BY <1>1, <1>5, <3>4, <4>1 DEF Run, Storing, OperandsCurrent, OS!Result
    <3> QED
      BY <1>8, <3>1, <3>2, <3>3, <3>4
  <2>2. c.kind = "reg" /\ c.rd = h.rd /\ c.value = OS!Result
    BY <2>1, Commits
  <2>3. /\ WbRegs' = [WbRegs EXCEPT ![h.rd] = OS!Result]
        /\ WbCc' = WbCc /\ ~ArchHalted' /\ mem' = mem /\ mapped' = mapped
    BY <1>3, <1>4, <2>1, <2>2, CommitNext DEF ExMem, ExMapped
  <2>4. ArchHalted' = ArchHalted
    BY <1>3, <2>3, Zenon DEF ArchHalted
  <2>5. OS!SetReg
    BY <1>1, <1>8, <2>3, <2>4 DEF OS!SetReg
  <2> QED
    BY <1>2, <1>3, <2>5 DEF OS!Tick
<1>9. CASE h.op = "cmp"
  <2>1. op.fn = h.fn /\ op.a = WbRegs[h.rd] /\ op.b = ArchSource
    BY <1>1, <1>9 DEF OperandsCurrent
  <2>2. /\ c.kind = "flags" /\ c.flags = Compare(WbRegs[h.rd], ArchSource, h.fn)
        /\ ~Storing
    <3>1. op.kind = "cmp"
      BY <1>5, <1>9
    <3>2. c = [CommitNothing EXCEPT !.kind = "flags", !.flags = Compare(op.a, op.b, op.fn)]
      BY <3>1 DEF Run
    <3>3. c.kind = "flags" /\ c.flags = Compare(op.a, op.b, op.fn)
      BY <3>2 DEF CommitNothing
    <3> QED
      BY <2>1, <3>1, <3>3 DEF Storing
  <2>3. /\ WbCc' = Compare(WbRegs[h.rd], ArchSource, h.fn)
        /\ WbRegs' = WbRegs /\ ~ArchHalted' /\ mem' = mem /\ mapped' = mapped
    BY <1>3, <1>4, <2>2, CommitNext DEF ExMem, ExMapped
  <2>4. ArchHalted' = ArchHalted
    BY <1>3, <2>3, Zenon DEF ArchHalted
  <2>5. OS!SetFlags
    BY <1>1, <1>9, <2>3, <2>4, SameIsa DEF OS!SetFlags
  <2> QED
    BY <1>2, <1>3, <2>5 DEF OS!Tick
<1>10. CASE h.op = "st"
  <2>1. OS!EffAddr = Wrap(WbRegs[h.rs] + ArchSource)
    BY <1>1, View DEF OnestepReads
  <2>2. op.a = OS!EffAddr /\ op.b = WbRegs[h.rd]
    BY <1>1, <1>10, <2>1 DEF OperandsCurrent
  <2>3. c.kind = "nothing" /\ Storing
    BY <1>5, <1>10, Commits DEF Run, Storing
  <2>4. /\ WbRegs' = WbRegs /\ WbCc' = WbCc /\ ~ArchHalted'
    BY <1>3, <2>3, CommitNext
  <2>5. /\ mem' = [mem EXCEPT ![OS!EffAddr] = WbRegs[h.rd]]
        /\ mapped' = mapped \cup {PageOf(OS!EffAddr)}
    BY <1>4, <2>2, <2>3 DEF ExMem, ExMapped
  <2>6. ArchHalted' = ArchHalted
    BY <1>3, <2>4, Zenon DEF ArchHalted
  <2>7. OS!Store
    BY <1>1, <1>10, <2>4, <2>5, <2>6, SameIsa DEF OS!Store
  <2> QED
    BY <1>2, <1>3, <2>7 DEF OS!Tick
<1>11. h.op \notin {"illegal", "trap"}
  BY <1>1, <1>2, View DEF OnestepReads, ArchFaults
<1> QED
  BY <1>1, <1>6, <1>7, <1>8, <1>9, <1>10, <1>11 DEF Head, Ops

LEMMA IdleSimulates ==
    ASSUME RInv, fault.kind = "none", ~halted, ~id_ex.valid, Advances
    PROVE  UNCHANGED OS!vars
<1>1. /\ regs' = WbRegs /\ cc' = WbCc /\ completed' = WbCompleted
      /\ halted' = (halted \/ Committing("halt")) /\ mem' = mem /\ mapped' = mapped
      /\ ~ex_wb'.valid
  BY Empty DEF Advances, Writeback, Execute, ExLatch, ExMem, ExMapped, Storing
<1>2. ArchPc' = ArchPc
  BY DEF Advances, ArchPc, NextFetched
<1>3. WbRegs' = WbRegs /\ WbCc' = WbCc /\ ArchCompleted' = ArchCompleted
  BY <1>1 DEF WbRegs, WbCc, ArchCompleted, WbCompleted, Committing
<1>4. ArchHalted' = ArchHalted
  <2>1. ~Committing("halt")'
    BY <1>1 DEF Committing
  <2> QED
    BY <1>1, <2>1, Zenon DEF ArchHalted
<1> QED
  BY <1>1, <1>2, <1>3, <1>4 DEF OS!vars

LEMMA FaultSimulates ==
    ASSUME RInv, fault.kind = "none", TickExecuteFault
    PROVE  UNCHANGED OS!vars /\ OS!Faults
<1>1. /\ regs' = WbRegs /\ cc' = WbCc /\ completed' = WbCompleted
      /\ halted' = (halted \/ Committing("halt")) /\ mem' = mem /\ mapped' = mapped
      /\ ~ex_wb'.valid /\ fault'.kind = "execute" /\ fault'.pc = id_ex.pc
      /\ id_ex.valid /\ ExecuteFaults
  BY Empty DEF TickExecuteFault, Writeback, ExecuteFaults
<1>2. ArchPc' = ArchPc
  BY <1>1 DEF ArchPc
<1>3. WbRegs' = WbRegs /\ WbCc' = WbCc /\ ArchCompleted' = ArchCompleted
  BY <1>1 DEF WbRegs, WbCc, ArchCompleted, WbCompleted, Committing
<1>4. ArchHalted' = ArchHalted
  <2>1. ~Committing("halt")'
    BY <1>1 DEF Committing
  <2> QED
    BY <1>1, <2>1, Zenon DEF ArchHalted
<1>5. OS!Faults
  BY <1>1, ExecuteFaultsAgree DEF RInv
<1> QED
  BY <1>1, <1>2, <1>3, <1>4, <1>5 DEF OS!vars
-----------------------------------------------------------------------------
(* Decode keeps the invariant: the instruction it hands over is decoded    *)
(* from current memory with current operands.                              *)
Decodes ==
    /\ fault.kind = "none" /\ if_id.valid /\ ~StoreHitsFetched
    /\ Writeback /\ Execute /\ ~ExecuteFaults /\ ArchPc' = if_id.pc

LEMMA DecodedSource ==
    ASSUME RInv, Decodes, HasOperand(head), ~IsBranch(head), Trailing(head) \subseteq Regs
    PROVE  (IF head.imm THEN ImmAt ELSE WbRegs'[head.src]) = Source
<1>1. CASE head.imm
  BY <1>1 DEF Source
<1>2. CASE ~head.imm
  <2>1. head.src \in Regs
    BY <1>2 DEF Trailing
  <2>2. WbRegs'[head.src] = RegValue(head.src)
    BY <2>1, DecodeView DEF Decodes, RInv
  <2> QED
    BY <1>2, <2>2 DEF Source
<1> QED
  BY <1>1, <1>2

LEMMA DecodedOperands ==
    ASSUME RInv, Decodes, id_ex' = IdLatch, ~DecodeFaults, ~DecodePanics
    PROVE  OperandsCurrent'
<1> DEFINE h == head
           op == DecodeOp
<1>1. /\ ~Undecodable /\ ~IndexPanics
      /\ id_ex' = [valid |-> TRUE, pc |-> if_id.pc, op |-> op]
  BY DEF Decodes, DecodeFaults, DecodePanics, IdLatch
<1>2. id_ex'.pc = if_id.pc /\ id_ex'.op = op
  BY <1>1
<1>3. /\ HeadOf(FrameAt(mem', if_id.pc)) = h /\ h \in Head
      /\ ImmLen(h) # 0 => mem'[Wrap(if_id.pc + ImmLen(h))] = ImmAt
      /\ \A r \in Regs : WbRegs'[r] = RegValue(r)
  BY DecodeView DEF Decodes, RInv
<1>4. ArchHead' = h
  BY <1>2, <1>3 DEF ArchHead
<1>5. ArchImm' = ImmAt
  BY <1>2, <1>3, <1>4 DEF ArchImm, ImmAt
<1>6. Checked(h) \subseteq Regs /\ Trailing(h) \subseteq Regs /\ h.op # "illegal"
  BY <1>1 DEF Undecodable, IndexPanics
<1>7. h.op \in {"mov", "not", "cmp", "alu", "ld", "st"} => ArchSource' = Source
  BY <1>4, <1>5, <1>6, DecodedSource DEF ArchSource, HasOperand, IsBranch
<1>8. op.kind = (IF h.op = "jmp" THEN "branch" ELSE h.op)
  <2>1. CASE h.op \in {"mov", "not"}
    BY <2>1 DEF DecodeOp, NopOp, IsBranch
  <2>2. CASE h.op = "cmp"
    BY <2>2 DEF DecodeOp, NopOp, IsBranch
  <2>3. CASE h.op = "alu"
    BY <2>3 DEF DecodeOp, NopOp, IsBranch
  <2>4. CASE h.op \in {"branch", "jmp"}
    BY <2>4 DEF DecodeOp, NopOp, IsBranch
  <2>5. CASE h.op \in {"ld", "st"}
    BY <2>5 DEF DecodeOp, NopOp, IsBranch
  <2>6. CASE h.op = "trap"
    BY <2>6 DEF DecodeOp, NopOp, IsBranch
  <2>7. CASE h.op \in {"nop", "halt"}
    BY <2>7 DEF DecodeOp, NopOp, IsBranch
  <2> QED
    BY <1>3, <1>6, <2>1, <2>2, <2>3, <2>4, <2>5, <2>6, <2>7 DEF Head, Ops
<1>9. h.op \in {"mov", "not"} => op.rd = h.rd /\ op.a = ArchSource'
  BY <1>7 DEF DecodeOp, NopOp, IsBranch
<1>10. ASSUME h.op = "cmp"
       PROVE  op.fn = h.fn /\ op.a = WbRegs'[h.rd] /\ op.b = ArchSource'
  <2>1. h.rd \in Regs
    BY <1>6, <1>10 DEF Checked, IsBranch
  <2>2. op.fn = h.fn /\ op.a = RegValue(h.rd) /\ op.b = Source
    BY <1>10 DEF DecodeOp, NopOp, IsBranch
  <2> QED
    BY <1>3, <1>7, <1>10, <2>1, <2>2
<1>11. ASSUME h.op \in {"alu", "ld", "st"}
       PROVE  WbRegs'[h.rs] = RegValue(h.rs) /\ WbRegs'[h.rd] = RegValue(h.rd)
  <2>1. h.rd \in Regs /\ h.rs \in Regs
    <3>1. Checked(h) = {h.rd, h.rs}
      BY <1>11 DEF Checked, IsBranch
    <3> QED
      BY <1>6, <3>1
  <2> QED
    BY <1>3, <2>1
<1>12. h.op = "alu" =>
         op.fn = h.fn /\ op.rd = h.rd /\ op.a = WbRegs'[h.rs] /\ op.b = ArchSource'
  BY <1>7, <1>11 DEF DecodeOp, NopOp, IsBranch
<1>13. h.op = "ld" => op.rd = h.rd /\ op.a = Wrap(WbRegs'[h.rs] + ArchSource')
  BY <1>7, <1>11 DEF DecodeOp, NopOp, IsBranch
<1>14. h.op = "st" => op.a = Wrap(WbRegs'[h.rs] + ArchSource') /\ op.b = WbRegs'[h.rd]
  BY <1>7, <1>11 DEF DecodeOp, NopOp, IsBranch
<1> HIDE DEF op, h
<1> QED
  BY <1>2, <1>4, <1>8, <1>9, <1>10, <1>12, <1>13, <1>14 DEF OperandsCurrent

LEMMA DecodedIsLegal ==
    ASSUME RInv, Decodes, id_ex' = IdLatch, ~DecodeFaults, ~DecodePanics
    PROVE  DecodedLegal'
<1>1. ~Undecodable /\ ~IndexPanics /\ id_ex'.pc = if_id.pc
  BY DEF Decodes, DecodeFaults, DecodePanics, IdLatch
<1>2. /\ HeadOf(FrameAt(mem', if_id.pc)) = head /\ head \in Head /\ AssembledHead(head)
      /\ OS!Taken' = Taken
      /\ IsBranch(head) /\ Checked(head) \subseteq Regs => OS!Target' = BranchTarget
  BY DecodeView DEF Decodes, RInv
<1>3. ArchHead' = head
  BY <1>1, <1>2 DEF ArchHead
<1>4. PageOf(if_id.pc) \in mapped'
  BY DEF Decodes, RInv, FetchedCurrent, Execute, ExMapped
<1>5. /\ head.op # "illegal" /\ Checked(head) \subseteq Regs /\ Trailing(head) \subseteq Regs
      /\ head.op = "branch" => head.fn \in Predicates
  BY <1>1 DEF Undecodable, IndexPanics
<1>6. OS!Taken' => Aligned(OS!Target')
  <2> SUFFICES ASSUME Taken PROVE Aligned(OS!Target')
    BY <1>2
  <2>1. IsBranch(head) /\ Aligned(BranchTarget)
    BY <1>1 DEF Taken, IsBranch, DecodeFaults, Decodes
  <2> QED
    BY <1>2, <1>5, <2>1
<1> QED
  BY <1>1, <1>2, <1>3, <1>4, <1>5, <1>6 DEF DecodedLegal

(* What is fetched is the successor of what has just been decoded.         *)
LEMMA DecodedPath ==
    ASSUME RInv, Decodes, ~DecodeFaults, ~DecodePanics
    PROVE  FetchPc = OnestepNextPc'
<1>1. /\ OS!Taken' = Taken /\ OS!Consumed' = head.len
      /\ IsBranch(head) /\ Checked(head) \subseteq Regs => OS!Target' = BranchTarget
  BY DecodeView DEF Decodes, RInv
<1>2. CASE Taken
  <2>1. IsBranch(head) /\ Checked(head) \subseteq Regs
    BY <1>2 DEF Taken, IsBranch, DecodeFaults, Undecodable, Decodes
  <2> QED
    BY <1>1, <1>2, <2>1 DEF FetchPc, Decodes, OnestepNextPc
<1>3. CASE ~Taken
  BY <1>1, <1>3 DEF FetchPc, Decodes, RInv, FetchedCurrent, OnestepNextPc
<1> QED
  BY <1>2, <1>3
-----------------------------------------------------------------------------
(* The invariant, action by action. *)
LEMMA NothingDecoded ==
    ASSUME ~if_id.valid, id_ex' = IdLatch PROVE ~id_ex'.valid /\ FetchPc = pc
  BY Empty DEF IdLatch, FetchPc

LEMMA NothingInIdEx ==
    ASSUME ~id_ex'.valid PROVE DecodedLegal' /\ OperandsCurrent' /\ PathCurrent'
  BY DEF DecodedLegal, OperandsCurrent, PathCurrent

LEMMA FetchedNext ==
    ASSUME RInv, Tick, Disciplined PROVE FetchedCurrent'
<1>1. CASE HaltSeen
  BY <1>1, Empty DEF Tick, Fetch, FetchedCurrent
<1>2. CASE ~HaltSeen
  <2>1. /\ if_id' = [valid |-> TRUE, pc |-> FetchPc, bytes |-> FetchedFrame]
        /\ pc' = AlignUp(FetchPc + FrameLen) /\ mem' = ExMem /\ mapped' = ExMapped
        /\ PageOf(FetchPc) \in ExMapped /\ AssembledHead(HeadOf(FetchedFrame))
    BY <1>2 DEF Tick, Fetch, Execute, FetchFaults, Disciplined, FetchesAssembled
  <2>2. if_id'.pc = FetchPc /\ if_id'.bytes = FetchedFrame /\ head' = HeadOf(FetchedFrame)
    BY <2>1 DEF head
  <2>3. HeadOf(FetchedFrame) \in Head
    <3>1. ExMem \in [Word -> Word] /\ FetchPc \in Word
      BY ExecuteTyped, DecodeTyped DEF RInv, Tick, Fetching
    <3> QED
      BY <3>1, FrameTyped, HeadTyped DEF FetchedFrame
  <2>4. ASSUME NEW k \in 0 .. HeadOf(FetchedFrame).len - 1
        PROVE  FetchedFrame[k] = mem'[Wrap(FetchPc + k)]
    <3>1. k \in 0 .. MaxBytes - 1
      BY <2>1, <2>3, Assembled, SizesAssumption
    <3> QED
      BY <2>1, <3>1 DEF FetchedFrame, FrameAt
  <2> QED
    BY <2>1, <2>2, <2>4 DEF FetchedCurrent, FrameLen
<1> QED
  BY <1>1, <1>2

LEMMA TickDecodes ==
    ASSUME RInv, Disciplined, fault.kind = "none", if_id.valid, ~ExecuteFaults,
           Tick \/ TickDecodeFault \/ TickDecodePanic \/ TickFetchFault
    PROVE  Decodes
<1>1. ArchPc' = if_id.pc
  BY ArchPcNext DEF RInv, NextFetched
<1>2. Writeback /\ Execute
  BY DEF Tick, TickDecodeFault, TickDecodePanic, TickFetchFault, DecodeStops
<1> QED
  BY <1>1, <1>2 DEF Decodes, Disciplined

LEMMA TickKeeps ==
    ASSUME RInv, Disciplined, fault.kind = "none", Tick
    PROVE  FetchedCurrent' /\ DecodedLegal' /\ OperandsCurrent' /\ PathCurrent'
           /\ FaultIsOnesteps' /\ FetchBlocked'
<1>1. /\ id_ex' = IdLatch /\ ~ExecuteFaults /\ ~DecodeFaults /\ ~DecodePanics
      /\ fault'.kind = "none"
  BY DEF Tick, Decode, Fetching, NoFault
<1>2. FetchedCurrent' /\ FaultIsOnesteps' /\ FetchBlocked'
  BY <1>1, FetchedNext DEF FaultIsOnesteps, FetchBlocked
<1>3. CASE ~if_id.valid
  BY <1>1, <1>2, <1>3, NothingDecoded, NothingInIdEx
<1>4. CASE if_id.valid
  <2>1. Decodes
    BY <1>1, <1>4, TickDecodes
  <2>2. OperandsCurrent' /\ DecodedLegal'
    BY <1>1, <2>1, DecodedOperands, DecodedIsLegal
  <2>3. NextFetched' = FetchPc
    <3>1. CASE HaltSeen
      BY <3>1, Empty DEF Tick, Fetch, NextFetched
    <3>2. CASE ~HaltSeen
      BY <3>2 DEF Tick, Fetch, NextFetched
    <3> QED
      BY <3>1, <3>2
  <2>4. PathCurrent'
    BY <1>1, <2>1, <2>3, DecodedPath DEF PathCurrent
  <2> QED
    BY <1>2, <2>2, <2>4
<1> QED
  BY <1>3, <1>4

LEMMA FetchFaultKeeps ==
    ASSUME RInv, Disciplined, fault.kind = "none", TickFetchFault
    PROVE  FetchedCurrent' /\ DecodedLegal' /\ OperandsCurrent' /\ PathCurrent'
           /\ FaultIsOnesteps' /\ FetchBlocked'
<1>1. /\ id_ex' = IdLatch /\ ~ExecuteFaults /\ ~DecodeFaults /\ ~DecodePanics
      /\ fault'.kind = "fetch" /\ fault'.pc = FetchPc /\ pc' = FetchPc /\ ~if_id'.valid
      /\ mapped' = ExMapped /\ ~HaltSeen /\ ~halt_pending' /\ FetchFaults
  BY Empty DEF TickFetchFault, Decode, Execute, Fetching, FetchFaults
<1>2. FetchedCurrent' /\ PathCurrent'
  BY <1>1 DEF FetchedCurrent, PathCurrent
<1>3. PageOf(FetchPc) \notin mapped'
  <2> SUFFICES ASSUME PageOf(FetchPc) \in ExMapped PROVE ~(FrameLen < HeadBytes)
    BY <1>1 DEF FetchFaults
  <2>1. AssembledHead(HeadOf(FetchedFrame))
    BY <1>1 DEF Disciplined, FetchesAssembled, TickFetchFault
  <2>2. HeadOf(FetchedFrame) \in Head
    <3>1. ExMem \in [Word -> Word] /\ FetchPc \in Word
      BY <1>1, ExecuteTyped, DecodeTyped DEF RInv
    <3> QED
      BY <3>1, FrameTyped, HeadTyped DEF FetchedFrame
  <2> QED
    BY <2>1, <2>2, Assembled DEF FrameLen, HeadBytes
<1>4. CASE ~if_id.valid
  <2>1. DecodedLegal' /\ OperandsCurrent' /\ ~id_ex'.valid
    BY <1>1, <1>4, NothingDecoded, NothingInIdEx
  <2>2. ArchPc' = FetchPc
    BY <1>1, <2>1 DEF ArchPc
  <2>3. OS!Faults'
    <3>1. ArchFaults'
      BY <1>3, <2>2 DEF ArchFaults
    <3> QED
      BY <3>1, ViewNext DEF OnestepReads
  <2>4. ~ArchHalted'
    <3>1. HInv'
      BY TickFetchFaultHalt DEF RInv
    <3> QED
      BY <1>1, <3>1, Zenon DEF HInv, ArchHalted
  <2>5. FaultIsOnesteps' /\ FetchBlocked'
    BY <1>1, <2>1, <2>2, <2>3, <2>4 DEF FaultIsOnesteps, OnestepFaults, FetchBlocked
  <2> QED
    BY <1>2, <2>1, <2>5
<1>5. CASE if_id.valid
  <2>1. Decodes
    BY <1>1, <1>5, TickDecodes
  <2>2. OperandsCurrent' /\ DecodedLegal'
    BY <1>1, <2>1, DecodedOperands, DecodedIsLegal
  <2>3. FetchPc = OnestepNextPc'
    BY <1>1, <2>1, DecodedPath
  <2>4. id_ex'.valid
    BY <1>1, <1>5 DEF IdLatch
  <2>5. FaultIsOnesteps' /\ FetchBlocked'
    BY <1>1, <1>3, <2>3, <2>4 DEF FaultIsOnesteps, FetchBlocked
  <2> QED
    BY <1>2, <2>2, <2>5
<1> QED
  BY <1>4, <1>5

(* What Decode refuses, onestep refuses at the same address. *)
LEMMA DecodeFaultIsOnesteps ==
    ASSUME RInv, Decodes, DecodeFaults \/ DecodePanics PROVE OS!Faults'
<1>1. /\ OS!head' = head /\ OS!Taken' = Taken /\ AssembledHead(head) /\ head \in Head
      /\ IsBranch(head) /\ Checked(head) \subseteq Regs => OS!Target' = BranchTarget
  BY DecodeView DEF Decodes, RInv
<1>2. OS!Faults' = ArchFaults'
  BY ViewNext DEF OnestepReads
<1>3. CASE Undecodable
  BY <1>1, <1>2, <1>3 DEF Undecodable, ArchFaults
<1>4. CASE IndexPanics
  <2>1. ~(HasImm(head) /\ ImmLen(head) > MaxBytes - 1)
    BY <1>1, Assembled, SizesAssumption
  <2> QED
    BY <1>1, <1>2, <1>4, <2>1 DEF IndexPanics, ArchFaults
<1>5. CASE ~Undecodable /\ ~IndexPanics
  <2>1. Taken /\ ~Aligned(BranchTarget)
    BY <1>5 DEF DecodeFaults, DecodePanics
  <2>2. IsBranch(head) /\ Checked(head) \subseteq Regs
    BY <1>5, <2>1 DEF Taken, IsBranch, Undecodable
  <2> QED
    BY <1>1, <1>2, <2>1, <2>2 DEF ArchFaults
<1> QED
  BY <1>3, <1>4, <1>5

LEMMA DecodeFaultKeeps ==
    ASSUME RInv, Disciplined, fault.kind = "none", TickDecodeFault \/ TickDecodePanic
    PROVE  FetchedCurrent' /\ DecodedLegal' /\ OperandsCurrent' /\ PathCurrent'
           /\ FaultIsOnesteps' /\ FetchBlocked'
<1>1. /\ if_id.valid /\ ~ExecuteFaults /\ (DecodeFaults \/ DecodePanics)
      /\ ~id_ex'.valid /\ ~if_id'.valid /\ fault'.kind \in {"decode", "panic"}
  BY Empty DEF TickDecodeFault, TickDecodePanic, DecodeStops, DecodeFaults, DecodePanics
<1>2. Decodes
  BY <1>1, TickDecodes
<1>3. OS!Faults'
  BY <1>1, <1>2, DecodeFaultIsOnesteps
<1>4. ~ArchHalted'
  <2>1. HInv' /\ ~halt_pending'
    <3>1. ~halted /\ (DecodeStops("decode") \/ DecodeStops("panic"))
      BY DEF TickDecodeFault, TickDecodePanic, Running
    <3>2. HInv'
      BY <1>1, <3>1, DecodeStopsHalt DEF RInv
    <3>3. ~halt_pending'
      BY <1>1, <3>1, Zenon DEF RInv, HInv, DecodeStops
    <3> QED
      BY <3>2, <3>3
  <2> QED
    BY <2>1, Zenon DEF HInv, ArchHalted
<1>5. fault'.pc = ArchPc'
  BY <1>1 DEF ArchPc
<1>6. FaultIsOnesteps' /\ FetchBlocked'
  BY <1>1, <1>3, <1>4, <1>5 DEF FaultIsOnesteps, OnestepFaults, FetchBlocked
<1> QED
  BY <1>1, <1>6, NothingInIdEx DEF FetchedCurrent

LEMMA ExecuteFaultKeeps ==
    ASSUME RInv, fault.kind = "none", TickExecuteFault
    PROVE  FetchedCurrent' /\ DecodedLegal' /\ OperandsCurrent' /\ PathCurrent'
           /\ FaultIsOnesteps' /\ FetchBlocked'
<1>1. ~id_ex'.valid /\ fault'.kind = "execute"
  BY Empty DEF TickExecuteFault
<1>2. UNCHANGED OS!vars /\ OS!Faults
  BY FaultSimulates
<1>3. ArchPc' = ArchPc /\ WbRegs' = WbRegs /\ WbCc' = WbCc /\ mem' = mem /\ mapped' = mapped
  BY <1>2 DEF OS!vars
<1>4. OS!Faults'
  <2>1. OS!head' = OS!head
    BY <1>3, View, ViewNext DEF OnestepReads
  <2>2. OS!Imm' = OS!Imm /\ OS!Taken' = OS!Taken
    BY <1>3, <2>1, View, ViewNext DEF OnestepReads
  <2>3. OS!Source' = OS!Source /\ OS!Target' = OS!Target
    BY <1>3, <2>1, <2>2, View, ViewNext DEF OnestepReads
  <2>4. ArchFaults
    BY <1>2, View DEF OnestepReads
  <2>5. ArchFaults'
    BY <1>3, <2>1, <2>2, <2>3, <2>4 DEF ArchFaults
  <2> QED
    BY <2>5, ViewNext DEF OnestepReads
<1>5. ~ArchHalted'
  <2>1. id_ex.valid /\ ArchHalted' = ArchHalted
    BY <1>2 DEF OS!vars, TickExecuteFault, ExecuteFaults
  <2>2. ~ArchHalted
    BY <2>1, Zenon DEF RInv, HInv, ArchHalted
  <2> QED
    BY <2>1, <2>2
<1>6. fault'.pc = ArchPc'
  BY <1>1 DEF ArchPc
<1>7. FaultIsOnesteps' /\ FetchBlocked'
  BY <1>1, <1>4, <1>5, <1>6 DEF FaultIsOnesteps, OnestepFaults, FetchBlocked
<1> QED
  BY <1>1, <1>7, NothingInIdEx DEF FetchedCurrent

LEMMA StutterKeeps ==
    ASSUME RInv, UNCHANGED vars
    PROVE  FetchedCurrent' /\ DecodedLegal' /\ OperandsCurrent' /\ PathCurrent'
           /\ FaultIsOnesteps' /\ FetchBlocked'
<1>1. /\ pc' = pc /\ regs' = regs /\ cc' = cc /\ mem' = mem /\ mapped' = mapped
      /\ if_id' = if_id /\ id_ex' = id_ex /\ ex_wb' = ex_wb /\ fault' = fault
      /\ halted' = halted /\ halt_pending' = halt_pending
  BY DEF vars
<1>2. /\ WbRegs' = WbRegs /\ WbCc' = WbCc /\ ArchPc' = ArchPc
      /\ ArchHalted' = ArchHalted
  BY <1>1 DEF WbRegs, WbCc, Committing, ArchPc, ArchHalted
<1>3. OS!head' = OS!head
  BY <1>1, <1>2, View, ViewNext DEF OnestepReads
<1>4. OS!Imm' = OS!Imm /\ OS!Taken' = OS!Taken /\ OS!Consumed' = OS!Consumed
  BY <1>1, <1>2, <1>3, View, ViewNext DEF OnestepReads
<1>5. OS!Source' = OS!Source /\ OS!Target' = OS!Target
  BY <1>2, <1>3, <1>4, View, ViewNext DEF OnestepReads
<1>6. OS!Faults => OS!Faults'
  <2>1. ArchFaults => ArchFaults'
    BY <1>1, <1>2, <1>3, <1>4, <1>5 DEF ArchFaults
  <2> QED
    BY <2>1, View, ViewNext DEF OnestepReads
<1>7. ArchHead' = ArchHead
  BY <1>1 DEF ArchHead
<1>8. ArchSource' = ArchSource
  BY <1>1, <1>2, <1>7 DEF ArchSource, ArchImm
<1>9. FetchedCurrent'
  BY <1>1 DEF RInv, FetchedCurrent, head
<1>10. DecodedLegal'
  BY <1>1, <1>4, <1>5, <1>7 DEF RInv, DecodedLegal
<1>11. OperandsCurrent'
  BY <1>1, <1>2, <1>7, <1>8 DEF RInv, OperandsCurrent
<1>12. PathCurrent'
  BY <1>1, <1>2, <1>4, <1>5 DEF RInv, PathCurrent, NextFetched, OnestepNextPc
<1>13. FaultIsOnesteps'
  BY <1>1, <1>2, <1>6 DEF RInv, FaultIsOnesteps, OnestepFaults
<1>14. FetchBlocked'
  BY <1>1, <1>2, <1>4, <1>5 DEF RInv, FetchBlocked, OnestepNextPc
<1> QED
  BY <1>9, <1>10, <1>11, <1>12, <1>13, <1>14

LEMMA InitRInv == Init => RInv
<1> SUFFICES ASSUME Init PROVE RInv
  OBVIOUS
<1>1. TInv /\ HInv
  BY InitTyped, InitHalt
<1>2. ~if_id.valid /\ ~id_ex.valid /\ fault.kind = "none"
  BY Empty DEF Init, NoFault
<1> QED
  BY <1>1, <1>2
  DEF RInv, FetchedCurrent, DecodedLegal, OperandsCurrent, PathCurrent, FaultIsOnesteps,
      FetchBlocked

LEMMA RInvNext ==
    ASSUME Resume = FALSE, RInv, [Next /\ Disciplined]_vars PROVE RInv'
<1>1. TInv' /\ HInv'
  BY NextTyped, NextHalt DEF RInv
<1>2. /\ FetchedCurrent' /\ DecodedLegal' /\ OperandsCurrent' /\ PathCurrent'
      /\ FaultIsOnesteps' /\ FetchBlocked'
  <2>1. CASE UNCHANGED vars
    BY <2>1, StutterKeeps
  <2>2. CASE Tick /\ Disciplined
    BY <2>2, RunningClean, TickKeeps DEF Tick
  <2>3. CASE TickExecuteFault
    BY <2>3, RunningClean, ExecuteFaultKeeps DEF TickExecuteFault
  <2>4. CASE TickDecodeFault /\ Disciplined
    BY <2>4, RunningClean, DecodeFaultKeeps DEF TickDecodeFault
  <2>5. CASE TickDecodePanic /\ Disciplined
    BY <2>5, RunningClean, DecodeFaultKeeps DEF TickDecodePanic
  <2>6. CASE TickFetchFault /\ Disciplined
    BY <2>6, RunningClean, FetchFaultKeeps DEF TickFetchFault
  <2> QED
    BY <2>1, <2>2, <2>3, <2>4, <2>5, <2>6 DEF Next
<1> QED
  BY <1>1, <1>2 DEF RInv

LEMMA Latched == ASSUME Resume = FALSE PROVE DisciplinedSpec => []RInv
<1>1. RInv /\ [Next /\ Disciplined]_vars => RInv'
  BY RInvNext
<1> QED
  BY <1>1, InitRInv, PTL DEF DisciplinedSpec

(* Programs as the assembler makes them, under a driver that stops at the  *)
(* first fault: when Execute uses an operand it is the architectural one,  *)
(* so forwarding from EX/WB covers every value Decode read too early.      *)
THEOREM OperandsCurrentAlways ==
    ASSUME Resume = FALSE PROVE DisciplinedSpec => []OperandsCurrent
<1>1. RInv => OperandsCurrent
  BY DEF RInv
<1> QED
  BY <1>1, Latched, PTL

(* Fetch never holds a frame of the wrong path: what it has pulled is the  *)
(* successor of the instruction in ID/EX.                                  *)
THEOREM PathCurrentAlways ==
    ASSUME Resume = FALSE PROVE DisciplinedSpec => []PathCurrent
<1>1. RInv => PathCurrent
  BY DEF RInv
<1> QED
  BY <1>1, Latched, PTL

(* A fault found in Decode or Execute, or in Fetch with nothing left to    *)
(* execute, is the fault onestep meets next, and names its address.        *)
THEOREM FaultIsOnestepsAlways ==
    ASSUME Resume = FALSE PROVE DisciplinedSpec => []FaultIsOnesteps
<1>1. RInv => FaultIsOnesteps
  BY DEF RInv
<1> QED
  BY <1>1, Latched, PTL

LEMMA FetchFaultAgrees == ASSUME RInv PROVE FetchFaultIsOnesteps
<1> SUFFICES ASSUME fault.kind # "none", id_ex.valid
             PROVE  /\ fault.kind = "fetch" /\ fault.pc = OnestepNextPc
                    /\ OnestepFaults <=> ExecuteFaults
                    /\ OnestepFaultsNext <=> ~ExecuteFaults /\ ~StoreMapsFetched
  BY DEF FetchFaultIsOnesteps
<1>1. /\ fault.kind = "fetch" /\ ~halt_pending
      /\ fault.pc = OnestepNextPc /\ PageOf(fault.pc) \notin mapped
  BY DEF RInv, FetchBlocked
<1>2. ~ArchHalted /\ ~HaltInIdEx
  BY <1>1, Zenon DEF RInv, HInv, ArchHalted
<1>3. ExecuteFaults <=> OS!Faults
  BY <1>1, ExecuteFaultsAgree DEF RInv
<1>4. /\ OS!head = ArchHead /\ OS!Source = ArchSource
      /\ id_ex.op.kind = (IF ArchHead.op = "jmp" THEN "branch" ELSE ArchHead.op)
  BY <1>1, ExecuteView DEF RInv, OperandsCurrent
<1>5. OS!head.op # "halt"
  BY <1>2, <1>4 DEF HaltInIdEx
<1>6. Storing <=> OS!head.op = "st"
  BY <1>4 DEF Storing
<1>7. OS!head.op = "st" => OS!EffAddr = id_ex.op.a
  BY <1>4, View DEF RInv, OperandsCurrent, OnestepReads
<1>8. PageOf(OnestepNextPc) \in OnestepNextMapped <=> StoreMapsFetched
  BY <1>1, <1>6, <1>7 DEF OnestepNextMapped, StoreMapsFetched
<1> QED
  BY <1>1, <1>2, <1>3, <1>5, <1>8 DEF OnestepFaults, OnestepFaultsNext

(* A fault of Fetch that leaves an instruction unexecuted is onestep's one *)
(* instruction later, but for the two cases that the property names: an    *)
(* instruction that Execute refuses, which is where onestep faults, and a  *)
(* store that maps the page.                                               *)
THEOREM FetchFaultIsOnestepsAlways ==
    ASSUME Resume = FALSE PROVE DisciplinedSpec => []FetchFaultIsOnesteps
<1>1. RInv => FetchFaultIsOnesteps
  BY FetchFaultAgrees
<1> QED
  BY <1>1, Latched, PTL

LEMMA StepSimulates ==
    ASSUME Resume = FALSE, RInv, [Next /\ Disciplined]_vars PROVE [OS!Next]_(OS!vars)
<1>1. CASE UNCHANGED vars
  BY <1>1 DEF vars, OS!vars, ArchPc, WbRegs, WbCc, ArchHalted, ArchCompleted, WbCompleted,
     Committing
<1>2. CASE TickExecuteFault
  BY <1>2, RunningClean, FaultSimulates DEF TickExecuteFault
<1>3. CASE Tick \/ TickDecodeFault \/ TickDecodePanic \/ TickFetchFault
  <2>1. fault.kind = "none" /\ ~halted
    BY <1>3, RunningClean DEF Tick, TickDecodeFault, TickDecodePanic, TickFetchFault
  <2>2. Writeback /\ Execute /\ ~ExecuteFaults
    BY <1>3 DEF Tick, TickDecodeFault, TickDecodePanic, TickFetchFault, DecodeStops, Fetching
  <2>3. Advances
    BY <1>3, <2>1, <2>2, ArchPcNext DEF RInv, Advances
  <2>4. CASE id_ex.valid
    BY <2>1, <2>3, <2>4, ExecuteSimulates DEF OS!Next
  <2>5. CASE ~id_ex.valid
    BY <2>1, <2>3, <2>5, IdleSimulates
  <2> QED
    BY <2>4, <2>5
<1> QED
  BY <1>1, <1>2, <1>3 DEF Next

LEMMA InitSimulates == Init => OS!Init
<1> SUFFICES ASSUME Init PROVE OS!Init
  OBVIOUS
<1>1. ~if_id.valid /\ ~id_ex.valid /\ ~ex_wb.valid /\ fault.kind = "none"
  BY Empty DEF Init, NoFault
<1>2. ArchPc = 0 /\ WbRegs = [r \in OS!Regs |-> 0] /\ ArchCompleted = 0
  BY <1>1, SameIsa DEF Init, ArchPc, WbRegs, Committing, ArchCompleted, WbCompleted
<1>3. WbCc = [z |-> FALSE, n |-> FALSE, c |-> FALSE, v |-> FALSE]
  BY <1>1 DEF Init, WbCc, Committing, NoFlags
<1>4. ArchHalted = FALSE
  BY <1>1, Zenon DEF Init, ArchHalted, Committing
<1>5. mem \in [Word -> Word] /\ mapped = ImagePages
  BY ImagesAssumption DEF Init
<1>6. (4 * ArchCompleted) % CounterSize = 0
  BY <1>2, CounterAssumption
<1> QED
  BY <1>2, <1>3, <1>4, <1>5, <1>6 DEF OS!Init

(* The pipeline implements onestep: each of its ticks executes one         *)
(* instruction of the architectural state seen through the latches, as     *)
(* onestep does, or leaves that state alone (tests/nstep_pipeline.rs).     *)
THEOREM OnestepRefined ==
    ASSUME Resume = FALSE PROVE DisciplinedSpec => RefinesOnestep
<1>1. RInv /\ [Next /\ Disciplined]_vars => [OS!Next]_(OS!vars)
  BY StepSimulates
<1> QED
  BY <1>1, InitSimulates, Latched, PTL DEF DisciplinedSpec, RefinesOnestep, OS!Spec
=============================================================================
