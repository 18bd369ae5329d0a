------------------------------- MODULE Nstep -------------------------------
(***************************************************************************)
(* The pipelined simulator, src/vea_sim/src/nstep: Fetch, Decode, Execute  *)
(* and Writeback with one latch between neighbours.  A tick runs the four  *)
(* stages back to front, so that each reads the latch the stage ahead of   *)
(* it left in the previous tick; branches resolve in Decode, before the    *)
(* fetch of the same tick.                                                 *)
(*                                                                         *)
(* A tick is one of six actions, by the first stage that goes wrong: the   *)
(* stages before it have run, those after it have not.                     *)
(***************************************************************************)
EXTENDS VeaIsa

CONSTANTS
    Images,       \* the memory contents a run may start from, program loaded
    ImagePages,   \* the pages the loaded image has touched
    CounterSize,  \* number of values of the counters (2^64)
    Resume        \* TRUE: the driver ticks again after a fault, as the UI lets
                  \* its user do; FALSE: it stops, as conform and the tests do

ASSUME ImagesAssumption == Images \subseteq [Word -> Word] /\ ImagePages \subseteq Page

ASSUME CounterAssumption == CounterSize \in Nat \ {0}

ASSUME ResumeAssumption == Resume \in BOOLEAN

VARIABLES
    pc,            \* address of the next frame to fetch
    regs, cc,      \* committed registers and condition codes
    mem, mapped,   \* simulated memory
    if_id, id_ex, ex_wb,   \* the latches
    halt_pending,  \* Decode has seen a halt
    halted,        \* the halt has committed
    completed,     \* completed_instrs
    cycles,
    fault          \* how the last tick ended, with the address it names

vars == <<pc, regs, cc, mem, mapped, if_id, id_ex, ex_wb, halt_pending, halted,
          completed, cycles, fault>>
-----------------------------------------------------------------------------
(* The latches.  An empty latch has a record of its own, so that every     *)
(* latch value has the same fields.                                        *)
Frame == [0 .. MaxBytes - 1 -> Word]
IfId == [valid : BOOLEAN, pc : Word, bytes : Frame]

OpKinds == {"nop", "halt", "mov", "not", "cmp", "alu", "branch", "ld", "st", "trap"}

(* DecodedOp: rd is the destination, a and b the operands already read (an *)
(* address and the value to store there, for ld and st).                   *)
DecodedOp == [kind : OpKinds, fn : Fn, rd : Regs, a : Word, b : Word]
IdEx == [valid : BOOLEAN, pc : Word, op : DecodedOp]

Commit == [kind : {"nothing", "reg", "flags", "halt"}, rd : Regs, value : Word,
           flags : Flags]
ExWb == [valid : BOOLEAN, commit : Commit]

NoFlags == [z |-> FALSE, n |-> FALSE, c |-> FALSE, v |-> FALSE]
NopOp == [kind |-> "nop", fn |-> "", rd |-> 0, a |-> 0, b |-> 0]
CommitNothing == [kind |-> "nothing", rd |-> 0, value |-> 0, flags |-> NoFlags]

NoFrame == [valid |-> FALSE, pc |-> 0, bytes |-> [k \in 0 .. MaxBytes - 1 |-> 0]]
NoOp == [valid |-> FALSE, pc |-> 0, op |-> NopOp]
NoCommit == [valid |-> FALSE, commit |-> CommitNothing]

FaultKinds == {"none", "execute", "decode", "fetch", "panic"}
NoFault == [kind |-> "none", pc |-> 0]

TypeOK ==
    /\ pc \in Word
    /\ regs \in [Regs -> Word]
    /\ cc \in Flags
    /\ mem \in [Word -> Word]
    /\ mapped \subseteq Page
    /\ if_id \in IfId
    /\ id_ex \in IdEx
    /\ ex_wb \in ExWb
    /\ halt_pending \in BOOLEAN
    /\ halted \in BOOLEAN
    /\ completed \in 0 .. CounterSize - 1
    /\ cycles \in 0 .. CounterSize - 1
    /\ fault \in [kind : FaultKinds, pc : Word]

Init ==
    /\ pc = 0
    /\ regs = [r \in Regs |-> 0]
    /\ cc = NoFlags
    /\ mem \in Images
    /\ mapped = ImagePages
    /\ if_id = NoFrame
    /\ id_ex = NoOp
    /\ ex_wb = NoCommit
    /\ halt_pending = FALSE
    /\ halted = FALSE
    /\ completed = 0
    /\ cycles = 0
    /\ fault = NoFault
-----------------------------------------------------------------------------
(* Writeback: what the register file, the flags and the counter hold once  *)
(* the latch has been committed.                                           *)
Committing(kind) == ex_wb.valid /\ ex_wb.commit.kind = kind

WbRegs ==
    IF Committing("reg")
    THEN [regs EXCEPT ![ex_wb.commit.rd] = ex_wb.commit.value]
    ELSE regs

WbCc == IF Committing("flags") THEN ex_wb.commit.flags ELSE cc

WbCompleted_SkipsHalt ==
    IF ex_wb.valid /\ ~Committing("halt") THEN (completed + 1) % CounterSize ELSE completed

WbCompleted == IF ex_wb.valid THEN (completed + 1) % CounterSize ELSE completed

Writeback ==
    /\ regs' = WbRegs
    /\ cc' = WbCc
    /\ halted' = (halted \/ Committing("halt"))
    /\ completed' = WbCompleted
-----------------------------------------------------------------------------
(* Execute. *)
RunFaults(op) ==
    \/ op.kind = "trap"
    \/ op.kind = "alu" /\ Alu[<<op.fn, op.a, op.b>>] = Undefined

RegCommit(rd, value) == [CommitNothing EXCEPT !.kind = "reg", !.rd = rd, !.value = value]

Run_HaltIsNop(op) ==
    IF op.kind = "mov" THEN RegCommit(op.rd, op.a) ELSE CommitNothing

Run(op) ==
    CASE op.kind = "halt" -> [CommitNothing EXCEPT !.kind = "halt"]
      [] op.kind = "mov"  -> RegCommit(op.rd, op.a)
      [] op.kind = "not"  -> RegCommit(op.rd, Complement(op.a))
      [] op.kind = "alu"  -> RegCommit(op.rd, Alu[<<op.fn, op.a, op.b>>])
      [] op.kind = "ld"   -> RegCommit(op.rd, mem[op.a])
      [] op.kind = "cmp"  ->
            [CommitNothing EXCEPT !.kind = "flags", !.flags = Compare(op.a, op.b, op.fn)]
      [] OTHER            -> CommitNothing

ExecuteFaults == id_ex.valid /\ RunFaults(id_ex.op)

Storing == id_ex.valid /\ id_ex.op.kind = "st"

(* The latch and the memory that Execute leaves for the stages behind it.  *)
ExLatch_Sticky ==
    IF id_ex.valid THEN [valid |-> TRUE, commit |-> Run(id_ex.op)] ELSE ex_wb

ExLatch == IF id_ex.valid THEN [valid |-> TRUE, commit |-> Run(id_ex.op)] ELSE NoCommit

ExMem == IF Storing THEN [mem EXCEPT ![id_ex.op.a] = id_ex.op.b] ELSE mem
ExMapped == IF Storing THEN mapped \cup {PageOf(id_ex.op.a)} ELSE mapped

Execute ==
    /\ ex_wb' = ExLatch
    /\ mem' = ExMem
    /\ mapped' = ExMapped
-----------------------------------------------------------------------------
(* Decode.  It reads a register that the instruction ahead has computed    *)
(* but not committed from the latch Execute has just written.              *)
RegValue_CommittedOnly(r) == WbRegs[r]

RegValue(r) ==
    IF ExLatch.valid /\ ExLatch.commit.kind = "reg" /\ ExLatch.commit.rd = r
    THEN ExLatch.commit.value
    ELSE WbRegs[r]

CcBits_CommittedOnly == WbCc

CcBits ==
    IF ExLatch.valid /\ ExLatch.commit.kind = "flags" THEN ExLatch.commit.flags ELSE WbCc

head == HeadOf(if_id.bytes)

(* imm_at: an over-long payload shifts its leading bytes out of the word.  *)
ImmAt == IF ImmLen(head) = 0 THEN 0 ELSE if_id.bytes[ImmLen(head)]

Source == IF head.imm THEN ImmAt ELSE RegValue(head.src)

BranchTarget ==
    IF ~head.imm THEN RegValue(head.rd)
    ELSE IF head.op = "jmp" THEN ImmAt ELSE Wrap(if_id.pc + ImmAt)

Taken == head.op = "jmp" \/ (head.op = "branch" /\ Predicate(head.fn, CcBits))

(* reg_at checks the registers it reads; the trailing source operand and   *)
(* the payload are indexed unchecked, after those checks have passed.      *)
Undecodable ==
    \/ head.op = "illegal"
    \/ ~(Checked(head) \subseteq Regs)
    \/ head.op = "branch" /\ head.fn \notin Predicates

IndexPanics ==
    \/ ~(Trailing(head) \subseteq Regs)
    \/ HasImm(head) /\ ImmLen(head) > MaxBytes - 1

DecodePanics == if_id.valid /\ ~Undecodable /\ IndexPanics

DecodeFaults_ChecksUntaken ==
    /\ if_id.valid
    /\ \/ Undecodable
       \/ ~IndexPanics /\ IsBranch(head) /\ ~Aligned(BranchTarget)

DecodeFaults ==
    /\ if_id.valid
    /\ \/ Undecodable
       \/ ~IndexPanics /\ Taken /\ ~Aligned(BranchTarget)

DecodeOp ==
    CASE head.op \in {"mov", "not"} ->
            [NopOp EXCEPT !.kind = head.op, !.rd = head.rd, !.a = Source]
      [] head.op = "cmp" ->
            [NopOp EXCEPT !.kind = "cmp", !.fn = head.fn, !.a = RegValue(head.rd),
                          !.b = Source]
      [] head.op = "alu" ->
            [kind |-> "alu", fn |-> head.fn, rd |-> head.rd, a |-> RegValue(head.rs),
             b |-> Source]
      [] IsBranch(head) -> [NopOp EXCEPT !.kind = "branch", !.a = BranchTarget]
      [] head.op = "ld" ->
            [NopOp EXCEPT !.kind = "ld", !.rd = head.rd,
                          !.a = Wrap(RegValue(head.rs) + Source)]
      [] head.op = "st" ->
            [NopOp EXCEPT !.kind = "st", !.a = Wrap(RegValue(head.rs) + Source),
                          !.b = RegValue(head.rd)]
      [] head.op = "trap" -> [NopOp EXCEPT !.kind = "trap", !.a = ImmAt]
      [] OTHER -> [NopOp EXCEPT !.kind = head.op]

IdLatch_DropsTakenBranch ==
    IF if_id.valid /\ ~Taken THEN [valid |-> TRUE, pc |-> if_id.pc, op |-> DecodeOp] ELSE NoOp

IdLatch ==
    IF if_id.valid THEN [valid |-> TRUE, pc |-> if_id.pc, op |-> DecodeOp] ELSE NoOp

HaltSeen == halt_pending \/ (if_id.valid /\ head.op = "halt")

(* The PC after Decode: redirect_fetch has run when a branch is taken. *)
FetchPc_NoRedirect == pc

FetchPc == IF if_id.valid /\ Taken THEN BranchTarget ELSE pc

Decode ==
    /\ id_ex' = IdLatch
    /\ halt_pending' = HaltSeen
-----------------------------------------------------------------------------
(* Fetch. *)
FetchedFrame == FrameAt(ExMem, FetchPc)
FrameLen == HeadOf(FetchedFrame).len

FetchFaults_BeforeStore ==
    /\ ~HaltSeen
    /\ PageOf(FetchPc) \notin mapped \/ FrameLen < HeadBytes

FetchFaults ==
    /\ ~HaltSeen
    /\ PageOf(FetchPc) \notin ExMapped \/ FrameLen < HeadBytes

Fetch ==
    IF HaltSeen
    THEN if_id' = NoFrame /\ pc' = FetchPc
    ELSE /\ if_id' = [valid |-> TRUE, pc |-> FetchPc, bytes |-> FetchedFrame]
         /\ pc' = AlignUp(FetchPc + FrameLen)
-----------------------------------------------------------------------------
(* The stages ahead of Fetch have gone through. *)
Fetching == ~ExecuteFaults /\ ~DecodePanics /\ ~DecodeFaults

Running == ~halted /\ fault.kind # "panic" /\ (fault.kind # "none" => Resume)

Tick ==
    /\ Running
    /\ Fetching /\ ~FetchFaults
    /\ Writeback /\ Execute /\ Decode /\ Fetch
    /\ cycles' = (cycles + 1) % CounterSize
    /\ fault' = NoFault

(* The faulting instruction has left its latch; nothing behind it moves.   *)
TickExecuteFault ==
    /\ Running
    /\ ExecuteFaults
    /\ Writeback
    /\ ex_wb' = NoCommit
    /\ id_ex' = NoOp
    /\ fault' = [kind |-> "execute", pc |-> id_ex.pc]
    /\ UNCHANGED <<pc, mem, mapped, if_id, halt_pending, cycles>>

(* The frame has left IF/ID and the instruction ahead of it has executed.  *)
DecodeStops(kind) ==
    /\ Writeback /\ Execute
    /\ id_ex' = NoOp
    /\ if_id' = NoFrame
    /\ fault' = [kind |-> kind, pc |-> if_id.pc]
    /\ UNCHANGED <<pc, halt_pending, cycles>>

TickDecodeFault ==
    /\ Running
    /\ ~ExecuteFaults /\ DecodeFaults
    /\ DecodeStops("decode")

(* A Rust index out of range: the process is gone. *)
TickDecodePanic ==
    /\ Running
    /\ ~ExecuteFaults /\ DecodePanics
    /\ DecodeStops("panic")

TickFetchFault ==
    /\ Running
    /\ Fetching /\ FetchFaults
    /\ Writeback /\ Execute /\ Decode
    /\ if_id' = NoFrame
    /\ pc' = FetchPc
    /\ fault' = [kind |-> "fetch", pc |-> FetchPc]
    /\ UNCHANGED cycles

Next == Tick \/ TickExecuteFault \/ TickDecodeFault \/ TickDecodePanic \/ TickFetchFault

Spec == Init /\ [][Next]_vars

FairSpec == Spec /\ WF_vars(Next)
=============================================================================
