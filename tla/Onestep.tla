------------------------------ MODULE Onestep ------------------------------
(***************************************************************************)
(* The one-instruction-per-tick simulator, src/vea_sim/src/onestep/mod.rs: *)
(* the trusted reference the pipelined simulator is compared with.         *)
(*                                                                         *)
(* A tick that returns Err changes nothing, so the driver that calls tick  *)
(* again meets the same fault again.                                       *)
(***************************************************************************)
EXTENDS VeaIsa

CONSTANTS
    Images,      \* the memory contents a run may start from, program loaded
    ImagePages,  \* the pages the loaded image has touched
    CounterSize  \* number of values of the retirement and cycle counters (2^64)

ASSUME ImagesAssumption == Images \subseteq [Word -> Word] /\ ImagePages \subseteq Page

ASSUME CounterAssumption == CounterSize \in Nat \ {0}

VARIABLES
    pc,         \* address of the next instruction
    regs, cc,   \* register file and condition codes
    mem,        \* memory bytes, zero where no page is mapped
    mapped,     \* the pages that have storage
    halted,
    completed,  \* completed_instrs
    cycles

vars == <<pc, regs, cc, mem, mapped, halted, completed, cycles>>

TypeOK ==
    /\ pc \in Word
    /\ regs \in [Regs -> Word]
    /\ cc \in Flags
    /\ mem \in [Word -> Word]
    /\ mapped \subseteq Page
    /\ halted \in BOOLEAN
    /\ completed \in 0 .. CounterSize - 1
    /\ cycles \in 0 .. CounterSize - 1

Init ==
    /\ pc = 0
    /\ regs = [r \in Regs |-> 0]
    /\ cc = [z |-> FALSE, n |-> FALSE, c |-> FALSE, v |-> FALSE]
    /\ mem \in Images
    /\ mapped = ImagePages
    /\ halted = FALSE
    /\ completed = 0
    /\ cycles = 0
-----------------------------------------------------------------------------
CyclesPerInstr == 4

frame == FrameAt(mem, pc)
head == HeadOf(frame)

(* fetch_imm: the payload widened to a register. *)
Imm == IF ImmLen(head) = 0 THEN 0 ELSE frame[1]

Source == IF head.imm THEN Imm ELSE regs[head.src]
EffAddr == Wrap(regs[head.rs] + Source)

Target ==
    IF ~head.imm THEN regs[head.rd]
    ELSE IF head.op = "jmp" THEN Imm ELSE Wrap(pc + Imm)

Taken == head.op = "jmp" \/ (head.op = "branch" /\ Predicate(head.fn, cc))

(* The bytes the operand decoders say they consumed.  The length nibble    *)
(* counts only through the payload of an immediate form.                   *)
Consumed == HeadBytes + (IF HasImm(head) THEN ImmLen(head) ELSE 0)

(* Every condition under which tick returns Err. *)
Faults ==
    \/ PageOf(pc) \notin mapped
    \/ head.op \in {"illegal", "trap"}
    \/ ~(Checked(head) \cup Trailing(head) \subseteq Regs)
    \/ HasImm(head) /\ ImmLen(head) > MaxImm
    \/ head.op = "branch" /\ head.fn \notin Predicates
    \/ Taken /\ ~Aligned(Target)
    \/ head.op = "alu" /\ Alu[<<head.fn, regs[head.rs], Source>>] = Undefined

Result ==
    CASE head.op = "mov" -> Source
      [] head.op = "not" -> Complement(Source)
      [] head.op = "alu" -> Alu[<<head.fn, regs[head.rs], Source>>]
      [] head.op = "ld"  -> mem[EffAddr]

Retire_Unaligned ==
    /\ pc' = IF Taken THEN Target ELSE Wrap(pc + Consumed)
    /\ completed' = (completed + 1) % CounterSize
    /\ cycles' = (cycles + CyclesPerInstr) % CounterSize

Retire ==
    /\ pc' = IF Taken THEN Target ELSE AlignUp(pc + Consumed)
    /\ completed' = (completed + 1) % CounterSize
    /\ cycles' = (cycles + CyclesPerInstr) % CounterSize

Nop ==
    /\ head.op \in {"nop", "branch", "jmp"}
    /\ UNCHANGED <<regs, cc, mem, mapped, halted>>

Halt ==
    /\ head.op = "halt"
    /\ halted' = TRUE
    /\ UNCHANGED <<regs, cc, mem, mapped>>

SetReg ==
    /\ head.op \in {"mov", "not", "alu", "ld"}
    /\ regs' = [regs EXCEPT ![head.rd] = Result]
    /\ UNCHANGED <<cc, mem, mapped, halted>>

SetFlags ==
    /\ head.op = "cmp"
    /\ cc' = Compare(regs[head.rd], Source, head.fn)
    /\ UNCHANGED <<regs, mem, mapped, halted>>

(* A store allocates the page it lands in. *)
Store ==
    /\ head.op = "st"
    /\ mem' = [mem EXCEPT ![EffAddr] = regs[head.rd]]
    /\ mapped' = mapped \cup {PageOf(EffAddr)}
    /\ UNCHANGED <<regs, cc, halted>>

Tick ==
    /\ ~halted
    /\ ~Faults
    /\ Retire
    /\ Nop \/ Halt \/ SetReg \/ SetFlags \/ Store

(* A tick that returns Err. *)
FaultTick == ~halted /\ Faults /\ UNCHANGED vars

Next == Tick \/ FaultTick

Spec == Init /\ [][Next]_vars

FairSpec == Spec /\ WF_vars(Tick)
-----------------------------------------------------------------------------
(* The PC stays a multiple of ALIGNMENT whatever runs (isa.rs:11): the     *)
(* fall-through rounds up, and a taken branch is checked.                  *)
PcAligned == Aligned(pc)
=============================================================================
