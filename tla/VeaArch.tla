------------------------------ MODULE VeaArch ------------------------------
(***************************************************************************)
(* What a program does on the core, one instruction a step: the            *)
(* simulator's instruction semantics (onestep/mod.rs) with the core's own  *)
(* terms.  Instruction memory is separate and fixed; an instruction the    *)
(* core cannot perform stops it for good, with the reason in status and no *)
(* other effect.  Division is one of those, and so is a frame whose length *)
(* no format has, which the simulator would run.  The simulator's faults   *)
(* on a fetch from an unmapped page and on an access that runs off the top *)
(* of memory are not here: the core has neither.                           *)
(***************************************************************************)
EXTENDS SimDecode

CONSTANTS
    PcSize,    \* number of word addresses (2^62)
    ResetPc,   \* RESET_PC
    Programs,  \* the programs a run may start from, and
    Code,      \* Code[p][a]: the frame of program p at word address a
    MemSize,   \* cells of data memory in view
    Memories,  \* the contents data memory may start from
    Alu,       \* Alu[<<fn, a, b>>]: the ALU table
    Narrow     \* Narrow[size]: number of values an access of that size keeps

Pc == 0 .. PcSize - 1
Cell == 0 .. MemSize - 1

VARIABLES
    program,   \* what instruction memory holds
    pc,        \* word address of the next instruction, NoPc after a fault
    regs, cc,
    dmem,      \* data memory
    status     \* "run", or why the core stopped

vars == <<program, pc, regs, cc, dmem, status>>

NoPc == PcSize

Faults == {"illegal", "unsupported", "trap", "unaligned"}

TypeOK ==
    /\ program \in Programs
    /\ pc \in Pc \cup {NoPc}
    /\ regs \in [RegNums -> Word]
    /\ cc \in Flags
    /\ dmem \in [Cell -> Word]
    /\ status \in {"run", "halt"} \cup Faults

NoFlags == [z |-> FALSE, n |-> FALSE, c |-> FALSE, v |-> FALSE]

Init ==
    /\ program \in Programs
    /\ pc = ResetPc
    /\ regs = [r \in RegNums |-> 0]
    /\ cc = NoFlags
    /\ dmem \in Memories
    /\ status = "run"
-----------------------------------------------------------------------------
f == Code[program][pc]
op == Opcode(f)

(* The last operand: the payload, or the register named there. *)
Source == IF IsImm(f) THEN ValueOf(SimImm(f)) ELSE regs[f[OperandAt(f)]]

Target ==
    IF op = 48 /\ IsImm(f) THEN Wrap(4 * pc + Source) ELSE Source

Taken == op = 49 \/ (op = 48 /\ Predicate(PredOfBits[(FlagBits(f) % 8) + 1], cc))

CellAt(a) == a % MemSize
Size == (FlagBits(f) \div 2) % 4
EffAddr == Wrap(regs[f[3]] + Source)

(* The low part of a word, and a loaded low part widened to a word. *)
Low(v, size) == v % Narrow[size]
Extend(v, size, sext) ==
    IF sext /\ 2 * Low(v, size) >= Narrow[size]
    THEN Low(v, size) + WordSize - Narrow[size] ELSE Low(v, size)

AluFnOf == AluOfNibble[(op % 16) + 1]

Fault ==
    IF SimIllegal(f) \/ LenOf(f) \notin 2 .. 12 THEN "illegal"
    ELSE IF op = Trap THEN "trap"
    ELSE IF op = 26 THEN "unsupported"
    ELSE IF Taken /\ Target % 4 # 0 THEN "unaligned" ELSE "none"

SetReg(v) ==
    /\ regs' = [regs EXCEPT ![f[2]] = v]
    /\ UNCHANGED <<cc, dmem>>

Effect ==
    CASE op \in {Nop, Halt} \cup Branch -> UNCHANGED <<regs, cc, dmem>>
      [] op = 1 -> SetReg(Source)
      [] op = 20 -> SetReg(Complement(Source))
      [] op \in Binary -> SetReg(Alu[<<AluFnOf, regs[f[3]], Source>>])
      [] op \in {32, 33} ->
            /\ cc' = Compare(regs[f[2]], Source, IF op = 33 THEN "signed" ELSE "unsigned")
            /\ UNCHANGED <<regs, dmem>>
      [] op = 64 -> SetReg(Extend(dmem[CellAt(EffAddr)], Size, FlagBit(f, 3)))
      [] op = 65 ->
            /\ dmem' = [dmem EXCEPT ![CellAt(EffAddr)] = Low(regs[f[2]], Size)]
            /\ UNCHANGED <<regs, cc>>

Retire ==
    /\ status = "run"
    /\ pc' = IF Taken THEN Target \div 4 ELSE (pc + SimWords(f)) % PcSize
    /\ Fault = "none"
    /\ Effect
    /\ status' = IF op = Halt THEN "halt" ELSE "run"
    /\ UNCHANGED program

Stop ==
    /\ status = "run"
    /\ pc' = NoPc
    /\ Fault # "none"
    /\ status' = Fault
    /\ UNCHANGED <<program, regs, cc, dmem>>

Next == Retire \/ Stop

Spec == Init /\ [][Next]_vars
=============================================================================
