---------------------------- MODULE NstepRefines ----------------------------
(***************************************************************************)
(* What the pipeline promises: seen through its latches, it is onestep.    *)
(* An instruction takes effect when Execute runs it; from then on its      *)
(* commit in EX/WB counts as done, and whatever is still in IF/ID has not  *)
(* happened.                                                               *)
(***************************************************************************)
EXTENDS Nstep

(* The architectural state the latches and the register file stand for. *)
ArchPc ==
    IF fault.kind \in {"execute", "decode", "panic"} THEN fault.pc
    ELSE IF id_ex.valid THEN id_ex.pc
    ELSE IF if_id.valid THEN if_id.pc
    ELSE pc

ArchCompleted == WbCompleted
ArchHalted == halted \/ Committing("halt")

(* Memory is the same variable on both sides, so onestep may start from    *)
(* any contents here.                                                      *)
OS == INSTANCE Onestep WITH
        Images <- [Word -> Word],
        pc <- ArchPc, regs <- WbRegs, cc <- WbCc, halted <- ArchHalted,
        completed <- ArchCompleted, cycles <- (4 * ArchCompleted) % CounterSize
-----------------------------------------------------------------------------
(* The programs the two simulators are meant to agree on.                  *)

(* A frame as the assembler emits it: the length nibble is the length the  *)
(* operand format implies, and the immediate fits a register.              *)
AssembledHead(h) ==
    /\ h.len = HeadBytes + (IF HasImm(h) THEN ImmLen(h) ELSE 0)
    /\ ImmLen(h) <= MaxImm

(* A store into the frame behind it, which Fetch has already pulled. *)
StoreHitsFetched ==
    /\ Storing /\ if_id.valid
    /\ \E k \in 0 .. HeadOf(if_id.bytes).len - 1 : Wrap(if_id.pc + k) = id_ex.op.a

FetchesAssembled ==
    Fetching /\ ~HaltSeen /\ PageOf(FetchPc) \in ExMapped
        => AssembledHead(HeadOf(FetchedFrame))

Disciplined == ~StoreHitsFetched /\ FetchesAssembled

(* The driver keeps ticking.  Fairness is of Next itself, so a run that    *)
(* could only go on undisciplined is no behaviour of this specification.   *)
DisciplinedSpec == Init /\ [][Next /\ Disciplined]_vars /\ WF_vars(Next)
-----------------------------------------------------------------------------
(* The operands in ID/EX, read one tick before they are used, are the      *)
(* architectural ones at the moment of use: forwarding from EX/WB covers   *)
(* every instruction Decode could have read too early.  Decoding the frame *)
(* in memory again, with nothing in flight, gives the same operation.      *)
ArchHead == HeadOf(FrameAt(mem, id_ex.pc))
ArchImm == IF ImmLen(ArchHead) = 0 THEN 0 ELSE mem[Wrap(id_ex.pc + ImmLen(ArchHead))]
ArchSource == IF ArchHead.imm THEN ArchImm ELSE WbRegs[ArchHead.src]

OperandsCurrent ==
    id_ex.valid =>
        /\ id_ex.op.kind = (IF ArchHead.op = "jmp" THEN "branch" ELSE ArchHead.op)
        /\ CASE ArchHead.op \in {"mov", "not"} ->
                    id_ex.op.rd = ArchHead.rd /\ id_ex.op.a = ArchSource
             [] ArchHead.op = "cmp" ->
                    /\ id_ex.op.fn = ArchHead.fn
                    /\ id_ex.op.a = WbRegs[ArchHead.rd] /\ id_ex.op.b = ArchSource
             [] ArchHead.op = "alu" ->
                    /\ id_ex.op.fn = ArchHead.fn /\ id_ex.op.rd = ArchHead.rd
                    /\ id_ex.op.a = WbRegs[ArchHead.rs] /\ id_ex.op.b = ArchSource
             [] ArchHead.op = "ld" ->
                    /\ id_ex.op.rd = ArchHead.rd
                    /\ id_ex.op.a = Wrap(WbRegs[ArchHead.rs] + ArchSource)
             [] ArchHead.op = "st" ->
                    /\ id_ex.op.a = Wrap(WbRegs[ArchHead.rs] + ArchSource)
                    /\ id_ex.op.b = WbRegs[ArchHead.rd]
             [] OTHER -> TRUE

(* What is fetched is what runs next: IF/ID, and the fetch PC when IF/ID   *)
(* is empty, is the architectural successor of the instruction in ID/EX.   *)
(* The front end never holds a wrong-path frame, since branches and halts  *)
(* are resolved before the fetch of the same tick.                         *)
NextFetched == IF if_id.valid THEN if_id.pc ELSE pc

OnestepNextPc == IF OS!Taken THEN OS!Target ELSE AlignUp(ArchPc + OS!Consumed)

PathCurrent == id_ex.valid /\ fault.kind = "none" => NextFetched = OnestepNextPc

(* Every step of the pipeline is a step of onestep or leaves the           *)
(* architectural state alone (tests/nstep_pipeline.rs: "the two must land  *)
(* on exactly the same architectural state").                              *)
RefinesOnestep == OS!Spec

(* The pipeline never stops making progress: another instruction executes, *)
(* or the machine has executed a halt, or it has faulted.                  *)
KeepsGoing ==
    \A n \in 0 .. CounterSize - 1 :
        ArchCompleted = n ~> ArchCompleted # n \/ ArchHalted \/ fault.kind # "none"

(* Onestep's next tick returns Err; or it runs the instruction it is at    *)
(* and the tick after that finds no page to fetch from.                    *)
OnestepFaults == ~ArchHalted /\ OS!Faults

OnestepNextMapped ==
    mapped \cup IF OS!head.op = "st" THEN {PageOf(OS!EffAddr)} ELSE {}

OnestepFaultsNext ==
    /\ ~ArchHalted /\ ~OS!Faults /\ OS!head.op # "halt"
    /\ PageOf(OnestepNextPc) \notin OnestepNextMapped

(* A fault found in Decode or Execute, or in Fetch with nothing left to    *)
(* execute, is onestep's next fault, at the same address.                  *)
FaultIsOnesteps ==
    fault.kind # "none" /\ ~id_ex.valid => OnestepFaults /\ fault.pc = ArchPc

(* A store in ID/EX will map the page that Fetch has missed. *)
StoreMapsFetched == Storing /\ PageOf(id_ex.op.a) = PageOf(fault.pc)

(* Otherwise Fetch has faulted in the tick that decoded the instruction    *)
(* now in ID/EX, before that instruction could run.  Onestep faults at the *)
(* same address one instruction later, but for two instructions: at one    *)
(* that Execute refuses onestep faults first, at that instruction, and     *)
(* behind a store into the page that Fetch misses it need not fault.       *)
FetchFaultIsOnesteps ==
    fault.kind # "none" /\ id_ex.valid =>
        /\ fault.kind = "fetch" /\ fault.pc = OnestepNextPc
        /\ OnestepFaults <=> ExecuteFaults
        /\ OnestepFaultsNext <=> ~ExecuteFaults /\ ~StoreMapsFetched

(* One instruction per cycle: nothing ever stalls, so the cycles spent are *)
(* the instructions retired plus those in the latches, and the three of    *)
(* filling the pipe show up only while it drains behind a halt.            *)
InFlight == (IF if_id.valid THEN 1 ELSE 0) + (IF id_ex.valid THEN 1 ELSE 0)
            + (IF ex_wb.valid THEN 1 ELSE 0)

OnePerCycle ==
    fault.kind = "none" =>
        /\ ~halt_pending => cycles = (completed + InFlight) % CounterSize
        /\ halted => cycles = (completed + 3) % CounterSize

(* Nothing enters the pipe behind a halt, and what was ahead of it lands   *)
(* before the machine stops.                                               *)
NothingBehindHalt ==
    /\ halt_pending => ~if_id.valid
    /\ halted => ~id_ex.valid /\ ~ex_wb.valid

(* A decoded halt commits: nothing ahead of it can fault any more.         *)
HaltCommits == halt_pending ~> halted

(* Decode lets no operand through that onestep refuses, and survives every *)
(* one it refuses: a garbage register is "still a possibility"             *)
(* (nstep/decode.rs:141-143), and an immediate obeys the "same rule as     *)
(* onestep's fetch_imm" (nstep/decode.rs:188-190).                         *)
OperandsChecked ==
    /\ id_ex.valid => /\ Checked(ArchHead) \cup Trailing(ArchHead) \subseteq Regs
                      /\ HasImm(ArchHead) => ImmLen(ArchHead) <= MaxImm
    /\ fault.kind # "panic"
=============================================================================
