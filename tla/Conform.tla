------------------------------ MODULE Conform ------------------------------
(***************************************************************************)
(* vea conform, cmd_conform in src/vea_sim/src/main.rs: the driver whose   *)
(* output is the golden register file of the core's test bench.  It runs   *)
(* onestep one cycle at a time up to a cap and prints what the last cycle  *)
(* published on the shared bus, not the processor's own registers.         *)
(***************************************************************************)
EXTENDS Onestep

CONSTANT Limits     \* the values of --cap

ASSUME LimitAssumption == Limits \subseteq Nat

VARIABLES
    limit,          \* --cap
    steps,          \* cycles that returned Ok
    snapshot,       \* the registers on the shared bus
    outcome,        \* running, printed, gave up or failed
    output          \* the registers printed

driver == <<limit, steps, snapshot, outcome, output>>

Blank == [r \in Regs |-> 0]

ConformInit ==
    /\ Init /\ limit \in Limits
    /\ steps = 0 /\ snapshot = Blank /\ outcome = "running" /\ output = Blank

Running == outcome = "running" /\ ~halted /\ steps < limit

(* cycle(1), which publishes whether or not its tick faulted. *)
Step ==
    /\ Running /\ Tick
    /\ steps' = steps + 1 /\ snapshot' = regs'
    /\ UNCHANGED <<limit, outcome, output>>

StepFaults ==
    /\ Running /\ FaultTick
    /\ snapshot' = regs' /\ outcome' = "failed"
    /\ UNCHANGED <<limit, steps, output>>

GiveUp_AtTheCap ==
    /\ outcome = "running" /\ steps = limit
    /\ outcome' = "gave up"
    /\ UNCHANGED <<vars, limit, steps, snapshot, output>>

GiveUp ==
    /\ outcome = "running" /\ steps = limit /\ ~halted
    /\ outcome' = "gave up"
    /\ UNCHANGED <<vars, limit, steps, snapshot, output>>

WriteGolden ==
    /\ outcome = "running" /\ halted
    /\ outcome' = "printed" /\ output' = snapshot
    /\ UNCHANGED <<vars, limit, steps, snapshot>>

ConformNext == Step \/ StepFaults \/ GiveUp \/ WriteGolden

ConformSpec == ConformInit /\ [][ConformNext]_<<vars, driver>>
-----------------------------------------------------------------------------
(* The golden file is the architectural state of a program that halted, in *)
(* the last step allowed at the latest; the driver gives up on no program  *)
(* that has halted and fails on none that onestep can go on with.          *)
OutcomeIsRight ==
    /\ outcome = "printed" => /\ halted /\ output = regs
                              /\ completed = steps % CounterSize
                              /\ cycles = (CyclesPerInstr * steps) % CounterSize
    /\ outcome = "gave up" => ~halted /\ steps = limit
    /\ outcome = "failed" => ~halted /\ Faults
=============================================================================
