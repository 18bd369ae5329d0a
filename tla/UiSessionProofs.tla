-------------------------- MODULE UiSessionProofs --------------------------
(***************************************************************************)
(* Proofs about the interactive session, for every page size, address      *)
(* space, load address and set of programs.                                *)
(*                                                                         *)
(* The screen is current although most changes are not followed by a       *)
(* redraw of their own, because between two draws at least one of two      *)
(* traces is left: needs_redraw, or a generation more.  A burst leaves the *)
(* second whenever it runs; that it never stops a program without running  *)
(* it and without a trace rests on what may be running (Fresh).            *)
(***************************************************************************)
EXTENDS UiSession, SequenceTheorems, TLAPS

(* The image of an open program is one that assembled, and it fitted.      *)
OpenFits == Loaded => sim.image \in Images /\ BootFits(sim.image)

(* A turn that has left no trace is one in which nothing happened.         *)
Fresh ==
    /\ phase = "start" => app.redraw /\ ~app.running
    /\ phase = "poll" => ~app.redraw /\ ahead = 0
    /\ phase \in {"draw", "poll", "burst"} /\ ~app.redraw /\ ahead = 0 =>
        /\ screen = Rendered
        /\ app.running => Loaded /\ ~sim.cpu.halted /\ ~bus.snapshot.fault

IInv ==
    /\ TypeOK /\ OpenFits /\ SnapshotCurrent /\ EngineShown /\ RunningIsLive
    /\ Fresh
-----------------------------------------------------------------------------
(* A fresh processor and a snapshot of any are of their types.             *)
LEMMA NewCpuType ==
    ASSUME NEW e \in Engines PROVE NewCpu(e, LoadAddr) \in Cpu
  BY SessionAssumption DEF NewCpu, Cpu, Engines, Latches

LEMMA SnapshotType ==
    ASSUME NEW c \in Cpu, NEW f \in BOOLEAN
    PROVE  Snapshot(c, f) \in Snap /\ Snapshot(c, f).fault = f
  BY DEF Snapshot, Snap, Cpu

LEMMA PublishType ==
    ASSUME TypeOK, NEW c \in Cpu, NEW f \in BOOLEAN,
           NEW b \in [snapshot : Snap, program : Programs]
    PROVE  /\ PublishOver(b, c, f) \in [snapshot : Snap, program : Programs]
           /\ PublishOver(b, c, f).snapshot = Snapshot(c, f)
           /\ PublishOver(b, c, f).snapshot.fault = f
  BY SnapshotType DEF PublishOver

(* What the message functions change of the app.                           *)
LEMMA AppType ==
    ASSUME NEW a \in App, NEW m \in {"info", "error"}
    PROVE  /\ Note(a, m) \in App /\ Stopped(a, m) \in App
           /\ Note(a, m).redraw = a.redraw /\ Stopped(a, m).redraw = a.redraw
           /\ Note(a, m).running = a.running /\ Stopped(a, m).running = FALSE
           /\ Note(a, m).engine = a.engine /\ Stopped(a, m).engine = a.engine
  BY DEF App, Note, Stopped

LEMMA PressedType ==
    ASSUME TypeOK
    PROVE  /\ Pressed \in App /\ Pressed.redraw
           /\ Pressed.running = app.running /\ Pressed.engine = app.engine
  BY DEF TypeOK, App, Pressed

LEMMA AnsweredType ==
    ASSUME TypeOK, NEW m \in {"info", "error"}, NEW a,
           a = Note(Pressed, m) \/ a = Stopped(Pressed, m)
    PROVE  a \in App /\ a.engine = app.engine /\ a.redraw
<1>1. Pressed \in App /\ Pressed.redraw /\ Pressed.engine = app.engine
  BY PressedType
<1>2. CASE a = Note(Pressed, m)
  BY <1>1, <1>2, AppType
<1>3. CASE a = Stopped(Pressed, m)
  BY <1>1, <1>3, AppType
<1> QED
  BY <1>2, <1>3
-----------------------------------------------------------------------------
(* What loading, rebooting and running do to program, processor and bus.   *)
Machine == TypeOK /\ OpenFits /\ SnapshotCurrent

MachineAfter ==
    /\ sim' \in [open : BOOLEAN, image : Programs, cpu : Cpu]
    /\ bus' \in [snapshot : Snap, program : Programs]
    /\ ahead' \in Nat
    /\ OpenFits' /\ SnapshotCurrent'

LEMMA OpenMachine ==
    ASSUME Machine, NEW image \in Images, NEW e \in Engines, Open(image, e)
    PROVE  /\ MachineAfter
           /\ BootFits(image) => sim'.open /\ sim'.cpu.engine = e
           /\ ~BootFits(image) => sim' = sim
<1> DEFINE cpu == NewCpu(e, LoadAddr)
           listed == [bus EXCEPT !.program = image]
<1>1. cpu \in Cpu /\ cpu.engine = e
  BY NewCpuType DEF NewCpu
<1>2. listed \in [snapshot : Snap, program : Programs] /\ listed.snapshot = bus.snapshot
  BY DEF Machine, TypeOK, Programs
<1>3. CASE BootFits(image)
  <2>1. /\ sim' = [open |-> TRUE, image |-> image, cpu |-> cpu]
        /\ bus' = PublishOver(listed, cpu, FALSE)
        /\ ahead' = ahead + 2
    BY <1>3 DEF Open
  <2>2. /\ bus' \in [snapshot : Snap, program : Programs]
        /\ bus'.snapshot = Snapshot(cpu, FALSE) /\ bus'.snapshot.fault = FALSE
    BY <1>1, <1>2, <2>1, PublishType DEF Machine
  <2>3. sim' \in [open : BOOLEAN, image : Programs, cpu : Cpu]
    BY <1>1, <2>1 DEF Programs
  <2>4. OpenFits' /\ SnapshotCurrent'
    BY <1>3, <2>1, <2>2 DEF OpenFits, SnapshotCurrent, Loaded, BootFits
  <2>5. ahead' \in Nat
    BY <2>1 DEF Machine, TypeOK
  <2> QED
    BY <1>1, <1>3, <2>1, <2>2, <2>3, <2>4, <2>5 DEF MachineAfter
<1>4. CASE ~BootFits(image)
  <2>1. sim' = sim /\ bus' = listed /\ ahead' = ahead + 1
    BY <1>4 DEF Open
  <2>2. OpenFits' /\ SnapshotCurrent'
    BY <1>2, <2>1 DEF Machine, OpenFits, SnapshotCurrent, Loaded, BootFits
  <2> QED
    BY <1>2, <1>4, <2>1, <2>2 DEF MachineAfter, Machine, TypeOK
<1> QED
  BY <1>3, <1>4

LEMMA RebootMachine ==
    ASSUME Machine, Loaded, NEW e \in Engines, Reboot(e)
    PROVE  /\ MachineAfter
           /\ BootFits(KeptImage) /\ sim'.open /\ sim'.cpu.engine = e
<1> DEFINE cpu == NewCpu(e, LoadAddr)
<1>1. cpu \in Cpu /\ cpu.engine = e
  BY NewCpuType DEF NewCpu
<1>2. BootFits(KeptImage)
  BY DEF Machine, OpenFits, KeptImage
<1>3. /\ sim' = [sim EXCEPT !.cpu = cpu]
      /\ bus' = PublishOver(bus, cpu, FALSE)
      /\ ahead' = ahead + 1
  BY <1>2 DEF Reboot
<1>4. /\ bus' \in [snapshot : Snap, program : Programs]
      /\ bus'.snapshot = Snapshot(cpu, FALSE) /\ bus'.snapshot.fault = FALSE
  BY <1>1, <1>3, PublishType DEF Machine, TypeOK
<1>5. /\ sim' \in [open : BOOLEAN, image : Programs, cpu : Cpu]
      /\ sim'.open = sim.open /\ sim'.image = sim.image /\ sim'.cpu = cpu
  BY <1>1, <1>3 DEF Machine, TypeOK
<1>6. OpenFits' /\ SnapshotCurrent'
  BY <1>4, <1>5 DEF Machine, OpenFits, SnapshotCurrent, Loaded, BootFits
<1>7. ahead' \in Nat
  BY <1>3 DEF Machine, TypeOK
<1> QED
  BY <1>1, <1>2, <1>4, <1>5, <1>6, <1>7 DEF MachineAfter, Loaded

LEMMA CycleMachine ==
    ASSUME Machine, Loaded, NEW n \in {0, 1}, NEW fault \in BOOLEAN, Cycle(n, fault)
    PROVE  /\ MachineAfter
           /\ sim'.open /\ sim'.cpu.engine = sim.cpu.engine
           /\ ahead' = ahead + 1 /\ bus'.snapshot.fault = fault
<1>1. PICK pc \in Pcs, halts \in BOOLEAN, latches \in Latches :
        LET runs == n > 0 /\ ~sim.cpu.halted
            cpu == IF runs THEN [sim.cpu EXCEPT !.pc = pc, !.halted = halts,
                                    !.latches = IF @ = "none" THEN @ ELSE latches]
                   ELSE sim.cpu
        IN /\ sim' = [sim EXCEPT !.cpu = cpu]
           /\ bus' = PublishOver(bus, cpu, fault)
           /\ ahead' = ahead + 1
  BY DEF Cycle
<1> DEFINE cpu == IF n > 0 /\ ~sim.cpu.halted
                  THEN [sim.cpu EXCEPT !.pc = pc, !.halted = halts,
                           !.latches = IF @ = "none" THEN @ ELSE latches]
                  ELSE sim.cpu
<1>2. sim.cpu \in Cpu
  BY DEF Machine, TypeOK
<1>3. cpu \in Cpu /\ cpu.engine = sim.cpu.engine
  <2>1. IF sim.cpu.latches = "none" THEN TRUE ELSE latches \in Latches
    OBVIOUS
  <2> QED
    BY <1>2, <2>1 DEF Cpu
<1>4. /\ sim' = [sim EXCEPT !.cpu = cpu] /\ bus' = PublishOver(bus, cpu, fault)
      /\ ahead' = ahead + 1
  BY <1>1
<1> HIDE DEF cpu
<1>5. /\ bus' \in [snapshot : Snap, program : Programs]
      /\ bus'.snapshot = Snapshot(cpu, fault) /\ bus'.snapshot.fault = fault
  BY <1>3, <1>4, PublishType DEF Machine, TypeOK
<1>6. /\ sim' \in [open : BOOLEAN, image : Programs, cpu : Cpu]
      /\ sim'.open = sim.open /\ sim'.image = sim.image /\ sim'.cpu = cpu
  BY <1>3, <1>4 DEF Machine, TypeOK
<1>7. OpenFits' /\ SnapshotCurrent'
  BY <1>5, <1>6 DEF Machine, OpenFits, SnapshotCurrent, Loaded, BootFits
<1>8. ahead' \in Nat
  BY <1>4 DEF Machine, TypeOK
<1> QED
  BY <1>3, <1>4, <1>5, <1>6, <1>7, <1>8 DEF MachineAfter, Loaded

LEMMA UnmovedMachine ==
    ASSUME Machine, Unmoved PROVE MachineAfter
  BY DEF Machine, MachineAfter, Unmoved, TypeOK, OpenFits, SnapshotCurrent, Loaded, BootFits
-----------------------------------------------------------------------------
LEMMA SameRendered ==
    ASSUME UNCHANGED <<store, app, bus>> PROVE Rendered' = Rendered
  BY DEF Rendered, Dump, ByteAt

(* A handled key leaves a redraw to do, or nothing has happened.           *)
LEMMA AfterKey ==
    ASSUME IInv, Handled, MachineAfter, app' \in App, EngineShown',
           app'.redraw \/ (app' = app /\ Unmoved)
    PROVE  IInv'
<1>1. phase = "poll" /\ phase' = "burst" /\ screen' = screen
  BY DEF Handled
<1>2. TypeOK' /\ OpenFits' /\ SnapshotCurrent' /\ RunningIsLive'
  BY <1>1 DEF MachineAfter, TypeOK, Phases, RunningIsLive
<1>3. CASE app'.redraw
  BY <1>1, <1>2, <1>3 DEF IInv, Fresh
<1>4. CASE app' = app /\ Unmoved
  <2>1. Rendered' = Rendered
    BY <1>4, SameRendered DEF Unmoved
  <2>2. screen = Rendered /\ (app.running => Loaded /\ ~sim.cpu.halted /\ ~bus.snapshot.fault)
    BY <1>1 DEF IInv, Fresh
  <2> QED
    BY <1>1, <1>2, <1>4, <2>1, <2>2 DEF IInv, Fresh, Unmoved, Loaded
<1> QED
  BY <1>3, <1>4

(* The engine shown stays right when neither it nor the processor's engine *)
(* changes, and when a program is opened or rebooted under it.             *)
LEMMA EngineKept ==
    ASSUME EngineShown, Unmoved, app'.engine = app.engine PROVE EngineShown'
  BY DEF EngineShown, Loaded, Unmoved

LEMMA KeyUnmoved ==
    ASSUME IInv, Handled, Unmoved, app' \in App, app'.engine = app.engine,
           app'.redraw \/ app' = app
    PROVE  IInv'
<1>1. MachineAfter
  BY UnmovedMachine DEF IInv, Machine
<1>2. EngineShown'
  BY EngineKept DEF IInv
<1> QED
  BY <1>1, <1>2, AfterKey

LEMMA NoKeyStep == ASSUME IInv, NoKey PROVE IInv'
<1>1. Handled /\ Unmoved /\ (app' = app \/ app' = Pressed)
  BY DEF NoKey
<1>2. app' \in App /\ app'.engine = app.engine /\ (app'.redraw \/ app' = app)
  BY <1>1, PressedType DEF IInv, TypeOK
<1> QED
  BY <1>1, <1>2, KeyUnmoved

LEMMA OtherKeyStep == ASSUME IInv, OtherKey PROVE IInv'
<1>1. Handled /\ Unmoved
  BY DEF OtherKey
<1>2. app' = Pressed \/ app' = Note(Pressed, "info") \/ app' = Note(Pressed, "error")
  BY Zenon DEF OtherKey
<1>3. CASE app' = Pressed
  BY <1>1, <1>3, PressedType, KeyUnmoved DEF IInv
<1>4. CASE app' = Note(Pressed, "info")
  BY <1>1, <1>4, AnsweredType, KeyUnmoved DEF IInv
<1>5. CASE app' = Note(Pressed, "error")
  BY <1>1, <1>5, AnsweredType, KeyUnmoved DEF IInv
<1> QED
  BY <1>2, <1>3, <1>4, <1>5

LEMMA NeedsProgramStep == ASSUME IInv, NeedsProgram PROVE IInv'
<1>1. Handled /\ Unmoved
  BY DEF NeedsProgram
<1>2. app' = Note(Pressed, "error") \/ app' = Stopped(Pressed, "error")
  BY Zenon DEF NeedsProgram
<1>3. app' \in App /\ app'.engine = app.engine /\ app'.redraw
  BY <1>2, AnsweredType DEF IInv
<1> QED
  BY <1>1, <1>3, KeyUnmoved

LEMMA LoadFailsStep == ASSUME IInv, LoadFails PROVE IInv'
<1>1. Handled /\ Unmoved
  BY DEF LoadFails
<1>2. app' = Note(Pressed, "error") \/ app' = Stopped(Pressed, "error")
  BY DEF LoadFails
<1>3. app' \in App /\ app'.engine = app.engine /\ app'.redraw
  BY <1>2, AnsweredType DEF IInv
<1> QED
  BY <1>1, <1>3, KeyUnmoved

LEMMA ToggleRunStep == ASSUME IInv, ToggleRun PROVE IInv'
<1>1. Handled /\ Unmoved
  BY DEF ToggleRun
<1>2. CASE sim.cpu.halted
  <2>1. app' = Note(Pressed, "error")
    BY <1>2 DEF ToggleRun
  <2>2. app' \in App /\ app'.engine = app.engine /\ app'.redraw
    BY <2>1, PressedType, AppType DEF IInv
  <2> QED
    BY <1>1, <2>2, KeyUnmoved
<1>3. CASE ~sim.cpu.halted
  <2>1. app' = [Pressed EXCEPT !.running = ~@]
    BY <1>3 DEF ToggleRun
  <2>2. app' \in App /\ app'.engine = app.engine /\ app'.redraw
    BY <2>1, PressedType DEF IInv, App
  <2> QED
    BY <1>1, <2>2, KeyUnmoved
<1> QED
  BY <1>2, <1>3

LEMMA StepStep == ASSUME IInv, Step PROVE IInv'
<1>1. PICK n \in {0, 1}, fault \in BOOLEAN :
        /\ Cycle(n, fault)
        /\ app' = IF fault THEN Note(Pressed, "error") ELSE Pressed
  BY DEF Step
<1>2. Handled /\ Loaded
  BY DEF Step
<1>3. MachineAfter /\ sim'.cpu.engine = sim.cpu.engine
  BY <1>1, <1>2, CycleMachine DEF IInv, Machine
<1>4. app' \in App /\ app'.engine = app.engine /\ app'.redraw
  BY <1>1, PressedType, AppType DEF IInv
<1>5. EngineShown'
  BY <1>2, <1>3, <1>4 DEF IInv, EngineShown
<1> QED
  BY <1>2, <1>3, <1>4, <1>5, AfterKey

(* Opening a program under the engine shown.                               *)
LEMMA OpenKeepsEngine ==
    ASSUME IInv, NEW image \in Images, Open(image, app.engine), app'.engine = app.engine
    PROVE  MachineAfter /\ EngineShown'
<1>1. app.engine \in Engines
  BY DEF IInv, TypeOK, App
<1>2. /\ MachineAfter
      /\ BootFits(image) => sim'.open /\ sim'.cpu.engine = app.engine
      /\ ~BootFits(image) => sim' = sim
  BY <1>1, OpenMachine DEF IInv, Machine
<1> QED
  BY <1>2 DEF IInv, EngineShown, Loaded

LEMMA LoadFileStep == ASSUME IInv, LoadFile PROVE IInv'
<1>1. PICK image \in Images :
        /\ Open(image, app.engine)
        /\ app' = IF BootFits(image) THEN Stopped(Pressed, "info") ELSE Note(Pressed, "error")
  BY DEF LoadFile
<1>2. app' \in App /\ app'.engine = app.engine /\ app'.redraw
  BY <1>1, PressedType, AppType DEF IInv
<1> QED
  BY <1>1, <1>2, OpenKeepsEngine, AfterKey DEF LoadFile

LEMMA ReloadStep == ASSUME IInv, Reload PROVE IInv'
<1>1. PICK image \in Images :
        /\ Open(image, app.engine)
        /\ app' = Stopped(Pressed, IF BootFits(image) THEN "info" ELSE "error")
  BY DEF Reload
<1>2. app' \in App /\ app'.engine = app.engine /\ app'.redraw
  BY <1>1, PressedType, AppType DEF IInv
<1> QED
  BY <1>1, <1>2, OpenKeepsEngine, AfterKey DEF Reload

LEMMA ResetStep == ASSUME IInv, Reset PROVE IInv'
<1>1. Handled /\ Loaded /\ Reboot(app.engine)
      /\ app' = IF BootFits(KeptImage) THEN Stopped(Pressed, "info") ELSE Note(Pressed, "error")
  BY DEF Reset
<1>2. app' \in App /\ app'.engine = app.engine /\ app'.redraw
  BY <1>1, PressedType, AppType DEF IInv
<1>3. MachineAfter /\ sim'.cpu.engine = app.engine
  BY <1>1, RebootMachine DEF IInv, Machine, TypeOK, App
<1>4. EngineShown'
  BY <1>2, <1>3 DEF EngineShown
<1> QED
  BY <1>1, <1>2, <1>3, <1>4, AfterKey

LEMMA SetEngineStep == ASSUME IInv, SetEngine PROVE IInv'
<1>1. PICK engine \in Engines :
        LET switched == [Pressed EXCEPT !.engine = engine] IN
        IF Loaded
        THEN /\ Reboot(engine)
             /\ app' = Stopped(switched, IF BootFits(KeptImage) THEN "info" ELSE "error")
        ELSE Unmoved /\ app' = Stopped(switched, "info")
  BY DEF SetEngine
<1> DEFINE switched == [Pressed EXCEPT !.engine = engine]
<1>2. switched \in App /\ switched.engine = engine /\ switched.redraw
  BY PressedType DEF IInv, App
<1>3. CASE Loaded
  <2>1. Reboot(engine) /\ app' = Stopped(switched, IF BootFits(KeptImage) THEN "info" ELSE "error")
    BY <1>1, <1>3
  <2> HIDE DEF switched
  <2>2. app' \in App /\ app'.engine = engine /\ app'.redraw
    BY <1>2, <2>1, AppType
  <2>3. MachineAfter /\ sim'.cpu.engine = engine
    BY <1>3, <2>1, RebootMachine DEF IInv, Machine
  <2>4. EngineShown'
    BY <2>2, <2>3 DEF EngineShown
  <2> QED
    BY <2>2, <2>3, <2>4, AfterKey DEF SetEngine
<1>4. CASE ~Loaded
  <2>1. Unmoved /\ app' = Stopped(switched, "info")
    BY <1>1, <1>4
  <2> HIDE DEF switched
  <2>2. app' \in App /\ app'.redraw
    BY <1>2, <2>1, AppType
  <2>3. MachineAfter
    BY <2>1, UnmovedMachine DEF IInv, Machine
  <2>4. EngineShown'
    BY <1>4, <2>1 DEF EngineShown, Loaded, Unmoved
  <2> QED
    BY <2>2, <2>3, <2>4, AfterKey DEF SetEngine
<1> QED
  BY <1>3, <1>4

LEMMA SetPcStep == ASSUME IInv, SetPc PROVE IInv'
<1>1. PICK pc \in Pcs :
        LET cpu == [sim.cpu EXCEPT !.pc = pc] IN
        /\ sim' = [sim EXCEPT !.cpu = cpu]
        /\ bus' = PublishOver(bus, cpu, FALSE)
        /\ ahead' = ahead + 1
  BY DEF SetPc
<1>2. Handled /\ Loaded /\ app' = Note(Pressed, "info")
  BY DEF SetPc
<1> DEFINE cpu == [sim.cpu EXCEPT !.pc = pc]
<1>3. cpu \in Cpu /\ cpu.engine = sim.cpu.engine
  BY DEF IInv, TypeOK, Cpu
<1>4. /\ sim' = [sim EXCEPT !.cpu = cpu] /\ bus' = PublishOver(bus, cpu, FALSE)
      /\ ahead' = ahead + 1
  BY <1>1
<1> HIDE DEF cpu
<1>5. /\ bus' \in [snapshot : Snap, program : Programs]
      /\ bus'.snapshot = Snapshot(cpu, FALSE) /\ bus'.snapshot.fault = FALSE
  BY <1>3, <1>4, PublishType DEF IInv, TypeOK
<1>6. /\ sim' \in [open : BOOLEAN, image : Programs, cpu : Cpu]
      /\ sim'.open = sim.open /\ sim'.image = sim.image /\ sim'.cpu = cpu
  BY <1>3, <1>4 DEF IInv, TypeOK
<1>7. OpenFits' /\ SnapshotCurrent'
  BY <1>5, <1>6 DEF IInv, OpenFits, SnapshotCurrent, Loaded, BootFits
<1>8. MachineAfter
  <2>1. ahead' \in Nat
    BY <1>4 DEF IInv, TypeOK
  <2> QED
    BY <1>5, <1>6, <1>7, <2>1 DEF MachineAfter
<1>9. app' \in App /\ app'.engine = app.engine /\ app'.redraw
  BY <1>2, PressedType, AppType DEF IInv
<1>10. EngineShown'
  BY <1>2, <1>3, <1>6, <1>9 DEF IInv, EngineShown
<1> QED
  BY <1>2, <1>8, <1>9, <1>10, AfterKey
-----------------------------------------------------------------------------
(* The steps of the loop itself.                                           *)
LEMMA StartStep == ASSUME IInv, Start PROVE IInv'
<1>1. phase = "start" /\ phase' = "draw" /\ screen' = screen /\ app.redraw /\ ~app.running
  BY DEF Start, IInv, Fresh
<1>2. MachineAfter /\ EngineShown' /\ app' \in App /\ app'.redraw /\ ~app'.running
  <2>1. app \in App
    BY DEF IInv, TypeOK
  <2>2. CASE /\ ahead' = ahead + 1 /\ app' = Note(app, "info")
             /\ UNCHANGED <<store, sim, bus>>
    <3>1. app' \in App /\ app'.redraw /\ ~app'.running /\ app'.engine = app.engine
      BY <1>1, <2>1, <2>2, AppType
    <3>2. MachineAfter
      BY <2>2 DEF IInv, TypeOK, MachineAfter, OpenFits, SnapshotCurrent, Loaded, BootFits
    <3> QED
      BY <2>2, <3>1, <3>2 DEF IInv, EngineShown, Loaded
  <2>3. CASE Unmoved /\ app' = Note(app, "error")
    <3>1. app' \in App /\ app'.redraw /\ ~app'.running /\ app'.engine = app.engine
      BY <1>1, <2>1, <2>3, AppType
    <3> QED
      BY <2>3, <3>1, UnmovedMachine, EngineKept DEF IInv, Machine
  <2>4. CASE \E image \in Images :
               /\ Open(image, app.engine)
               /\ app' = Note(app, IF BootFits(image) THEN "info" ELSE "error")
    <3>1. PICK image \in Images :
               /\ Open(image, app.engine)
               /\ app' = Note(app, IF BootFits(image) THEN "info" ELSE "error")
      BY <2>4
    <3>2. app' \in App /\ app'.redraw /\ ~app'.running /\ app'.engine = app.engine
      BY <1>1, <2>1, <3>1, AppType
    <3> QED
      BY <3>1, <3>2, OpenKeepsEngine
  <2> QED
    BY <2>2, <2>3, <2>4 DEF Start
<1>3. TypeOK'
  BY <1>1, <1>2 DEF MachineAfter, TypeOK, Phases
<1>4. RunningIsLive' /\ Fresh'
  BY <1>1, <1>2 DEF RunningIsLive, Fresh
<1> QED
  BY <1>2, <1>3, <1>4 DEF IInv, MachineAfter

LEMMA DrawStep == ASSUME IInv, Draw PROVE IInv'
<1>1. phase = "draw" /\ phase' = "poll" /\ UNCHANGED <<store, sim, bus>>
  BY DEF Draw
<1>2. /\ app' \in App /\ ~app'.redraw /\ app'.running = app.running
      /\ app'.engine = app.engine /\ app'.message = app.message
      /\ ahead' = 0 /\ screen' = Rendered
  <2>1. CASE app.redraw \/ ahead # 0
    <3>1. screen' = Rendered /\ ahead' = 0 /\ app' = [app EXCEPT !.redraw = FALSE]
      BY <2>1 DEF Draw
    <3> QED
      BY <3>1 DEF IInv, TypeOK, App
  <2>2. CASE ~(app.redraw \/ ahead # 0)
    <3>1. UNCHANGED <<screen, ahead, app>>
      BY <2>2 DEF Draw
    <3>2. screen = Rendered
      BY <1>1, <2>2 DEF IInv, Fresh
    <3> QED
      BY <2>2, <3>1, <3>2 DEF IInv, TypeOK
  <2> QED
    BY <2>1, <2>2
<1>3. Rendered' = Rendered
  BY <1>1, <1>2 DEF Rendered, Dump, ByteAt
<1>4. app.running => Loaded /\ ~sim.cpu.halted /\ ~bus.snapshot.fault
  BY <1>1 DEF IInv, RunningIsLive
<1>5. TypeOK'
  BY <1>1, <1>2 DEF IInv, TypeOK, Phases
<1>6. OpenFits' /\ SnapshotCurrent' /\ EngineShown'
  BY <1>1, <1>2 DEF IInv, OpenFits, SnapshotCurrent, EngineShown, Loaded, BootFits
<1>7. RunningIsLive' /\ Fresh'
  BY <1>1, <1>2, <1>3, <1>4 DEF RunningIsLive, Fresh, Loaded
<1> QED
  BY <1>5, <1>6, <1>7 DEF IInv

LEMMA QuitStep == ASSUME IInv, Quit PROVE IInv'
<1>1. phase' = "quit" /\ UNCHANGED <<store, app, sim, bus, ahead, screen>>
  BY DEF Quit
<1>2. TypeOK' /\ OpenFits' /\ SnapshotCurrent' /\ EngineShown'
  BY <1>1 DEF IInv, TypeOK, Phases, OpenFits, SnapshotCurrent, EngineShown, Loaded, BootFits
<1>3. RunningIsLive' /\ Fresh'
  BY <1>1 DEF RunningIsLive, Fresh
<1> QED
  BY <1>2, <1>3 DEF IInv

(* A burst leaves a generation more, or nothing has happened: a program    *)
(* shown as running that cannot run was left by a key that asked for a     *)
(* redraw.                                                                 *)
LEMMA BurstStep == ASSUME IInv, Burst PROVE IInv'
<1>1. phase = "burst" /\ phase' = "draw" /\ screen' = screen
  BY DEF Burst
<1>2. app \in App /\ Machine
  BY DEF IInv, TypeOK, Machine
<1>3. CASE ~app.running
  <2>1. Unmoved /\ app' = app
    BY <1>3 DEF Burst
  <2>2. MachineAfter /\ EngineShown'
    BY <1>2, <2>1, UnmovedMachine, EngineKept DEF IInv
  <2>3. Rendered' = Rendered
    BY <2>1, SameRendered DEF Unmoved
  <2>4. TypeOK'
    BY <1>1, <1>2, <2>1, <2>2 DEF MachineAfter, TypeOK, Phases
  <2>5. RunningIsLive' /\ Fresh'
    BY <1>1, <1>3, <2>1, <2>3 DEF IInv, RunningIsLive, Fresh, Unmoved
  <2> QED
    BY <2>2, <2>4, <2>5 DEF IInv, MachineAfter
<1>4. CASE app.running /\ Loaded /\ ~sim.cpu.halted
  <2>1. PICK fault \in BOOLEAN :
          /\ Cycle(1, fault)
          /\ app' = IF fault THEN Stopped(app, "error")
                    ELSE [app EXCEPT !.running = ~sim'.cpu.halted]
    BY <1>4 DEF Burst
  <2>2. /\ MachineAfter /\ sim'.open /\ sim'.cpu.engine = sim.cpu.engine
        /\ ahead' = ahead + 1 /\ bus'.snapshot.fault = fault
    BY <1>2, <1>4, <2>1, CycleMachine
  <2>3. sim'.cpu.halted \in BOOLEAN /\ ahead' \in Nat /\ ahead' # 0
    BY <2>2 DEF MachineAfter, Cpu, IInv, TypeOK
  <2>4. /\ app' \in App /\ app'.engine = app.engine
        /\ app'.running => ~fault /\ ~sim'.cpu.halted
    <3>1. CASE fault
      BY <1>2, <2>1, <3>1, AppType
    <3>2. CASE ~fault
      BY <1>2, <2>1, <2>3, <3>2 DEF App
    <3> QED
      BY <3>1, <3>2
  <2>5. TypeOK'
    BY <1>1, <2>2, <2>4 DEF MachineAfter, TypeOK, Phases
  <2>6. EngineShown'
    BY <1>4, <2>2, <2>4 DEF IInv, EngineShown
  <2>7. RunningIsLive' /\ Fresh'
    BY <1>1, <2>2, <2>3, <2>4 DEF RunningIsLive, Fresh, Loaded
  <2> QED
    BY <2>2, <2>5, <2>6, <2>7 DEF IInv, MachineAfter
<1>5. CASE app.running /\ ~(Loaded /\ ~sim.cpu.halted)
  <2>1. Unmoved /\ app' = [app EXCEPT !.running = FALSE]
    BY <1>5 DEF Burst
  <2>2. app' \in App /\ ~app'.running /\ app'.redraw = app.redraw /\ app'.engine = app.engine
    BY <1>2, <2>1 DEF App
  <2>3. MachineAfter /\ EngineShown'
    BY <1>2, <2>1, <2>2, UnmovedMachine, EngineKept DEF IInv
  <2>4. app.redraw \/ ahead # 0
    BY <1>1, <1>5 DEF IInv, Fresh
  <2>5. TypeOK'
    BY <1>1, <2>2, <2>3 DEF MachineAfter, TypeOK, Phases
  <2>6. RunningIsLive' /\ Fresh'
    BY <1>1, <2>1, <2>2, <2>4 DEF RunningIsLive, Fresh, Unmoved
  <2> QED
    BY <2>3, <2>5, <2>6 DEF IInv, MachineAfter
<1> QED
  BY <1>3, <1>4, <1>5

LEMMA InitIInv == Init => IInv
<1> SUFFICES ASSUME Init PROVE IInv
  OBVIOUS
<1>1. NewCpu("onestep", 0) \in Cpu /\ NewCpu("onestep", 0).engine = "onestep"
  BY DEF NewCpu, Cpu, Engines, Latches
<1>2. Snapshot(NewCpu("onestep", 0), FALSE) \in Snap
  BY <1>1, SnapshotType
<1>3. sim \in [open : BOOLEAN, image : Programs, cpu : Cpu] /\ ~sim.open
  BY <1>1 DEF Init, NoSim, Programs
<1>4. app \in App /\ app.redraw /\ ~app.running
  BY DEF Init, InitApp, App, Engines
<1>5. TypeOK
  BY <1>2, <1>3, <1>4 DEF Init, TypeOK, Phases, Programs
<1>6. OpenFits /\ SnapshotCurrent /\ EngineShown /\ RunningIsLive /\ Fresh
  BY <1>3, <1>4 DEF Init, OpenFits, SnapshotCurrent, EngineShown, RunningIsLive, Fresh, Loaded
<1> QED
  BY <1>5, <1>6 DEF IInv

LEMMA NextIInv == IInv /\ [Next]_vars => IInv'
<1> SUFFICES ASSUME IInv, [Next]_vars PROVE IInv'
  OBVIOUS
<1>1. CASE UNCHANGED vars
  <2>1. UNCHANGED <<store, app, sim, bus, ahead, screen, phase>>
    BY <1>1 DEF vars
  <2>2. Rendered' = Rendered
    BY <2>1, SameRendered
  <2>3. TypeOK' /\ OpenFits' /\ SnapshotCurrent' /\ EngineShown'
    BY <2>1 DEF IInv, TypeOK, OpenFits, SnapshotCurrent, EngineShown, Loaded, BootFits
  <2>4. RunningIsLive' /\ Fresh'
    BY <2>1, <2>2 DEF IInv, RunningIsLive, Fresh, Loaded
  <2> QED
    BY <2>3, <2>4 DEF IInv
<1>2. CASE Next
  BY <1>2, StartStep, DrawStep, NoKeyStep, OtherKeyStep, NeedsProgramStep, StepStep, ToggleRunStep,
     LoadFailsStep, LoadFileStep, ReloadStep, ResetStep, SetEngineStep, SetPcStep, QuitStep, BurstStep
     DEF Next
<1> QED
  BY <1>1, <1>2

LEMMA Inductive == Spec => []IInv
  BY InitIInv, NextIInv, PTL DEF Spec

(* Every variable keeps its type. *)
THEOREM TypeCorrect == Spec => []TypeOK
<1>1. IInv => TypeOK
  BY DEF IInv
<1> QED
  BY <1>1, Inductive, PTL

(* The bus never shows a processor other than the open program's, through  *)
(* loads that fail halfway, reboots and switches of engine (Sim::load,     *)
(* Sim::reboot, boot).                                                     *)
THEOREM SnapshotCurrentAlways == Spec => []SnapshotCurrent
<1>1. IInv => SnapshotCurrent
  BY DEF IInv
<1> QED
  BY <1>1, Inductive, PTL

(* The event loop never polls with a stale frame (run_loop's test of       *)
(* needs_redraw and of the generation).                                    *)
THEOREM ScreenCurrentAlways == Spec => []ScreenCurrent
<1>1. IInv => ScreenCurrent
  BY DEF IInv, Fresh, ScreenCurrent
<1> QED
  BY <1>1, Inductive, PTL

(* The engine named in the status line is the one that runs (set_engine).  *)
THEOREM EngineShownAlways == Spec => []EngineShown
<1>1. IInv => EngineShown
  BY DEF IInv
<1> QED
  BY <1>1, Inductive, PTL

(* A program shown as running has neither halted nor faulted (burst).      *)
THEOREM RunningIsLiveAlways == Spec => []RunningIsLive
<1>1. IInv => RunningIsLive
  BY DEF IInv
<1> QED
  BY <1>1, Inductive, PTL
-----------------------------------------------------------------------------
(* The pages implement plain bytes: addresses split into page and offset   *)
(* without loss, so a write that straddles pages lands where it should.    *)
LEMMA PageSplit ==
    ASSUME NEW x \in Nat
    PROVE  OffOf(x) \in 0 .. PageSize - 1 /\ PageOf(x) * PageSize + OffOf(x) = x
  BY MemorySizesAssumption DEF OffOf, PageOf

LEMMA AddrBound == MaxAddr \in Nat /\ Addr \subseteq Nat
<1>1. PageSize \in Nat /\ PageSize >= 1 /\ TopPage \in Nat
  BY MemorySizesAssumption
<1>2. (TopPage + 1) * PageSize \in Nat /\ (TopPage + 1) * PageSize >= 1
  BY <1>1
<1> QED
  BY <1>2 DEF MaxAddr, Addr

LEMMA PutByteAt ==
    ASSUME NEW s, NEW a \in Nat, NEW S, NEW bs \in Seq(S), NEW x \in Addr
    PROVE  ByteAt(PutBytes(s, a, bs), x) =
               IF x >= a /\ x < a + Len(bs) THEN bs[x - a + 1] ELSE ByteAt(s, x)
<1> DEFINE after == PutBytes(s, a, bs)
<1>1. x \in Nat /\ OffOf(x) \in 0 .. PageSize - 1 /\ PageOf(x) * PageSize + OffOf(x) = x
  BY PageSplit, AddrBound
<1>2. DOMAIN after = DOMAIN s \cup TouchedPages(a, bs)
  BY DEF PutBytes
<1>3. DOMAIN bs = 1 .. Len(bs) /\ Len(bs) \in Nat
  BY LenProperties
<1>4. CASE PageOf(x) \in DOMAIN after
  <2>1. after[PageOf(x)] =
          [o \in 0 .. PageSize - 1 |->
              LET y == PageOf(x) * PageSize + o IN
              IF y >= a /\ y < a + Len(bs) THEN bs[y - a + 1] ELSE ByteAt(s, y)]
    BY <1>2, <1>4 DEF PutBytes
  <2>2. after[PageOf(x)][OffOf(x)] =
          IF x >= a /\ x < a + Len(bs) THEN bs[x - a + 1] ELSE ByteAt(s, x)
    BY <1>1, <2>1
  <2> QED
    BY <1>4, <2>2 DEF ByteAt
<1>5. CASE PageOf(x) \notin DOMAIN after
  <2>1. ~(x >= a /\ x < a + Len(bs))
    <3>1. SUFFICES ASSUME x >= a, x < a + Len(bs) PROVE FALSE
      OBVIOUS
    <3>2. x - a + 1 \in DOMAIN bs /\ a + (x - a + 1) - 1 = x
      BY <1>1, <1>3, <3>1
    <3>3. PageOf(x) \in TouchedPages(a, bs)
      BY <3>2 DEF TouchedPages
    <3> QED
      BY <1>2, <1>5, <3>3
  <2>2. PageOf(x) \notin DOMAIN s
    BY <1>2, <1>5
  <2> QED
    BY <1>5, <2>1, <2>2 DEF ByteAt
<1> QED
  BY <1>4, <1>5

LEMMA BigEndianSeq ==
    ASSUME NEW v, NEW w \in Widths
    PROVE  /\ \E S : BigEndian(v, w) \in Seq(S)
           /\ Len(BigEndian(v, w)) = w
<1> DEFINE b == BigEndian(v, w)
           S == { b[i] : i \in 1 .. w }
<1>1. w \in Nat
  BY MemorySizesAssumption
<1>2. b = [i \in 1 .. w |-> b[i]]
  BY DEF BigEndian
<1> HIDE DEF b
<1>3. b \in [1 .. w -> S]
  BY <1>2
<1>4. b \in Seq(S)
  BY <1>1, <1>3, SeqDef
<1>5. DOMAIN b = 1 .. Len(b) /\ Len(b) \in Nat
  BY <1>4, LenProperties
<1>6. 1 .. w = 1 .. Len(b)
  BY <1>3, <1>5
<1>7. Len(b) = w
  <2>1. ASSUME w >= 1 PROVE w <= Len(b)
    <3>1. w \in 1 .. w
      BY <1>1, <2>1
    <3>2. w \in 1 .. Len(b)
      BY <1>6, <3>1, Zenon
    <3> QED
      BY <1>1, <1>5, <3>2
  <2>2. ASSUME Len(b) >= 1 PROVE Len(b) <= w
    <3>1. Len(b) \in 1 .. Len(b)
      BY <1>5, <2>2
    <3>2. Len(b) \in 1 .. w
      BY <1>6, <3>1, Zenon
    <3> QED
      BY <1>1, <1>5, <3>2
  <2>3. w <= Len(b) /\ Len(b) <= w
    BY <1>1, <1>5, <2>1, <2>2
  <2>4. \A m, n \in Nat : m <= n /\ n <= m => m = n
    OBVIOUS
  <2> QED
    BY <1>1, <1>5, <2>3, <2>4, Zenon
<1> QED
  BY <1>4, <1>7 DEF b

(* The plain bytes that a store stands for. *)
Bytes(s) == [a \in Addr |-> ByteAt(s, a)]

(* One write to pages is one write to plain bytes, when it is in range.    *)
LEMMA PutFlat ==
    ASSUME NEW s, NEW a \in Addr, NEW S, NEW image \in Seq(S), CheckRange(a, Len(image))
    PROVE  /\ a + Len(image) <= MaxAddr + 1
           /\ Bytes(PutBytes(s, a, image)) = Flat!Over(Bytes(s), a, image)
           /\ DOMAIN PutBytes(s, a, image) = DOMAIN s \cup Flat!Touched(a, image)
<1>1. a \in Nat /\ a <= MaxAddr /\ MaxAddr \in Nat /\ Len(image) \in Nat
  BY AddrBound, LenProperties DEF Addr
<1>2. a + Len(image) <= MaxAddr + 1
  BY <1>1 DEF CheckRange
<1>3. \A x \in Addr : ByteAt(PutBytes(s, a, image), x) =
          IF x >= a /\ x < a + Len(image) THEN image[x - a + 1] ELSE ByteAt(s, x)
  BY <1>1, PutByteAt
<1>4. Bytes(PutBytes(s, a, image)) = Flat!Over(Bytes(s), a, image)
  BY <1>3 DEF Bytes, Flat!Over, Addr, Flat!Addr
<1>5. DOMAIN PutBytes(s, a, image) = DOMAIN s \cup TouchedPages(a, image)
  BY DEF PutBytes
<1>6. TouchedPages(a, image) = Flat!Touched(a, image)
  BY DEF TouchedPages, PageOf, Flat!Touched
<1> QED
  BY <1>2, <1>4, <1>5, <1>6

LEMMA EmptyFlat == Bytes(Empty) = Flat!Zero /\ DOMAIN Empty = {}
<1>1. DOMAIN Empty = {}
  BY DEF Empty
<1>2. \A x : ByteAt(Empty, x) = 0
  BY <1>1 DEF ByteAt
<1> QED
  BY <1>1, <1>2 DEF Bytes, Flat!Zero, Addr, Flat!Addr

(* What a step may do to memory, and what that is of plain bytes.          *)
LEMMA ClearFlat == ASSUME Clear PROVE Flat!Clear
  BY EmptyFlat DEF Clear, Flat!Clear, Bytes

LEMMA ReplaceFlat ==
    ASSUME NEW image \in Images, BootFits(image), store' = PutBytes(Empty, LoadAddr, image)
    PROVE  Flat!Next
<1>1. LoadAddr \in Addr /\ image \in Seq(ByteValue)
  BY SessionAssumption
<1>2. CheckRange(LoadAddr, Len(image))
  BY DEF BootFits
<1>3. /\ LoadAddr + Len(image) <= MaxAddr + 1
      /\ Bytes(PutBytes(Empty, LoadAddr, image)) = Flat!Over(Bytes(Empty), LoadAddr, image)
      /\ DOMAIN PutBytes(Empty, LoadAddr, image) = DOMAIN Empty \cup Flat!Touched(LoadAddr, image)
  BY <1>1, <1>2, PutFlat
<1>4. /\ Bytes(store') = Flat!Over(Flat!Zero, LoadAddr, image)
      /\ DOMAIN store' = Flat!Touched(LoadAddr, image)
  BY <1>3, EmptyFlat
<1>5. Flat!Replace(LoadAddr, image)
  BY <1>3, <1>4 DEF Flat!Replace, Bytes
<1>6. LoadAddr \in Flat!Addr
  BY <1>1 DEF Addr, Flat!Addr
<1> QED
  BY <1>5, <1>6 DEF Flat!Next

LEMMA WriteFlat ==
    ASSUME NEW a \in StoreTo, NEW w \in Widths, NEW v \in Values, Write(a, w, v)
    PROVE  Flat!Next
<1> DEFINE image == BigEndian(v, w)
<1>1. PICK S : image \in Seq(S)
  BY BigEndianSeq
<1>2. a \in Addr /\ Len(image) = w
  BY SessionAssumption, BigEndianSeq
<1>3. CheckRange(a, Len(image)) /\ store' = PutBytes(store, a, image)
  BY <1>2 DEF Write, WriteFaults
<1> HIDE DEF image
<1>4. /\ a + Len(image) <= MaxAddr + 1
      /\ Bytes(store') = Flat!Over(Bytes(store), a, image)
      /\ DOMAIN store' = DOMAIN store \cup Flat!Touched(a, image)
  BY <1>1, <1>2, <1>3, PutFlat
<1>5. Flat!Put(a, image)
  BY <1>4 DEF Flat!Put, Bytes
<1>6. a \in Flat!Addr
  BY <1>2 DEF Addr, Flat!Addr
<1> QED
  BY <1>5, <1>6 DEF Flat!Next, image

LEMMA OpenFlat ==
    ASSUME NEW image \in Images, NEW e, Open(image, e) PROVE Flat!Next
<1>1. CASE BootFits(image)
  <2>1. store' = PutBytes(Empty, LoadAddr, image)
    BY <1>1 DEF Open
  <2> QED
    BY <1>1, <2>1, ReplaceFlat
<1>2. CASE ~BootFits(image)
  <2>1. Clear
    BY <1>2 DEF Open
  <2> QED
    BY <2>1, ClearFlat DEF Flat!Next
<1> QED
  BY <1>1, <1>2

LEMMA RebootFlat ==
    ASSUME IInv, Loaded, NEW e, Reboot(e) PROVE Flat!Next
<1>1. KeptImage \in Images /\ BootFits(KeptImage)
  BY DEF IInv, OpenFits, KeptImage
<1> QED
  BY <1>1, ReplaceFlat DEF Reboot

LEMMA CycleFlat ==
    ASSUME NEW n, NEW fault, Cycle(n, fault) PROVE Flat!Next \/ UNCHANGED store
  BY WriteFlat DEF Cycle

LEMMA StepFlat == ASSUME IInv, [Next]_vars PROVE Flat!Next \/ UNCHANGED store
<1>1. CASE UNCHANGED vars
  BY <1>1 DEF vars
<1>2. CASE Start
  BY <1>2, OpenFlat DEF Start, Unmoved
<1>3. CASE Draw \/ Quit \/ SetPc
  BY <1>3 DEF Draw, Quit, SetPc
<1>4. CASE NoKey \/ OtherKey \/ NeedsProgram \/ ToggleRun \/ LoadFails
  BY <1>4, Zenon DEF NoKey, OtherKey, NeedsProgram, ToggleRun, LoadFails, Unmoved
<1>5. CASE Step
  BY <1>5, CycleFlat DEF Step
<1>6. CASE LoadFile \/ Reload
  BY <1>6, OpenFlat DEF LoadFile, Reload
<1>7. CASE Reset
  BY <1>7, RebootFlat DEF Reset
<1>8. CASE SetEngine
  BY <1>8, RebootFlat DEF SetEngine, Unmoved
<1>9. CASE Burst
  <2>1. Unmoved \/ \E fault \in BOOLEAN : Cycle(1, fault)
    BY <1>9, Zenon DEF Burst
  <2> QED
    BY <2>1, CycleFlat DEF Unmoved
<1> QED
  BY <1>1, <1>2, <1>3, <1>4, <1>5, <1>6, <1>7, <1>8, <1>9 DEF Next

(* Simulated memory under the session implements one flat array of bytes   *)
(* and a set of mapped pages: allocating pages on the first write, and     *)
(* writing bytes that straddle two of them, is never observed.             *)
THEOREM MemoryRefined == Spec => RefinesFlat
<1>1. Init => Flat!Init
  BY EmptyFlat DEF Init, Flat!Init, Bytes
<1>2. IInv /\ [Next]_vars => [Flat!Next]_(Flat!flat)
  <2> SUFFICES ASSUME IInv, [Next]_vars PROVE [Flat!Next]_(Flat!flat)
    OBVIOUS
  <2>1. CASE Flat!Next
    BY <2>1
  <2>2. CASE UNCHANGED store
    BY <2>2 DEF Flat!flat, ByteAt
  <2> QED
    BY <2>1, <2>2, StepFlat
<1> QED
  BY <1>1, <1>2, Inductive, PTL DEF Spec, RefinesFlat, Flat!Spec
=============================================================================
