----------------------------- MODULE UiSession -----------------------------
(***************************************************************************)
(* The interactive session, src/vea_sim/src/ui/mod.rs, over simulated      *)
(* memory and the shared bus, src/vea_sim/src/shared.rs: the event loop    *)
(* draws when something changed, handles one event, and advances a free-   *)
(* running program by a burst.                                             *)
(*                                                                         *)
(* The processors are abstract: Onestep and Nstep say what a cycle does.   *)
(* Here a cycle may leave any program counter and latches, halt, fault, or *)
(* store.  What a file holds when it is read is anybody's choice.          *)
(***************************************************************************)
EXTENDS Memory

CONSTANTS
    LoadAddr,   \* where programs are loaded, --load
    Images,     \* the programs that assemble, as their images
    Pcs,        \* the program counters a cycle or :pc may leave
    StoreTo,    \* the addresses a cycle may store at
    Values      \* and the values

ASSUME SessionAssumption ==
    /\ LoadAddr \in Addr
    /\ \A image \in Images : image \in Seq(ByteValue)
    /\ LoadAddr \in Pcs
    /\ StoreTo \subseteq Addr
    /\ Values \subseteq Nat

VARIABLES
    app,        \* running, engine, needs_redraw and the kind of message shown
    sim,        \* the open program, if there is one: its image and processor
    bus,        \* snapshot and listing
    ahead,      \* generations the bus is ahead of the frame on the screen
    screen,     \* what that frame shows
    phase       \* where the event loop is: start, draw, poll, burst or quit

vars == <<store, app, sim, bus, ahead, screen, phase>>

Engines == {"onestep", "nstep"}
Latches == {"empty", "busy"}
Loaded == sim.open
-----------------------------------------------------------------------------
(* A processor as it is shown; only nstep has latches.                     *)
NewCpu(engine, pc) ==
    [engine |-> engine, pc |-> pc, halted |-> FALSE,
     latches |-> IF engine = "nstep" THEN "empty" ELSE "none"]

Snapshot(cpu, fault) ==
    [pc |-> cpu.pc, halted |-> cpu.halted, pipeline |-> cpu.latches, fault |-> fault]

PublishOver_NotOnFault(b, cpu, fault) ==
    IF fault THEN b ELSE [b EXCEPT !.snapshot = Snapshot(cpu, fault)]

(* publish: the new snapshot, and a generation more.                       *)
PublishOver(b, cpu, fault) == [b EXCEPT !.snapshot = Snapshot(cpu, fault)]

(* What draw paints. *)
Rendered ==
    [app |-> [running |-> app.running, engine |-> app.engine, message |-> app.message],
     snapshot |-> bus.snapshot, program |-> bus.program,
     memory |-> Dump(0, MaxAddr + 1), pages |-> DOMAIN store]

(* app.info and app.error; a message stays until the next. *)
Note(a, message) == [a EXCEPT !.message = message]

Stopped_StillRunning(a, message) == [a EXCEPT !.message = message]

Stopped(a, message) == [a EXCEPT !.message = message, !.running = FALSE]
-----------------------------------------------------------------------------
(* Sim::load on a file that assembles: the listing is installed before     *)
(* boot clears memory and loads the image, which may not fit.              *)
BootFits(image) == CheckRange(LoadAddr, Len(image))

Open(image, engine) ==
    LET cpu == NewCpu(engine, LoadAddr)
        listed == [bus EXCEPT !.program = image]
    IN IF BootFits(image)
       THEN /\ store' = PutBytes(Empty, LoadAddr, image)
            /\ sim' = [open |-> TRUE, image |-> image, cpu |-> cpu]
            /\ bus' = PublishOver(listed, cpu, FALSE)
            /\ ahead' = ahead + 2
       ELSE /\ Clear /\ bus' = listed /\ ahead' = ahead + 1
            /\ UNCHANGED sim

KeptImage_Listed == bus.program

KeptImage == sim.image

(* Sim::reboot: boot of the image kept from the load.                      *)
Reboot(engine) ==
    LET cpu == NewCpu(engine, LoadAddr) IN
    IF BootFits(KeptImage)
    THEN /\ store' = PutBytes(Empty, LoadAddr, KeptImage)
         /\ sim' = [sim EXCEPT !.cpu = cpu]
         /\ bus' = PublishOver(bus, cpu, FALSE)
         /\ ahead' = ahead + 1
    ELSE /\ Clear /\ UNCHANGED <<sim, bus, ahead>>

(* A cycle(n) of the processor: nothing but a publish when it has halted   *)
(* or n is zero; otherwise it may run anywhere, and the fault that ends it *)
(* is published and returned.                                              *)
Cycle(n, fault) ==
    \E pc \in Pcs, halts \in BOOLEAN, latches \in Latches :
    LET runs == n > 0 /\ ~sim.cpu.halted
        cpu == IF runs THEN [sim.cpu EXCEPT !.pc = pc, !.halted = halts,
                                !.latches = IF @ = "none" THEN @ ELSE latches]
               ELSE sim.cpu
    IN /\ fault => runs /\ ~halts
       /\ sim' = [sim EXCEPT !.cpu = cpu]
       /\ bus' = PublishOver(bus, cpu, fault)
       /\ ahead' = ahead + 1
       /\ \/ UNCHANGED store
          \/ /\ runs
             /\ \E a \in StoreTo, w \in Widths, v \in Values : Write(a, w, v)

Unmoved == UNCHANGED <<store, sim, bus, ahead>>
-----------------------------------------------------------------------------
Phases == {"start", "draw", "poll", "burst", "quit"}
Programs == Images \cup {<<>>}
App == [running : BOOLEAN, engine : Engines, redraw : BOOLEAN, message : {"none", "info", "error"}]
Cpu == [engine : Engines, pc : Pcs \cup {0}, halted : BOOLEAN, latches : Latches \cup {"none"}]
Snap == [pc : Pcs \cup {0}, halted : BOOLEAN, pipeline : Latches \cup {"none"}, fault : BOOLEAN]

TypeOK ==
    /\ app \in App
    /\ sim \in [open : BOOLEAN, image : Programs, cpu : Cpu]
    /\ bus \in [snapshot : Snap, program : Programs]
    /\ ahead \in Nat
    /\ phase \in Phases

Blank == [app |-> "none"]

NoSim == [open |-> FALSE, image |-> <<>>, cpu |-> NewCpu("onestep", 0)]

InitApp == [running |-> FALSE, engine |-> "onestep", redraw |-> TRUE, message |-> "none"]

Init ==
    /\ store = Empty /\ app = InitApp /\ sim = NoSim
    /\ bus = [snapshot |-> Snapshot(NewCpu("onestep", 0), FALSE), program |-> <<>>]
    /\ ahead = 0 /\ screen = Blank /\ phase = "start"

(* run: with no program a fresh processor is published; a path given may   *)
(* not be readable, or not assemble, or name a program.                    *)
Start ==
    /\ phase = "start" /\ phase' = "draw" /\ UNCHANGED screen
    /\ \/ /\ ahead' = ahead + 1 /\ app' = Note(app, "info")
          /\ UNCHANGED <<store, sim, bus>>
       \/ Unmoved /\ app' = Note(app, "error")
       \/ \E image \in Images :
             /\ Open(image, app.engine)
             /\ app' = Note(app, IF BootFits(image) THEN "info" ELSE "error")

Draw ==
    /\ phase = "draw"
    /\ IF app.redraw \/ ahead # 0
       THEN /\ screen' = Rendered /\ ahead' = 0
            /\ app' = [app EXCEPT !.redraw = FALSE]
       ELSE UNCHANGED <<screen, ahead, app>>
    /\ phase' = "poll"
    /\ UNCHANGED <<store, sim, bus>>

Pressed_NoRedraw == app

(* Every key press asks for a redraw before it is handled. *)
Pressed == [app EXCEPT !.redraw = TRUE]

Handled == phase = "poll" /\ phase' = "burst" /\ UNCHANGED screen

(* The poll times out, or the terminal is resized. *)
NoKey ==
    /\ Handled /\ Unmoved
    /\ app' \in {app, Pressed}

(* A key that moves nothing but the view, or a command that is refused. *)
OtherKey ==
    /\ Handled /\ Unmoved
    /\ app' \in {Pressed, Note(Pressed, "info"), Note(Pressed, "error")}

NeedsProgram ==
    /\ Handled /\ ~Loaded /\ Unmoved
    /\ app' \in {Note(Pressed, "error"), Stopped(Pressed, "error")}

Step ==
    /\ Handled /\ Loaded
    /\ \E n \in {0, 1}, fault \in BOOLEAN :
        /\ Cycle(n, fault)
        /\ app' = IF fault THEN Note(Pressed, "error") ELSE Pressed

ToggleRun ==
    /\ Handled /\ Loaded /\ Unmoved
    /\ app' = IF sim.cpu.halted THEN Note(Pressed, "error")
              ELSE [Pressed EXCEPT !.running = ~@]

(* A file that cannot be read or does not assemble changes nothing, but a  *)
(* reload has stopped the program by then.                                 *)
LoadFails ==
    /\ Handled /\ Unmoved
    /\ \/ app' = Note(Pressed, "error")
       \/ Loaded /\ app' = Stopped(Pressed, "error")

LoadFile ==
    /\ Handled
    /\ \E image \in Images :
        /\ Open(image, app.engine)
        /\ app' = IF BootFits(image) THEN Stopped(Pressed, "info") ELSE Note(Pressed, "error")

Reload ==
    /\ Handled /\ Loaded
    /\ \E image \in Images :
        /\ Open(image, app.engine)
        /\ app' = Stopped(Pressed, IF BootFits(image) THEN "info" ELSE "error")

Reset ==
    /\ Handled /\ Loaded
    /\ Reboot(app.engine)
    /\ app' = IF BootFits(KeptImage) THEN Stopped(Pressed, "info") ELSE Note(Pressed, "error")

SetEngine ==
    /\ Handled
    /\ \E engine \in Engines :
        LET switched == [Pressed EXCEPT !.engine = engine] IN
        IF Loaded
        THEN /\ Reboot(engine)
             /\ app' = Stopped(switched, IF BootFits(KeptImage) THEN "info" ELSE "error")
        ELSE Unmoved /\ app' = Stopped(switched, "info")

SetPc ==
    /\ Handled /\ Loaded
    /\ \E pc \in Pcs :
        LET cpu == [sim.cpu EXCEPT !.pc = pc] IN
        /\ sim' = [sim EXCEPT !.cpu = cpu]
        /\ bus' = PublishOver(bus, cpu, FALSE)
        /\ ahead' = ahead + 1
    /\ app' = Note(Pressed, "info")
    /\ UNCHANGED store

Quit == phase = "poll" /\ phase' = "quit" /\ UNCHANGED <<store, app, sim, bus, ahead, screen>>

(* What is left of the turn: a burst of a running program.                 *)
Burst ==
    /\ phase = "burst" /\ phase' = "draw" /\ UNCHANGED screen
    /\ CASE ~app.running -> Unmoved /\ UNCHANGED app
         [] app.running /\ Loaded /\ ~sim.cpu.halted ->
                \E fault \in BOOLEAN :
                    /\ Cycle(1, fault)
                    /\ app' = IF fault THEN Stopped(app, "error")
                              ELSE [app EXCEPT !.running = ~sim'.cpu.halted]
         [] OTHER -> Unmoved /\ app' = [app EXCEPT !.running = FALSE]

Next ==
    \/ Start \/ Draw \/ NoKey \/ OtherKey \/ NeedsProgram \/ Step \/ ToggleRun \/ LoadFails
    \/ LoadFile \/ Reload \/ Reset \/ SetEngine \/ SetPc \/ Quit \/ Burst

Spec == Init /\ [][Next]_vars
-----------------------------------------------------------------------------
(* The snapshot on the bus is always of the processor of the open program, *)
(* whatever was loaded, refused or rebooted since.                         *)
SnapshotCurrent == Loaded => bus.snapshot = Snapshot(sim.cpu, bus.snapshot.fault)

(* The loop never waits for input with a stale frame on the screen: the    *)
(* generation counter and needs_redraw cover every change draw would show, *)
(* those of memory included, which have no generation of their own.        *)
ScreenCurrent == phase = "poll" => screen = Rendered

(* The engine shown is the one that runs: the label is switched before the *)
(* reboot, and the reboot of a program that was loaded once cannot fail.   *)
EngineShown == Loaded => app.engine = sim.cpu.engine

(* Only a program that can go on is shown running: a burst stops it when   *)
(* it halts or faults, and when a step in the same turn has halted it.     *)
RunningIsLive ==
    phase \in {"draw", "poll"} /\ app.running =>
        Loaded /\ ~sim.cpu.halted /\ ~bus.snapshot.fault

(* What the session does to the pages is what it would do to plain bytes.  *)
Flat == INSTANCE FlatMemory WITH
    bytes <- [a \in Addr |-> ByteAt(store, a)],
    mapped <- DOMAIN store,
    Blocks <- Images \cup { BigEndian(v, w) : v \in Values, w \in Widths }

RefinesFlat == Flat!Spec
=============================================================================
