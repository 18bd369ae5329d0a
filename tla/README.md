# Verification of VEA

TLA+ models, model-checking runs and machine-checked proofs for the VEA
instruction set's three implementations, the reference simulator (`onestep`),
the pipelined simulator (`nstep`) and the hardware core (`core/*.sv`), and for
what stands around the simulators: the assembler, the paged memory, the
interactive session and the conformance driver.

## 1. The system

| part | source | state it keeps | operations | what makes it correct |
|---|---|---|---|---|
| instruction set | `vea_sim/src/isa.rs` | none | alignment, immediate length, target check, flags | the same answers for every implementation |
| memory | `vea_sim/src/memory.rs` | bytes in 64K pages, allocated by stores | read, write, load, clear, dump, `is_mapped` | one flat array of bytes; blank pages read zero and are not fetched from |
| onestep | `vea_sim/src/onestep/mod.rs` | PC, registers, flags, counters, halted | one instruction per `tick`, 4 cycles each | well-formed after every instruction; faults change nothing |
| nstep | `vea_sim/src/nstep/*.rs` | the same, and the latches IF/ID, ID/EX, EX/WB, `halt_pending` | `tick` = writeback, execute, decode, fetch | the same architectural states as onestep |
| assembler | `vea_sim/src/assembler/mod.rs` | symbol table, label widths | parse, relax, encode, list | the image reads back as the source; relaxation reaches its fixed point |
| shared bus | `vea_sim/src/shared.rs` | last snapshot, listing, generation | publish, install | always of the open program's processor |
| UI session | `vea_sim/src/ui/mod.rs` | loaded program, processor, engine, run state | load, reload, reset, engine switch, `:pc`, step, run, bursts, draws | what is shown is what runs |
| UI view | `vea_sim/src/ui/{app,view,term}.rs` | panes, selection, radix | keys, drawing | reads the session's state only |
| CLI | `vea_sim/src/main.rs` | conform: steps taken | `asm`, `conform`, `run` | the golden register file is that of a halted program |
| RTL fetch | `core/fetch.sv` | state, pc, frame registers | request, wait, deliver, drain | frames in program order, none stale |
| RTL decode | `core/decode.sv` | stage register, halt latch | split a frame, forward selects, index-store second read | operands current at use |
| RTL execute | `core/execute.sv`, `alu.sv`, `mul.sv` | ID/EX register, wait state, flags, fault bits | ALU, branch, memory request, multiply | wrong-path and post-fault instructions change nothing |
| RTL writeback, registers | `core/writeback.sv`, `regfile.sv` | write-back and redirect registers, registers | commit, redirect | forwarded value stays until used |
| RTL memory interface | `core/mem_if.sv` | bit counters, shift registers | one SPI transaction per request | right bytes, always answered |
| board and core tops | `core/vea_*.sv` | reset counter, input synchronizer | wiring | |

How they interact. The CLI and the UI call `cycle()` on one of the two
simulators; both run over the one simulated memory and publish a snapshot on the
shared bus when a call ends, which the UI draws and `conform` prints. The session
assembles a file, puts its listing on the bus, clears memory, loads the image and
replaces the processor, in that order, and each of these can be the last. In `nstep` the four stages
run back to front inside one tick and hand each other values through the
latches, with forwarding from EX/WB to Decode and a redirect from Decode to the
Fetch of the same tick. In the core the stages are concurrent registers joined
by valid/ready pairs: Fetch talks to an instruction memory of unknown latency,
Execute to `mem_if`, which serialises each access onto SPI; Writeback sends
register writes and redirects back to Decode, Execute and Fetch one cycle late.

What is hard: operands read before they are committed; a fault in one stage
after others have moved; a halt seen two stages before it commits; fetch running
ahead of stores and branches; stale memory replies after a redirect; two ends of
a serial line that count bits independently; wrap-around at the top of the
address space; label references that push one another out of reach; a load that
fails halfway; a frame skipped because nothing seemed to have changed. `PROJECT.json` lists each at its line under `hazards`.

## 2. Modules

| module | models | theorems in |
|---|---|---|
| `VeaWord` | words, two's complement, compare flags, predicates | `OnestepProofs`, `NstepProofs` |
| `VeaIsa` | frames, operands, alignment, the checks the implementations share | `OnestepProofs`, `NstepProofs` |
| `Onestep` | `onestep::tick` | `OnestepProofs` |
| `Nstep` | `nstep::tick` as its stages | `NstepProofs` |
| `NstepRefines` | the refinement mapping from `Nstep` to `Onestep`, and nstep's properties | `NstepProofs` |
| `VeaFlags` | the core's compare flags and branch predicates (`core/alu.sv`, `core/execute.sv`) | `RtlProofs` |
| `VeaAlu` | both ALUs and the multiplier's limb products | `RtlProofs` |
| `VeaFetch` | `core/fetch.sv`, one clock edge per step | `VeaFetchProofs` |
| `VeaPowers` | powers of two | `MemIfProofs`, `RtlProofs` |
| `VeaBits` | registers as strings of bits: slices and shifts | `MemIfProofs` |
| `MemIf` | `core/mem_if.sv` against `core/tb/tb_spi_mem.sv`, one clock edge per step | `MemIfProofs` |
| `VeaFrame` | frames byte by byte, shared by both decoders | `RtlProofs` |
| `SimDecode` | how the simulator reads a frame | `RtlProofs` |
| `VeaDecode` | stage 1 of `core/decode.sv` | `RtlProofs` |
| `RtlAgree` | datapath, flags, predicates and decoder of the core against the simulators' | `RtlProofs` |
| `VeaArch` | one instruction per step: what a program does on the core | `VeaCoreProofs` |
| `VeaCore` | the core: Fetch, Decode, Execute, Writeback, register file, memories | `VeaCoreProofs` |
| `Conform` | `vea conform`: onestep under the driver that makes golden files | `OnestepProofs` |
| `Assembler` | source lines to image: parse, relax, encode, list | `AssemblerProofs` |
| `Memory` | pages, widths, ranges, writes, loads | `UiSessionProofs` |
| `FlatMemory` | what memory promises: plain bytes, and a set of mapped pages | `UiSessionProofs` |
| `UiSession` | the event loop over `Memory` and the shared bus | `UiSessionProofs` |
| `MCMachine`, `MC*` | small instances for TLC | |

**The machine.** `VeaIsa` scales the instruction set: a register is one byte
wide, so a word is at once a byte of memory, a register value and an address.
The opcode, length nibble and register bytes are packed into the first byte of
an instruction, decoded by the constant table `Insn`; the immediate follows. The
ALU is the constant table `Alu`, `Undefined` where it faults; `VeaAlu!SimAlu`
gives it to TLC. Register bytes may name no register and opcodes may be illegal,
as arbitrary memory can. Arithmetic wraps, as in a release build, which is the
profile the drivers are meant for (a debug build panics on the same overflows).
What this hides: multi-byte loads and stores and their range checks, which
`Memory` has for writes.

**Onestep.** `Tick` is one `tick()`; `Faults` is every condition under which it
returns `Err`, and `FaultTick` is that return, which changes nothing. `Conform`
composes it with `cmd_conform`: `cycle(1)` until the program halts, faults or meets
the cap; what it prints is the snapshot the last cycle published.

**Nstep.** Every action is a whole `tick()`. The operators `Wb...`, `Ex...`,
`IdLatch`, `FetchPc` are what each stage leaves for the stage that runs after it
in the same tick. There is one action per way the tick can end: `Tick`,
`TickExecuteFault`, `TickDecodeFault`, `TickFetchFault`, and `TickDecodePanic`
for the Rust index panic. `fault` records how the last tick ended. `Resume` says
whether the driver calls `cycle()` again after an error: the UI does, the
conformance driver does not.

**NstepRefines.** An instruction takes effect when Execute runs it. The
architectural PC is the address in ID/EX, else IF/ID, else the fetch PC; registers
and flags are those after the pending commit. `OS` is `Onestep` under that
mapping, and `RefinesOnestep` is `OS!Spec`. `DisciplinedSpec` restricts programs to
what the two are meant to agree on: frames as the assembler emits them, and no
store into the frame already fetched, which Fetch pulled a tick before the store
and would run as it was. `Resume = FALSE` is needed too: `execute()` takes the latch before it runs the
instruction, so a driver that ticks again after a fault goes on behind it, where
onestep faults again.

Faults agree with two exceptions. `tick()` decodes before it fetches, so a fault of
Fetch can leave an instruction in ID/EX that has not run. If Execute would refuse it (a
trap, a division by zero), onestep faults there and not at the fetch; if it stores into
the missing page, onestep does not fault at all. `FaultIsOnesteps` is about the
faults that leave nothing in ID/EX, which are onestep's next fault;
`FetchFaultIsOnesteps` is about the others and says that these two are all the exceptions.

**VeaFetch.** A step is a clock edge: registers take their next values from the
wires of the ending cycle, then the inputs of the next cycle are chosen freely,
subject to what their sources guarantee: memory answers each request it took, in
order, a cycle later at the earliest; Decode raises `halt` only with the frame it
takes and a redirect clears it. A frame's bytes are represented by the address
they were read from, so a stale or mislabelled frame is visible.

**MemIf.** One action per state and phase of the FSM. The rising edges of `sck`
and `cs_n` that an edge of `clk` causes act on the memory in the same step.
`SyncStages` flip-flops stand between the miso pin and the interface: none in the
test benches, two on the board. `asked` and `before` are history. Registers are strings of
bits, most significant first (`VeaBits`), and an address is the number its bits stand for.

**VeaFrame, SimDecode, VeaDecode.** Frames of thirteen real bytes. `VeaDecode` keeps
the wire names of `decode.sv`: group tests, operand position, the 21-byte shifter
of the immediate, register checks, and `Stage1`, the record `s1`. `SimDecode` reads
the same bytes as onestep does. Two differences are deliberate in the code and
named in the modules: the core calls a frame illegal whose length is outside
2..12, where the simulator does not look at the length of a register form; and
`DIV` has no hardware.

**VeaArch.** The abstract specification: `Retire` performs the instruction at `pc`,
`Stop` ends the run at one that is illegal, a trap, a division or a branch to a
misaligned target, with no other effect. These are the core's faults: the simulators'
faults on a fetch from an unmapped page and on an access that runs off the top of memory
are not among them. The program is fixed and gives each word
address a frame; frames need not tile memory as bytes do, so a program is any
choice of frame per address. Data memory is in whole cells, with `Narrow` giving
what an access size keeps; byte addressing is left to `MemIf`.

**VeaCore.** A step is a clock edge of the whole core. The combinational wires
are operators under their source names; each `always_ff` block is a conjunct of
`Cycle`. Fetch is not copied: `Fetch` is an instance of `VeaFetch` whose inputs
(`redirect_valid`, `redirect_pc`, `frame_ready`, `halt`) are now the real wires, and whose
`imem` holds the frame lengths of the program. Both memories answer after any
number of cycles; `DataMemory` stands for `vea_mem_if` and what is behind it as Execute
sees them, and `MemIf` for the transfer. The refinement mapping of `RefinesArch` takes as architectural
PC the redirect, else the instruction in Execute, in Decode, or the next frame of
Fetch; as registers the register file with Writeback's pending write; an
instruction takes effect in the cycle it completes (`completing`, a compare or a
store possibly before). Registers without reset start at one value, since each is
read only after a load. `x.pc` is history: the hardware keeps no PC in ID/EX.

**Assembler.** A source line is what is left once its text is split: labels,
mnemonic, operand tokens. One action per source line (`ParseLine`), two per
relaxation round (`Place` gives every instruction and label its address, `Grow`
widens the references that need it, or finds that none does), one per emitted
instruction (`Emit`). `Fail` is every `Err` return. `Layout` and `SlotSize` are what
the addresses count, `Encode` and `SlotBytes` what is written: two computations, as
in the code. The properties do not use either: `FrameOf` takes bytes from the image
and `SimDecode`, the simulator's own reading, says what they mean. The size of a byte
of payload and the two width caps are constants, so that short programs cross
every width.

**Memory, FlatMemory.** `PutBytes` is the effect of the byte-by-byte loops of `write`
and `load`: each byte into its page, pages allocated on the way. Every operation
holds the memory lock from start to end, so it is one step of its caller.
`FlatMemory` has no pages: an array of bytes, zero until written, and a set of
mapped pages. `BigEndian` is the order of bytes in a word.

**UiSession.** The event loop's turn is three phases: `draw`, `poll` (one key, one
timeout or one resize), `burst`. One action per command that changes program,
processor, engine or run state; `OtherKey` is every key and command that changes none
of them. `Open` is `Sim::load` from the listing on, with the image that does not fit,
`Reboot` is `Sim::reboot`. What a path holds when it is read is anybody's choice:
nothing readable (`LoadFails`) or any program (`LoadFile`, `Reload`). The processors are
abstract: `Cycle` may go to any PC, leave the latches full or empty, halt, fault, or
store, since `Onestep` and `Nstep` say what it does. `ahead` counts generations since
the last frame, which is what comparing `drawn` with `generation` sees (neither
wraps within 2^64 publishes). `screen` is history: what the last frame showed, the
whole of memory included.

## 3. Runs

| run | question | bounds |
|---|---|---|
| `nstep_refines` | does the pipeline implement onestep, with current operands, the right path, onestep's faults but for the two exceptions of section 2, one instruction per cycle, nothing behind a halt? | every program of four slots over 16 slots (65536 programs), 16 words, 2 registers, 2 pages |
| `nstep_live` | does the pipeline keep going, and does a decoded halt commit? | every program of four slots over 6 slots |
| `conform` | is the reference aligned, and is the golden file that of a program that halted within the cap? | every program over a 14-slot alphabet, caps that a straight program just meets and that only loops exceed |
| `rtl_agrees` | do results, flags and predicates of datapath and multiplier equal the simulators', and the decoder's faults, kinds and immediates? | every pair of 8-bit operands; all opcodes and opinfo bytes, three values of bytes 2 to 4 |
| `fetch_stream` | does Fetch hand out the program's frames in order, and never hang? | 3 word addresses, every program over lengths 1 (bad), 4 and 5, all input timings |
| `core_refines` | does the core run its program as `VeaArch` does, with current operands and memory and multiplier in step? | every pair of 14 instruction kinds and 21 with faulting ones, triples of six kinds, each kind behind a branch held up by a load; 64 words, 16 word addresses, 2 registers, 2 cells |
| `core_live` | does the core never hang, go quiet after a stop, and drive Fetch as `VeaFetch` assumes? | every kind in an endless loop |
| `mem_if_spi` | do loads and stores transfer the right bytes, always answered? | 4 addresses, sizes 1, 2, 4, 2-bit bytes, any sequence of requests |
| `assembler` | does what is assembled read back as its source, do references land, in the fewest bytes, and does relaxation always finish? | every three-instruction program around one label, chains of up to 7 branches that widen one another, every mnemonic with every operand form, rejected texts; two-bit payload bytes |
| `session` | are snapshot, screen, engine and run state right in every order of keys, failing loads, halts, faults and bursts, and is memory flat? | images that fit, that straddle pages and that do not fit; two pages of two bytes, stores across the boundary and off the top |

Why the bounds suffice. In the pipeline three instructions are in flight at once,
so four slots cover each forwarding, redirect and halt distance with one
instruction to spare; loops make longer histories. The alphabet has at least
one instruction per opcode class, taken, untaken, misaligned and unmapped
targets, stores into data and new pages, and frames each stage faults on; a trap, a
division by zero or a store into the second page in the last slot are the two exceptions
of section 2. Memory wraps at 16. Counters wrap at 8 (`CounterSize`), longer than the pipe. In Fetch
at most one reply is outstanding, so three addresses separate old path, target
and successor, with wrap. In MemIf a byte of two bits and registers of four
bytes keep first, middle and last bits and bytes apart, and addresses wrap. In the core at most one
instruction is in each of Fetch, Decode, Execute and Writeback, and a forward
reaches one instruction back, so pairs behind two moves and before a halt meet each
forward; a third instruction is needed where one has to wait long enough for the
two behind it to be staged. The multiplier has its five stages. In the assembler a
reference crosses every width within a few instructions because a payload byte has
four values, and the chains need more and more rounds as they get longer, where the
code allows two more than there are instructions. The session keeps at most one
earlier program, so three images, one of each kind, are every difference between an
old and a new one; a cycle stores at most once, since more stores in one call of
`cycle()` end in the same kinds of state.

Runs that find a disagreement between code and a comment or test (`findings`):

| run | shows |
|---|---|
| `nstep_unchecked_operands` | two programs, each of which breaks `OperandsChecked` on its own: a payload wider than a register, which nstep executes where onestep faults, and a source byte that names no register, which takes nstep down |
| `mem_if_board_sync` | behind the board's synchronizer a load captures the previous bit |

Known without a run: `is_mapped` is per 64K page, so a program that runs off its end
inside its page executes zero bytes as no-ops to the end of the page, against the comment at
`vea_sim/src/memory.rs:164-166`; no property speaks of it. After
a fault with Decode empty the core's Fetch still requests frames (the comment of
`QuietOnceStopped`, which states what does hold). A load that fails because the image
does not fit leaves the refused program's listing on the bus over cleared memory
and the old processor. A label behind the last instruction may repeat an earlier one and
then takes its references; `ReferencesLand` counts both places and so does not show it. A
driver that ticks nstep again after a fault runs on behind it: that is `Resume = TRUE`, of which only
`NothingBehindHalt` is shown, and that property says nothing of what runs.

Fairness. Nstep: `WF(Next)`, the driver keeps calling `cycle()`. VeaFetch and
MemIf: the clock runs. `FetchDelivers` assumes in its own antecedent that memory
keeps taking and answering, that Decode keeps taking frames and that redirects
and halts cease; nothing in Fetch provides those. In MemIf fairness starts once a
request is accepted: nothing obliges Execute to make one. VeaCore: the clock runs;
`KeepsRetiring` has the memories' answers in its antecedent, since they are outside
the core. `RefinesFetch` discharges what `VeaFetch` assumes of Decode and Writeback, so
the theorems of section 4 about Fetch hold inside the core. Deadlock is not
checked for the simulators, which stop at a halt or a fault, nor for the assembler,
the session and the driver, which end. These three promise no liveness: that
relaxation ends is the safety property `NeverGivesUp`, since every round is counted.

## 4. Proofs

All for every value of the constants, from the named assumptions of `VeaWord`,
`VeaIsa`, `Onestep`, `Nstep`, `Conform`, `VeaFetch`, `MemIf`, `VeaFrame`, `VeaFlags`, `VeaCore`, `Memory`,
`UiSession` and `Assembler`; what a theorem assumes beyond them is its own hypothesis, named below.

- `OnestepProofs`: `TypeCorrect`, `PcAlignedAlways`. The invariant is
  `TypeOK /\ PcAligned`; the work is in showing that the checks of `Faults` cover
  every operand an instruction goes on to use, and in `AlignUpWord` (rounding up
  stays in range and aligned when the addition wraps).
  `OutcomeIsRightAlways` is about `Conform`; it needs `DriverInv`, that what was published last is
  the processor as it is and that both counters are those of the steps taken.
- `NstepProofs`: `TypeCorrect`, with the extra conjunct that an ALU operation in
  ID/EX is one the ALU knows. `NothingBehindHaltAlways` is not inductive: `HInv`
  adds that a halt in ID/EX implies `halt_pending`, and that a halt in EX/WB has
  nothing in ID/EX. It holds for resuming drivers as well. The others have the hypothesis
  `Resume = FALSE`, a driver that stops at a fault, as the conformance driver does.
  `OnePerCycleAlways` counts what is in flight and, behind a halt, how far the halt has come
  (`Draining`).
  `OperandsCurrentAlways`, `PathCurrentAlways`, `FaultIsOnestepsAlways`,
  `FetchFaultIsOnestepsAlways` and the refinement `OnestepRefined` (`DisciplinedSpec => RefinesOnestep`) share the invariant `RInv`: the
  latched frame is still what memory holds at its address (`FetchedCurrent`, what
  `DisciplinedSpec` provides for stores), what Decode passed is legal and was decoded from
  that frame (`DecodedLegal`), its operands are the values the pending commit leaves
  (`OperandsCurrent`), and what Fetch pulled is its successor (`PathCurrent`). Behind a fault
  of Fetch with an instruction left in ID/EX these still hold, and the address that faulted is that
  instruction's successor in a page without storage (`FetchBlocked`); `FetchFaultAgrees` reads off
  which of the two faults onestep meets. A tick then
  executes what onestep would execute from the mapped state, which is one step of
  `Onestep`, or moves instructions and changes nothing mapped, which is a stutter. Onestep
  under the mapping is an instance with its own copy of `VeaIsa`; `SameIsa` is the lemma that the two copies
  agree.
- `VeaFetchProofs`: four invariants hold each other up. A reply is owed exactly in
  WAIT and DRAIN (`OneOutstanding`), so the reply WAIT accepts is for `pc`
  (`WaitsForItsPc`), so the frame registers agree (`FrameIsItsOwn`). From them,
  and from `PcFollows` (while a frame is on offer `pc` is its successor), every step
  satisfies `InOrder`. `NothingBehindHaltAlways` adds the halt input.
- `MemIfProofs` begins with strings of bits. `Induction` is induction over the
  naturals for a set (a set of naturals with 0 that is closed under successor is all of them),
  from the well-foundedness of `<`; by it `Pow2` satisfies its own recursion and `BitsInjective` holds (a
  number below 2^w is determined by its w bits), so reading back an address gives the address
  (`ValueOfBits`). Then `InStepAlways`, from the counters alone; then `TypeCorrect`,
  `StoreReachesMemoryAlways` and `LoadReturnsMemoryAlways` from one invariant `IInv`, which
  says where every bit of a transfer is: the header's bits are what the interface has left to send and
  what the memory has shifted in (`HeaderOnItsWay`); in the data phase the memory is at the byte
  the count says (`AtItsByte`), a store's unsent bits lead the shifter, the bits of the
  open byte are in `wr_byte` and the whole bytes in memory (`StoreOnItsWay`), a load's captured bits are
  at the low end of the shifter and the rest of the byte in `out_byte` (`LoadOnItsWay`). The content of a load has the
  hypothesis `SyncStages = 0`: behind the board's synchronizer it is false
  (`mem_if_board_sync`). `AccessAssumption` keeps an access from coming round to its own
  first byte.
- `RtlProofs`: the combinational logic. `Stage1Type`: stage 1 makes a well-formed record of any
  thirteen bytes. `FlagsAgreeAlways` and `BranchMeansOrderAlways`, for every even word size: the
  difference of two words wraps at most once (`WrapOnce`), so the sign bit the subtractor keeps,
  with the operands' own, tells the overflow and the order (`Differences`). `DecodeAgreesAlways`, for
  every number of registers and every choice of sample bytes, from `AllFramesAgree`, which is about all of
  `Frame` where the run fills the bytes behind the first five: on the defined opcodes the decoder's tests of a few bits
  select what they are named for (`Kinds`, `Positions`), the same frames are refused (`SameFaults`), the
  shifted payload is the simulators' (`SameImms`), and so are the operation and the registers (`Fields`,
  `Registers`). `ResultsAgreeAlways`, under `WordsOfWidth` (a word has a number of bits that four divides; TLC
  evaluates it for the constants of `rtl_agrees`): a word is the sum of its limbs at their weights (`SumOfLimbs`); of the
  sixteen products the six that `mul.sv` leaves out, and what it cuts off the four of the top weight, are a
  multiple of a word (`LowWord`), and so are the carries the adder tree drops between its levels (`AdderTree`).
  `SarAgrees` is that shifting in the sign is dividing the signed value and rounding down. The other
  operations are the same on both sides, by definition. The invariant the four need is `TwoWords`: a state is two words.
- `VeaCoreProofs`, about the composed core, for every program, memory latency,
  register count, ALU table and multiplier depth. The decoder lemmas come through the instance
  `Rtl` of `RtlProofs`, whose operators the lemmas `Rtl*` show to be the core's. The invariant of `TypeCorrect`
  adds that instruction memory answers only what it owes (`Replies`).
  `UnitsInStepAlways` and `WaitingIsLiveAlways` are proved together: an instruction that
  goes on waiting has not completed, so no redirect and no fault bit can have come
  from it (`StillWaiting`, `HeldInExecute`); hence the unit's answer is its own.
  `OperandsCurrentAlways`: one cycle on, a register reads as what completes now or
  as what it reads now (`ReadNext`), which is what the forward select and the read
  port give between them. Not inductive alone: `ValueHeld` says what an indexed
  store has put by is its register's value, with a bubble behind it so that nothing can
  complete in between, and `StoreShape` that the other stores read their value at port
  b. `FetchRefined` is the refinement `Spec => RefinesFetch`, by which the theorems of
  `VeaFetchProofs` hold of the fetch stage in the core.

  `CoreRefined` is the refinement `Spec => RefinesArch`: the pipeline implements
  one instruction per step. The invariant `RInv` is the conjunction of those above and
  of `VeaFetchProofs` with four more: the instructions in Decode and Execute are what stage 1
  makes of the program's own frames (`StagesDecoded`); with no redirect under way each stage holds
  the successor of the one ahead of it (`PathOrder`); the halt latch is up from when a halt enters
  Decode until it has left Execute, with nothing behind the halt (`HaltSeen`); and a waiting instruction's
  sums, factors and memory request are still those of its operands (`UnitsHold`). A cycle in which
  nothing completes leaves the mapped state alone (`QuietCycle`, `QuietPc`); in one in which an instruction
  completes, the operands, branch, fault, result and memory access seen by `VeaArch` are the
  core's (`OperandsSeen`, `TakenSeen`, `FaultSeen`, `ResultSeen`, `AccessSeen`), so it is a
  `Retire` or a `Stop`; `SameFrame` is the lemma that `VeaArch` reads a frame as `SimDecode` does.
  Its two hypotheses are not assumptions on the core. `LengthsTold`: the frames of a program
  have the length nibble of their own format, as the assembler writes them (`ReadsBack`); the core goes on behind a frame
  by that nibble, the simulators by what they consumed. `AluTold`: the rows add, sub
  and not of the ALU table are those operations, since the core adds outside the table and feeds `not` its
  operand in a. TLC evaluates both for the constants of `core_refines` (`ToldAssumption` in `MCCore`).
- `UiSessionProofs`: `SnapshotCurrent`, `EngineShown` and `RunningIsLive` are kept
  together with `OpenFits` (the image of the open program fitted when it was loaded, so
  a reboot cannot fail, and the engine switched before it is the one that runs).
  `ScreenCurrent` is not inductive: `Fresh` says that a turn which has left neither of
  the two traces, `needs_redraw` and a generation, is one in which nothing happened.
  The delicate step is the burst that stops a program without running it and
  publishes nothing: only a key can have led there, and a key always leaves the
  first trace. `MemoryRefined` is the refinement `Spec => RefinesFlat`, from
  `PageSplit` (an address is its page times the page size plus its offset) and
  `PutByteAt` (what a byte of memory is after a write that may straddle pages).
- `AssemblerProofs`: `RelaxationSettles`, for every source. The code allows two rounds more
  than there are instructions and its comment takes that to be enough; the widths could in principle
  creep up one byte per round. They do not, because of `GrowthAssumption`: between its narrowest and
  its widest form an instruction grows by less than a factor `ByteSize` (with the code's constants from four bytes to at most
  twelve, against 256). So every layout on the way stretches any distance of the layout with the narrowest
  references by less than one more byte
  can hold (`ProgramLayout`, `LayoutStretches`), and the invariant `Grown` holds: a reference
  has the width its narrowest value needs, or one byte more (`RoundValue`). A round that settles nothing
  therefore brings at least one reference to its last width, `Delayed` counts the instructions
  whose reference is there (`Late`), and there is at most one reference in an instruction
  (`ParsedInsn`).

  `ProgramReadsBack`, `LabelsLand` and `ReferencesShortest` are about what is written in the end, for every source.
  Their common invariant is `Whole`: that of `RelaxationSettles` with five more. `Parsed`: the instructions are what the lines read so far
  say, operand by operand (`Matches`), and every label stands in front of the instruction it has in
  the source (`Carried`); it is about the program with its references narrowed (`Narrow`), which relaxation never
  changes. `Named`: so is every label the symbol table knows. `Tight`: no reference is wider than its value
  asks for in the *present* layout. Widths only grow and no distance
  shrinks when an instruction grows (`LongerApart`), so a width that was asked for once is still asked for in the end, which is why the
  code may widen and never narrow. `Settled`: from the last round
  on, when nothing widened, the addresses, symbols and widths are those of one layout. `Written`: each row holds the
  bytes of its instruction at its address, and the image holds them, padded with zeros, and nothing else.
  What remains is about one frame: `Encodes` gives the bytes that `encode` writes, and a chain of lemmas from `Nibbles` to
  `Decoded` that the simulators' decoder finds in them the operation, the registers and the payload that went
  in, which for the payload is that the low bytes of a number that fits, read as a signed number, are the number
  (`TopDigit`, `PayloadIs`). The definitions by recursion over a line, a frame or a text are reached by `Induction`
  and by `IterationUnique`, that two functions with the same recursion agree.

  The other assumptions on the constants are those of the code's types: `WidthsAssumption`
  (alignment 4, bytes of 256 values, relative offsets of at most 4 bytes and absolute ones of at most 8),
  `SourcesAssumption` (a source is a sequence of lines, a number an `i64`), and `LengthAssumption`: the longest
  instruction on every line would still give addresses of an `i64`, which no text that fits into memory breaks.

Every invariant and every refinement of the passing runs is so a theorem. Only model-checked are the
liveness properties, since the prover does not reach `ENABLED` or fairness. Nothing a theorem is about is a `RECURSIVE`
operator: what recurs is a recursive function, reached by `Induction` above.

## 5. Not modelled

- Text: splitting source lines into tokens, number syntax, messages, formatting, and the
  listing's text column.
- `ui/app.rs`, `ui/view.rs`, `ui/term.rs` beyond running, engine, redraw and message:
  panes, selection, scrolling, counts, radix and drawing. No other part reads them.
- The command line: argument parsing, and `asm`, which writes out what the assembler
  returned or exits.
- Memory's multi-byte reads (the simulators' models read single bytes) and the page
  counts for the status line.
- A `cycle(n)` of the session that stores more than once, and a panic inside `cycle`.
- `:pc` on a pipeline with full latches: the session has the abstract processor, `Nstep` no
  such action, and nothing in the code or its documents says what `:pc` promises there.
- Reset stretching, PLL, pins and the cycle counter of the tops; metastability itself.
  The benches other than the SPI memory.

Next: `VeaCore` over `MemIf` in place of the free data port.
