------------------------------ MODULE VeaFetch ------------------------------
(***************************************************************************)
(* The fetch stage of the core, core/fetch.sv, between an instruction      *)
(* memory of any latency and a Decode and Execute that may take a frame,   *)
(* redirect or halt at any time.                                           *)
(*                                                                         *)
(* A step is a clock edge: the registers take their next values from the   *)
(* input wires of the cycle that ends, and the inputs of the next cycle    *)
(* are chosen.  Addresses are word addresses, PC[63:2].  A frame's bytes   *)
(* are represented by the address they were read from: instruction memory  *)
(* is not written while the core runs, and imem holds the length nibble of *)
(* the frame at each address, for any program.                             *)
(***************************************************************************)
EXTENDS Integers, Sequences

CONSTANTS
    PcSize,    \* number of word addresses (2^62)
    ResetPc,   \* RESET_PC
    Lens       \* the length nibbles a program may hold

Pc == 0 .. PcSize - 1

ASSUME PcAssumption == PcSize \in Nat \ {0} /\ ResetPc \in Pc

ASSUME LensAssumption == Lens \subseteq 0 .. 15

VARIABLES
    imem,                                   \* the program: imem[a], the nibble at a
    state, pc,                              \* the stage's own registers
    frame_pc_word, frame_bytes, frame_bad_len,
    owed,                                   \* requests memory has taken and not answered
    imem_req_ready, imem_rvalid,            \* inputs: from memory,
    redirect_valid, redirect_pc,            \* from Execute,
    frame_ready, halt                       \* and from Decode

regs == <<state, pc, frame_pc_word, frame_bytes, frame_bad_len>>
inputs == <<imem_req_ready, imem_rvalid, redirect_valid, redirect_pc, frame_ready, halt>>
vars == <<imem, regs, owed, inputs>>

States == {"REQUEST", "WAIT", "DELIVER", "DRAIN"}

TypeOK ==
    /\ imem \in [Pc -> Lens]
    /\ state \in States
    /\ pc \in Pc
    /\ frame_pc_word \in Pc
    /\ frame_bytes \in Pc
    /\ frame_bad_len \in BOOLEAN
    /\ owed \in Seq(Pc)
    /\ imem_req_ready \in BOOLEAN
    /\ imem_rvalid \in BOOLEAN
    /\ redirect_valid \in BOOLEAN
    /\ redirect_pc \in Pc
    /\ frame_ready \in BOOLEAN
    /\ halt \in BOOLEAN

(* The frame registers have no reset; nothing reads them before a frame    *)
(* has been loaded, so one starting value stands for all.                  *)
Init ==
    /\ imem \in [Pc -> Lens]
    /\ state = "REQUEST"
    /\ pc = ResetPc
    /\ frame_pc_word = ResetPc
    /\ frame_bytes = ResetPc
    /\ frame_bad_len = FALSE
    /\ owed = <<>>
    /\ imem_req_ready \in BOOLEAN
    /\ imem_rvalid = FALSE
    /\ redirect_valid = FALSE
    /\ redirect_pc = ResetPc
    /\ frame_ready \in BOOLEAN
    /\ halt = FALSE
-----------------------------------------------------------------------------
(* The combinational wires. *)
LenMin == 2

imem_req_valid_PastHalt == state = "REQUEST"
imem_req_valid == state = "REQUEST" /\ ~halt
request_taken == imem_req_valid /\ imem_req_ready
accept_reply == state = "WAIT" /\ imem_rvalid /\ ~redirect_valid
frame_valid == state = "DELIVER"
frame_taken == frame_valid /\ frame_ready

imem_rdata == Head(owed)

LenWords(n) == (n \div 4) + (IF n % 4 = 0 THEN 0 ELSE 1)

next_pc_Truncated == (pc + imem[imem_rdata] \div 4) % PcSize
next_pc == (pc + LenWords(imem[imem_rdata])) % PcSize

(* The next state under a redirect: what memory owes belongs to the old    *)
(* address and is drained.                                                 *)
AfterRedirect_NoDrainOnRequest ==
    CASE state = "REQUEST" -> "REQUEST"
      [] state = "WAIT"    -> IF imem_rvalid THEN "REQUEST" ELSE "DRAIN"
      [] state = "DELIVER" -> "REQUEST"
      [] state = "DRAIN"   -> IF imem_rvalid THEN "REQUEST" ELSE "DRAIN"

AfterRedirect_DrainForever ==
    CASE state = "REQUEST" -> IF request_taken THEN "DRAIN" ELSE "REQUEST"
      [] state = "WAIT"    -> "DRAIN"
      [] state = "DELIVER" -> "REQUEST"
      [] state = "DRAIN"   -> IF imem_rvalid THEN "REQUEST" ELSE "DRAIN"

AfterRedirect ==
    CASE state = "REQUEST" -> IF request_taken THEN "DRAIN" ELSE "REQUEST"
      [] state = "WAIT"    -> IF imem_rvalid THEN "REQUEST" ELSE "DRAIN"
      [] state = "DELIVER" -> "REQUEST"
      [] state = "DRAIN"   -> IF imem_rvalid THEN "REQUEST" ELSE "DRAIN"

InSequence_RequestAhead ==
    CASE state = "REQUEST" -> IF request_taken THEN "WAIT" ELSE "REQUEST"
      [] state = "WAIT"    -> IF imem_rvalid THEN "DELIVER" ELSE "REQUEST"
      [] state = "DELIVER" -> IF frame_ready THEN "REQUEST" ELSE "DELIVER"
      [] state = "DRAIN"   -> IF imem_rvalid THEN "REQUEST" ELSE "DRAIN"

InSequence ==
    CASE state = "REQUEST" -> IF request_taken THEN "WAIT" ELSE "REQUEST"
      [] state = "WAIT"    -> IF imem_rvalid THEN "DELIVER" ELSE "WAIT"
      [] state = "DELIVER" -> IF frame_ready THEN "REQUEST" ELSE "DELIVER"
      [] state = "DRAIN"   -> IF imem_rvalid THEN "REQUEST" ELSE "DRAIN"
-----------------------------------------------------------------------------
StateRegister == state' = IF redirect_valid THEN AfterRedirect ELSE InSequence

PcRegister ==
    pc' = IF redirect_valid THEN redirect_pc
          ELSE IF accept_reply THEN next_pc ELSE pc

FrameRegisters ==
    IF accept_reply
    THEN /\ frame_pc_word' = pc
         /\ frame_bytes' = imem_rdata
         /\ frame_bad_len' = (imem[imem_rdata] < LenMin)
    ELSE UNCHANGED <<frame_pc_word, frame_bytes, frame_bad_len>>

(* Memory answers every request it takes, in order, one cycle later at the *)
(* earliest (tb_fetch.sv: also a request that a redirect cancelled).       *)
Memory ==
    LET left == IF imem_rvalid THEN Tail(owed) ELSE owed IN
    /\ owed' = IF request_taken THEN Append(left, pc) ELSE left
    /\ imem_req_ready' \in BOOLEAN
    /\ imem_rvalid' \in (IF owed' = <<>> THEN {FALSE} ELSE BOOLEAN)

(* Decode raises halt as a halt frame enters it, and a redirect clears it. *)
Downstream ==
    /\ redirect_valid' \in BOOLEAN
    /\ redirect_pc' \in (IF redirect_valid' THEN Pc ELSE {redirect_pc})
    /\ frame_ready' \in BOOLEAN
    /\ halt' \in (IF redirect_valid THEN {FALSE}
                  ELSE IF frame_taken THEN {halt, TRUE} ELSE {halt})

Cycle ==
    StateRegister /\ PcRegister /\ FrameRegisters /\ Memory /\ Downstream /\ UNCHANGED imem

Next == Cycle

Spec == Init /\ [][Next]_vars
-----------------------------------------------------------------------------
(* Memory owes a reply exactly while the stage waits for one or drains it, *)
(* and never two: replies need no tag (fetch.sv:6).                        *)
OneOutstanding ==
    /\ Len(owed) <= 1
    /\ owed # <<>> <=> state \in {"WAIT", "DRAIN"}

(* The reply a waiting stage will accept is for the address it now wants;  *)
(* a reply to an address a redirect has left is met only in DRAIN.         *)
WaitsForItsPc == state = "WAIT" => owed[1] = pc

(* A frame on offer holds the bytes of the address it is labelled with,    *)
(* and its bad-length mark is that frame's.                                *)
FrameIsItsOwn ==
    frame_valid =>
        /\ frame_bytes = frame_pc_word
        /\ frame_bad_len <=> imem[frame_pc_word] < LenMin

(* No frame is on offer and none is on its way behind a halt.              *)
NothingBehindHalt == halt => ~frame_valid /\ state # "WAIT"

(* The address of the frame Decode will be given next. *)
NextFrame == IF frame_valid THEN frame_pc_word ELSE pc

Successor(a) == (a + LenWords(imem[a])) % PcSize

FrameStep ==
    NextFrame' = IF redirect_valid THEN redirect_pc
                 ELSE IF frame_taken THEN Successor(NextFrame) ELSE NextFrame

(* Decode sees the program's frames in order, none lost, none repeated and *)
(* none from the old path: the next frame is the redirect target after a   *)
(* redirect, the successor after a delivery, and the same frame otherwise, *)
(* whatever the latency and wherever the redirect falls.                   *)
InOrder == [][FrameStep]_vars

(* Fetch delivers: once redirects and halts cease, if memory keeps taking  *)
(* and answering requests and Decode keeps taking frames, frames keep      *)
(* coming.                                                                 *)
FetchDelivers ==
    /\ []<>imem_req_ready
    /\ []<>frame_ready
    /\ []<>(owed = <<>> \/ imem_rvalid)
    /\ <>[](~redirect_valid /\ ~halt)
    => []<>frame_valid

FairSpec == Spec /\ WF_vars(Next)
=============================================================================
