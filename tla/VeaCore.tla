------------------------------ MODULE VeaCore ------------------------------
(***************************************************************************)
(* The core, core/vea_core.sv: the fetch stage (VeaFetch), both stages of  *)
(* decode, execute, writeback and the register file, wired together, with  *)
(* an instruction and a data memory of any latency.                        *)
(*                                                                         *)
(* A step is a clock edge.  The definitions between Init and the registers *)
(* are the combinational wires of the cycle that ends; every register      *)
(* takes its next value from them at once.  Variables and wires keep the   *)
(* names of the source; the ID/EX register is x, the record decode made,   *)
(* and the operands beside it.  x.pc is kept for the properties only: the  *)
(* core has no copy of it there.                                           *)
(***************************************************************************)
EXTENDS VeaDecode, Sequences

CONSTANTS
    PcSize,     \* number of word addresses (2^62)
    ResetPc,    \* RESET_PC
    Programs,   \* the programs a run may start from, and
    Code,       \* Code[p][a]: the frame of program p at word address a
    MemSize,    \* cells of data memory in view
    Memories,   \* the contents data memory may start from
    Alu,        \* Alu[<<fn, a, b>>]: the ALU table
    Narrow,     \* Narrow[size]: number of values an access of that size keeps
    MulStages   \* registers of the multiplier pipeline (5)

Pc == 0 .. PcSize - 1
Cell == 0 .. MemSize - 1

ASSUME SizesAssumption ==
    /\ PcSize \in Nat \ {0}
    /\ WordSize = 4 * PcSize
    /\ ResetPc \in Pc
    /\ MemSize \in Nat \ {0}
    /\ MulStages \in Nat \ {0}

ASSUME ContentsAssumption ==
    /\ Code \in [Programs -> [Pc -> Frame]]
    /\ Memories \subseteq [Cell -> Word]

ASSUME TablesAssumption ==
    /\ Alu \in [(AluFn \ {"div"}) \X Word \X Word -> Word]
    /\ Narrow \in [0 .. 3 -> 1 .. WordSize]

VARIABLES
    program,                             \* what instruction memory holds; never written
    fetch_state, fetch_pc,               \* Fetch
    frame_pc_word, frame_bytes, frame_bad_len,
    imem_owed, imem_req_ready, imem_rvalid,
    s2_valid, s2, value_done,            \* Decode
    store_value, store_fwd, halt,
    x_valid, x,                          \* Execute
    x_a, x_b, x_c, x_fwd_a, x_fwd_b, x_fwd_c,
    add_result, sub_result, cc, state, err,
    mul_a, mul_b, stage_valid,
    rf_wr_en, rf_wr_addr, rf_wr_data,    \* Writeback
    redirect_valid, redirect_pc,
    regs,                                \* register file
    dmem, dmem_busy, dmem_req,           \* data memory and the request it holds
    dmem_req_ready, dmem_rvalid

fetch_vars == <<fetch_state, fetch_pc, frame_pc_word, frame_bytes, frame_bad_len,
                imem_owed, imem_req_ready, imem_rvalid>>
decode_vars == <<s2_valid, s2, value_done, store_value, store_fwd, halt>>
execute_vars == <<x_valid, x, x_a, x_b, x_c, x_fwd_a, x_fwd_b, x_fwd_c,
                  add_result, sub_result, cc, state, err, mul_a, mul_b, stage_valid>>
writeback_vars == <<rf_wr_en, rf_wr_addr, rf_wr_data, redirect_valid, redirect_pc, regs>>
dmem_vars == <<dmem, dmem_busy, dmem_req, dmem_req_ready, dmem_rvalid>>
vars == <<program, fetch_vars, decode_vars, execute_vars, writeback_vars, dmem_vars>>

WaitStates == {"IDLE", "ADD_WAIT", "MEM_WAIT", "MUL_WAIT"}
Errors == {"illegal", "unsupported", "trap", "unaligned"}
MemReq == [addr : Word, we : BOOLEAN, size : 0 .. 3, wdata : Word]

(* Execute's and Decode's handshakes, which Fetch sees as frame_ready.     *)
stopped == err # {}

live_WrongPath == x_valid /\ ~stopped

live == x_valid /\ ~redirect_valid /\ ~stopped

valid_op == live /\ ~x.illegal
late_op == valid_op /\ x.alu_op \in {"add", "sub"}
mem_op == valid_op /\ (x.is_load \/ x.is_store)
mul_op == valid_op /\ x.alu_op = "mul"
flags_valid == x.alu_op \in {"cmp", "cmp_s"}
unsupported == x.alu_op \in {"div", "none"}

mul_valid == stage_valid[MulStages]

completing ==
    CASE state = "IDLE"     -> ~late_op /\ ~mul_op
      [] state = "ADD_WAIT" -> ~mem_op
      [] state = "MEM_WAIT" -> dmem_rvalid
      [] state = "MUL_WAIT" -> mul_valid

ex_ready == (~x_valid \/ completing) /\ ~stopped

need_value == s2_valid /\ s2.idx_store /\ ~value_done
read_value == need_value /\ ex_ready
can_issue_ForgetsValue == s2_valid /\ ~s2.idx_store

can_issue == s2_valid /\ ~need_value
frame_ready_IgnoresExecute == ~s2_valid \/ can_issue

frame_ready == ~s2_valid \/ (can_issue /\ ex_ready)

Lengths == [p \in Programs |-> [a \in Pc |-> LenOf(Code[p][a])]]

Fetch == INSTANCE VeaFetch WITH
    Lens <- 0 .. 15,
    imem <- Lengths[program],
    state <- fetch_state, pc <- fetch_pc, owed <- imem_owed

s2_load == Fetch!frame_valid /\ frame_ready /\ ~redirect_valid
s1 == Stage1(Code[program][frame_bytes], 4 * frame_pc_word, frame_bad_len)

TypeOK ==
    /\ program \in Programs
    /\ Fetch!TypeOK
    /\ s2_valid \in BOOLEAN
    /\ s2 \in Insn
    /\ value_done \in BOOLEAN
    /\ store_value \in Word
    /\ store_fwd \in BOOLEAN
    /\ x_valid \in BOOLEAN
    /\ x \in Insn
    /\ x_a \in Word /\ x_b \in Word /\ x_c \in Word
    /\ x_fwd_a \in BOOLEAN /\ x_fwd_b \in BOOLEAN /\ x_fwd_c \in BOOLEAN
    /\ add_result \in Word /\ sub_result \in Word
    /\ cc \in Flags
    /\ state \in WaitStates
    /\ err \subseteq Errors
    /\ mul_a \in Word /\ mul_b \in Word
    /\ stage_valid \in [1 .. MulStages -> BOOLEAN]
    /\ rf_wr_en \in BOOLEAN
    /\ rf_wr_addr \in RegNums
    /\ rf_wr_data \in Word
    /\ regs \in [RegNums -> Word]
    /\ dmem \in [Cell -> Word]
    /\ dmem_busy \in BOOLEAN
    /\ dmem_req \in MemReq
    /\ dmem_req_ready \in BOOLEAN
    /\ dmem_rvalid \in BOOLEAN

NoFlags == [z |-> FALSE, n |-> FALSE, c |-> FALSE, v |-> FALSE]

(* A register without a reset is not read before it is loaded; one value   *)
(* stands for every value it may start with.                               *)
Init ==
    /\ program \in Programs
    /\ s2_valid = FALSE
    /\ s2 = Stage1(Code[program][ResetPc], 4 * ResetPc, FALSE)
    /\ value_done = FALSE
    /\ store_value = 0
    /\ store_fwd = FALSE
    /\ x_valid = FALSE
    /\ x = s2
    /\ x_a = 0 /\ x_b = 0 /\ x_c = 0
    /\ x_fwd_a = FALSE /\ x_fwd_b = FALSE /\ x_fwd_c = FALSE
    /\ add_result = 0 /\ sub_result = 0
    /\ cc = NoFlags
    /\ state = "IDLE"
    /\ err = {}
    /\ mul_a = 0 /\ mul_b = 0
    /\ stage_valid = [i \in 1 .. MulStages |-> FALSE]
    /\ rf_wr_en = FALSE
    /\ rf_wr_addr = 0
    /\ rf_wr_data = 0
    /\ regs = [r \in RegNums |-> 0]
    /\ dmem \in Memories
    /\ dmem_busy = FALSE
    /\ dmem_req = [addr |-> 0, we |-> FALSE, size |-> 0, wdata |-> 0]
    /\ dmem_req_ready \in BOOLEAN
    /\ dmem_rvalid = FALSE
    /\ Fetch!Init
-----------------------------------------------------------------------------
(* Execute: operands, ALU, multiplier. *)
op_a == IF x_fwd_a THEN rf_wr_data ELSE x_a
op_b == IF x_fwd_b THEN rf_wr_data ELSE x_b
op_c == IF x_fwd_c THEN rf_wr_data ELSE x_c

(* The adders' result is a cycle old; the other operations are not.        *)
alu_result ==
    CASE x.alu_op = "add"                                -> add_result
      [] x.alu_op = "sub"                                -> sub_result
      [] x.alu_op \in AluFn \ {"add", "sub", "mul", "div"} -> Alu[<<x.alu_op, op_a, op_b>>]
      [] OTHER                                           -> 0

alu_flags == Compare(op_a, op_b, IF x.alu_op = "cmp_s" THEN "signed" ELSE "unsigned")

mul_start_Level == mul_op
mul_start == state = "IDLE" /\ mul_op
mul_result == Alu[<<"mul", mul_a, mul_b>>]

branch_taken == Predicate(PredOfBits[x.pred + 1], cc)

(* The data memory port. *)
CellAt(a) == a % MemSize
dmem_req_valid == state = "ADD_WAIT" /\ mem_op
dmem_req_taken == dmem_req_valid /\ dmem_req_ready
dmem_rdata == dmem[CellAt(dmem_req.addr)]

Low(v, size) == v % Narrow[size]
load_value ==
    LET low == Low(dmem_rdata, x.mem_size) IN
    IF x.mem_sext /\ 2 * low >= Narrow[x.mem_size]
    THEN low + WordSize - Narrow[x.mem_size] ELSE low

pc_misaligned == valid_op /\ x.is_bj /\ branch_taken /\ add_result % 4 # 0

(* What Execute hands to Writeback. *)
wb_valid == completing /\ valid_op /\ x.wr_en /\ ~unsupported
wb_rd == x.rd
wb_data ==
    IF x.is_load THEN load_value ELSE IF x.alu_op = "mul" THEN mul_result ELSE alu_result
wb_redirect_valid ==
    completing /\ valid_op /\ x.is_bj /\ branch_taken /\ ~pc_misaligned
wb_redirect_pc == add_result \div 4

(* Decode, stage 2: register read, operands and forward selects. *)
Read(r) == IF rf_wr_en /\ rf_wr_addr = r THEN rf_wr_data ELSE regs[r]
rf_rdata_a == Read(IF need_value THEN s2.rd ELSE s2.raddr_a)
rf_rdata_b == Read(s2.raddr_b)

OperandA(i, rdata) ==
    CASE i.src_in_a /\ i.imm_form -> i.imm
      [] ~i.src_in_a /\ i.is_b /\ i.imm_form -> i.pc
      [] OTHER -> rdata

OperandB(i, rdata) ==
    CASE i.src_in_a -> 0
      [] ~i.src_in_a /\ i.is_b -> IF i.imm_form THEN i.imm ELSE 0
      [] OTHER -> IF i.imm_form THEN i.imm ELSE rdata

ex_a == OperandA(s2, rf_rdata_a)
ex_b == OperandB(s2, rf_rdata_b)
ex_c == IF s2.idx_store THEN store_value ELSE rf_rdata_b

Completes(r) == wb_valid /\ wb_rd = r
a_from_reg == ~(s2.imm_form /\ (s2.src_in_a \/ s2.is_b))
b_from_reg == ~s2.imm_form /\ ~s2.src_in_a /\ ~s2.is_b
ex_fwd_a == Completes(s2.raddr_a) /\ a_from_reg
ex_fwd_b == Completes(s2.raddr_b) /\ b_from_reg
ex_fwd_c_NoIndexed == Completes(s2.raddr_b) /\ ~s2.idx_store
ex_fwd_c == IF s2.idx_store THEN store_fwd ELSE Completes(s2.raddr_b)

ex_valid == can_issue /\ ~redirect_valid
-----------------------------------------------------------------------------
StageRegister ==
    /\ s2_valid' =
         IF redirect_valid THEN FALSE
         ELSE s2_load \/ (s2_valid /\ ~(can_issue /\ ex_ready))
    /\ s2' = IF s2_load THEN s1 ELSE s2
    /\ value_done' = IF s2_load THEN FALSE ELSE value_done \/ read_value
    /\ IF read_value
       THEN store_value' = rf_rdata_a /\ store_fwd' = Completes(s2.rd)
       ELSE UNCHANGED <<store_value, store_fwd>>

HaltLatch_AtExecute ==
    halt' = IF redirect_valid THEN FALSE
            ELSE halt \/ (ex_valid /\ ex_ready /\ s2.is_halt /\ ~s2.illegal)

(* The latch is set as the frame leaves Fetch; a redirect clears it, for   *)
(* the halt was then on a wrong path.                                      *)
HaltLatch ==
    halt' = IF redirect_valid THEN FALSE ELSE halt \/ (s2_load /\ s1.is_halt /\ ~s1.illegal)

IdExRegister ==
    /\ x_valid' = IF redirect_valid THEN FALSE ELSE IF ex_ready THEN ex_valid ELSE x_valid
    /\ IF ex_ready
       THEN /\ x' = s2
            /\ x_a' = ex_a /\ x_b' = ex_b /\ x_c' = ex_c
            /\ x_fwd_a' = ex_fwd_a /\ x_fwd_b' = ex_fwd_b /\ x_fwd_c' = ex_fwd_c
       ELSE UNCHANGED <<x, x_a, x_b, x_c, x_fwd_a, x_fwd_b, x_fwd_c>>

WaitState ==
    state' =
        CASE state = "IDLE" -> IF late_op THEN "ADD_WAIT" ELSE IF mul_op THEN "MUL_WAIT" ELSE "IDLE"
          [] state = "ADD_WAIT" ->
                IF dmem_req_taken THEN "MEM_WAIT" ELSE IF ~mem_op THEN "IDLE" ELSE "ADD_WAIT"
          [] state = "MEM_WAIT" -> IF dmem_rvalid THEN "IDLE" ELSE "MEM_WAIT"
          [] state = "MUL_WAIT" -> IF mul_valid THEN "IDLE" ELSE "MUL_WAIT"

Adders ==
    /\ add_result' = Wrap(op_a + op_b)
    /\ sub_result' = Wrap(op_a - op_b)

Multiplier ==
    /\ IF mul_start THEN mul_a' = op_a /\ mul_b' = op_b ELSE UNCHANGED <<mul_a, mul_b>>
    /\ stage_valid' =
         [i \in 1 .. MulStages |-> IF i = 1 THEN mul_start ELSE stage_valid[i - 1]]

ConditionCodes == cc' = IF valid_op /\ flags_valid THEN alu_flags ELSE cc

FaultLatches ==
    err' = err
        \cup (IF completing /\ live /\ x.illegal THEN {"illegal"} ELSE {})
        \cup (IF completing /\ valid_op /\ unsupported THEN {"unsupported"} ELSE {})
        \cup (IF completing /\ valid_op /\ x.is_trap THEN {"trap"} ELSE {})
        \cup (IF completing /\ pc_misaligned THEN {"unaligned"} ELSE {})

Writeback_NoEnable ==
    /\ rf_wr_en' = wb_valid
    /\ rf_wr_addr' = wb_rd /\ rf_wr_data' = wb_data
    /\ redirect_valid' = wb_redirect_valid
    /\ redirect_pc' = IF wb_redirect_valid THEN wb_redirect_pc ELSE redirect_pc

(* The data register keeps its value until the next write: Execute still   *)
(* forwards from it.                                                       *)
Writeback ==
    /\ rf_wr_en' = wb_valid
    /\ IF wb_valid
       THEN rf_wr_addr' = wb_rd /\ rf_wr_data' = wb_data
       ELSE UNCHANGED <<rf_wr_addr, rf_wr_data>>
    /\ redirect_valid' = wb_redirect_valid
    /\ redirect_pc' = IF wb_redirect_valid THEN wb_redirect_pc ELSE redirect_pc

RegisterFile ==
    regs' = IF rf_wr_en THEN [regs EXCEPT ![rf_wr_addr] = rf_wr_data] ELSE regs

(* vea_mem_if (vea_core.sv:243) and the memory behind it, as Execute sees  *)
(* them: it takes one request at a time and answers it in a later cycle,   *)
(* however much later; what a store writes is there once it is answered.   *)
(* MemIf models the transfer itself.                                       *)
DataMemory ==
    /\ dmem' =
         IF dmem_rvalid /\ dmem_req.we
         THEN [dmem EXCEPT ![CellAt(dmem_req.addr)] = Low(dmem_req.wdata, dmem_req.size)]
         ELSE dmem
    /\ dmem_busy' = (dmem_req_taken \/ (dmem_busy /\ ~dmem_rvalid))
    /\ dmem_req' =
         IF dmem_req_taken
         THEN [addr |-> add_result, we |-> x.is_store, size |-> x.mem_size, wdata |-> op_c]
         ELSE dmem_req
    /\ dmem_req_ready' \in BOOLEAN
    /\ dmem_rvalid' \in (IF dmem_busy' THEN BOOLEAN ELSE {FALSE})

Cycle ==
    /\ Fetch!StateRegister
    /\ Fetch!PcRegister
    /\ Fetch!FrameRegisters
    /\ StageRegister
    /\ HaltLatch
    /\ IdExRegister
    /\ WaitState
    /\ Adders
    /\ Multiplier
    /\ ConditionCodes
    /\ FaultLatches
    /\ Writeback
    /\ RegisterFile
    /\ DataMemory
    /\ Fetch!Memory
    /\ UNCHANGED program

Next == Cycle

Spec == Init /\ [][Next]_vars

FairSpec == Spec /\ WF_vars(Next)
-----------------------------------------------------------------------------
(* The architectural state.  Writeback holds the last result until the     *)
(* register file has it; the oldest instruction not yet retired is the     *)
(* first found from Writeback back to Fetch.                               *)
ArchRegs == [r \in RegNums |-> Read(r)]

NextToRetire ==
    IF redirect_valid THEN redirect_pc
    ELSE IF x_valid THEN x.pc \div 4
    ELSE IF s2_valid THEN s2.pc \div 4
    ELSE Fetch!NextFrame

Drained == halt /\ ~redirect_valid /\ ~s2_valid /\ ~x_valid

Arch == INSTANCE VeaArch WITH
    pc     <- IF stopped THEN PcSize ELSE NextToRetire,
    regs   <- ArchRegs,
    status <- IF stopped THEN CHOOSE e \in err : TRUE ELSE IF Drained THEN "halt" ELSE "run"

(* Frames tell their own length, as the assembler writes them: the core    *)
(* goes on behind a frame by its length nibble, the simulators by what     *)
(* they consumed of it.                                                    *)
LengthsTold ==
    \A p \in Programs, a \in Pc :
        LET f == Code[p][a] IN
        Arch!SimIllegal(f) \/ LenOf(f) \notin 2 .. 12 \/ Arch!WellFormed(f)

(* The table's rows for what the core computes outside of it: the adders   *)
(* beside the ALU, and not, which takes its operand in a.                  *)
AluTold ==
    \A u, v \in Word :
        /\ Alu[<<"add", u, v>>] = Wrap(u + v)
        /\ Alu[<<"sub", u, v>>] = Wrap(u - v)
        /\ Alu[<<"not", u, v>>] = Complement(u)

(* The core runs the program as the simulator's instructions define it:    *)
(* every cycle retires the next instruction of the program with exactly    *)
(* its effect, or retires none and changes nothing.  No forward is stale,  *)
(* no instruction of a wrong path, behind a halt or behind a fault has any *)
(* effect, whatever the memories' latencies.                               *)
RefinesArch == Arch!Spec

(* Fetch sees only what VeaFetch lets Decode and Execute do, so that what  *)
(* holds of Fetch on its own holds of it in the core.                      *)
RefinesFetch == Fetch!Spec

(* The operands of the instruction in Execute are the architectural values *)
(* of its registers for as long as it waits there (decode.sv:20-23,        *)
(* execute.sv:14-17), a store's value included, which an indexed store     *)
(* reads a cycle before the rest (decode.sv:365-371).                      *)
OperandsCurrent ==
    valid_op =>
        /\ op_a = OperandA(x, ArchRegs[x.raddr_a])
        /\ op_b = OperandB(x, ArchRegs[x.raddr_b])
        /\ x.is_store => op_c = ArchRegs[x.rd]

(* Execute waits on memory exactly while memory holds its request, and on  *)
(* the multiplier exactly while one product is in it: no answer is for an  *)
(* earlier instruction and none is missed.                                 *)
UnitsInStep ==
    /\ dmem_busy <=> state = "MEM_WAIT"
    /\ state = "MUL_WAIT" <=> \E i \in 1 .. MulStages : stage_valid[i]
    /\ \A i, j \in 1 .. MulStages : stage_valid[i] /\ stage_valid[j] => i = j

(* An instruction that waits in Execute is live: nothing behind it, and no *)
(* redirect or fault, can come between its start and its end.              *)
WaitingIsLive == state # "IDLE" => valid_op

(* With memories that keep taking and answering requests, the core retires *)
(* instructions until a halt drains it or a fault stops it.                *)
KeepsRetiring ==
    /\ []<>imem_req_ready /\ []<>(imem_owed = <<>> \/ imem_rvalid)
    /\ []<>dmem_req_ready /\ []<>(~dmem_busy \/ dmem_rvalid)
    => []<>(Drained \/ stopped \/ (live /\ completing))

(* A core that has stopped goes quiet: after a fault or a halt Fetch asks   *)
(* for a frame only a few times more, then never again.  It may ask once   *)
(* or twice: a fault can latch while Decode's stage register is empty.     *)
QuietOnceStopped == stopped \/ Drained ~> []~Fetch!request_taken
=============================================================================
