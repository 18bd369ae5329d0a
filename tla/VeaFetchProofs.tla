--------------------------- MODULE VeaFetchProofs ---------------------------
(***************************************************************************)
(* Proofs about the fetch stage, for every program, address width and      *)
(* memory latency.  The four structural invariants hold each other up: one *)
(* reply is owed exactly in WAIT and DRAIN (OneOutstanding), so the reply  *)
(* that WAIT accepts is the one it asked for (WaitsForItsPc), so the frame *)
(* registers are loaded consistently (FrameIsItsOwn).                      *)
(***************************************************************************)
EXTENDS VeaFetch, TLAPS

(* The successor of a frame is an address: word lengths are naturals and   *)
(* the address register wraps.                                             *)
LEMMA SuccessorInPc ==
    ASSUME NEW a \in Pc, NEW n \in Nat PROVE (a + n) % PcSize \in Pc
  BY PcAssumption DEF Pc

(* A length nibble is between 0 and 4 words. *)
LEMMA LenWordsNat ==
    ASSUME NEW n \in 0 .. 15 PROVE LenWords(n) \in Nat
  BY DEF LenWords

(* The head of what memory owes is an address. *)
LEMMA OwedHead ==
    ASSUME owed \in Seq(Pc), owed # <<>> PROVE Head(owed) \in Pc /\ owed[1] = Head(owed)
  OBVIOUS

Reply == imem_rvalid => owed # <<>>

IInv == TypeOK /\ Reply /\ OneOutstanding /\ WaitsForItsPc /\ FrameIsItsOwn

LEMMA InitInv == Init => IInv
<1> SUFFICES ASSUME Init PROVE IInv
  OBVIOUS
<1>1. TypeOK
  <2>1. owed \in Seq(Pc)
    BY DEF Init
  <2> QED
    BY <2>1, PcAssumption, Zenon DEF Init, TypeOK, States
<1>2. Reply
  BY DEF Init, Reply
<1>3. OneOutstanding
  BY DEF Init, OneOutstanding
<1>4. WaitsForItsPc /\ FrameIsItsOwn
  BY DEF Init, WaitsForItsPc, FrameIsItsOwn, frame_valid
<1> QED
  BY <1>1, <1>2, <1>3, <1>4 DEF IInv

(* With at most one reply owed, the queue is empty or a single address.    *)
LEMMA OwedNext ==
    ASSUME IInv, Cycle
    PROVE  /\ request_taken => owed' = <<pc>>
           /\ ~request_taken /\ imem_rvalid => owed' = <<>>
           /\ ~request_taken /\ ~imem_rvalid => owed' = owed
           /\ request_taken => state = "REQUEST" /\ owed = <<>> /\ ~imem_rvalid
<1>1. owed \in Seq(Pc) /\ pc \in Pc /\ Len(owed) <= 1
  BY DEF IInv, TypeOK, OneOutstanding
<1>2. request_taken => state = "REQUEST" /\ owed = <<>> /\ ~imem_rvalid
  BY DEF IInv, OneOutstanding, Reply, request_taken, imem_req_valid
<1>3. imem_rvalid => owed # <<>>
  BY DEF IInv, Reply
<1>4. imem_rvalid => Tail(owed) = <<>>
  BY <1>1, <1>3
<1>5. owed' = IF request_taken THEN Append(IF imem_rvalid THEN Tail(owed) ELSE owed, pc)
              ELSE IF imem_rvalid THEN Tail(owed) ELSE owed
  BY DEF Cycle, Memory
<1>6. Append(<<>>, pc) = <<pc>>
  BY <1>1
<1> QED
  BY <1>2, <1>3, <1>4, <1>5, <1>6, Zenon

LEMMA NextTypeOK == ASSUME IInv, Cycle PROVE TypeOK'
<1> USE DEF IInv
<1>1. state' \in States
  BY Zenon DEF Cycle, StateRegister, AfterRedirect, InSequence, TypeOK, States
<1>2. accept_reply => imem_rdata \in Pc /\ imem[imem_rdata] \in 0 .. 15
  <2> SUFFICES ASSUME accept_reply PROVE imem_rdata \in Pc
    BY LensAssumption DEF TypeOK
  <2>1. owed # <<>>
    BY DEF accept_reply, Reply
  <2> QED
    BY <2>1, OwedHead DEF TypeOK, imem_rdata
<1>3. accept_reply => next_pc \in Pc
  BY <1>2, LenWordsNat, SuccessorInPc DEF next_pc, TypeOK
<1>4. pc' \in Pc
  BY <1>3, Zenon DEF Cycle, PcRegister, TypeOK
<1>5. frame_pc_word' \in Pc /\ frame_bytes' \in Pc /\ frame_bad_len' \in BOOLEAN
  <2>1. (imem[imem_rdata] < LenMin) \in BOOLEAN
    OBVIOUS
  <2> QED
    BY <1>2, <2>1, Zenon DEF Cycle, FrameRegisters, TypeOK
<1>6. owed' \in Seq(Pc)
  <2>1. pc \in Pc /\ owed \in Seq(Pc)
    BY DEF TypeOK
  <2>2. <<pc>> \in Seq(Pc) /\ <<>> \in Seq(Pc)
    BY <2>1
  <2> QED
    BY <2>1, <2>2, OwedNext, Zenon
<1>7. imem_req_ready' \in BOOLEAN /\ imem_rvalid' \in BOOLEAN
  BY Zenon DEF Cycle, Memory
<1>8. redirect_valid' \in BOOLEAN /\ redirect_pc' \in Pc /\ frame_ready' \in BOOLEAN /\ halt' \in BOOLEAN
  BY Zenon DEF Cycle, Downstream, TypeOK
<1>9. imem' \in [Pc -> Lens]
  BY Zenon DEF Cycle, TypeOK
<1> QED
  BY <1>1, <1>4, <1>5, <1>6, <1>7, <1>8, <1>9 DEF TypeOK

LEMMA NextReply == ASSUME IInv, Cycle PROVE Reply'
  BY Zenon DEF Cycle, Memory, Reply

LEMMA NextOneOutstanding == ASSUME IInv, Cycle PROVE OneOutstanding'
<1>1. state \in States
  BY DEF IInv, TypeOK
<1>2. Len(owed) <= 1 /\ (owed # <<>> <=> state \in {"WAIT", "DRAIN"})
  BY DEF IInv, OneOutstanding
<1>3. <<pc>> # <<>> /\ Len(<<pc>>) <= 1 /\ Len(<<>>) <= 1
  OBVIOUS
<1>4. Len(owed') <= 1
  BY <1>2, <1>3, OwedNext
<1>5. imem_rvalid => state \in {"WAIT", "DRAIN"}
  BY <1>2 DEF IInv, Reply
<1>6. owed' # <<>> <=> request_taken \/ (state \in {"WAIT", "DRAIN"} /\ ~imem_rvalid)
  BY <1>2, <1>3, <1>5, OwedNext, Zenon
<1>7. state' \in {"WAIT", "DRAIN"} <=> request_taken \/ (state \in {"WAIT", "DRAIN"} /\ ~imem_rvalid)
  <2>1. state' = IF redirect_valid THEN AfterRedirect ELSE InSequence
    BY DEF Cycle, StateRegister
  <2>2. request_taken => state = "REQUEST"
    BY OwedNext
  <2>3. CASE state = "REQUEST"
    BY <2>1, <2>3, Zenon DEF AfterRedirect, InSequence
  <2>4. CASE state = "WAIT"
    BY <2>1, <2>2, <2>4, Zenon DEF AfterRedirect, InSequence
  <2>5. CASE state = "DELIVER"
    BY <2>1, <2>2, <2>5, Zenon DEF AfterRedirect, InSequence
  <2>6. CASE state = "DRAIN"
    BY <2>1, <2>2, <2>6, Zenon DEF AfterRedirect, InSequence
  <2> QED
    BY <1>1, <2>3, <2>4, <2>5, <2>6 DEF States
<1> QED
  BY <1>4, <1>6, <1>7, Zenon DEF OneOutstanding

LEMMA NextWaitsForItsPc == ASSUME IInv, Cycle PROVE WaitsForItsPc'
<1> SUFFICES ASSUME state' = "WAIT" PROVE owed'[1] = pc'
  BY DEF WaitsForItsPc
<1>1. state \in States
  BY DEF IInv, TypeOK
<1>2. /\ ~redirect_valid
      /\ \/ state = "REQUEST" /\ request_taken
         \/ state = "WAIT" /\ ~imem_rvalid
  <2>1. state' = IF redirect_valid THEN AfterRedirect ELSE InSequence
    BY DEF Cycle, StateRegister
  <2> QED
    BY <1>1, <2>1 DEF AfterRedirect, InSequence, States
<1>3. pc' = pc
  BY <1>2, Zenon DEF Cycle, PcRegister, accept_reply
<1>4. CASE request_taken
  BY <1>3, <1>4, OwedNext
<1>5. CASE ~request_taken
  BY <1>2, <1>3, <1>5, OwedNext DEF IInv, WaitsForItsPc
<1> QED
  BY <1>4, <1>5

(* A frame is loaded only from WAIT, where the reply is for pc; on offer   *)
(* it does not change.                                                     *)
LEMMA NextFrameIsItsOwn == ASSUME IInv, Cycle PROVE FrameIsItsOwn'
<1> SUFFICES ASSUME state' = "DELIVER"
             PROVE  /\ frame_bytes' = frame_pc_word'
                    /\ frame_bad_len' <=> imem'[frame_pc_word'] < LenMin
  BY DEF FrameIsItsOwn, frame_valid
<1>1. state \in States
  BY DEF IInv, TypeOK
<1>2. ~redirect_valid /\ ((state = "WAIT" /\ imem_rvalid) \/ state = "DELIVER")
  <2>1. state' = IF redirect_valid THEN AfterRedirect ELSE InSequence
    BY DEF Cycle, StateRegister
  <2> QED
    BY <1>1, <2>1 DEF AfterRedirect, InSequence, States
<1>3. CASE state = "WAIT"
  <2>1. accept_reply
    BY <1>2, <1>3 DEF accept_reply
  <2>2. imem_rdata = pc
    <3>1. owed[1] = pc /\ owed \in Seq(Pc) /\ owed # <<>>
      BY <1>2, <1>3 DEF IInv, WaitsForItsPc, TypeOK, Reply
    <3> QED
      BY <3>1, OwedHead DEF imem_rdata
  <2> QED
    BY <2>1, <2>2, Zenon DEF Cycle, FrameRegisters
<1>4. CASE state = "DELIVER"
  <2>1. ~accept_reply
    BY <1>4 DEF accept_reply
  <2> QED
    BY <1>4, <2>1, Zenon DEF Cycle, FrameRegisters, IInv, FrameIsItsOwn, frame_valid
<1> QED
  BY <1>2, <1>3, <1>4

LEMMA NextInv == IInv /\ [Next]_vars => IInv'
<1> SUFFICES ASSUME IInv, [Next]_vars PROVE IInv'
  OBVIOUS
<1>1. CASE Cycle
  BY <1>1, NextTypeOK, NextReply, NextOneOutstanding, NextWaitsForItsPc, NextFrameIsItsOwn
     DEF IInv
<1>2. CASE UNCHANGED vars
  BY <1>2, Zenon DEF vars, regs, inputs, IInv, TypeOK, Reply, OneOutstanding, WaitsForItsPc,
     FrameIsItsOwn, frame_valid
<1> QED
  BY <1>1, <1>2 DEF Next

LEMMA Invariance == Spec => []IInv
  BY InitInv, NextInv, PTL DEF Spec

(* Every register of the stage keeps its range. *)
THEOREM TypeCorrect == Spec => []TypeOK
<1>1. IInv => TypeOK
  BY DEF IInv
<1> QED
  BY <1>1, Invariance, PTL

(* Replies need no tag: one is owed exactly while the stage waits for it   *)
(* or drains it, and never two.                                            *)
THEOREM OneOutstandingAlways == Spec => []OneOutstanding
<1>1. IInv => OneOutstanding
  BY DEF IInv
<1> QED
  BY <1>1, Invariance, PTL

(* A frame is offered with the address and the bad-length mark of its own  *)
(* bytes, wherever redirects fall.                                         *)
THEOREM FrameIsItsOwnAlways == Spec => []FrameIsItsOwn
<1>1. IInv => FrameIsItsOwn
  BY DEF IInv
<1> QED
  BY <1>1, Invariance, PTL
-----------------------------------------------------------------------------
(* Halt.  Decode raises halt only with the frame it takes, which is when   *)
(* no frame is left on offer and none is awaited.                          *)
HInv == IInv /\ NothingBehindHalt

LEMMA NextHalt == ASSUME HInv, Cycle PROVE NothingBehindHalt'
<1> SUFFICES ASSUME halt' PROVE state' \notin {"DELIVER", "WAIT"}
  BY DEF NothingBehindHalt, frame_valid
<1>1. state \in States /\ halt' \in BOOLEAN /\ halt \in BOOLEAN
  BY NextTypeOK DEF HInv, IInv, TypeOK
<1>2. ~redirect_valid /\ (halt \/ (state = "DELIVER" /\ frame_ready))
  BY <1>1, Zenon DEF Cycle, Downstream, frame_taken, frame_valid
<1>3. state' = InSequence
  BY <1>2, Zenon DEF Cycle, StateRegister
<1>4. CASE halt
  <2>1. state \in {"REQUEST", "DRAIN"} /\ ~request_taken
    BY <1>1, <1>4 DEF HInv, NothingBehindHalt, frame_valid, States, request_taken, imem_req_valid
  <2> QED
    BY <1>3, <2>1 DEF InSequence
<1>5. CASE state = "DELIVER" /\ frame_ready
  BY <1>3, <1>5 DEF InSequence
<1> QED
  BY <1>2, <1>4, <1>5

(* Nothing is on offer, or on its way, behind a halt. *)
THEOREM NothingBehindHaltAlways == Spec => []NothingBehindHalt
<1>1. Init => HInv
  BY InitInv, Zenon DEF Init, HInv, NothingBehindHalt
<1>2. HInv /\ [Next]_vars => HInv'
  <2> SUFFICES ASSUME HInv, [Next]_vars PROVE HInv'
    OBVIOUS
  <2>1. IInv'
    BY NextInv DEF HInv
  <2>2. CASE Cycle
    BY <2>1, <2>2, NextHalt DEF HInv
  <2>3. CASE UNCHANGED vars
    BY <2>1, <2>3, Zenon DEF vars, regs, inputs, HInv, NothingBehindHalt, frame_valid
  <2> QED
    BY <2>2, <2>3 DEF Next
<1>3. HInv => NothingBehindHalt
  BY DEF HInv
<1> QED
  BY <1>1, <1>2, <1>3, PTL DEF Spec
-----------------------------------------------------------------------------
(* Order.  While a frame is on offer, pc is already at its successor.      *)
PcFollows == frame_valid => pc = Successor(frame_pc_word)

OInv == IInv /\ PcFollows

LEMMA NextPcFollows == ASSUME OInv, Cycle PROVE PcFollows'
<1> SUFFICES ASSUME state' = "DELIVER" PROVE pc' = Successor(frame_pc_word')
  BY Zenon DEF Cycle, OInv, IInv, PcFollows, frame_valid, Successor
<1>1. state \in States
  BY DEF OInv, IInv, TypeOK
<1>2. ~redirect_valid /\ ((state = "WAIT" /\ imem_rvalid) \/ state = "DELIVER")
  <2>1. state' = IF redirect_valid THEN AfterRedirect ELSE InSequence
    BY DEF Cycle, StateRegister
  <2> QED
    BY <1>1, <2>1 DEF AfterRedirect, InSequence, States
<1>3. CASE state = "WAIT"
  <2>1. accept_reply
    BY <1>2, <1>3 DEF accept_reply
  <2>2. imem_rdata = pc
    <3>1. owed[1] = pc /\ owed \in Seq(Pc) /\ owed # <<>>
      BY <1>2, <1>3 DEF OInv, IInv, WaitsForItsPc, TypeOK, Reply
    <3> QED
      BY <3>1, OwedHead DEF imem_rdata
  <2>3. frame_pc_word' = pc /\ pc' = next_pc
    BY <1>2, <2>1, Zenon DEF Cycle, FrameRegisters, PcRegister
  <2> QED
    BY <2>2, <2>3, Zenon DEF next_pc, Successor
<1>4. CASE state = "DELIVER"
  <2>1. ~accept_reply
    BY <1>4 DEF accept_reply
  <2>2. frame_pc_word' = frame_pc_word /\ pc' = pc
    BY <1>2, <2>1, Zenon DEF Cycle, FrameRegisters, PcRegister
  <2> QED
    BY <1>4, <2>2, Zenon DEF OInv, PcFollows, frame_valid, Successor
<1> QED
  BY <1>2, <1>3, <1>4

LEMMA InitOrder == Init => OInv
  BY InitInv DEF Init, OInv, PcFollows, frame_valid

LEMMA NextOrder == OInv /\ [Next]_vars => OInv'
<1> SUFFICES ASSUME OInv, [Next]_vars PROVE OInv'
  OBVIOUS
<1>1. IInv'
  BY NextInv DEF OInv
<1>2. CASE Cycle
  BY <1>1, <1>2, NextPcFollows DEF OInv
<1>3. CASE UNCHANGED vars
  BY <1>1, <1>3, Zenon DEF vars, regs, OInv, PcFollows, frame_valid, Successor
<1> QED
  BY <1>2, <1>3 DEF Next

LEMMA StepInOrder == ASSUME OInv, Cycle PROVE FrameStep
<1>1. state \in States
  BY DEF OInv, IInv, TypeOK
<1>2. state' = IF redirect_valid THEN AfterRedirect ELSE InSequence
  BY DEF Cycle, StateRegister
<1>3. CASE redirect_valid
  <2>1. pc' = redirect_pc
    BY <1>3, Zenon DEF Cycle, PcRegister
  <2>2. state' # "DELIVER"
    BY <1>1, <1>2, <1>3 DEF AfterRedirect, States
  <2> QED
    BY <1>3, <2>1, <2>2, Zenon DEF FrameStep, NextFrame, frame_valid
<1>4. CASE ~redirect_valid /\ state = "DELIVER"
  <2>1. ~accept_reply
    BY <1>4 DEF accept_reply
  <2>2. frame_pc_word' = frame_pc_word /\ pc' = pc
    BY <1>4, <2>1, Zenon DEF Cycle, FrameRegisters, PcRegister
  <2>3. pc = Successor(frame_pc_word)
    BY <1>4, Zenon DEF OInv, PcFollows, frame_valid
  <2>4. state' = IF frame_ready THEN "REQUEST" ELSE "DELIVER"
    BY <1>2, <1>4, Zenon DEF InSequence
  <2> QED
    BY <1>4, <2>2, <2>3, <2>4, Zenon DEF FrameStep, NextFrame, frame_valid, frame_taken
<1>5. CASE ~redirect_valid /\ accept_reply
  <2>1. state = "WAIT" /\ state' = "DELIVER"
    BY <1>2, <1>5, Zenon DEF accept_reply, InSequence
  <2>2. frame_pc_word' = pc
    BY <1>5, Zenon DEF Cycle, FrameRegisters
  <2> QED
    BY <1>5, <2>1, <2>2, Zenon DEF FrameStep, NextFrame, frame_valid, frame_taken
<1>6. CASE ~redirect_valid /\ state # "DELIVER" /\ ~accept_reply
  <2>1. state' # "DELIVER"
    BY <1>1, <1>2, <1>6 DEF InSequence, accept_reply, States
  <2>2. pc' = pc
    BY <1>6, Zenon DEF Cycle, PcRegister
  <2> QED
    BY <1>6, <2>1, <2>2, Zenon DEF FrameStep, NextFrame, frame_valid, frame_taken
<1> QED
  BY <1>3, <1>4, <1>5, <1>6

(* Decode is given the program's frames in order: none lost, repeated, or  *)
(* left over from before a redirect, for every memory latency.             *)
THEOREM InOrderAlways == Spec => InOrder
<1>1. OInv /\ [Next]_vars => [FrameStep]_vars
  BY StepInOrder DEF Next
<1> QED
  BY <1>1, InitOrder, NextOrder, PTL DEF Spec, InOrder
=============================================================================
