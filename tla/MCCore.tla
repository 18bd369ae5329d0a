------------------------------- MODULE MCCore -------------------------------
(* Sixteen word addresses and 64 words, two registers, a data memory of two *)
(* cells, the five stages of mul.sv.                                        *)
EXTENDS VeaCore

LOCAL A == INSTANCE VeaAlu WITH WordSize <- 64, Width <- 6

MCAlu ==
    [t \in (AluFn \ {"div"}) \X (0 .. 63) \X (0 .. 63) |->
        CASE t[1] = "not" -> 63 - t[2]
          [] t[1] = "mul" -> (t[2] * t[3]) % 64
          [] OTHER        -> A!RtlAlu(t[1], t[2], t[3])]

MCNarrow == [size \in 0 .. 3 |-> CASE size = 0 -> 64 [] size = 1 -> 4 [] size = 2 -> 8 [] size = 3 -> 16]

MCMemories == {[c \in 0 .. 1 |-> IF c = 0 THEN 9 ELSE 22]}

(* A frame: its bytes, and behind them bytes that belong to no one.         *)
F(bytes) ==
    [k \in 0 .. MaxInsnBytes - 1 |-> IF k < Len(bytes) THEN bytes[k + 1] ELSE 200 + k]

Tame == <<
    F(<<0, 32>>),                  \* nop
    F(<<16, 80, 1, 1, 0>>),        \* add r1, r1, r0
    F(<<17, 81, 0, 1, 3>>),        \* sub r0, r1, #3
    F(<<20, 64, 1, 0>>),           \* not r1, r0
    F(<<25, 80, 1, 0, 1>>),        \* mul r1, r0, r1
    F(<<32, 64, 0, 1>>),           \* cmp r0, r1
    F(<<33, 65, 1, 253>>),         \* cmp.s r1, #-3
    F(<<48, 59, 8>>),              \* blt +8
    F(<<48, 56, 8>>),              \* b +8
    F(<<49, 48, 1>>),              \* jmp r1
    F(<<64, 80, 1, 0, 1>>),        \* ld r1, [r0 + r1]
    F(<<64, 91, 0, 1, 1>>),        \* ld.b.s r0, [r1 + #1]
    F(<<65, 80, 1, 0, 1>>),        \* st [r0 + r1], r1
    F(<<65, 67, 0, 1>>) >>          \* st.b [r1], r0

Wild == <<
    F(<<255, 32>>),                \* halt
    F(<<254, 48, 7>>),             \* trap 7
    F(<<26, 80, 1, 0, 1>>),        \* div r1, r0, r1
    F(<<48, 56, 6>>),              \* b +6, misaligned
    F(<<27, 80, 1, 0, 1>>),        \* no such opcode
    F(<<255, 16>>),                \* halt of a bad length
    F(<<25, 80, 70, 0, 1>>) >>      \* mul into no register

All == Tame \o Wild

Words(f) == LET n == LenOf(f) IN (n \div 4) + (IF n % 4 = 0 THEN 0 ELSE 1)

RECURSIVE Place(_, _, _)
Place(frames, a, p) ==
    IF frames = <<>> THEN p
    ELSE Place(Tail(frames), a + Words(Head(frames)), [p EXCEPT ![a] = Head(frames)])

Blank == [a \in 0 .. 15 |-> F(<<0, 0>>)]

(* A program is a sequence of frames behind mov r0, #4 and mov r1, #13.     *)
Assemble(frames) == Place(<<F(<<1, 65, 0, 4>>), F(<<1, 65, 1, 13>>)>> \o frames, 0, Blank)

HaltFrame == F(<<255, 32>>)
LoopFrame == F(<<49, 56, 8>>)     \* jmp 8, the first frame behind the moves

(* Two instructions of every kind, then a halt; three of the kinds that     *)
(* make and use operands and wait for them; and every kind on the wrong     *)
(* path of a branch that a load holds up for long enough to have it staged. *)
Triple == {2, 4, 5, 8, 11, 13}
MCPrograms ==
    ((1 .. Len(Tame)) \X (1 .. Len(All)))
        \cup (Triple \X Triple \X Triple)
        \cup ({11} \X {9} \X (1 .. Len(All)))

MCCode ==
    [p \in MCPrograms |->
        Assemble([i \in 1 .. Len(p) |-> All[p[i]]] \o <<HaltFrame>>)]

(* Every kind once, in a loop.                                              *)
MCLoops == 1 .. Len(All)

MCLoopCode == [p \in MCLoops |-> Assemble(<<All[p], LoopFrame>>)]

(* What the proof that the core implements VeaArch assumes of the program   *)
(* and of the table holds of these.                                         *)
ASSUME ToldAssumption == LengthsTold /\ AluTold
=============================================================================
