------------------------------ MODULE MCMachine ------------------------------
(* A four-bit machine for TLC: sixteen words, two registers, two pages of   *)
(* eight bytes, instruction slots of two bytes.                             *)
EXTENDS Integers

I(op, fn, len, imm, rd, rs, src) ==
    [op |-> op, fn |-> fn, len |-> len, imm |-> imm, rd |-> rd, rs |-> rs, src |-> src]

MCInsn ==
    [b \in 0 .. 15 |->
       CASE b = 0  -> I("nop", "", 0, FALSE, 0, 0, 0)           \* blank memory
         [] b = 1  -> I("nop", "", 1, FALSE, 0, 0, 0)
         [] b = 2  -> I("halt", "", 1, FALSE, 0, 0, 0)
         [] b = 3  -> I("mov", "", 2, TRUE, 0, 0, 0)            \* mov r0, #i
         [] b = 4  -> I("alu", "add", 1, FALSE, 1, 0, 1)        \* add r1, r0, r1
         [] b = 5  -> I("cmp", "signed", 1, FALSE, 1, 0, 0)     \* cmp.s r1, r0
         [] b = 6  -> I("branch", "lt", 2, TRUE, 0, 0, 0)       \* blt pc + i
         [] b = 7  -> I("jmp", "", 1, FALSE, 0, 0, 0)           \* jmp r0
         [] b = 8  -> I("st", "", 2, TRUE, 1, 0, 0)             \* st [r0 + i], r1
         [] b = 9  -> I("ld", "", 2, TRUE, 1, 0, 0)             \* ld r1, [r0 + i]
         [] b = 10 -> I("alu", "div", 1, FALSE, 1, 1, 0)        \* div r1, r1, r0
         [] b = 11 -> I("trap", "", 1, FALSE, 0, 0, 0)
         [] b = 12 -> I("not", "", 1, FALSE, 0, 0, 1)           \* not r0, r1
         [] b = 13 -> I("mov", "", 1, FALSE, 0, 0, 3)           \* mov r0, r3
         [] b = 14 -> I("mov", "", 3, TRUE, 1, 0, 0)            \* over-long immediate
         [] b = 15 -> I("cmp", "unsigned", 1, FALSE, 3, 0, 0)]  \* cmp r3, r0

LOCAL A == INSTANCE VeaAlu WITH WordSize <- 16, Width <- 4

MCAlu ==
    [x \in {"add", "sub", "and", "or", "xor", "shl", "shr", "sar", "mul", "div"}
           \X (0 .. 15) \X (0 .. 15) |-> A!SimAlu(x[1], x[2], x[3])]

(* A slot is a head and the byte behind it; a program is four slots in the  *)
(* first page.  The second page has no storage at the start.                *)
Image(slots) ==
    [a \in 0 .. 15 |-> IF a < 8 THEN slots[(a \div 2) + 1][(a % 2) + 1] ELSE 0]

Programs(alphabet) == { Image(s) : s \in [1 .. 4 -> alphabet] }
=============================================================================
