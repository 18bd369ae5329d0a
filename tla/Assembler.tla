----------------------------- MODULE Assembler -----------------------------
(***************************************************************************)
(* The assembler, src/vea_sim/src/assembler/mod.rs: source lines become    *)
(* instructions, the widths of label references are relaxed round by round *)
(* until the addresses stop moving, and then the frames are written.       *)
(*                                                                         *)
(* A source line is what is left once its text is split: the labels it     *)
(* defines, a mnemonic ("" for none) and operand tokens.  ByteSize is 256, *)
(* RelMax 4 and AbsMax 8 in the code; smaller ones let short programs      *)
(* cross every width.                                                      *)
(***************************************************************************)
EXTENDS SimDecode, Sequences, SequencesExt

CONSTANTS
    Sources,    \* the source texts to assemble
    Alignment,  \* ALIGNMENT
    ByteSize,   \* number of values of an immediate byte
    RelMax,     \* REL_MAX, bytes of a relative branch offset
    AbsMax      \* ABS_MAX, bytes of an absolute label value

ASSUME WidthsAssumption ==
    /\ Alignment \in Nat \ {0}
    /\ ByteSize \in Nat /\ ByteSize % 2 = 0
    /\ AbsMax \in 1 .. 8 /\ RelMax \in 1 .. AbsMax

(* ByteSize to the n. *)
Power[n \in Nat] == IF n = 0 THEN 1 ELSE ByteSize * Power[n - 1]

(* Signed immediates. *)
Fits(v, n) == -Power[n] <= 2 * v /\ 2 * v < Power[n]

(* The texts: register numbers are natural, other numbers an i64, negated  *)
(* ones too.                                                               *)
Token(tok) ==
    /\ tok.t \in {"reg", "name"} => tok.text \in STRING
    /\ tok.t = "reg" => tok.n \in Nat
    /\ tok.t = "num" => tok.n \in Int /\ Fits(tok.n, 8)
    /\ tok.t = "mem" =>
         /\ tok.base.t = "reg" => tok.base.n \in Nat
         /\ tok.off.t = "reg" => tok.off.n \in Nat
         /\ tok.off.t = "num" =>
              tok.off.n \in Int /\ Fits(tok.off.n, 8) /\ (tok.sign = "-" => Fits(-tok.off.n, 8))

ASSUME SourcesAssumption ==
    \A text \in Sources :
        /\ text \in Seq(ToSet(text))
        /\ \A line \in ToSet(text) :
             /\ line.labels \in Seq(STRING)
             /\ line.args \in Seq(ToSet(line.args))
             /\ \A tok \in ToSet(line.args) : Token(tok)

VARIABLES
    source,     \* the text being assembled
    phase,      \* what lower or assemble_listing does next
    next,       \* the next source line to parse
    pending,    \* labels waiting for an instruction; after parsing, trailing ones
    insns,      \* the instructions, their slots, labels and addresses
    syms,       \* label addresses of the round under way
    round,      \* relaxation rounds begun
    error,      \* why the text was rejected, "" if it was not
    rows, image \* the listing and the flat image

vars == <<source, phase, next, pending, insns, syms, round, error, rows, image>>
-----------------------------------------------------------------------------
(* <<mnemonic, opcode, operand form, flags>> *)
INSTRUCTIONS ==
    { <<"nop", 0, "NULL", 0>>, <<"trap", 254, "NULL", 0>>, <<"halt", 255, "NULL", 0>>,
      <<"mov", 1, "R_R__OR__R_I", 0>>, <<"not", 20, "R_R__OR__R_I", 0>>,
      <<"cmp", 32, "R_R__OR__R_I", 0>>, <<"cmp.s", 33, "R_R__OR__R_I", 0>>,
      <<"b", 48, "R__OR__I", 0>>, <<"beq", 48, "R__OR__I", 1>>,
      <<"bne", 48, "R__OR__I", 2>>, <<"blt", 48, "R__OR__I", 3>>,
      <<"bge", 48, "R__OR__I", 4>>, <<"bgt", 48, "R__OR__I", 5>>,
      <<"ble", 48, "R__OR__I", 6>>, <<"jmp", 49, "R__OR__I", 0>> }
    \cup
    { <<r[1], r[2], "R_R_R__OR__R_R_IMM", r[3]>> : r \in {
      <<"add", 16, 0>>, <<"sub", 17, 0>>, <<"and", 18, 0>>, <<"or", 19, 0>>,
      <<"xor", 21, 0>>, <<"shl", 22, 0>>, <<"shr", 23, 0>>, <<"sar", 24, 0>>,
      <<"mul", 25, 0>>, <<"div", 26, 0>>, <<"ld", 64, 0>>, <<"ld.b", 64, 2>>,
      <<"ld.h", 64, 4>>, <<"ld.w", 64, 6>>, <<"ld.sb", 64, 10>>, <<"ld.sh", 64, 12>>,
      <<"ld.sw", 64, 14>>, <<"st", 65, 0>>, <<"st.b", 65, 2>>, <<"st.h", 65, 4>>,
      <<"st.w", 65, 6>> } }

Mnemonics == { r[1] : r \in INSTRUCTIONS }
Find(mnemonic) == CHOOSE r \in INSTRUCTIONS : r[1] = mnemonic

OpcodeOf(insn) == Find(insn.mnemonic)[2]
FormOf(insn) == Find(insn.mnemonic)[3]

Relative(insn) == OpcodeOf(insn) = 48
-----------------------------------------------------------------------------
(* Slots.  A reference starts one byte wide. *)
Reg(n)    == [k |-> "reg", n |-> n, name |-> "", width |-> 1]
Num(v)    == [k |-> "num", n |-> v, name |-> "", width |-> 0]
Sym(name) == [k |-> "sym", n |-> 0, name |-> name, width |-> 1]
BadSlot   == [k |-> "bad", n |-> 0, name |-> "", width |-> 0]

IsReg(tok) == tok.t = "reg" /\ tok.n < NumRegs

RegSlot(tok) == IF IsReg(tok) THEN Reg(tok.n) ELSE BadSlot

(* What is no register in range and no number is a label if it can be one; *)
(* r99 can.                                                                *)
Operand(tok) ==
    CASE IsReg(tok)                -> Reg(tok.n)
      [] tok.t = "num"             -> Num(tok.n)
      [] ~IsReg(tok) /\ tok.t \in {"reg", "name"} -> Sym(tok.text)
      [] OTHER                     -> BadSlot

(* [base], [base + index], [base + disp] or [base - disp] *)
MemSlots(tok) ==
    IF tok.t # "mem" THEN <<BadSlot>>
    ELSE <<RegSlot(tok.base),
           CASE tok.sign = ""                       -> Num(0)
             [] tok.sign = "+" /\ IsReg(tok.off)    -> Reg(tok.off.n)
             [] tok.sign = "+" /\ tok.off.t = "num" -> Num(tok.off.n)
             [] tok.sign = "-" /\ tok.off.t = "num" -> Num(-tok.off.n)
             [] OTHER                               -> BadSlot>>

Arity == [NULL |-> 0, R__OR__I |-> 1, R_R__OR__R_I |-> 2, R_R_R__OR__R_R_IMM |-> 3]

BuildSlots(mnemonic, args) ==
    LET opcode == Find(mnemonic)[2]
        n == Len(args)
    IN CASE opcode = 64 /\ n = 2             -> <<RegSlot(args[1])>> \o MemSlots(args[2])
         [] opcode = 65 /\ n = 2             -> <<RegSlot(args[2])>> \o MemSlots(args[1])
         [] mnemonic = "trap" /\ n = 1       -> <<Operand(args[1])>>
         [] opcode \notin {64, 65} /\ n = Arity[Find(mnemonic)[3]] ->
                [i \in 1 .. n |-> IF i < n THEN RegSlot(args[i]) ELSE Operand(args[i])]
         [] OTHER                            -> <<BadSlot>>

(* A line of labels alone. *)
Blank(line) == line.mnemonic = ""

ParseInsn(line) ==
    [ mnemonic |-> line.mnemonic, labels |-> pending \o line.labels, addr |-> 0,
      slots |-> IF line.mnemonic \in Mnemonics
                THEN BuildSlots(line.mnemonic, line.args) ELSE <<BadSlot>> ]

Rejected(insn) == \E i \in DOMAIN insn.slots : insn.slots[i].k = "bad"
-----------------------------------------------------------------------------
(* imm_bytes: how many bytes it takes; zero takes none. *)
NumBytes(v) == IF v = 0 THEN 0 ELSE CHOOSE n \in 1 .. 8 :
                   (Fits(v, n) \/ n = 8) /\ \A m \in 1 .. n - 1 : ~Fits(v, m)

(* The low n bytes of v in two's complement, big end first. *)
LowBytes(v, n) == [i \in 1 .. n |-> (v \div Power[n - i]) % ByteSize]

SlotSize_NumTakesOne(slot) == 1

SlotSize(slot) ==
    CASE slot.k = "num" -> NumBytes(slot.n)
      [] OTHER          -> slot.width

InsnSize(insn) ==
    LET size[i \in 0 .. Len(insn.slots)] ==
            IF i = 0 THEN 2 ELSE size[i - 1] + SlotSize(insn.slots[i])
    IN size[Len(insn.slots)]

AlignedUp(v) == ((v + Alignment - 1) \div Alignment) * Alignment

(* Going from its narrowest to its widest reference, an instruction grows  *)
(* by less than an immediate does by one byte.                             *)
ASSUME GrowthAssumption ==
    \A regs \in 0 .. 2 : AlignedUp(2 + regs + AbsMax) <= ByteSize * AlignedUp(3 + regs)

(* No text is so long that an address in it would not fit eight bytes.     *)
ASSUME LengthAssumption ==
    \A text \in Sources : 2 * (Len(text) * AlignedUp(12)) < Power[8]

(* What a reference stands for: the distance from a branch, or an address. *)
RefValue(insn, slot) ==
    IF Relative(insn) THEN syms[slot.name] - insn.addr ELSE syms[slot.name]

WidthCap(insn) == IF Relative(insn) THEN RelMax ELSE AbsMax

SymWidth_AtLeastTwo(v) == IF NumBytes(v) < 2 THEN 2 ELSE NumBytes(v)

SymWidth(v) == IF v = 0 THEN 1 ELSE NumBytes(v)
-----------------------------------------------------------------------------
Init ==
    /\ source \in Sources
    /\ phase = "parse" /\ next = 1 /\ pending = <<>> /\ insns = <<>>
    /\ syms = <<>> /\ round = 0 /\ error = "" /\ rows = <<>> /\ image = <<>>

Fail(why) ==
    /\ phase' = "failed" /\ error' = why
    /\ UNCHANGED <<source, next, pending, insns, syms, round, rows, image>>

ParseLine ==
    /\ phase = "parse" /\ next <= Len(source)
    /\ LET line == source[next]
           insn == ParseInsn(line)
       IN CASE Blank(line) ->
                   /\ pending' = pending \o line.labels /\ next' = next + 1
                   /\ UNCHANGED <<source, phase, insns, syms, round, error, rows, image>>
            [] ~Blank(line) /\ Rejected(insn) -> Fail("bad line")
            [] OTHER ->
                   /\ insns' = Append(insns, insn)
                   /\ pending' = <<>> /\ next' = next + 1
                   /\ UNCHANGED <<source, phase, syms, round, error, rows, image>>

ParseEnd ==
    /\ phase = "parse" /\ next > Len(source)
    /\ phase' = "place"
    /\ UNCHANGED <<source, next, pending, insns, syms, round, error, rows, image>>

(* The address of each instruction and, behind the last one, of the end.   *)
Layout(code) ==
    LET at[i \in 1 .. Len(code) + 1] ==
            IF i = 1 THEN 0 ELSE at[i - 1] + AlignedUp(InsnSize(code[i - 1]))
    IN at

Attached == UNION { {j} \X DOMAIN insns[j].labels : j \in DOMAIN insns }
NameOf(p) == insns[p[1]].labels[p[2]]

Duplicate == \E p, q \in Attached : p # q /\ NameOf(p) = NameOf(q)

(* Trailing labels go in last and are not checked for duplicates. *)
Symbols ==
    [name \in { NameOf(p) : p \in Attached } \cup ToSet(pending) |->
        IF name \in ToSet(pending) THEN Layout(insns)[Len(insns) + 1]
        ELSE Layout(insns)[(CHOOSE p \in Attached : NameOf(p) = name)[1]]]

Rounds_Couple == 2

Rounds == Len(insns) + 2

Place ==
    /\ phase = "place"
    /\ CASE round = Rounds -> Fail("not converged")
         [] round < Rounds /\ Duplicate -> Fail("duplicate label")
         [] OTHER ->
                /\ syms' = Symbols
                /\ insns' = [j \in DOMAIN insns |-> [insns[j] EXCEPT !.addr = Layout(insns)[j]]]
                /\ round' = round + 1 /\ phase' = "grow"
                /\ UNCHANGED <<source, next, pending, error, rows, image>>

Refs(insn) == { i \in DOMAIN insn.slots : insn.slots[i].k = "sym" }
Unknown(insn) == \E i \in Refs(insn) : insn.slots[i].name \notin DOMAIN syms
TooFar(insn) ==
    ~Unknown(insn) /\ \E i \in Refs(insn) : SymWidth(RefValue(insn, insn.slots[i])) > WidthCap(insn)

Widen(insn, slot) ==
    LET need == SymWidth(RefValue(insn, slot)) IN
    IF slot.k = "sym" /\ need > slot.width THEN [slot EXCEPT !.width = need] ELSE slot

Widened == [j \in DOMAIN insns |->
    [insns[j] EXCEPT !.slots = [i \in DOMAIN @ |->
        IF i \in Refs(insns[j]) THEN Widen(insns[j], @[i]) ELSE @[i]]]]

(* Every reference takes the width its target needs now; the layout is     *)
(* final in the first round that widens none.                              *)
Grow ==
    /\ phase = "grow"
    /\ LET bad == { j \in DOMAIN insns : Unknown(insns[j]) \/ TooFar(insns[j]) } IN
       IF bad # {}
       THEN Fail(IF Unknown(insns[CHOOSE j \in bad : \A k \in bad : j <= k])
                 THEN "unknown label" ELSE "too far")
       ELSE /\ insns' = Widened
            /\ phase' = IF Widened = insns THEN "emit" ELSE "place"
            /\ UNCHANGED <<source, next, pending, syms, round, error, rows, image>>
-----------------------------------------------------------------------------
LastIsImm(insn) == Len(insn.slots) > 0 /\ insn.slots[Len(insn.slots)].k # "reg"

FlagsOf(insn) ==
    Find(insn.mnemonic)[4] +
        CASE FormOf(insn) \in {"R_R__OR__R_I", "R_R_R__OR__R_R_IMM"} /\ LastIsImm(insn) -> 1
          [] FormOf(insn) = "R__OR__I" /\ LastIsImm(insn)                              -> 8
          [] OTHER                                                                     -> 0

Registers(insn) ==
    FlattenSeq([i \in DOMAIN insn.slots |->
        IF insn.slots[i].k = "reg" THEN <<insn.slots[i].n>> ELSE <<>>])

SlotBytes_AlwaysAbsolute(insn, slot) ==
    CASE slot.k = "num" -> LowBytes(slot.n, NumBytes(slot.n))
      [] slot.k = "sym" -> LowBytes(syms[slot.name], slot.width)
      [] OTHER          -> <<>>

SlotBytes(insn, slot) ==
    CASE slot.k = "num" -> LowBytes(slot.n, NumBytes(slot.n))
      [] slot.k = "sym" -> LowBytes(RefValue(insn, slot), slot.width)
      [] OTHER          -> <<>>

Immediate(insn) == FlattenSeq([i \in DOMAIN insn.slots |-> SlotBytes(insn, insn.slots[i])])

Total(insn) == 2 + Len(Registers(insn)) + Len(Immediate(insn))

Encode(insn) ==
    <<OpcodeOf(insn), Total(insn) * 16 + FlagsOf(insn)>> \o Registers(insn) \o Immediate(insn)

Unencodable(insn) == Total(insn) > 15 \/ (Relative(insn) /\ Len(Immediate(insn)) > RelMax)

Zeroes(n) == [i \in 1 .. n |-> 0]

Emit ==
    /\ phase = "emit" /\ Len(rows) < Len(insns)
    /\ LET insn == insns[Len(rows) + 1]
           bytes == Encode(insn)
       IN IF Unencodable(insn) THEN Fail("unencodable")
          ELSE /\ rows' = Append(rows, [addr |-> insn.addr, bytes |-> bytes])
               /\ image' = image \o bytes \o Zeroes(AlignedUp(Len(bytes)) - Len(bytes))
               /\ UNCHANGED <<source, phase, next, pending, insns, syms, round, error>>

Done ==
    /\ phase = "emit" /\ Len(rows) = Len(insns)
    /\ phase' = "done"
    /\ UNCHANGED <<source, next, pending, insns, syms, round, error, rows, image>>

Next == ParseLine \/ ParseEnd \/ Place \/ Grow \/ Emit \/ Done

Spec == Init /\ [][Next]_vars
-----------------------------------------------------------------------------
(* What a simulator finds at the address the listing gives a row: the      *)
(* frame, its name, and its payload widened with its sign.                 *)
FrameOf(row) ==
    [i \in 0 .. MaxInsnBytes - 1 |->
        IF row.addr + i < Len(image) THEN image[row.addr + i + 1] ELSE 0]

BranchNames == <<"b", "beq", "bne", "blt", "bge", "bgt", "ble", "none">>
LoadNames == <<"ld", "ld.b", "ld.h", "ld.w", "none", "ld.sb", "ld.sh", "ld.sw">>
StoreNames == <<"st", "st.b", "st.h", "st.w">>

NameRead(f) ==
    CASE Opcode(f) \in Binary \cup {20} -> AluOfNibble[(Opcode(f) % 16) + 1]
      [] Opcode(f) = 48 -> BranchNames[(FlagBits(f) % 8) + 1]
      [] Opcode(f) = 64 -> LoadNames[(FlagBits(f) \div 2) + 1]
      [] Opcode(f) = 65 -> StoreNames[(FlagBits(f) \div 2) + 1]
      [] Opcode(f) = 1 -> "mov" [] Opcode(f) = 49 -> "jmp"
      [] Opcode(f) = 32 -> "cmp" [] Opcode(f) = 33 -> "cmp.s"
      [] Opcode(f) = Nop -> "nop" [] Opcode(f) = Trap -> "trap" [] Opcode(f) = Halt -> "halt"

PayloadOf(f) ==
    LET at == OperandAt(f)
        value[i \in 0 .. ImmLen(f)] ==
            CASE i > 0 -> value[i - 1] * ByteSize + f[at + i - 1]
              [] i = 0 /\ ImmLen(f) > 0 /\ f[at] >= ByteSize \div 2 -> -1
              [] OTHER -> 0
    IN value[ImmLen(f)]

(* What the source says: the instruction lines among its first n, and the  *)
(* operands of one in the order of the frame, the offset of an address as  *)
(* one signed number.                                                      *)
LinesOf(text) ==
    LET lines[n \in 0 .. Len(text)] ==
            IF n = 0 THEN <<>>
            ELSE IF Blank(text[n]) THEN lines[n - 1] ELSE Append(lines[n - 1], text[n])
    IN lines

Lines == LinesOf(source)[Len(source)]

Offset(addr) ==
    CASE addr.sign = ""  -> [t |-> "num", n |-> 0]
      [] addr.sign = "-" -> [t |-> "num", n |-> -addr.off.n]
      [] OTHER           -> addr.off

Operands(line) ==
    LET a == line.args IN
    CASE Find(line.mnemonic)[2] = 64 -> <<a[1], a[2].base, Offset(a[2])>>
      [] Find(line.mnemonic)[2] = 65 -> <<a[2], a[1].base, Offset(a[1])>>
      [] OTHER                       -> a

Says(line, f) ==
    LET ops == Operands(line)
        last == ops[Len(ops)]
    IN /\ NameRead(f) = line.mnemonic
       /\ \A i \in 1 .. Len(ops) - 1 : f[i + 1] = ops[i].n
       /\ Len(ops) > 0 /\ Opcode(f) # Trap =>
            /\ OperandAt(f) = Len(ops) + 1
            /\ IsImm(f) # IsReg(last)
            /\ IsReg(last) => f[OperandAt(f)] = last.n
            /\ last.t = "num" => PayloadOf(f) = last.n

(* Every row of an accepted program reads back, at the address the listing *)
(* gives it, as the instruction its line says, legal and with the length   *)
(* its format has, and the next row begins where its padding ends: the     *)
(* sizes the layout counted are the bytes that encode wrote.               *)
ReadsBack ==
    phase = "done" =>
    /\ Len(rows) = Len(Lines)
    /\ \A k \in DOMAIN rows :
        LET f == FrameOf(rows[k])
            end == IF k < Len(rows) THEN rows[k + 1].addr ELSE Len(image)
        IN /\ Says(Lines[k], f)
           /\ LenOf(f) = Len(rows[k].bytes)
           /\ Opcode(f) = Trap \/ (~SimIllegal(f) /\ WellFormed(f))
           /\ \A i \in LenOf(f) .. end - rows[k].addr - 1 : image[rows[k].addr + i + 1] = 0
           /\ end = rows[k].addr + AlignedUp(LenOf(f))

(* The addresses of the places that carry a label in the source.           *)
PlacesOf(name) ==
    { LET k == Len(LinesOf(source)[l - 1]) + 1 IN
      IF k <= Len(rows) THEN rows[k].addr ELSE Len(image)
      : l \in { i \in DOMAIN source : name \in ToSet(source[i].labels) } }

References ==
    { k \in DOMAIN rows : LET ops == Operands(Lines[k]) IN
        Len(ops) > 0 /\ ~IsReg(ops[Len(ops)]) /\ ops[Len(ops)].t # "num" }

LabelOf(k) == LET ops == Operands(Lines[k]) IN ops[Len(ops)].text

(* Every label reference of an accepted program lands where the source     *)
(* carries the label: the payload, counted from its own address in a       *)
(* branch, is the address of the instruction behind the label.             *)
ReferencesLand ==
    phase = "done" => \A k \in References :
        LET f == FrameOf(rows[k]) IN
        Opcode(f) # Trap =>
            PayloadOf(f) + (IF Opcode(f) = 48 THEN rows[k].addr ELSE 0) \in PlacesOf(LabelOf(k))

(* "Label references are encoded as the shortest signed immediate that     *)
(* fits": no round widened a reference that the final layout leaves short. *)
ShortestThatFits ==
    phase = "done" => \A k \in References :
        LET f == FrameOf(rows[k]) IN
        Opcode(f) # Trap =>
            \A n \in 1 .. ImmLen(f) - 1 : ~Fits(PayloadOf(f), n)

(* The relaxation reaches its fixed point within the rounds it is given,   *)
(* however the widening of one reference drives others apart.              *)
NeverGivesUp == error # "not converged"
=============================================================================
