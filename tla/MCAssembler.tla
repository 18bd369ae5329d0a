---------------------------- MODULE MCAssembler ----------------------------
(***************************************************************************)
(* Source texts for the assembler: every short program around one label,   *)
(* chains in which each branch pushes the next one out of reach, every     *)
(* mnemonic with every kind of operand, and texts that are not programs.   *)
(***************************************************************************)
EXTENDS Assembler

R(n) == [t |-> "reg", n |-> n, text |-> "r"]
N(v) == [t |-> "num", n |-> v]
L(name) == [t |-> "name", text |-> name]
M(base, sign, off) == [t |-> "mem", base |-> base, sign |-> sign, off |-> off]
Junk == [t |-> "junk"]

Line(labels, mnemonic, args) == [labels |-> labels, mnemonic |-> mnemonic, args |-> args]
I(mnemonic, args) == Line(<<>>, mnemonic, args)
Labels(names) == Line(names, "", <<>>)

(* Three instructions and the label in front of one of them or behind all. *)
Body == { I("nop", <<>>), I("mov", <<R(1), N(20000)>>), I("mov", <<R(1), L("a")>>),
          I("jmp", <<L("a")>>), I("b", <<L("a")>>), I("add", <<R(1), R(2), L("a")>>) }

Short ==
    { [i \in 1 .. 4 |-> CASE i < at -> p[i] [] i = at -> Labels(<<"a">>) [] OTHER -> p[i - 1]]
      : p \in [1 .. 3 -> Body], at \in 1 .. 4 }

(* The first instruction grows and pushes the third away from it, which    *)
(* grows and pushes the fourth from the second, and so on to the last.     *)
Name == <<"a", "b", "c", "d", "e", "f", "g">>
Chains ==
    { [i \in 1 .. n |-> Line(<<Name[i]>>, IF i = 1 THEN "mov" ELSE "beq",
          CASE i = 1 -> <<R(1), L(Name[n])>> [] i = 2 -> <<N(0)>> [] OTHER -> <<L(Name[i - 2])>>)]
      : n \in 3 .. 7 }
    \cup
    { [i \in 1 .. n |-> Line(<<Name[i]>>, "blt", <<L(Name[n + 1 - i])>>)] : n \in 4 .. 7 }

Numbers == { N(v) : v \in {0, 1, 2, -2, -3, 40, 8192, -20000} }

Kinds ==
    { <<I(m, <<>>)>> : m \in Mnemonics } \cup
    { <<I(m, <<o>>), Labels(<<"a">>)>> : m \in {"trap", "b", "bge", "bgt", "ble", "bne", "jmp"},
                                         o \in Numbers \cup {R(3), R(9), L("a")} } \cup
    { <<I(m, <<R(1), o>>), Line(<<"a">>, "halt", <<>>)>> :
          m \in {"mov", "not", "cmp", "cmp.s"}, o \in Numbers \cup {R(3), L("a")} } \cup
    { <<I(m, <<R(1), R(2), o>>), Line(<<"a">>, "halt", <<>>)>> :
          m \in Mnemonics \ {"nop", "trap", "halt"}, o \in Numbers \cup {R(3), L("a")} } \cup
    { <<I(r[1], IF r[2] = 65 THEN <<o, R(1)>> ELSE <<R(1), o>>)>> :
          r \in { r \in INSTRUCTIONS : r[2] \in {64, 65} },
          o \in { M(R(2), s, d) : s \in {"+", "-"}, d \in Numbers \cup {R(3), L("a")} }
                \cup {M(R(2), "", Junk), M(L("a"), "", Junk), R(2)} }

(* The rejected texts of the tests, and their neighbours. *)
Bad ==
    { <<I("frob", <<>>)>>, <<I("mov", <<R(9), N(1)>>)>>, <<I("mov", <<R(1), Junk>>)>>,
      <<Labels(<<"a">>), I("nop", <<>>), Line(<<"a">>, "halt", <<>>)>>,
      <<Line(<<"a", "a">>, "halt", <<>>)>>,
      <<Line(<<"a">>, "nop", <<>>), I("b", <<L("a")>>), Labels(<<"a">>)>>,
      <<I("jmp", <<L("nowhere")>>)>>,
      <<I("b", <<L("a")>>), I("mov", <<R(1), L("nowhere")>>)>>,
      <<Labels(<<"a">>), I("mov", <<R(1), N(20000)>>), I("mov", <<R(1), N(20000)>>),
        I("mov", <<R(1), N(20000)>>), I("b", <<L("a")>>)>> }

Texts == Short \cup Chains \cup Kinds \cup Bad
=============================================================================
