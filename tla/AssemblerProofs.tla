-------------------------- MODULE AssemblerProofs --------------------------
(***************************************************************************)
(* Proofs about the assembler, for every source text.                      *)
(***************************************************************************)
EXTENDS Assembler, FiniteSets, FiniteSetTheorems, SequenceTheorems, WellFoundedInduction, TLAPS

(* Induction over the naturals, stated with a set.                         *)
LEMMA LeastNatural ==
    ASSUME NEW T \in SUBSET Nat, T # {}
    PROVE  \E x \in T : \A y \in T : x <= y
<1>1. IsWellFoundedOn(OpToRel(<, Nat), Nat)
  BY NatLessThanWellFounded, Zenon
<1>2. PICK x \in T : \A y \in T : ~ (<<y, x>> \in OpToRel(<, Nat))
  BY <1>1, WFMin, Zenon
<1>3. \A m, n \in Nat : m < n => <<m, n>> \in OpToRel(<, Nat)
  BY DEF OpToRel
<1>4. \A y \in T : ~ (y < x)
  BY <1>2, <1>3
<1> QED
  BY <1>4

LEMMA Induction ==
    ASSUME NEW T \in SUBSET Nat, 0 \in T, \A n \in T : n + 1 \in T
    PROVE  T = Nat
<1> SUFFICES ASSUME Nat \ T # {} PROVE FALSE
  OBVIOUS
<1>1. PICK x \in Nat \ T : \A y \in Nat \ T : x <= y
  BY LeastNatural
<1>2. x # 0 /\ x - 1 \in T
  BY <1>1
<1> QED
  BY <1>1, <1>2

(* Functions defined by recursion.  They exist because their restrictions  *)
(* to 0 .. m do.                                                           *)
Iterates(m, f, start, step) ==
    /\ DOMAIN f = 0 .. m
    /\ f[0] = start
    /\ \A n \in 1 .. m : f[n] = step[<<n, f[n - 1]>>]

LEMMA IterationUnique ==
    ASSUME NEW start, NEW step, NEW m \in Nat, NEW k \in Nat, m <= k, NEW f, NEW g,
           Iterates(m, f, start, step), Iterates(k, g, start, step)
    PROVE  f[m] = g[m]
<1> DEFINE T == {n \in Nat : n <= m => f[n] = g[n]}
<1>1. 0 \in T
  BY DEF Iterates
<1>2. ASSUME NEW n \in T PROVE n + 1 \in T
  <2>1. CASE n + 1 <= m
    <3>1. f[n] = g[n] /\ n + 1 \in 1 .. m /\ n + 1 \in 1 .. k /\ (n + 1) - 1 = n
      BY <2>1
    <3>2. f[n + 1] = step[<<n + 1, f[n]>>] /\ g[n + 1] = step[<<n + 1, g[n]>>]
      BY <3>1 DEF Iterates
    <3> QED
      BY <3>1, <3>2
  <2> QED
    BY <2>1
<1> HIDE DEF T
<1>3. T = Nat
  BY <1>1, <1>2, Induction DEF T
<1> QED
  BY <1>3 DEF T

LEMMA IterationExists ==
    ASSUME NEW start, NEW step PROVE \A m \in Nat : \E f : Iterates(m, f, start, step)
<1> DEFINE T == {m \in Nat : \E f : Iterates(m, f, start, step)}
<1>1. 0 \in T
  <2>1. Iterates(0, [n \in 0 .. 0 |-> start], start, step)
    BY DEF Iterates
  <2> QED
    BY <2>1
<1>2. ASSUME NEW m \in T PROVE m + 1 \in T
  <2>1. PICK f : Iterates(m, f, start, step)
    OBVIOUS
  <2> DEFINE g == [n \in 0 .. m + 1 |-> IF n <= m THEN f[n] ELSE step[<<m + 1, f[m]>>]]
  <2>2. DOMAIN g = 0 .. m + 1 /\ g[0] = start
    BY <2>1 DEF Iterates
  <2>3. ASSUME NEW n \in 1 .. m + 1 PROVE g[n] = step[<<n, g[n - 1]>>]
    <3>1. CASE n <= m
      <4>1. n \in 1 .. m /\ n - 1 \in 0 .. m + 1 /\ n - 1 <= m /\ n \in 0 .. m + 1
        BY <3>1
      <4> QED
        BY <2>1, <4>1, <3>1 DEF Iterates
    <3>2. CASE ~(n <= m)
      <4>1. n = m + 1 /\ n - 1 = m /\ m \in 0 .. m + 1
        BY <3>2
      <4> QED
        BY <4>1, <3>2
    <3> QED
      BY <3>1, <3>2
  <2> HIDE DEF g
  <2>4. Iterates(m + 1, g, start, step)
    BY <2>2, <2>3 DEF Iterates
  <2> QED
    BY <2>4
<1> HIDE DEF T
<1>3. T = Nat
  BY <1>1, <1>2, Induction DEF T
<1> QED
  BY <1>3 DEF T

Iterated(f, S, start, step) ==
    /\ f \in [Nat -> S]
    /\ f[0] = start
    /\ \A n \in Nat \ {0} : f[n] = step[<<n, f[n - 1]>>]

LEMMA IterationToNat ==
    ASSUME NEW S, NEW start \in S, NEW step \in [Nat \X S -> S]
    PROVE  \E f : Iterated(f, S, start, step)
<1> DEFINE D(n) == CHOOSE f : Iterates(n, f, start, step)
           F == [n \in Nat |-> D(n)[n]]
<1>1. \A n \in Nat : Iterates(n, D(n), start, step)
  BY IterationExists
<1> HIDE DEF D
<1>2. F[0] = start
  BY <1>1 DEF Iterates
<1>3. ASSUME NEW n \in Nat \ {0} PROVE F[n] = step[<<n, F[n - 1]>>]
  <2>1. n - 1 \in Nat /\ n - 1 <= n /\ n \in 1 .. n
    OBVIOUS
  <2>2. D(n - 1)[n - 1] = D(n)[n - 1]
    BY <1>1, <2>1, IterationUnique
  <2>3. D(n)[n] = step[<<n, D(n)[n - 1]>>]
    BY <1>1, <2>1 DEF Iterates
  <2> QED
    BY <2>1, <2>2, <2>3
<1>4. DOMAIN F = Nat /\ F = [n \in Nat |-> F[n]]
  OBVIOUS
<1> HIDE DEF F
<1> DEFINE T == {n \in Nat : F[n] \in S}
<1>5. 0 \in T
  BY <1>2
<1>6. ASSUME NEW n \in T PROVE n + 1 \in T
  <2>1. F[n + 1] = step[<<n + 1, F[n]>>] /\ <<n + 1, F[n]>> \in Nat \X S
    BY <1>3
  <2> QED
    BY <2>1
<1> HIDE DEF T
<1>7. T = Nat
  BY <1>5, <1>6, Induction DEF T
<1>8. \A n \in Nat : F[n] \in S
  BY <1>7 DEF T
<1>9. F \in [Nat -> S]
  BY <1>4, <1>8
<1>10. Iterated(F, S, start, step)
  BY <1>2, <1>3, <1>9 DEF Iterated
<1> QED
  BY <1>10

-----------------------------------------------------------------------------
LEMMA SizesNonzero == ByteSize \in Nat \ {0} /\ ByteSize >= 2
<1>1. ByteSize # 0
  BY WidthsAssumption, GrowthAssumption DEF AlignedUp
<1> QED
  BY <1>1, WidthsAssumption

(* Powers of the number of byte values.                                    *)
LEMMA Powers ==
    /\ Power[0] = 1
    /\ \A n \in Nat : Power[n] \in Nat \ {0} /\ Power[n + 1] = ByteSize * Power[n]
<1> DEFINE S == Nat \ {0}
           step == [p \in Nat \X S |-> ByteSize * p[2]]
           Q(p) == p = [n \in Nat |-> IF n = 0 THEN 1 ELSE ByteSize * p[n - 1]]
<1>1. 1 \in S /\ step \in [Nat \X S -> S]
  BY SizesNonzero
<1> HIDE DEF step, S
<1>2. PICK f : Iterated(f, S, 1, step)
  BY <1>1, IterationToNat, Zenon
<1> USE DEF step, S
<1>3. f \in [Nat -> S] /\ f[0] = 1
  BY <1>2 DEF Iterated
<1>4. ASSUME NEW n \in Nat \ {0} PROVE f[n] = ByteSize * f[n - 1]
  <2>1. n - 1 \in Nat /\ <<n, f[n - 1]>> \in Nat \X S
    BY <1>3
  <2> QED
    BY <1>2, <2>1 DEF Iterated
<1>5. Q(f)
  BY <1>3, <1>4
<1>6. Power = CHOOSE p : Q(p)
  BY DEF Power
<1> HIDE DEF Q
<1>7. Q(Power)
  BY <1>5, <1>6
<1>8. Power[0] = 1 /\ \A n \in Nat : Power[n + 1] = ByteSize * Power[n]
  BY <1>7 DEF Q
<1> DEFINE U == {n \in Nat : Power[n] \in Nat \ {0}}
<1>9. 0 \in U /\ \A n \in U : n + 1 \in U
  BY <1>8, SizesNonzero
<1> HIDE DEF U
<1>10. U = Nat
  BY <1>9, Induction DEF U
<1> QED
  BY <1>8, <1>10 DEF U

(* Running sums. *)
Summed(f, n, start, d) ==
    /\ f \in [0 .. n -> Int]
    /\ f[0] = start
    /\ \A i \in 1 .. n : f[i] = f[i - 1] + d[i]

LEMMA Sums ==
    ASSUME NEW n \in Nat, NEW start \in Int, NEW d \in [1 .. n -> Int]
    PROVE  \E f : Summed(f, n, start, d)
<1> DEFINE step == [p \in Nat \X Int |-> p[2] + (IF p[1] \in 1 .. n THEN d[p[1]] ELSE 0)]
<1>1. step \in [Nat \X Int -> Int]
  OBVIOUS
<1> HIDE DEF step
<1>2. PICK g : Iterated(g, Int, start, step)
  BY <1>1, IterationToNat
<1>3. g \in [Nat -> Int] /\ g[0] = start
  BY <1>2 DEF Iterated
<1>4. ASSUME NEW i \in 1 .. n PROVE g[i] = g[i - 1] + d[i]
  <2>1. i - 1 \in Nat /\ <<i, g[i - 1]>> \in Nat \X Int /\ i \in Nat \ {0}
    BY <1>3
  <2>2. g[i] = step[<<i, g[i - 1]>>]
    BY <1>2, <2>1 DEF Iterated
  <2> QED
    BY <2>1, <2>2 DEF step
<1> DEFINE f == [i \in 0 .. n |-> g[i]]
<1>5. Summed(f, n, start, d)
  BY <1>3, <1>4 DEF Summed
<1> QED
  BY <1>5
-----------------------------------------------------------------------------
(* How many bytes a number takes. *)
LEMMA FitsLonger ==
    ASSUME NEW v \in Int, NEW n \in Nat, Fits(v, n) PROVE Fits(v, n + 1)
<1>1. Power[n] \in Nat \ {0} /\ Power[n + 1] = ByteSize * Power[n]
  BY Powers
<1>2. Power[n + 1] \in Int /\ Power[n + 1] >= Power[n]
  BY <1>1, SizesNonzero
<1> QED
  BY <1>1, <1>2 DEF Fits

LEMMA FitsStillLonger ==
    ASSUME NEW v \in Int, NEW m \in Nat, NEW n \in Nat, m <= n, Fits(v, m) PROVE Fits(v, n)
<1> DEFINE T == {k \in Nat : Fits(v, m + k)}
<1>1. 0 \in T
  OBVIOUS
<1>2. ASSUME NEW k \in T PROVE k + 1 \in T
  <2>1. Fits(v, (m + k) + 1)
    BY FitsLonger
  <2> QED
    BY <2>1
<1> HIDE DEF T
<1>3. T = Nat
  BY <1>1, <1>2, Induction DEF T
<1>4. n - m \in T /\ m + (n - m) = n
  BY <1>3
<1> QED
  BY <1>4 DEF T

LEMMA BytesNeeded ==
    ASSUME NEW v, v # 0
    PROVE  LET n == NumBytes(v)
           IN n \in 1 .. 8 /\ (Fits(v, n) \/ n = 8) /\ \A m \in 1 .. n - 1 : ~Fits(v, m)
<1> DEFINE Q(n) == (Fits(v, n) \/ n = 8) /\ \A m \in 1 .. n - 1 : ~Fits(v, m)
           T == {n \in 1 .. 8 : Fits(v, n) \/ n = 8}
<1>1. PICK n \in T : \A m \in T : n <= m
  <2>1. 8 \in T /\ T \subseteq Nat
    OBVIOUS
  <2> HIDE DEF T
  <2> QED
    BY <2>1, LeastNatural
<1>2. ASSUME NEW m \in 1 .. n - 1 PROVE ~Fits(v, m)
  BY <1>1
<1>3. \E k \in 1 .. 8 : Q(k)
  BY <1>1, <1>2
<1>4. NumBytes(v) = CHOOSE k \in 1 .. 8 : Q(k)
  BY DEF NumBytes
<1> HIDE DEF Q
<1>5. NumBytes(v) \in 1 .. 8 /\ Q(NumBytes(v))
  BY <1>3, <1>4
<1> QED
  BY <1>5 DEF Q

(* The width of a reference whose value is v. *)
LEMMA WidthNeeded ==
    ASSUME NEW v \in Int
    PROVE  LET n == SymWidth(v)
           IN n \in 1 .. 8 /\ (Fits(v, n) \/ n = 8) /\ \A m \in 1 .. n - 1 : ~Fits(v, m)
<1>1. CASE v = 0
  <2>1. Fits(0, 1)
    <3>1. Power[1] = ByteSize
      <4>1. Power[0 + 1] = ByteSize * Power[0]
        BY Powers
      <4> QED
        BY <4>1, Powers, SizesNonzero
    <3> QED
      BY <3>1, SizesNonzero DEF Fits
  <2>2. SymWidth(v) = 1
    BY <1>1 DEF SymWidth
  <2> QED
    BY <1>1, <2>1, <2>2
<1>2. CASE v # 0
  BY <1>2, BytesNeeded DEF SymWidth
<1> QED
  BY <1>1, <1>2

LEMMA WidthLeast ==
    ASSUME NEW v \in Int, NEW n \in 1 .. 8, Fits(v, n) \/ n = 8 PROVE SymWidth(v) <= n
<1>1. SymWidth(v) \in 1 .. 8 /\ \A m \in 1 .. SymWidth(v) - 1 : ~Fits(v, m)
  BY WidthNeeded
<1> QED
  BY <1>1

(* w is v or further from zero, by a factor of ByteSize at most.           *)
Further(v, w) == (v >= 0 => w >= v) /\ (v <= 0 => w <= v)
Stretched(v, w) ==
    /\ Further(v, w)
    /\ v >= 0 => w <= ByteSize * v
    /\ v <= 0 => w >= ByteSize * v

LEMMA FurtherNeedsMore ==
    ASSUME NEW v \in Int, NEW w \in Int, Further(v, w) PROVE SymWidth(v) <= SymWidth(w)
<1> DEFINE n == SymWidth(w)
<1>1. n \in 1 .. 8 /\ (Fits(w, n) \/ n = 8)
  BY WidthNeeded
<1> HIDE DEF n
<1>2. Power[n] \in Nat
  BY <1>1, Powers
<1>3. Fits(w, n) => Fits(v, n)
  BY <1>2 DEF Fits, Further
<1>4. SymWidth(v) <= n
  BY <1>1, <1>3, WidthLeast
<1> QED
  BY <1>4 DEF n

LEMMA StretchedNeedsOne ==
    ASSUME NEW v \in Int, NEW w \in Int, Stretched(v, w)
    PROVE  SymWidth(w) \in {SymWidth(v), SymWidth(v) + 1}
<1> DEFINE n == SymWidth(v)
           m == SymWidth(w)
<1>1. n \in 1 .. 8 /\ (Fits(v, n) \/ n = 8) /\ m \in 1 .. 8
  BY WidthNeeded
<1>2. n <= m
  BY FurtherNeedsMore DEF Stretched
<1>3. ASSUME n < 8 PROVE m <= n + 1
  <2> HIDE DEF n, m
  <2>1. Power[n] \in Nat \ {0} /\ Power[n + 1] = ByteSize * Power[n] /\ n + 1 \in 1 .. 8
    BY <1>1, <1>3, Powers
  <2>2. -Power[n] <= 2 * v /\ 2 * v < Power[n]
    BY <1>1, <1>3 DEF Fits
  <2>3. ByteSize * (2 * v) < ByteSize * Power[n] /\ ByteSize * (2 * v) >= ByteSize * (-Power[n])
    BY <2>1, <2>2, SizesNonzero
  <2>4. ByteSize * (2 * v) = 2 * (ByteSize * v) /\ ByteSize * v \in Int
        /\ ByteSize * (-Power[n]) = -(ByteSize * Power[n]) /\ ByteSize * Power[n] \in Nat \ {0}
    BY <2>1, SizesNonzero
  <2>5. 2 * w < Power[n + 1] /\ 2 * w >= -Power[n + 1]
    BY <2>1, <2>3, <2>4 DEF Stretched, Further
  <2>6. Fits(w, n + 1)
    BY <2>5 DEF Fits
  <2> QED
    BY <2>1, <2>6, WidthLeast DEF m
<1> QED
  BY <1>1, <1>2, <1>3
-----------------------------------------------------------------------------
(* Sizes and addresses. *)
SizeSteps(f, insn, n) ==
    /\ f \in [0 .. n -> Int]
    /\ f[0] = 2
    /\ \A i \in 1 .. n : f[i] = f[i - 1] + SlotSize(insn.slots[i])
    /\ InsnSize(insn) = f[n]

LEMMA Sizes ==
    ASSUME NEW insn, NEW n \in Nat, Len(insn.slots) = n,
           \A i \in 1 .. n : SlotSize(insn.slots[i]) \in Nat
    PROVE  \E f : SizeSteps(f, insn, n)
<1> DEFINE d == [i \in 1 .. n |-> SlotSize(insn.slots[i])]
           Q(p) == p = [i \in 0 .. n |->
                          IF i = 0 THEN 2 ELSE p[i - 1] + SlotSize(insn.slots[i])]
<1>1. d \in [1 .. n -> Int] /\ 2 \in Int
  OBVIOUS
<1> HIDE DEF d
<1>2. PICK f : Summed(f, n, 2, d)
  BY <1>1, Sums, Zenon
<1>3. f \in [0 .. n -> Int] /\ f[0] = 2 /\ \A i \in 1 .. n : f[i] = f[i - 1] + d[i]
  BY <1>2 DEF Summed
<1>4. \A i \in 1 .. n : d[i] = SlotSize(insn.slots[i])
  BY DEF d
<1>5. Q(f)
  BY <1>3, <1>4
<1>6. InsnSize(insn) = (CHOOSE p : Q(p))[n]
  BY Zenon DEF InsnSize
<1> DEFINE g == CHOOSE p : Q(p)
<1> HIDE DEF Q
<1>7. Q(g)
  BY <1>5
<1> HIDE DEF g
<1>8. DOMAIN g = 0 .. n /\ g[0] = 2
      /\ \A i \in 1 .. n : g[i] = g[i - 1] + SlotSize(insn.slots[i])
  <2>1. g = [i \in 0 .. n |-> IF i = 0 THEN 2 ELSE g[i - 1] + SlotSize(insn.slots[i])]
    BY <1>7 DEF Q
  <2>2. DOMAIN g = 0 .. n /\ g[0] = 2
    BY <2>1
  <2>3. ASSUME NEW i \in 1 .. n PROVE g[i] = g[i - 1] + SlotSize(insn.slots[i])
    <3>1. i \in 0 .. n /\ i # 0
      OBVIOUS
    <3> QED
      BY <2>1, <3>1
  <2> QED
    BY <2>2, <2>3
<1> DEFINE T == {i \in Nat : i <= n => g[i] = f[i]}
<1>9. 0 \in T
  BY <1>3, <1>8
<1>10. ASSUME NEW i \in T PROVE i + 1 \in T
  <2>1. CASE i + 1 <= n
    <3>1. i + 1 \in 1 .. n /\ (i + 1) - 1 = i /\ g[i] = f[i]
      BY <2>1
    <3>2. g[i + 1] = g[i] + SlotSize(insn.slots[i + 1])
          /\ f[i + 1] = f[i] + SlotSize(insn.slots[i + 1])
      BY <1>3, <1>4, <1>8, <3>1
    <3> QED
      BY <3>1, <3>2
  <2> QED
    BY <2>1
<1> HIDE DEF T
<1>11. T = Nat
  BY <1>9, <1>10, Induction DEF T
<1>12. g[n] = f[n]
  BY <1>11 DEF T
<1>13. InsnSize(insn) = f[n]
  BY <1>6, <1>12 DEF g
<1>14. SizeSteps(f, insn, n)
  BY <1>3, <1>4, <1>13 DEF SizeSteps
<1> QED
  BY <1>14

LEMMA Layouts ==
    ASSUME NEW code, NEW n \in Nat, Len(code) = n,
           \A i \in 1 .. n : AlignedUp(InsnSize(code[i])) \in Nat
    PROVE  /\ Layout(code) \in [1 .. n + 1 -> Nat]
           /\ Layout(code)[1] = 0
           /\ \A i \in 1 .. n :
                Layout(code)[i + 1] = Layout(code)[i] + AlignedUp(InsnSize(code[i]))
<1> DEFINE S(i) == AlignedUp(InsnSize(code[i]))
           d == [i \in 1 .. n |-> S(i)]
           Q(p) == p = [i \in 1 .. n + 1 |-> IF i = 1 THEN 0 ELSE p[i - 1] + S(i - 1)]
<1>1. \A i \in 1 .. n : S(i) \in Nat
  OBVIOUS
<1>2. Layout(code) = CHOOSE p : Q(p)
  BY Zenon DEF Layout
<1> HIDE DEF S
<1>3. d \in [1 .. n -> Int] /\ 0 \in Int
  BY <1>1
<1>4. \A i \in 1 .. n : d[i] = S(i)
  OBVIOUS
<1> HIDE DEF d
<1>5. PICK f : Summed(f, n, 0, d)
  BY <1>3, Sums, Zenon
<1>6. f \in [0 .. n -> Int] /\ f[0] = 0 /\ \A i \in 1 .. n : f[i] = f[i - 1] + d[i]
  BY <1>5 DEF Summed
<1> DEFINE g == [i \in 1 .. n + 1 |-> f[i - 1]]
<1>7. g = [i \in 1 .. n + 1 |-> IF i = 1 THEN 0 ELSE g[i - 1] + S(i - 1)]
  <2> SUFFICES ASSUME NEW i \in 1 .. n + 1
               PROVE  g[i] = IF i = 1 THEN 0 ELSE g[i - 1] + S(i - 1)
    BY Zenon
  <2>1. CASE i = 1
    BY <1>6, <2>1
  <2>2. CASE i # 1
    <3>1. i - 1 \in 1 .. n /\ i - 1 \in 1 .. n + 1
      BY <2>2
    <3>2. f[i - 1] = f[(i - 1) - 1] + S(i - 1)
      BY <1>4, <1>6, <3>1
    <3> QED
      BY <2>2, <3>1, <3>2
  <2> QED
    BY <2>1, <2>2
<1>8. Q(g)
  BY <1>7
<1> DEFINE h == CHOOSE p : Q(p)
<1> HIDE DEF Q, g
<1>9. Q(h)
  BY <1>8
<1>10. h = [i \in 1 .. n + 1 |-> IF i = 1 THEN 0 ELSE h[i - 1] + S(i - 1)]
  BY <1>9 DEF Q
<1> HIDE DEF h
<1>11. DOMAIN h = 1 .. n + 1 /\ h[1] = 0 /\ \A i \in 1 .. n : h[i + 1] = h[i] + S(i)
  <2>1. DOMAIN h = 1 .. n + 1 /\ h[1] = 0
    BY <1>10
  <2>2. ASSUME NEW i \in 1 .. n PROVE h[i + 1] = h[i] + S(i)
    <3>1. i + 1 \in 1 .. n + 1 /\ i + 1 # 1 /\ (i + 1) - 1 = i
      OBVIOUS
    <3> QED
      BY <1>10, <3>1
  <2> QED
    BY <2>1, <2>2
<1> DEFINE T == {i \in Nat : i <= n => h[i + 1] \in Nat}
<1>12. 0 \in T
  BY <1>11
<1>13. ASSUME NEW i \in T PROVE i + 1 \in T
  <2>1. CASE i + 1 <= n
    <3>1. i + 1 \in 1 .. n /\ h[i + 1] \in Nat
      BY <2>1
    <3>2. h[(i + 1) + 1] = h[i + 1] + S(i + 1) /\ S(i + 1) \in Nat
      BY <1>1, <1>11, <3>1
    <3> QED
      BY <3>1, <3>2
  <2> QED
    BY <2>1
<1> HIDE DEF T
<1>14. T = Nat
  BY <1>12, <1>13, Induction DEF T
<1>15. ASSUME NEW i \in 1 .. n + 1 PROVE h[i] \in Nat
  <2>1. i - 1 \in T /\ (i - 1) + 1 = i /\ i - 1 <= n
    BY <1>14
  <2> QED
    BY <2>1 DEF T
<1>16. h \in [1 .. n + 1 -> Nat]
  BY <1>10, <1>15
<1>17. Layout(code) = h
  BY <1>2 DEF h
<1> QED
  BY <1>11, <1>16, <1>17 DEF S

(* Between two instructions the distance grows with the sizes.             *)
LEMMA Distances ==
    ASSUME NEW n \in Nat, NEW f \in [1 .. n + 1 -> Int], NEW g \in [1 .. n + 1 -> Int],
           \A i \in 1 .. n : f[i + 1] - f[i] <= g[i + 1] - g[i]
    PROVE  \A i, k \in 1 .. n + 1 : i <= k => f[k] - f[i] <= g[k] - g[i]
<1> SUFFICES ASSUME NEW i \in 1 .. n + 1
             PROVE  \A k \in 1 .. n + 1 : i <= k => f[k] - f[i] <= g[k] - g[i]
  OBVIOUS
<1> DEFINE T == {k \in Nat : i + k <= n + 1 => f[i + k] - f[i] <= g[i + k] - g[i]}
<1>1. 0 \in T
  OBVIOUS
<1>2. ASSUME NEW k \in T PROVE k + 1 \in T
  <2>1. CASE i + (k + 1) <= n + 1
    <3> DEFINE p == i + k
    <3>1. p \in 1 .. n /\ p \in 1 .. n + 1 /\ p + 1 \in 1 .. n + 1
          /\ i + (k + 1) = p + 1 /\ f[p] - f[i] <= g[p] - g[i]
      BY <2>1
    <3> HIDE DEF p
    <3>2. f[p + 1] - f[p] <= g[p + 1] - g[p]
      BY <3>1
    <3>3. f[i] \in Int /\ f[p] \in Int /\ f[p + 1] \in Int
          /\ g[i] \in Int /\ g[p] \in Int /\ g[p + 1] \in Int
      BY <3>1
    <3> DEFINE a == f[i]
               b == f[p]
               c == f[p + 1]
               x == g[i]
               y == g[p]
               z == g[p + 1]
    <3>4. /\ a \in Int /\ b \in Int /\ c \in Int /\ x \in Int /\ y \in Int /\ z \in Int
          /\ b - a <= y - x /\ c - b <= z - y
      BY <3>1, <3>2, <3>3
    <3> HIDE DEF a, b, c, x, y, z
    <3>5. c - a <= z - x
      BY <3>4
    <3>6. f[p + 1] - f[i] <= g[p + 1] - g[i]
      BY <3>5 DEF a, c, x, z
    <3>7. f[i + (k + 1)] - f[i] <= g[i + (k + 1)] - g[i]
      BY <3>1, <3>6, Zenon
    <3>8. k + 1 \in Nat
      OBVIOUS
    <3> QED
      BY <3>7, <3>8, Zenon
  <2> QED
    BY <2>1
<1> HIDE DEF T
<1>3. T = Nat
  BY <1>1, <1>2, Induction DEF T
<1>4. ASSUME NEW k \in 1 .. n + 1, i <= k PROVE f[k] - f[i] <= g[k] - g[i]
  <2>1. k - i \in T /\ i + (k - i) = k
    BY <1>3, <1>4
  <2> QED
    BY <2>1 DEF T
<1> QED
  BY <1>4
-----------------------------------------------------------------------------
(* What the parser accepts: registers, and last a register, a number or a  *)
(* label.  Slots without a label have the empty name.                      *)
Names == STRING \cup {""}

Slots == [k : {"reg", "num", "sym"}, n : Int, name : Names, width : Nat]

Insns == [mnemonic : Mnemonics, labels : Seq(STRING), addr : Nat, slots : Seq(Slots)]

Shaped(insn) ==
    LET n == Len(insn.slots) IN
    /\ n \in 0 .. 3
    /\ \A i \in 1 .. n :
         LET s == insn.slots[i] IN
         /\ i < n => s.k = "reg"
         /\ s.k = "reg" => s.n \in 0 .. NumRegs - 1 /\ s.width = 1
         /\ s.k = "num" => Fits(s.n, 8)
         /\ s.k = "sym" => s.width \in 1 .. AbsMax

LastSlot(insn) == insn.slots[Len(insn.slots)]
Refers(insn) == Len(insn.slots) > 0 /\ LastSlot(insn).k = "sym"

LEMMA InsnFields ==
    ASSUME NEW insn \in Insns
    PROVE  /\ insn.mnemonic \in Mnemonics /\ insn.labels \in Seq(STRING)
           /\ insn.addr \in Nat /\ insn.slots \in Seq(Slots)
           /\ Len(insn.slots) \in Nat /\ DOMAIN insn.slots = 1 .. Len(insn.slots)
           /\ \A i \in 1 .. Len(insn.slots) :
                /\ insn.slots[i] \in Slots
                /\ insn.slots[i].k \in {"reg", "num", "sym"} /\ insn.slots[i].n \in Int
                /\ insn.slots[i].width \in Nat
<1>1. insn.mnemonic \in Mnemonics /\ insn.labels \in Seq(STRING)
      /\ insn.addr \in Nat /\ insn.slots \in Seq(Slots)
  BY DEF Insns
<1>2. Len(insn.slots) \in Nat /\ DOMAIN insn.slots = 1 .. Len(insn.slots)
  BY <1>1
<1>3. \A i \in 1 .. Len(insn.slots) : insn.slots[i] \in Slots
  BY <1>1
<1>4. \A s \in Slots : s.k \in {"reg", "num", "sym"} /\ s.n \in Int
                       /\ s.width \in Nat
  BY DEF Slots
<1> QED
  BY <1>1, <1>2, <1>3, <1>4

LEMMA SlotSizes ==
    ASSUME NEW s \in Slots
    PROVE  /\ SlotSize(s) \in Nat
           /\ s.k # "num" => SlotSize(s) = s.width
           /\ s.k = "num" => SlotSize(s) = NumBytes(s.n) /\ NumBytes(s.n) \in 0 .. 8
<1>1. NumBytes(s.n) \in 0 .. 8
  <2>1. CASE s.n = 0
    BY <2>1 DEF NumBytes
  <2>2. CASE s.n # 0
    BY <2>2, BytesNeeded
  <2> QED
    BY <2>1, <2>2
<1>2. s.width \in Nat
  BY DEF Slots
<1>3. s.k = "num" => SlotSize(s) = NumBytes(s.n)
  BY DEF SlotSize
<1>4. s.k # "num" => SlotSize(s) = s.width
  BY DEF SlotSize
<1> QED
  BY <1>1, <1>2, <1>3, <1>4

LEMMA SizeOf ==
    ASSUME NEW insn \in Insns, Shaped(insn)
    PROVE  LET n == Len(insn.slots) IN
           /\ n \in 0 .. 3
           /\ n = 0 => InsnSize(insn) = 2
           /\ n > 0 => InsnSize(insn) = 2 + (n - 1) + SlotSize(LastSlot(insn))
<1> DEFINE n == Len(insn.slots)
           s(i) == SlotSize(insn.slots[i])
<1>1. n \in 0 .. 3
  BY DEF Shaped
<1>2. \A i \in 1 .. n : s(i) \in Nat
  BY InsnFields, SlotSizes
<1>3. \A i \in 1 .. n - 1 : s(i) = 1
  <2> SUFFICES ASSUME NEW i \in 1 .. n - 1 PROVE s(i) = 1
    OBVIOUS
  <2>1. i \in 1 .. n /\ i < n
    BY <1>1
  <2>2. insn.slots[i] \in Slots /\ insn.slots[i].k = "reg" /\ insn.slots[i].width = 1
    BY <2>1, InsnFields DEF Shaped
  <2> QED
    BY <2>2, SlotSizes
<1>4. PICK f : SizeSteps(f, insn, n)
  <2>1. n \in Nat
    BY <1>1
  <2> QED
    BY <1>2, <2>1, Sizes
<1>5. /\ f[0] = 2
      /\ \A i \in 1 .. n : f[i] = f[i - 1] + s(i)
      /\ InsnSize(insn) = f[n]
  BY <1>4 DEF SizeSteps
<1> HIDE DEF s, n
<1>6. n > 0 => f[1] = 2 + s(1)
  BY <1>1, <1>5
<1>7. n > 1 => f[2] = f[1] + s(2) /\ s(1) = 1
  BY <1>1, <1>3, <1>5
<1>8. n > 2 => f[3] = f[2] + s(3) /\ s(2) = 1
  BY <1>1, <1>3, <1>5
<1>9. n > 0 => InsnSize(insn) = 2 + (n - 1) + s(n)
  <2>1. CASE n = 1
    BY <1>2, <1>5, <1>6, <2>1
  <2>2. CASE n = 2
    <3>1. s(2) \in Nat
      BY <1>2, <2>2
    <3> QED
      BY <1>5, <1>6, <1>7, <2>2, <3>1
  <2>3. CASE n = 3
    <3>1. s(3) \in Nat
      BY <1>2, <2>3
    <3> QED
      BY <1>5, <1>6, <1>7, <1>8, <2>3, <3>1
  <2> QED
    BY <1>1, <2>1, <2>2, <2>3
<1>10. n = 0 => InsnSize(insn) = 2
  BY <1>5
<1> QED
  BY <1>1, <1>9, <1>10 DEF s, n, LastSlot

(* Rounding up. *)
LEMMA RoundsUp ==
    ASSUME NEW x \in Nat
    PROVE  AlignedUp(x) \in Nat /\ AlignedUp(x) >= x /\ AlignedUp(x) < x + Alignment
<1> DEFINE q == (x + Alignment - 1) \div Alignment
           r == (x + Alignment - 1) % Alignment
<1>1. Alignment \in Nat \ {0}
  BY WidthsAssumption
<1>2. q \in Nat /\ r \in 0 .. Alignment - 1 /\ x + Alignment - 1 = Alignment * q + r
  BY <1>1
<1> HIDE DEF q, r
<1>3. q * Alignment = Alignment * q /\ Alignment * q \in Nat
  BY <1>1, <1>2
<1>4. q * Alignment = x + Alignment - 1 - r
  BY <1>1, <1>2, <1>3
<1>5. AlignedUp(x) = q * Alignment
  BY DEF AlignedUp, q
<1> QED
  BY <1>1, <1>2, <1>3, <1>4, <1>5

LEMMA RoundsUpInOrder ==
    ASSUME NEW x \in Nat, NEW y \in Nat, x <= y PROVE AlignedUp(x) <= AlignedUp(y)
<1> DEFINE q == (x + Alignment - 1) \div Alignment
           p == (y + Alignment - 1) \div Alignment
           r == (x + Alignment - 1) % Alignment
           t == (y + Alignment - 1) % Alignment
<1>1. Alignment \in Nat \ {0}
  BY WidthsAssumption
<1>2. /\ q \in Nat /\ r \in 0 .. Alignment - 1 /\ x + Alignment - 1 = Alignment * q + r
      /\ p \in Nat /\ t \in 0 .. Alignment - 1 /\ y + Alignment - 1 = Alignment * p + t
  BY <1>1
<1>3. AlignedUp(x) = q * Alignment /\ AlignedUp(y) = p * Alignment
  BY DEF AlignedUp
<1> HIDE DEF p, q, r, t
<1>4. Alignment * q < Alignment * (p + 1)
  BY <1>1, <1>2
<1>5. q < p + 1
  BY <1>1, <1>2, <1>4
<1>6. q <= p
  BY <1>2, <1>5
<1> QED
  BY <1>1, <1>2, <1>3, <1>6
-----------------------------------------------------------------------------
(* A program with every reference at its narrowest, and the layout it has  *)
(* then.  Neither placing nor growing changes the narrow program.          *)
NarrowSlot(s) == IF s.k = "sym" THEN [s EXCEPT !.width = 1] ELSE s

NarrowInsn(insn) ==
    [mnemonic |-> insn.mnemonic, labels |-> insn.labels, addr |-> 0,
     slots |-> [i \in DOMAIN insn.slots |-> NarrowSlot(insn.slots[i])]]

Narrow(code) == [j \in DOMAIN code |-> NarrowInsn(code[j])]

Program(code) == code \in Seq(Insns) /\ \A j \in 1 .. Len(code) : Shaped(code[j])

(* The place a label stands for: an instruction, or the end.               *)
LabelsOf(code) == UNION { {j} \X DOMAIN code[j].labels : j \in DOMAIN code }
Spot(name, code, trailing) ==
    IF name \in ToSet(trailing) THEN Len(code) + 1
    ELSE (CHOOSE p \in LabelsOf(code) : code[p[1]].labels[p[2]] = name)[1]

SpotOf(j, code, trailing) == Spot(LastSlot(code[j]).name, code, trailing)

(* What the reference of an instruction stands for in the layout at.       *)
ValueIn(at, j, code, trailing) ==
    at[SpotOf(j, code, trailing)] - at[IF Relative(code[j]) THEN j ELSE 1]

Least(j) == SymWidth(ValueIn(Layout(Narrow(insns)), j, Narrow(insns), pending))

WidthOf(j) == LastSlot(insns[j]).width
Referring == { j \in 1 .. Len(insns) : Refers(insns[j]) }

(* References that are wider than their narrowest layout asks for.         *)
Late == { j \in Referring : WidthOf(j) > Least(j) }

LEMMA ShapedFields ==
    ASSUME NEW insn \in Insns, Shaped(insn)
    PROVE  /\ Len(insn.slots) \in 0 .. 3
           /\ \A i \in 1 .. Len(insn.slots) :
                LET s == insn.slots[i] IN
                /\ i < Len(insn.slots) => s.k = "reg"
                /\ s.k = "reg" => s.n \in 0 .. NumRegs - 1 /\ s.width = 1
                /\ s.k = "num" => Fits(s.n, 8)
                /\ s.k = "sym" => s.width \in 1 .. AbsMax
  BY DEF Shaped

LEMMA NarrowSlots ==
    ASSUME NEW s \in Slots
    PROVE  /\ NarrowSlot(s) \in Slots /\ NarrowSlot(s).k = s.k
           /\ NarrowSlot(s).n = s.n /\ NarrowSlot(s).name = s.name
           /\ s.k = "sym" => NarrowSlot(s).width = 1
           /\ s.k # "sym" => NarrowSlot(s) = s
<1>1. CASE s.k = "sym"
  <2>1. NarrowSlot(s) = [s EXCEPT !.width = 1]
    BY <1>1 DEF NarrowSlot
  <2> QED
    BY <1>1, <2>1 DEF Slots
<1>2. CASE s.k # "sym"
  BY <1>2 DEF NarrowSlot
<1> QED
  BY <1>1, <1>2

LEMMA NarrowInsns ==
    ASSUME NEW insn \in Insns, Shaped(insn)
    PROVE  LET low == NarrowInsn(insn) IN
           /\ low \in Insns /\ Shaped(low)
           /\ low.mnemonic = insn.mnemonic /\ low.labels = insn.labels
           /\ Len(low.slots) = Len(insn.slots)
           /\ Refers(low) <=> Refers(insn)
           /\ Refers(insn) => LastSlot(low).width = 1
           /\ Len(insn.slots) > 0 => LastSlot(low) = NarrowSlot(LastSlot(insn))
<1> DEFINE n == Len(insn.slots)
           low == NarrowInsn(insn)
           slots == [i \in 1 .. n |-> NarrowSlot(insn.slots[i])]
<1>1. n \in 0 .. 3 /\ DOMAIN insn.slots = 1 .. n
  BY InsnFields, ShapedFields
<1>2. low = [mnemonic |-> insn.mnemonic, labels |-> insn.labels, addr |-> 0, slots |-> slots]
  BY <1>1, Zenon DEF NarrowInsn
<1>3. \A i \in 1 .. n : slots[i] \in Slots /\ slots[i] = NarrowSlot(insn.slots[i])
  BY InsnFields, NarrowSlots
<1>4. slots \in Seq(Slots) /\ Len(slots) = n
  <2>1. n \in Nat
    BY <1>1
  <2>2. \A i \in 1 .. n : NarrowSlot(insn.slots[i]) \in Slots
    BY <1>3
  <2> HIDE DEF n
  <2>3. slots \in [1 .. n -> Slots]
    BY <2>2
  <2> HIDE DEF slots
  <2> QED
    BY <2>1, <2>3
<1> HIDE DEF slots, low
<1>5. low \in Insns
  BY <1>2, <1>4, InsnFields DEF Insns
<1>6. low.slots = slots /\ low.mnemonic = insn.mnemonic /\ low.labels = insn.labels
  BY <1>2
<1>7. ASSUME NEW i \in 1 .. n
      PROVE  LET s == slots[i] IN
             /\ i < n => s.k = "reg"
             /\ s.k = "reg" => s.n \in 0 .. NumRegs - 1 /\ s.width = 1
             /\ s.k = "num" => Fits(s.n, 8)
             /\ s.k = "sym" => s.width \in 1 .. AbsMax
  <2>1. insn.slots[i] \in Slots /\ slots[i] = NarrowSlot(insn.slots[i])
    BY <1>3, InsnFields
  <2>2. 1 \in 1 .. AbsMax
    BY WidthsAssumption
  <2> QED
    BY <2>1, <2>2, ShapedFields, NarrowSlots
<1>8. Shaped(low)
  BY <1>1, <1>4, <1>6, <1>7 DEF Shaped
<1>9. n > 0 => LastSlot(low) = NarrowSlot(LastSlot(insn)) /\ LastSlot(insn) \in Slots
  BY <1>1, <1>3, <1>4, <1>6, InsnFields DEF LastSlot
<1>10. Refers(low) <=> Refers(insn)
  BY <1>4, <1>6, <1>9, NarrowSlots DEF Refers
<1>11. Refers(insn) => LastSlot(low).width = 1
  BY <1>9, NarrowSlots DEF Refers
<1> QED
  BY <1>4, <1>5, <1>6, <1>8, <1>9, <1>10, <1>11 DEF low

LEMMA NarrowSizes ==
    ASSUME NEW insn \in Insns, Shaped(insn)
    PROVE  LET s == AlignedUp(InsnSize(insn))
               t == AlignedUp(InsnSize(NarrowInsn(insn)))
           IN /\ s \in Nat /\ t \in Nat
              /\ t <= s /\ s <= ByteSize * t
<1> DEFINE low == NarrowInsn(insn)
           n == Len(insn.slots)
<1>1. n \in 0 .. 3 /\ low \in Insns /\ Shaped(low) /\ Len(low.slots) = n
      /\ (Refers(insn) => LastSlot(low).width = 1)
      /\ (n > 0 => LastSlot(low) = NarrowSlot(LastSlot(insn)))
  BY NarrowInsns, ShapedFields
<1>2. n > 0 => LastSlot(insn) \in Slots /\ SlotSize(LastSlot(insn)) \in Nat
               /\ LastSlot(low) \in Slots
  BY <1>1, InsnFields, SlotSizes, NarrowSlots DEF LastSlot
<1>3. InsnSize(insn) \in Nat /\ (n = 0 => InsnSize(insn) = 2)
      /\ (n > 0 => InsnSize(insn) = 2 + (n - 1) + SlotSize(LastSlot(insn)))
  BY <1>1, <1>2, SizeOf
<1>4. (n = 0 => InsnSize(low) = 2)
      /\ (n > 0 => InsnSize(low) = 2 + (n - 1) + SlotSize(LastSlot(low)))
  BY <1>1, SizeOf
<1> HIDE DEF low
<1>5. CASE Refers(insn)
  <2>1. n > 0 /\ n - 1 \in 0 .. 2 /\ LastSlot(insn).k = "sym" /\ LastSlot(low).k = "sym"
    BY <1>1, <1>2, <1>5, NarrowSlots DEF Refers
  <2>2. LastSlot(insn).width \in 1 .. AbsMax
    BY <1>1, <2>1, ShapedFields DEF LastSlot
  <2>3. SlotSize(LastSlot(insn)) = LastSlot(insn).width /\ SlotSize(LastSlot(low)) = 1
    BY <1>1, <1>2, <1>5, <2>1, SlotSizes
  <2>4. InsnSize(low) = 3 + (n - 1) /\ InsnSize(low) <= InsnSize(insn)
        /\ InsnSize(insn) <= 2 + (n - 1) + AbsMax
    BY <1>3, <1>4, <2>1, <2>2, <2>3, WidthsAssumption
  <2>5. InsnSize(low) \in Nat /\ 2 + (n - 1) + AbsMax \in Nat
    BY <2>1, <2>4, WidthsAssumption
  <2>6. AlignedUp(InsnSize(low)) <= AlignedUp(InsnSize(insn))
        /\ AlignedUp(InsnSize(insn)) <= AlignedUp(2 + (n - 1) + AbsMax)
    BY <1>3, <2>4, <2>5, RoundsUpInOrder
  <2>7. AlignedUp(2 + (n - 1) + AbsMax) <= ByteSize * AlignedUp(3 + (n - 1))
    BY <2>1, GrowthAssumption
  <2>8. /\ AlignedUp(InsnSize(low)) \in Nat /\ AlignedUp(InsnSize(insn)) \in Nat
        /\ AlignedUp(2 + (n - 1) + AbsMax) \in Nat
    BY <1>3, <2>5, RoundsUp
  <2>9. ByteSize * AlignedUp(InsnSize(low)) \in Nat
    BY <2>8, SizesNonzero
  <2> QED
    BY <2>4, <2>6, <2>7, <2>8, <2>9 DEF low
<1>6. CASE ~Refers(insn)
  <2>1. n > 0 => LastSlot(low) = LastSlot(insn)
    BY <1>1, <1>2, <1>6, NarrowSlots DEF Refers
  <2>2. InsnSize(low) = InsnSize(insn)
    BY <1>1, <1>3, <1>4, <2>1
  <2>3. AlignedUp(InsnSize(insn)) \in Nat
    BY <1>3, RoundsUp
  <2>4. \A x \in Nat : x <= ByteSize * x
    BY SizesNonzero
  <2> QED
    BY <2>2, <2>3, <2>4 DEF low
<1> QED
  BY <1>5, <1>6

LEMMA NarrowProgram ==
    ASSUME NEW code, Program(code)
    PROVE  /\ Len(code) \in Nat /\ DOMAIN code = 1 .. Len(code)
           /\ Program(Narrow(code)) /\ Len(Narrow(code)) = Len(code)
           /\ \A j \in 1 .. Len(code) : /\ code[j] \in Insns /\ Shaped(code[j])
                                        /\ Narrow(code)[j] = NarrowInsn(code[j])
<1> DEFINE n == Len(code)
           low == [j \in 1 .. n |-> NarrowInsn(code[j])]
<1>1. code \in Seq(Insns)
  BY DEF Program
<1>2. n \in Nat /\ DOMAIN code = 1 .. n
  BY <1>1
<1>3. \A j \in 1 .. n : code[j] \in Insns /\ Shaped(code[j])
  BY <1>1 DEF Program
<1>4. \A j \in 1 .. n : low[j] = NarrowInsn(code[j]) /\ low[j] \in Insns /\ Shaped(low[j])
  BY <1>3, NarrowInsns
<1>5. low \in Seq(Insns) /\ Len(low) = n
  BY <1>2, <1>4
<1>6. Narrow(code) = low
  BY <1>2, Zenon DEF Narrow
<1> HIDE DEF low
<1> QED
  BY <1>2, <1>3, <1>4, <1>5, <1>6 DEF Program

LEMMA ProgramLayout ==
    ASSUME NEW code, Program(code)
    PROVE  /\ Len(code) \in Nat
           /\ Layout(code) \in [1 .. Len(code) + 1 -> Nat]
           /\ Layout(code)[1] = 0
           /\ \A i \in 1 .. Len(code) :
                Layout(code)[i + 1] = Layout(code)[i] + AlignedUp(InsnSize(code[i]))
<1>1. Len(code) \in Nat /\ \A i \in 1 .. Len(code) : AlignedUp(InsnSize(code[i])) \in Nat
  BY NarrowProgram, NarrowSizes
<1> QED
  BY <1>1, Layouts

(* However wide the references are, distances are those of the narrowest   *)
(* layout stretched.                                                       *)
LEMMA LayoutStretches ==
    ASSUME NEW code, Program(code),
           NEW i \in 1 .. Len(code) + 1, NEW k \in 1 .. Len(code) + 1
    PROVE  /\ Layout(Narrow(code))[k] - Layout(Narrow(code))[i] \in Int
           /\ Layout(code)[k] - Layout(code)[i] \in Int
           /\ Stretched(Layout(Narrow(code))[k] - Layout(Narrow(code))[i],
                        Layout(code)[k] - Layout(code)[i])
<1> DEFINE n == Len(code)
           low == Layout(Narrow(code))
           now == Layout(code)
           zero == [j \in 1 .. n + 1 |-> 0]
           top == [j \in 1 .. n + 1 |-> ByteSize * low[j]]
<1>1. n \in Nat /\ low \in [1 .. n + 1 -> Nat] /\ now \in [1 .. n + 1 -> Nat]
  BY NarrowProgram, ProgramLayout
<1>2. ASSUME NEW j \in 1 .. n
      PROVE  /\ 0 <= low[j + 1] - low[j] /\ low[j + 1] - low[j] <= now[j + 1] - now[j]
             /\ now[j + 1] - now[j] <= ByteSize * low[j + 1] - ByteSize * low[j]
  <2> DEFINE s == AlignedUp(InsnSize(code[j]))
             t == AlignedUp(InsnSize(NarrowInsn(code[j])))
  <2>1. s \in Nat /\ t \in Nat /\ t <= s /\ s <= ByteSize * t
    BY NarrowProgram, NarrowSizes
  <2>2. now[j + 1] = now[j] + s
    BY ProgramLayout
  <2>3. low[j + 1] = low[j] + t
    BY NarrowProgram, ProgramLayout
  <2> HIDE DEF s, t, low, now
  <2>4. j \in 1 .. n + 1 /\ j + 1 \in 1 .. n + 1
    BY <1>1
  <2>5. low[j] \in Nat /\ now[j] \in Nat
    BY <1>1, <2>4
  <2>6. ByteSize * low[j + 1] = ByteSize * low[j] + ByteSize * t
        /\ ByteSize * low[j] \in Nat /\ ByteSize * t \in Nat
    BY <2>1, <2>3, <2>5, SizesNonzero
  <2>7. /\ low[j + 1] - low[j] = t /\ now[j + 1] - now[j] = s
        /\ ByteSize * low[j + 1] - ByteSize * low[j] = ByteSize * t
    BY <2>1, <2>2, <2>3, <2>5, <2>6
  <2> QED
    BY <2>1, <2>7
<1> HIDE DEF low, now
<1>3. /\ zero \in [1 .. n + 1 -> Int] /\ top \in [1 .. n + 1 -> Int]
      /\ low \in [1 .. n + 1 -> Int] /\ now \in [1 .. n + 1 -> Int]
  <2>1. \A x \in Nat : ByteSize * x \in Int
    BY SizesNonzero
  <2> QED
    BY <1>1, <2>1
<1>4. \A j \in 1 .. n + 1 : zero[j] = 0 /\ top[j] = ByteSize * low[j]
  OBVIOUS
<1> HIDE DEF zero, top, n
<1>5. \A j \in 1 .. n : j \in 1 .. n + 1 /\ j + 1 \in 1 .. n + 1
  BY <1>1
<1>6. \A j \in 1 .. n : zero[j + 1] - zero[j] <= low[j + 1] - low[j]
  BY <1>2, <1>4, <1>5 DEF n
<1>7. \A j \in 1 .. n : now[j + 1] - now[j] <= top[j + 1] - top[j]
  BY <1>2, <1>4, <1>5 DEF n
<1>8. ASSUME NEW a \in 1 .. n + 1, NEW b \in 1 .. n + 1, a <= b
      PROVE  /\ 0 <= low[b] - low[a] /\ low[b] - low[a] <= now[b] - now[a]
             /\ now[b] - now[a] <= ByteSize * (low[b] - low[a])
  <2>1. zero[b] - zero[a] <= low[b] - low[a]
    BY <1>1, <1>3, <1>6, <1>8, Distances
  <2>2. low[b] - low[a] <= now[b] - now[a]
    BY <1>1, <1>2, <1>3, <1>8, Distances DEF n
  <2>3. now[b] - now[a] <= top[b] - top[a]
    BY <1>1, <1>3, <1>7, <1>8, Distances
  <2>4. \A x, y \in Nat : ByteSize * x - ByteSize * y = ByteSize * (x - y)
    BY SizesNonzero
  <2>5. low[a] \in Nat /\ low[b] \in Nat
    BY <1>1
  <2>6. top[b] - top[a] = ByteSize * (low[b] - low[a])
    BY <1>4, <2>4, <2>5
  <2>7. 0 <= low[b] - low[a]
    BY <1>4, <2>1, <2>5
  <2> QED
    BY <2>2, <2>3, <2>6, <2>7
<1>9. i \in 1 .. n + 1 /\ k \in 1 .. n + 1
  BY DEF n
<1>10. low[i] \in Nat /\ low[k] \in Nat /\ now[i] \in Nat /\ now[k] \in Nat
  BY <1>1, <1>9
<1>11. Stretched(low[k] - low[i], now[k] - now[i])
  <2>1. CASE i <= k
    <3>1. /\ 0 <= low[k] - low[i] /\ low[k] - low[i] <= now[k] - now[i]
          /\ now[k] - now[i] <= ByteSize * (low[k] - low[i])
      BY <1>8, <1>9, <2>1
    <3>2. low[k] - low[i] = 0 => ByteSize * (low[k] - low[i]) = 0
      BY SizesNonzero
    <3> QED
      BY <1>10, <3>1, <3>2 DEF Stretched, Further
  <2>2. CASE ~(i <= k)
    <3>1. /\ 0 <= low[i] - low[k] /\ low[i] - low[k] <= now[i] - now[k]
          /\ now[i] - now[k] <= ByteSize * (low[i] - low[k])
      BY <1>8, <1>9, <2>2
    <3>2. ByteSize * (low[k] - low[i]) = -(ByteSize * (low[i] - low[k]))
          /\ ByteSize * (low[i] - low[k]) \in Int
      BY <1>10, SizesNonzero
    <3>3. low[k] - low[i] = 0 => ByteSize * (low[k] - low[i]) = 0
      BY SizesNonzero
    <3> QED
      BY <1>10, <3>1, <3>2, <3>3 DEF Stretched, Further
  <2> QED
    BY <2>1, <2>2
<1> QED
  BY <1>10, <1>11 DEF low, now
-----------------------------------------------------------------------------
(* What the parser builds.                                                 *)
RegOrBad(s) == s # BadSlot => s \in Slots /\ s.k = "reg" /\ s.n \in 0 .. NumRegs - 1 /\ s.width = 1

OperandOrBad(s) ==
    s # BadSlot =>
        /\ s \in Slots
        /\ s.k = "reg" => s.n \in 0 .. NumRegs - 1 /\ s.width = 1
        /\ s.k = "num" => Fits(s.n, 8)
        /\ s.k = "sym" => s.width = 1

Anything == Slots \cup {BadSlot}

Built(b) ==
    /\ b \in Seq(Anything) /\ Len(b) \in 0 .. 3
    /\ \A i \in 1 .. Len(b) : (i < Len(b) => RegOrBad(b[i])) /\ OperandOrBad(b[i])

LEMMA SlotFields ==
    /\ BadSlot.k = "bad"
    /\ \A n \in Int : /\ Reg(n) \in Slots /\ Reg(n).k = "reg"
                      /\ Reg(n).n = n /\ Reg(n).width = 1
                      /\ Num(n) \in Slots /\ Num(n).k = "num" /\ Num(n).n = n
    /\ \A name \in STRING : /\ Sym(name) \in Slots /\ Sym(name).k = "sym"
                            /\ Sym(name).name = name /\ Sym(name).width = 1
<1>1. "" \in Names /\ STRING \subseteq Names
  BY Zenon DEF Names
<1>2. BadSlot.k = "bad"
  BY DEF BadSlot
<1>3. \A n \in Int : /\ Reg(n) \in Slots /\ Reg(n).k = "reg"
                     /\ Reg(n).n = n /\ Reg(n).width = 1
  BY <1>1 DEF Reg, Slots
<1>4. \A n \in Int : Num(n) \in Slots /\ Num(n).k = "num" /\ Num(n).n = n
  BY <1>1 DEF Num, Slots
<1>5. ASSUME NEW name, name \in STRING
      PROVE  /\ Sym(name) \in Slots /\ Sym(name).k = "sym"
             /\ Sym(name).name = name /\ Sym(name).width = 1
  <2>1. name \in Names
    BY <1>1, <1>5, Zenon
  <2>2. 0 \in Int /\ 1 \in Nat
    OBVIOUS
  <2> QED
    BY <2>1, <2>2 DEF Sym, Slots
<1> QED
  BY <1>2, <1>3, <1>4, <1>5

LEMMA RegSlots ==
    ASSUME NEW tok, tok.t = "reg" => tok.n \in Nat
    PROVE  RegOrBad(RegSlot(tok)) /\ OperandOrBad(RegSlot(tok))
<1>1. CASE IsReg(tok)
  <2>1. tok.n \in 0 .. NumRegs - 1
    BY <1>1, NumRegsAssumption DEF IsReg
  <2>2. RegSlot(tok) = Reg(tok.n)
    BY <1>1 DEF RegSlot
  <2> QED
    BY <2>1, <2>2, SlotFields DEF RegOrBad, OperandOrBad
<1>2. CASE ~IsReg(tok)
  BY <1>2 DEF RegSlot, RegOrBad, OperandOrBad
<1> QED
  BY <1>1, <1>2

LEMMA NumSlots ==
    ASSUME NEW v \in Int, Fits(v, 8) PROVE OperandOrBad(Num(v))
  BY SlotFields DEF OperandOrBad

LEMMA OperandSlots ==
    ASSUME NEW tok, Token(tok) PROVE OperandOrBad(Operand(tok))
<1>1. CASE IsReg(tok)
  <2>1. Operand(tok) = RegSlot(tok) /\ tok.t = "reg"
    BY <1>1 DEF Operand, RegSlot, IsReg
  <2> QED
    BY <2>1, RegSlots DEF Token
<1>2. CASE ~IsReg(tok) /\ tok.t = "num"
  <2>1. Operand(tok) = Num(tok.n)
    BY <1>2 DEF Operand, IsReg
  <2> QED
    BY <1>2, <2>1, NumSlots DEF Token
<1>3. CASE ~IsReg(tok) /\ tok.t \in {"reg", "name"}
  <2>1. Operand(tok) = Sym(tok.text)
    BY <1>3 DEF Operand
  <2>2. tok.text \in STRING
    BY <1>3 DEF Token
  <2> QED
    BY <2>1, <2>2, SlotFields DEF OperandOrBad
<1>4. CASE ~IsReg(tok) /\ tok.t # "num" /\ tok.t \notin {"reg", "name"}
  <2>1. Operand(tok) = BadSlot
    BY <1>4 DEF Operand
  <2> QED
    BY <2>1 DEF OperandOrBad
<1> QED
  BY <1>1, <1>2, <1>3, <1>4

LEMMA ZeroFits == Fits(0, 8)
<1>1. Power[8] \in Nat \ {0}
  BY Powers
<1> QED
  BY <1>1 DEF Fits

LEMMA AddressSlots ==
    ASSUME NEW tok, Token(tok)
    PROVE  LET m == MemSlots(tok) IN
           \/ m = <<BadSlot>>
           \/ /\ m \in Seq(Anything) /\ Len(m) = 2
              /\ RegOrBad(m[1]) /\ OperandOrBad(m[1]) /\ OperandOrBad(m[2])
<1>1. CASE tok.t # "mem"
  BY <1>1 DEF MemSlots
<1>2. CASE tok.t = "mem"
  <2> DEFINE b == RegSlot(tok.base)
             o == CASE tok.sign = ""                       -> Num(0)
                    [] tok.sign = "+" /\ IsReg(tok.off)    -> Reg(tok.off.n)
                    [] tok.sign = "+" /\ tok.off.t = "num" -> Num(tok.off.n)
                    [] tok.sign = "-" /\ tok.off.t = "num" -> Num(-tok.off.n)
                    [] OTHER                               -> BadSlot
  <2>1. MemSlots(tok) = <<b, o>>
    BY <1>2 DEF MemSlots
  <2>2. RegOrBad(b) /\ OperandOrBad(b)
    BY <1>2, RegSlots DEF Token
  <2>3. OperandOrBad(o)
    <3>1. CASE tok.sign = ""
      <4>1. o = Num(0)
        BY <3>1
      <4>2. OperandOrBad(Num(0))
        BY ZeroFits, NumSlots
      <4> QED
        BY <4>1, <4>2, Zenon
    <3>2. CASE tok.sign = "+" /\ IsReg(tok.off)
      <4>1. o = RegSlot(tok.off) /\ tok.off.t = "reg"
        BY <3>2 DEF RegSlot, IsReg
      <4> QED
        BY <1>2, <4>1, RegSlots DEF Token
    <3>3. CASE tok.sign = "+" /\ ~IsReg(tok.off) /\ tok.off.t = "num"
      <4>1. o = Num(tok.off.n)
        BY <3>3
      <4> QED
        BY <1>2, <3>3, <4>1, NumSlots DEF Token
    <3>4. CASE tok.sign = "-" /\ tok.off.t = "num"
      <4>1. o = Num(-tok.off.n)
        BY <3>4
      <4>2. tok.off.n \in Int /\ Fits(-tok.off.n, 8)
        BY <1>2, <3>4 DEF Token
      <4>3. OperandOrBad(Num(-tok.off.n))
        BY <4>2, NumSlots
      <4> QED
        BY <4>1, <4>3, Zenon
    <3>5. CASE /\ tok.sign # ""
               /\ ~(tok.sign = "+" /\ IsReg(tok.off))
               /\ ~(tok.sign = "+" /\ tok.off.t = "num")
               /\ ~(tok.sign = "-" /\ tok.off.t = "num")
      <4>1. o = BadSlot
        BY <3>5
      <4> QED
        BY <4>1 DEF OperandOrBad
    <3> QED
      BY <3>1, <3>2, <3>3, <3>4, <3>5
  <2>4. b \in Anything /\ o \in Anything
    BY <2>2, <2>3 DEF OperandOrBad, Anything
  <2> HIDE DEF b, o
  <2> QED
    BY <2>1, <2>2, <2>3, <2>4
<1> QED
  BY <1>1, <1>2

LEMMA BadBuilt == Built(<<BadSlot>>)
<1>1. BadSlot \in Anything
  BY DEF Anything
<1> HIDE DEF Anything
<1>2. <<BadSlot>> \in Seq(Anything) /\ Len(<<BadSlot>>) = 1 /\ <<BadSlot>>[1] = BadSlot
  BY <1>1
<1> QED
  BY <1>2 DEF Built, RegOrBad, OperandOrBad

LEMMA Prefixed ==
    ASSUME NEW S, NEW r \in S, NEW t \in Seq(S)
    PROVE  LET s == <<r>> \o t IN
           /\ s \in Seq(S) /\ Len(s) = 1 + Len(t) /\ s[1] = r
           /\ \A i \in 1 .. Len(t) : s[i + 1] = t[i]
<1>1. <<r>> \in Seq(S)
  OBVIOUS
<1> QED
  BY <1>1

LEMMA AddressBuilt ==
    ASSUME NEW tok, Token(tok), NEW r, RegOrBad(r), OperandOrBad(r)
    PROVE  Built(<<r>> \o MemSlots(tok))
<1> DEFINE m == MemSlots(tok)
           b == <<r>> \o m
<1>1. r \in Anything /\ BadSlot \in Anything
  BY DEF OperandOrBad, Anything
<1>2. m \in Seq(Anything) /\ Len(m) \in 1 .. 2 /\ OperandOrBad(m[Len(m)])
      /\ (Len(m) = 2 => RegOrBad(m[1]) /\ OperandOrBad(m[1]))
  <2>1. CASE m = <<BadSlot>>
    <3> HIDE DEF m
    <3>1. OperandOrBad(BadSlot) /\ <<BadSlot>> \in Seq(Anything)
          /\ Len(<<BadSlot>>) = 1 /\ <<BadSlot>>[1] = BadSlot
      BY <1>1 DEF OperandOrBad
    <3> QED
      BY <2>1, <3>1
  <2>2. CASE m # <<BadSlot>>
    BY <2>2, AddressSlots
  <2> QED
    BY <2>1, <2>2
<1> HIDE DEF m
<1>3. b \in Seq(Anything) /\ Len(b) = 1 + Len(m) /\ b[1] = r
      /\ \A i \in 1 .. Len(m) : b[i + 1] = m[i]
  BY <1>1, <1>2, Prefixed
<1> HIDE DEF b
<1>4. CASE Len(m) = 1
  <2>1. Len(b) = 2 /\ b[1] = r /\ b[2] = m[1]
    BY <1>3, <1>4
  <2> QED
    BY <1>2, <1>3, <1>4, <2>1 DEF Built, b, m
<1>5. CASE Len(m) = 2
  <2>1. Len(b) = 3 /\ b[1] = r /\ b[2] = m[1] /\ b[3] = m[2]
    BY <1>3, <1>5
  <2>2. \A i \in 1 .. 3 : (i < 3 => RegOrBad(b[i])) /\ OperandOrBad(b[i])
    BY <1>2, <1>5, <2>1
  <2> QED
    BY <1>3, <2>1, <2>2 DEF Built, b, m
<1> QED
  BY <1>2, <1>4, <1>5

LEMMA ArityRange ==
    ASSUME NEW m \in Mnemonics PROVE Find(m)[3] \in DOMAIN Arity /\ Arity[Find(m)[3]] \in 0 .. 3
<1>1. Find(m) \in INSTRUCTIONS
  <2>1. \E r \in INSTRUCTIONS : r[1] = m
    BY Zenon DEF Mnemonics
  <2> QED
    BY <2>1, Zenon DEF Find
<1>2. \A r \in INSTRUCTIONS :
        r[3] \in {"NULL", "R__OR__I", "R_R__OR__R_I", "R_R_R__OR__R_R_IMM"}
  BY DEF INSTRUCTIONS
<1>3. /\ DOMAIN Arity = {"NULL", "R__OR__I", "R_R__OR__R_I", "R_R_R__OR__R_R_IMM"}
      /\ \A f \in DOMAIN Arity : Arity[f] \in 0 .. 3
  BY DEF Arity
<1> QED
  BY <1>1, <1>2, <1>3

LEMMA SlotsBuilt ==
    ASSUME NEW m \in Mnemonics, NEW args, DOMAIN args = 1 .. Len(args), Len(args) \in Nat,
           \A i \in 1 .. Len(args) : Token(args[i])
    PROVE  Built(BuildSlots(m, args))
<1> DEFINE n == Len(args)
           opcode == Find(m)[2]
           plain == [i \in 1 .. n |-> IF i < n THEN RegSlot(args[i]) ELSE Operand(args[i])]
<1>1. \A i \in 1 .. n : /\ RegOrBad(RegSlot(args[i])) /\ OperandOrBad(RegSlot(args[i]))
                        /\ OperandOrBad(Operand(args[i]))
  BY RegSlots, OperandSlots DEF Token
<1>2. CASE opcode = 64 /\ n = 2
  <2>1. BuildSlots(m, args) = <<RegSlot(args[1])>> \o MemSlots(args[2])
    BY <1>2 DEF BuildSlots
  <2> QED
    BY <1>1, <1>2, <2>1, AddressBuilt
<1>3. CASE opcode = 65 /\ n = 2
  <2>1. BuildSlots(m, args) = <<RegSlot(args[2])>> \o MemSlots(args[1])
    BY <1>3 DEF BuildSlots
  <2> QED
    BY <1>1, <1>3, <2>1, AddressBuilt
<1>4. CASE ~(opcode = 64 /\ n = 2) /\ ~(opcode = 65 /\ n = 2) /\ m = "trap" /\ n = 1
  <2>1. BuildSlots(m, args) = <<Operand(args[1])>>
    BY <1>4 DEF BuildSlots
  <2>2. OperandOrBad(Operand(args[1])) /\ Operand(args[1]) \in Anything
    BY <1>1, <1>4 DEF OperandOrBad, Anything
  <2>3. \A o \in Anything : OperandOrBad(o) => Built(<<o>>)
    <3> SUFFICES ASSUME NEW o \in Anything, OperandOrBad(o) PROVE Built(<<o>>)
      OBVIOUS
    <3>1. <<o>> \in Seq(Anything) /\ Len(<<o>>) = 1 /\ <<o>>[1] = o
      OBVIOUS
    <3> QED
      BY <3>1 DEF Built
  <2> QED
    BY <2>1, <2>2, <2>3
<1>5. CASE /\ ~(opcode = 64 /\ n = 2) /\ ~(opcode = 65 /\ n = 2) /\ ~(m = "trap" /\ n = 1)
           /\ opcode \notin {64, 65} /\ n = Arity[Find(m)[3]]
  <2>1. BuildSlots(m, args) = plain
    BY <1>5 DEF BuildSlots
  <2>2. n \in 0 .. 3
    BY <1>5, ArityRange
  <2>3. \A i \in 1 .. n : plain[i] \in Anything
    BY <1>1 DEF OperandOrBad, Anything
  <2>4. Len(plain) = n /\ plain \in Seq(Anything)
    <3>1. n \in Nat /\ plain \in [1 .. n -> Anything]
      BY <2>3
    <3> HIDE DEF plain, n
    <3> QED
      BY <3>1
  <2>5. \A i \in 1 .. n : (i < n => RegOrBad(plain[i])) /\ OperandOrBad(plain[i])
    BY <1>1
  <2> HIDE DEF plain, n
  <2>6. Built(plain)
    BY <2>2, <2>4, <2>5 DEF Built
  <2> QED
    BY <2>1, <2>6
<1>6. CASE /\ ~(opcode = 64 /\ n = 2) /\ ~(opcode = 65 /\ n = 2) /\ ~(m = "trap" /\ n = 1)
           /\ ~(opcode \notin {64, 65} /\ n = Arity[Find(m)[3]])
  <2>1. BuildSlots(m, args) = <<BadSlot>>
    BY <1>6 DEF BuildSlots
  <2> QED
    BY <2>1, BadBuilt
<1> QED
  BY <1>2, <1>3, <1>4, <1>5, <1>6

(* A line that is not rejected becomes an instruction whose references are *)
(* at their narrowest.                                                     *)
LEMMA ParsedInsn ==
    ASSUME pending \in Seq(STRING), NEW line, line.labels \in Seq(STRING),
           line.args \in Seq(ToSet(line.args)), \A tok \in ToSet(line.args) : Token(tok),
           ~Rejected(ParseInsn(line))
    PROVE  LET insn == ParseInsn(line) IN
           /\ insn \in Insns /\ Shaped(insn)
           /\ insn.mnemonic = line.mnemonic /\ line.mnemonic \in Mnemonics
           /\ insn.labels = pending \o line.labels
           /\ insn.slots = BuildSlots(line.mnemonic, line.args)
           /\ \A i \in 1 .. Len(insn.slots) : insn.slots[i].k = "sym" => insn.slots[i].width = 1
<1> DEFINE insn == ParseInsn(line)
           b == IF line.mnemonic \in Mnemonics
                THEN BuildSlots(line.mnemonic, line.args) ELSE <<BadSlot>>
<1>1. insn = [mnemonic |-> line.mnemonic, labels |-> pending \o line.labels, addr |-> 0, slots |-> b]
  BY DEF ParseInsn
<1> HIDE DEF insn, b
<1>2. insn.mnemonic = line.mnemonic /\ insn.labels = pending \o line.labels /\ insn.addr = 0
      /\ insn.slots = b
  BY <1>1
<1>3. \A i \in DOMAIN b : b[i].k # "bad"
  BY <1>2 DEF Rejected, insn
<1>4. line.mnemonic \in Mnemonics
  <2> SUFFICES ASSUME line.mnemonic \notin Mnemonics PROVE FALSE
    OBVIOUS
  <2>1. b = <<BadSlot>>
    BY DEF b
  <2>2. 1 \in DOMAIN b /\ b[1] = BadSlot
    BY <2>1
  <2> QED
    BY <1>3, <2>2, SlotFields
<1>5. b = BuildSlots(line.mnemonic, line.args)
  BY <1>4 DEF b
<1>6. Built(b)
  <2>1. \A i \in 1 .. Len(line.args) : line.args[i] \in ToSet(line.args)
    BY DEF ToSet
  <2>2. \A i \in 1 .. Len(line.args) : Token(line.args[i])
    BY <2>1
  <2>3. DOMAIN line.args = 1 .. Len(line.args) /\ Len(line.args) \in Nat
    OBVIOUS
  <2> QED
    BY <1>4, <1>5, <2>2, <2>3, SlotsBuilt
<1>7. b \in Seq(Anything) /\ Len(b) \in 0 .. 3 /\ DOMAIN b = 1 .. Len(b)
  BY <1>6 DEF Built
<1>8. \A i \in 1 .. Len(b) : b[i] # BadSlot
  BY <1>3, <1>7, SlotFields
<1>9. \A i \in 1 .. Len(b) :
        /\ b[i] \in Slots
        /\ i < Len(b) => b[i].k = "reg"
        /\ b[i].k = "reg" => b[i].n \in 0 .. NumRegs - 1 /\ b[i].width = 1
        /\ b[i].k = "num" => Fits(b[i].n, 8)
        /\ b[i].k = "sym" => b[i].width = 1
  BY <1>6, <1>8 DEF Built, RegOrBad, OperandOrBad
<1>10. b \in Seq(Slots)
  BY <1>7, <1>9
<1>11. insn \in Insns
  <2>1. pending \o line.labels \in Seq(STRING)
    OBVIOUS
  <2> QED
    BY <1>1, <1>4, <1>10, <2>1 DEF Insns
<1>12. 1 \in 1 .. AbsMax
  BY WidthsAssumption
<1>13. Shaped(insn)
  BY <1>2, <1>7, <1>9, <1>12 DEF Shaped
<1> QED
  BY <1>2, <1>4, <1>5, <1>9, <1>11, <1>13 DEF insn
-----------------------------------------------------------------------------
(* What placing and growing leave alone.                                   *)
LEMMA SizeBySlots ==
    ASSUME NEW a, NEW b, a.slots = b.slots PROVE InsnSize(a) = InsnSize(b)
  BY Zenon DEF InsnSize

LEMMA SameLayout ==
    ASSUME NEW code, NEW other, Program(code), Program(other), Len(other) = Len(code),
           \A j \in 1 .. Len(code) : other[j].slots = code[j].slots
    PROVE  Layout(other) = Layout(code)
<1> DEFINE n == Len(code)
           f == Layout(code)
           g == Layout(other)
<1>1. n \in Nat /\ f \in [1 .. n + 1 -> Nat] /\ g \in [1 .. n + 1 -> Nat]
      /\ f[1] = 0 /\ g[1] = 0
  BY ProgramLayout
<1>2. \A j \in 1 .. n : f[j + 1] = f[j] + AlignedUp(InsnSize(code[j]))
                       /\ g[j + 1] = g[j] + AlignedUp(InsnSize(code[j]))
  <2>1. \A j \in 1 .. n : f[j + 1] = f[j] + AlignedUp(InsnSize(code[j]))
    BY ProgramLayout
  <2>2. \A j \in 1 .. n : g[j + 1] = g[j] + AlignedUp(InsnSize(other[j]))
    BY ProgramLayout
  <2>3. \A j \in 1 .. n : InsnSize(other[j]) = InsnSize(code[j])
    BY SizeBySlots
  <2> HIDE DEF f, g
  <2> QED
    BY <2>1, <2>2, <2>3
<1> HIDE DEF f, g, n
<1> DEFINE T == {k \in Nat : k <= n => f[k + 1] = g[k + 1]}
<1>3. 0 \in T
  BY <1>1
<1>4. ASSUME NEW k \in T PROVE k + 1 \in T
  <2>1. CASE k + 1 <= n
    <3>1. k + 1 \in 1 .. n /\ f[k + 1] = g[k + 1]
      BY <1>1, <2>1
    <3>2. f[(k + 1) + 1] = g[(k + 1) + 1]
      BY <1>2, <3>1
    <3> QED
      BY <3>2
  <2> QED
    BY <2>1
<1> HIDE DEF T
<1>5. T = Nat
  BY <1>3, <1>4, Induction DEF T
<1>6. ASSUME NEW i \in 1 .. n + 1 PROVE f[i] = g[i]
  <2>1. i - 1 \in T /\ (i - 1) + 1 = i /\ i - 1 <= n
    BY <1>1, <1>5
  <2> QED
    BY <2>1 DEF T
<1>7. f = g
  BY <1>1, <1>6
<1> QED
  BY <1>7 DEF f, g

LEMMA SameNarrow ==
    ASSUME NEW code, NEW other, Program(code), Program(other), Len(other) = Len(code),
           \A j \in 1 .. Len(code) : NarrowInsn(other[j]) = NarrowInsn(code[j])
    PROVE  Narrow(other) = Narrow(code)
<1>1. DOMAIN code = 1 .. Len(code) /\ DOMAIN other = 1 .. Len(code)
  BY NarrowProgram
<1>2. Narrow(other) = [j \in 1 .. Len(code) |-> NarrowInsn(other[j])]
      /\ Narrow(code) = [j \in 1 .. Len(code) |-> NarrowInsn(code[j])]
  BY <1>1 DEF Narrow
<1> QED
  BY <1>2

LEMMA PlacedInsn ==
    ASSUME NEW insn \in Insns, Shaped(insn), NEW a \in Nat
    PROVE  LET put == [insn EXCEPT !.addr = a] IN
           /\ put \in Insns /\ Shaped(put) /\ put.addr = a
           /\ put.slots = insn.slots /\ put.labels = insn.labels
           /\ put.mnemonic = insn.mnemonic
           /\ NarrowInsn(put) = NarrowInsn(insn)
<1> DEFINE put == [insn EXCEPT !.addr = a]
<1>1. put \in Insns /\ put.addr = a /\ put.slots = insn.slots /\ put.labels = insn.labels
      /\ put.mnemonic = insn.mnemonic
  BY DEF Insns
<1> HIDE DEF put
<1>2. Shaped(put)
  BY <1>1 DEF Shaped
<1>3. NarrowInsn(put) = NarrowInsn(insn)
  BY <1>1 DEF NarrowInsn
<1> QED
  BY <1>1, <1>2, <1>3 DEF put

LEMMA PlacedProgram ==
    ASSUME NEW code, Program(code), NEW at \in [1 .. Len(code) + 1 -> Nat]
    PROVE  LET put == [j \in DOMAIN code |-> [code[j] EXCEPT !.addr = at[j]]] IN
           /\ Program(put) /\ Len(put) = Len(code)
           /\ \A j \in 1 .. Len(code) :
                /\ put[j].addr = at[j] /\ put[j].slots = code[j].slots
                /\ put[j].labels = code[j].labels /\ put[j].mnemonic = code[j].mnemonic
           /\ Narrow(put) = Narrow(code) /\ Layout(put) = Layout(code)
<1> DEFINE n == Len(code)
           put == [j \in 1 .. n |-> [code[j] EXCEPT !.addr = at[j]]]
<1>1. n \in Nat /\ DOMAIN code = 1 .. n
      /\ \A j \in 1 .. n : code[j] \in Insns /\ Shaped(code[j])
  BY NarrowProgram
<1>2. \A j \in 1 .. n : at[j] \in Nat
  BY <1>1
<1>3. ASSUME NEW j \in 1 .. n
      PROVE  /\ put[j] \in Insns /\ Shaped(put[j]) /\ put[j].addr = at[j]
             /\ put[j].slots = code[j].slots /\ put[j].labels = code[j].labels
             /\ put[j].mnemonic = code[j].mnemonic
             /\ NarrowInsn(put[j]) = NarrowInsn(code[j])
  <2>1. put[j] = [code[j] EXCEPT !.addr = at[j]]
    OBVIOUS
  <2>2. code[j] \in Insns /\ Shaped(code[j]) /\ at[j] \in Nat
    BY <1>1, <1>2
  <2> HIDE DEF put
  <2> QED
    BY <2>1, <2>2, PlacedInsn
<1>4. put \in [1 .. n -> Insns]
  BY <1>3
<1>5. [j \in DOMAIN code |-> [code[j] EXCEPT !.addr = at[j]]] = put
  BY <1>1
<1> HIDE DEF put, n
<1>6. put \in Seq(Insns) /\ Len(put) = n
  BY <1>1, <1>4
<1>7. Program(put)
  BY <1>3, <1>6 DEF Program
<1>8. Narrow(put) = Narrow(code)
  BY <1>3, <1>6, <1>7, SameNarrow DEF n
<1>9. Layout(put) = Layout(code)
  BY <1>3, <1>6, <1>7, SameLayout DEF n
<1> QED
  BY <1>3, <1>5, <1>6, <1>7, <1>8, <1>9 DEF n

(* Widening a reference. *)
WidenedInsn(insn) ==
    [insn EXCEPT !.slots = [i \in DOMAIN insn.slots |->
        IF i \in Refs(insn) THEN Widen(insn, insn.slots[i]) ELSE insn.slots[i]]]

Need(insn) == SymWidth(RefValue(insn, LastSlot(insn)))

LEMMA WidenedSlot ==
    ASSUME NEW insn, NEW s \in Slots, s.k = "sym",
           SymWidth(RefValue(insn, s)) \in 1 .. AbsMax
    PROVE  LET need == SymWidth(RefValue(insn, s))
               t == Widen(insn, s)
           IN /\ t \in Slots /\ t.k = "sym" /\ t.n = s.n /\ t.name = s.name
              /\ t.width = (IF need > s.width THEN need ELSE s.width)
              /\ need <= s.width => t = s
              /\ NarrowSlot(t) = NarrowSlot(s)
<1> DEFINE need == SymWidth(RefValue(insn, s))
           t == Widen(insn, s)
<1>1. need \in Nat /\ s.width \in Nat
  BY WidthsAssumption DEF Slots
<1>2. t = IF need > s.width THEN [s EXCEPT !.width = need] ELSE s
  BY DEF Widen
<1> HIDE DEF need, t
<1>3. CASE need > s.width
  <2>1. t = [s EXCEPT !.width = need]
    BY <1>2, <1>3
  <2>2. t \in Slots /\ t.k = "sym" /\ t.n = s.n /\ t.name = s.name /\ t.width = need
    BY <1>1, <2>1 DEF Slots
  <2>3. NarrowSlot(t) = NarrowSlot(s)
    <3>1. NarrowSlot(t) = [t EXCEPT !.width = 1] /\ NarrowSlot(s) = [s EXCEPT !.width = 1]
      BY <2>2 DEF NarrowSlot
    <3> QED
      BY <2>1, <3>1 DEF Slots
  <2> QED
    BY <1>1, <1>3, <2>2, <2>3 DEF need, t
<1>4. CASE ~(need > s.width)
  BY <1>1, <1>2, <1>4 DEF need, t
<1> QED
  BY <1>3, <1>4

LEMMA WideningInsn ==
    ASSUME NEW insn \in Insns, Shaped(insn),
           Refers(insn) => Need(insn) \in 1 .. AbsMax
    PROVE  LET wide == WidenedInsn(insn) IN
           /\ wide \in Insns /\ Shaped(wide) /\ wide.addr = insn.addr
           /\ NarrowInsn(wide) = NarrowInsn(insn)
           /\ Refers(wide) <=> Refers(insn)
           /\ Refers(insn) => LastSlot(wide).width =
                (IF Need(insn) > LastSlot(insn).width THEN Need(insn) ELSE LastSlot(insn).width)
           /\ ~Refers(insn) \/ Need(insn) <= LastSlot(insn).width => wide = insn
<1> DEFINE n == Len(insn.slots)
           slots == [i \in 1 .. n |->
                       IF i = n /\ Refers(insn) THEN Widen(insn, insn.slots[i]) ELSE insn.slots[i]]
           wide == WidenedInsn(insn)
<1>1. n \in 0 .. 3 /\ DOMAIN insn.slots = 1 .. n
      /\ \A i \in 1 .. n : insn.slots[i] \in Slots /\ (i < n => insn.slots[i].k = "reg")
  BY InsnFields, ShapedFields
<1>2. \A i \in 1 .. n : i \in Refs(insn) <=> i = n /\ Refers(insn)
  BY <1>1 DEF Refs, Refers, LastSlot
<1>3. wide = [insn EXCEPT !.slots = slots]
  BY <1>1, <1>2 DEF WidenedInsn
<1>4. Refers(insn) => /\ n \in 1 .. n /\ insn.slots[n].k = "sym" /\ LastSlot(insn) = insn.slots[n]
                      /\ SymWidth(RefValue(insn, insn.slots[n])) \in 1 .. AbsMax
                      /\ insn.slots[n].width \in 1 .. AbsMax
  BY <1>1, ShapedFields DEF Refers, LastSlot, Need
<1>5. \A i \in 1 .. n : slots[i] = IF i = n /\ Refers(insn) THEN Widen(insn, insn.slots[i])
                                  ELSE insn.slots[i]
  OBVIOUS
<1>6. ASSUME NEW i \in 1 .. n
      PROVE  /\ slots[i] \in Slots /\ NarrowSlot(slots[i]) = NarrowSlot(insn.slots[i])
             /\ slots[i].k = insn.slots[i].k /\ slots[i].n = insn.slots[i].n
             /\ slots[i].k # "sym" => slots[i].width = insn.slots[i].width
             /\ slots[i].k = "sym" => slots[i].width \in 1 .. AbsMax
  <2>1. CASE i = n /\ Refers(insn)
    BY <1>1, <1>4, <1>5, <2>1, WidenedSlot
  <2>2. CASE ~(i = n /\ Refers(insn))
    <3>1. slots[i] = insn.slots[i] /\ insn.slots[i].k # "sym"
      BY <1>1, <1>2, <1>5, <2>2 DEF Refs
    <3> QED
      BY <1>1, <3>1
  <2> QED
    BY <2>1, <2>2
<1>7. slots \in [1 .. n -> Slots]
  BY <1>6
<1> HIDE DEF slots, wide
<1>8. slots \in Seq(Slots) /\ Len(slots) = n
  <2>1. n \in Nat
    BY <1>1
  <2> HIDE DEF n
  <2> QED
    BY <1>7, <2>1
<1>9. wide \in Insns /\ wide.slots = slots /\ wide.addr = insn.addr
      /\ wide.mnemonic = insn.mnemonic /\ wide.labels = insn.labels
  BY <1>3, <1>8 DEF Insns
<1>10. Shaped(wide)
  <2>1. \A i \in 1 .. n :
          /\ i < n => slots[i].k = "reg"
          /\ slots[i].k = "reg" => slots[i].n \in 0 .. NumRegs - 1 /\ slots[i].width = 1
          /\ slots[i].k = "num" => Fits(slots[i].n, 8)
          /\ slots[i].k = "sym" => slots[i].width \in 1 .. AbsMax
    BY <1>1, <1>6, ShapedFields
  <2> QED
    BY <1>1, <1>8, <1>9, <2>1 DEF Shaped
<1>11. NarrowInsn(wide) = NarrowInsn(insn)
  <2>1. [i \in DOMAIN wide.slots |-> NarrowSlot(wide.slots[i])]
          = [i \in DOMAIN insn.slots |-> NarrowSlot(insn.slots[i])]
    <3>1. DOMAIN wide.slots = 1 .. n
      BY <1>7, <1>9
    <3> QED
      BY <1>1, <1>6, <1>9, <3>1
  <2> QED
    BY <1>9, <2>1 DEF NarrowInsn
<1>12. Refers(wide) <=> Refers(insn)
  BY <1>1, <1>6, <1>8, <1>9 DEF Refers, LastSlot
<1>13. Refers(insn) => LastSlot(wide) = Widen(insn, LastSlot(insn))
  BY <1>4, <1>5, <1>8, <1>9 DEF LastSlot
<1>14. Refers(insn) => LastSlot(wide).width =
         (IF Need(insn) > LastSlot(insn).width THEN Need(insn) ELSE LastSlot(insn).width)
  BY <1>1, <1>4, <1>13, WidenedSlot DEF Need
<1>15. ASSUME ~Refers(insn) \/ Need(insn) <= LastSlot(insn).width PROVE wide = insn
  <2>1. ASSUME NEW i \in 1 .. n PROVE slots[i] = insn.slots[i]
    <3>1. CASE i = n /\ Refers(insn)
      BY <1>1, <1>4, <1>5, <1>15, <3>1, WidenedSlot DEF Need
    <3>2. CASE ~(i = n /\ Refers(insn))
      BY <1>5, <3>2
    <3> QED
      BY <3>1, <3>2
  <2>2. insn.slots \in Seq(Slots) /\ Len(insn.slots) = n
    BY InsnFields
  <2>3. slots = insn.slots
    BY <1>8, <2>1, <2>2, SeqEqual
  <2> QED
    BY <1>3, <2>3 DEF Insns
<1> QED
  BY <1>9, <1>10, <1>11, <1>12, <1>14, <1>15 DEF wide

LEMMA WidenedProgram ==
    ASSUME Program(insns),
           \A j \in Referring : Need(insns[j]) \in 1 .. AbsMax
    PROVE  /\ Program(Widened) /\ Len(Widened) = Len(insns)
           /\ Narrow(Widened) = Narrow(insns)
           /\ \A j \in 1 .. Len(insns) :
                /\ Widened[j].addr = insns[j].addr
                /\ Refers(Widened[j]) <=> Refers(insns[j])
           /\ \A j \in Referring : LastSlot(Widened[j]).width =
                (IF Need(insns[j]) > WidthOf(j) THEN Need(insns[j]) ELSE WidthOf(j))
           /\ (\A j \in Referring : Need(insns[j]) <= WidthOf(j)) => Widened = insns
<1> DEFINE n == Len(insns)
           wide == [j \in 1 .. n |-> WidenedInsn(insns[j])]
<1>1. n \in Nat /\ DOMAIN insns = 1 .. n
      /\ \A j \in 1 .. n : insns[j] \in Insns /\ Shaped(insns[j])
  BY NarrowProgram
<1>2. Widened = wide
  BY <1>1, Zenon DEF Widened, WidenedInsn
<1>3. \A j \in 1 .. n : wide[j] = WidenedInsn(insns[j])
  OBVIOUS
<1>4. \A j \in 1 .. n : Refers(insns[j]) => j \in Referring
  BY DEF Referring
<1>5. \A j \in 1 .. n :
        /\ wide[j] \in Insns /\ Shaped(wide[j]) /\ wide[j].addr = insns[j].addr
        /\ NarrowInsn(wide[j]) = NarrowInsn(insns[j])
        /\ Refers(wide[j]) <=> Refers(insns[j])
        /\ Refers(insns[j]) => LastSlot(wide[j]).width =
             (IF Need(insns[j]) > WidthOf(j) THEN Need(insns[j]) ELSE WidthOf(j))
        /\ ~Refers(insns[j]) \/ Need(insns[j]) <= WidthOf(j) => wide[j] = insns[j]
  BY <1>1, <1>3, <1>4, WideningInsn DEF WidthOf
<1>6. wide \in [1 .. n -> Insns]
  BY <1>5
<1> HIDE DEF wide
<1>7. wide \in Seq(Insns) /\ Len(wide) = n
  <2> HIDE DEF n
  <2> QED
    BY <1>1, <1>6
<1>8. Program(wide)
  BY <1>5, <1>7 DEF Program
<1>9. Narrow(wide) = Narrow(insns)
  BY <1>5, <1>7, <1>8, SameNarrow
<1>10. \A j \in Referring : j \in 1 .. n /\ Refers(insns[j])
  BY DEF Referring
<1>11. ASSUME \A j \in Referring : Need(insns[j]) <= WidthOf(j) PROVE wide = insns
  <2>1. \A j \in 1 .. n : wide[j] = insns[j]
    BY <1>4, <1>5, <1>11
  <2>2. insns \in Seq(Insns)
    BY DEF Program
  <2> QED
    BY <1>7, <2>1, <2>2, SeqEqual
<1> QED
  BY <1>2, <1>5, <1>7, <1>8, <1>9, <1>10, <1>11

(* The symbols of a round are the addresses of the places.                 *)
LEMMA SymbolPlaces ==
    ASSUME Program(insns), ~Duplicate, NEW name \in DOMAIN Symbols
    PROVE  /\ Spot(name, Narrow(insns), pending) \in 1 .. Len(insns) + 1
           /\ Symbols[name] = Layout(insns)[Spot(name, Narrow(insns), pending)]
<1> DEFINE low == Narrow(insns)
           r == CHOOSE p \in LabelsOf(low) : low[p[1]].labels[p[2]] = name
           q == CHOOSE p \in Attached : NameOf(p) = name
           known == { NameOf(p) : p \in Attached } \cup ToSet(pending)
<1>1. DOMAIN Symbols = known /\ name \in known
  BY DEF Symbols
<1>2. Symbols[name] = IF name \in ToSet(pending) THEN Layout(insns)[Len(insns) + 1]
                      ELSE Layout(insns)[q[1]]
  BY <1>1 DEF Symbols
<1>3. Len(insns) \in Nat /\ DOMAIN insns = 1 .. Len(insns) /\ Len(low) = Len(insns)
      /\ DOMAIN low = 1 .. Len(insns)
      /\ \A j \in 1 .. Len(insns) : low[j].labels = insns[j].labels
  BY NarrowProgram, NarrowInsns
<1>4. CASE name \in ToSet(pending)
  <2>1. Spot(name, low, pending) = Len(low) + 1
    BY <1>4 DEF Spot
  <2> QED
    BY <1>2, <1>3, <1>4, <2>1
<1>5. CASE name \notin ToSet(pending)
  <2>1. \E p \in Attached : NameOf(p) = name
    BY <1>1, <1>5
  <2>2. q \in Attached /\ NameOf(q) = name
    BY <2>1
  <2>3. LabelsOf(low) = Attached
    BY <1>3 DEF LabelsOf, Attached
  <2>4. \A p \in Attached : p[1] \in 1 .. Len(insns) /\ low[p[1]].labels[p[2]] = NameOf(p)
    <3>1. \A p \in Attached : p[1] \in DOMAIN insns
      BY DEF Attached
    <3> QED
      BY <1>3, <3>1 DEF NameOf
  <2>5. r \in Attached /\ low[r[1]].labels[r[2]] = name
    <3>1. \E p \in LabelsOf(low) : low[p[1]].labels[p[2]] = name
      BY <2>1, <2>3, <2>4
    <3>2. r \in LabelsOf(low) /\ low[r[1]].labels[r[2]] = name
      BY <3>1
    <3> QED
      BY <2>3, <3>2
  <2>6. Spot(name, low, pending) = r[1]
    BY <1>5 DEF Spot
  <2> HIDE DEF q, r
  <2>7. q = r
    BY <2>2, <2>4, <2>5 DEF Duplicate
  <2> QED
    BY <1>2, <1>3, <1>5, <2>4, <2>5, <2>6, <2>7
<1> QED
  BY <1>4, <1>5
-----------------------------------------------------------------------------
(* Relaxation. *)
Typed ==
    /\ source \in Sources
    /\ phase \in {"parse", "place", "grow", "emit", "done", "failed"}
    /\ next \in Nat \ {0}
    /\ pending \in Seq(STRING)
    /\ Program(insns)
    /\ round \in Nat

Placed ==
    phase = "grow" =>
        /\ round >= 1
        /\ \A j \in 1 .. Len(insns) : insns[j].addr = Layout(insns)[j]
        /\ \A name \in DOMAIN syms :
             /\ Spot(name, Narrow(insns), pending) \in 1 .. Len(insns) + 1
             /\ syms[name] = Layout(insns)[Spot(name, Narrow(insns), pending)]

Grown ==
    (phase = "place" /\ round >= 1) \/ (phase = "grow" /\ round >= 2) =>
        \A j \in Referring :
            /\ SpotOf(j, Narrow(insns), pending) \in 1 .. Len(insns) + 1
            /\ WidthOf(j) \in {Least(j), Least(j) + 1}

(* Until the first of them has grown, all are one byte wide.               *)
Fresh ==
    round = 0 \/ (phase = "grow" /\ round = 1) => \A j \in Referring : WidthOf(j) = 1

Delayed ==
    /\ phase = "parse" => round = 0
    /\ phase = "place" /\ round >= 1 => Cardinality(Late) >= round - 1
    /\ phase = "grow" /\ round >= 2 => Cardinality(Late) >= round - 2

RelaxInv == Typed /\ Placed /\ Grown /\ Fresh /\ Delayed

(* What a reference stands for in this round is what it stands for in the  *)
(* narrowest layout, stretched.                                            *)
LEMMA ValueStretches ==
    ASSUME Program(insns), NEW j \in 1 .. Len(insns),
           SpotOf(j, Narrow(insns), pending) \in 1 .. Len(insns) + 1
    PROVE  LET low == ValueIn(Layout(Narrow(insns)), j, Narrow(insns), pending)
               now == ValueIn(Layout(insns), j, Narrow(insns), pending)
           IN low \in Int /\ now \in Int /\ Stretched(low, now)
<1> DEFINE i == IF Relative(Narrow(insns)[j]) THEN j ELSE 1
<1>1. i \in 1 .. Len(insns) + 1
  BY NarrowProgram
<1> QED
  BY <1>1, LayoutStretches DEF ValueIn

LEMMA LeastRange ==
    ASSUME Program(insns), NEW j \in 1 .. Len(insns),
           SpotOf(j, Narrow(insns), pending) \in 1 .. Len(insns) + 1
    PROVE  /\ Least(j) \in 1 .. 8
           /\ SymWidth(ValueIn(Layout(insns), j, Narrow(insns), pending)) \in {Least(j), Least(j) + 1}
  BY ValueStretches, StretchedNeedsOne, WidthNeeded DEF Least

(* In a round, the value of a known reference is that of the layout.       *)
LEMMA RoundValue ==
    ASSUME Typed, Placed, phase = "grow", NEW j \in Referring, ~Unknown(insns[j])
    PROVE  /\ SpotOf(j, Narrow(insns), pending) \in 1 .. Len(insns) + 1
           /\ RefValue(insns[j], LastSlot(insns[j])) =
                ValueIn(Layout(insns), j, Narrow(insns), pending)
<1> DEFINE name == LastSlot(insns[j]).name
<1>1. j \in 1 .. Len(insns) /\ Refers(insns[j]) /\ Program(insns)
  BY DEF Referring, Typed
<1>2. insns[j] \in Insns /\ Shaped(insns[j]) /\ Narrow(insns)[j] = NarrowInsn(insns[j])
  BY <1>1, NarrowProgram
<1>3. LastSlot(insns[j]) \in Slots /\ Len(insns[j].slots) \in Refs(insns[j])
      /\ LastSlot(insns[j]) = insns[j].slots[Len(insns[j].slots)]
  BY <1>1, <1>2, InsnFields DEF Refers, LastSlot, Refs
<1>4. name \in DOMAIN syms
  BY <1>3 DEF Unknown
<1>5. LastSlot(Narrow(insns)[j]).name = name /\ Narrow(insns)[j].mnemonic = insns[j].mnemonic
  BY <1>1, <1>2, <1>3, NarrowInsns, NarrowSlots DEF Refers
<1>6. Relative(Narrow(insns)[j]) <=> Relative(insns[j])
  BY <1>5 DEF Relative, OpcodeOf
<1>7. SpotOf(j, Narrow(insns), pending) = Spot(name, Narrow(insns), pending)
  BY <1>5 DEF SpotOf
<1>8. /\ Spot(name, Narrow(insns), pending) \in 1 .. Len(insns) + 1
      /\ syms[name] = Layout(insns)[Spot(name, Narrow(insns), pending)]
      /\ insns[j].addr = Layout(insns)[j]
  BY <1>1, <1>4 DEF Placed
<1>9. Layout(insns) \in [1 .. Len(insns) + 1 -> Nat] /\ Layout(insns)[1] = 0
  BY <1>1, ProgramLayout
<1>10. Layout(insns)[Spot(name, Narrow(insns), pending)] \in Nat
  BY <1>8, <1>9
<1> QED
  BY <1>6, <1>7, <1>8, <1>9, <1>10 DEF RefValue, ValueIn

LEMMA LateSize ==
    ASSUME Typed
    PROVE  /\ Len(insns) \in Nat /\ IsFiniteSet(Late)
           /\ Cardinality(Late) \in 0 .. Len(insns)
<1>1. Len(insns) \in Nat
  BY NarrowProgram DEF Typed
<1>2. IsFiniteSet(1 .. Len(insns)) /\ Cardinality(1 .. Len(insns)) = Len(insns)
  BY <1>1, FS_Interval
<1>3. Late \in SUBSET (1 .. Len(insns))
  BY DEF Late, Referring
<1>4. IsFiniteSet(Late) /\ Cardinality(Late) <= Len(insns)
  BY <1>2, <1>3, FS_Subset
<1> QED
  BY <1>1, <1>4, FS_CardinalityType

LEMMA RelaxInit == ASSUME Init PROVE RelaxInv
<1>1. /\ source \in Sources /\ phase = "parse" /\ next = 1 /\ round = 0
      /\ insns = <<>> /\ pending = <<>>
  BY DEF Init
<1>2. Len(insns) = 0 /\ insns \in Seq(Insns) /\ pending \in Seq(STRING)
  BY <1>1
<1>3. Referring = {}
  BY <1>2 DEF Referring
<1>4. Program(insns)
  BY <1>2 DEF Program
<1>5. Typed
  BY <1>1, <1>2, <1>4 DEF Typed
<1>6. Placed /\ Grown /\ Fresh /\ Delayed
  BY <1>1, <1>3 DEF Placed, Grown, Fresh, Delayed
<1> QED
  BY <1>5, <1>6 DEF RelaxInv

(* What happens in no round. *)
LEMMA OtherStep ==
    ASSUME RelaxInv, UNCHANGED <<source, next, pending, insns, syms, round>>,
           phase' \in {"emit", "done", "failed"}
           \/ (phase = "parse" /\ phase' = "place") \/ phase' = phase
    PROVE  RelaxInv'
<1>1. Referring' = Referring /\ \A j : WidthOf(j)' = WidthOf(j)
  BY DEF Referring, WidthOf
<1>2. \A j : Least(j)' = Least(j)
  BY DEF Least
<1>3. Late' = Late
  BY <1>1, <1>2 DEF Late
<1>4. Typed'
  BY DEF RelaxInv, Typed
<1>5. CASE phase' = phase
  BY <1>1, <1>2, <1>3, <1>4, <1>5 DEF RelaxInv, Placed, Grown, Fresh, Delayed
<1>6. CASE phase' \in {"emit", "done", "failed"}
  <2>1. Fresh'
    BY <1>1, <1>6 DEF RelaxInv, Fresh
  <2> QED
    BY <1>4, <1>6, <2>1 DEF RelaxInv, Placed, Grown, Delayed
<1>7. CASE phase = "parse" /\ phase' = "place"
  <2>1. round' = 0
    BY <1>7 DEF RelaxInv, Delayed
  <2>2. Fresh'
    BY <1>1, <1>7 DEF RelaxInv, Fresh
  <2> QED
    BY <1>4, <1>7, <2>1, <2>2 DEF RelaxInv, Placed, Grown, Delayed
<1> QED
  BY <1>5, <1>6, <1>7

LEMMA FailStep ==
    ASSUME RelaxInv,
           Fail("bad line") \/ Fail("duplicate label") \/ Fail("unknown label")
           \/ Fail("too far") \/ Fail("unencodable")
    PROVE  RelaxInv' /\ NeverGivesUp'
<1>1. error' # "not converged"
  BY Zenon DEF Fail
<1>2. phase' = "failed" /\ UNCHANGED <<source, next, pending, insns, syms, round>>
  BY Zenon DEF Fail
<1>3. RelaxInv'
  BY <1>2, OtherStep
<1> QED
  BY <1>1, <1>3, Zenon DEF NeverGivesUp

LEMMA ErrorStays == ASSUME NeverGivesUp, UNCHANGED error PROVE NeverGivesUp'
  BY Zenon DEF NeverGivesUp

LEMMA LineTyped ==
    ASSUME source \in Sources, NEW i \in 1 .. Len(source)
    PROVE  /\ source[i].labels \in Seq(STRING)
           /\ source[i].args \in Seq(ToSet(source[i].args))
           /\ \A tok \in ToSet(source[i].args) : Token(tok)
<1>1. source \in Seq(ToSet(source))
  BY SourcesAssumption
<1>2. source[i] \in ToSet(source)
  BY <1>1
<1> QED
  BY <1>2, SourcesAssumption

LEMMA ParseLineStep ==
    ASSUME RelaxInv, ParseLine, NeverGivesUp
    PROVE  RelaxInv' /\ NeverGivesUp'
<1> DEFINE line == source[next]
           insn == ParseInsn(line)
<1>1. source \in Sources /\ phase = "parse" /\ next \in 1 .. Len(source)
      /\ pending \in Seq(STRING) /\ Program(insns) /\ round = 0
  <2>1. next \in Nat \ {0} /\ next <= Len(source) /\ source \in Sources
    BY DEF RelaxInv, Typed, ParseLine
  <2>2. Len(source) \in Nat
    <3>1. source \in Seq(ToSet(source))
      BY <2>1, SourcesAssumption
    <3> QED
      BY <3>1
  <2>3. phase = "parse"
    BY DEF ParseLine
  <2>4. round = 0
    BY <2>3 DEF RelaxInv, Delayed
  <2>5. pending \in Seq(STRING) /\ Program(insns)
    BY DEF RelaxInv, Typed
  <2>6. next \in 1 .. Len(source)
    BY <2>1, <2>2
  <2> QED
    BY <2>1, <2>3, <2>4, <2>5, <2>6
<1>2. line.labels \in Seq(STRING) /\ line.args \in Seq(ToSet(line.args))
      /\ \A tok \in ToSet(line.args) : Token(tok)
  BY <1>1, LineTyped
<1>3. CASE Blank(line)
  <2>1. /\ pending' = pending \o line.labels /\ next' = next + 1
        /\ UNCHANGED <<source, phase, insns, syms, round, error, rows, image>>
    BY <1>3, Zenon DEF ParseLine
  <2>2. pending' \in Seq(STRING)
    <3> HIDE DEF line
    <3> QED
      BY <1>1, <1>2, <2>1
  <2>3. Typed'
    <3>1. next' \in Nat \ {0}
      BY <1>1, <2>1
    <3> QED
      BY <1>1, <2>1, <2>2, <3>1 DEF Typed
  <2>4. Fresh'
    BY <2>1 DEF RelaxInv, Fresh, Referring, WidthOf
  <2> QED
    BY <1>1, <2>1, <2>3, <2>4, ErrorStays DEF RelaxInv, Placed, Grown, Delayed
<1>4. CASE ~Blank(line) /\ Rejected(insn)
  <2>1. Fail("bad line")
    BY <1>4, Zenon DEF ParseLine
  <2> QED
    BY <2>1, FailStep
<1>5. CASE ~Blank(line) /\ ~Rejected(insn)
  <2>1. /\ insns' = Append(insns, insn)
        /\ pending' = <<>> /\ next' = next + 1
        /\ UNCHANGED <<source, phase, syms, round, error, rows, image>>
    BY <1>5, Zenon DEF ParseLine
  <2>2. /\ insn \in Insns /\ Shaped(insn)
        /\ \A i \in 1 .. Len(insn.slots) : insn.slots[i].k = "sym" => insn.slots[i].width = 1
    BY <1>1, <1>2, <1>5, ParsedInsn
  <2> HIDE DEF insn
  <2>3. insns \in Seq(Insns) /\ \A j \in 1 .. Len(insns) : Shaped(insns[j])
    BY <1>1 DEF Program
  <2>4. /\ insns' \in Seq(Insns) /\ Len(insns') = Len(insns) + 1
        /\ \A j \in 1 .. Len(insns) : insns'[j] = insns[j]
        /\ insns'[Len(insns) + 1] = insn
    BY <2>1, <2>2, <2>3
  <2>5. \A j \in 1 .. Len(insns') : j \in 1 .. Len(insns) \/ j = Len(insns) + 1
    BY <2>3, <2>4
  <2>6. Program(insns')
    BY <2>2, <2>3, <2>4, <2>5 DEF Program
  <2>7. Typed'
    <3>1. next' \in Nat \ {0} /\ pending' \in Seq(STRING)
      BY <1>1, <2>1
    <3> QED
      BY <1>1, <2>1, <2>6, <3>1 DEF Typed
  <2>8. ASSUME NEW j \in Referring' PROVE WidthOf(j)' = 1
    <3>1. j \in 1 .. Len(insns') /\ Refers(insns'[j])
      BY DEF Referring
    <3>2. CASE j \in 1 .. Len(insns)
      <4>1. j \in Referring /\ WidthOf(j)' = WidthOf(j)
        BY <2>4, <3>1, <3>2 DEF Referring, WidthOf
      <4> QED
        BY <1>1, <4>1 DEF RelaxInv, Fresh
    <3>3. CASE j = Len(insns) + 1
      <4>1. Refers(insn) /\ WidthOf(j)' = LastSlot(insn).width
        BY <2>4, <3>1, <3>3 DEF WidthOf
      <4>2. Len(insn.slots) \in 1 .. Len(insn.slots)
        BY <2>2, <4>1, ShapedFields DEF Refers
      <4> QED
        BY <2>2, <4>1, <4>2 DEF Refers, LastSlot
    <3> QED
      BY <2>5, <3>1, <3>2, <3>3
  <2>9. Fresh'
    BY <2>8 DEF Fresh
  <2> QED
    BY <1>1, <2>1, <2>7, <2>9, ErrorStays DEF RelaxInv, Placed, Grown, Delayed
<1> QED
  BY <1>3, <1>4, <1>5

(* There is always a round left to place in. *)
LEMMA RoundLeft ==
    ASSUME RelaxInv, phase = "place" PROVE round < Rounds
  BY LateSize DEF RelaxInv, Typed, Delayed, Rounds

LEMMA PlaceStep ==
    ASSUME RelaxInv, Place, NeverGivesUp
    PROVE  RelaxInv' /\ NeverGivesUp'
<1>1. phase = "place" /\ Program(insns) /\ round \in Nat /\ Len(insns) \in Nat
  BY LateSize DEF RelaxInv, Typed, Place
<1>2. round < Rounds /\ round # Rounds
  <2>1. round < Rounds
    BY <1>1, RoundLeft
  <2> QED
    BY <1>1, <2>1 DEF Rounds
<1>3. CASE Duplicate
  <2>1. Fail("duplicate label")
    BY <1>2, <1>3, Zenon DEF Place
  <2> QED
    BY <2>1, FailStep
<1>4. CASE ~Duplicate
  <2>1. /\ syms' = Symbols
        /\ insns' = [j \in DOMAIN insns |-> [insns[j] EXCEPT !.addr = Layout(insns)[j]]]
        /\ round' = round + 1 /\ phase' = "grow"
        /\ UNCHANGED <<source, next, pending, error, rows, image>>
    BY <1>2, <1>4, Zenon DEF Place
  <2>2. Layout(insns) \in [1 .. Len(insns) + 1 -> Nat]
    BY <1>1, ProgramLayout
  <2>3. /\ Program(insns') /\ Len(insns') = Len(insns)
        /\ \A j \in 1 .. Len(insns) :
             /\ insns'[j].addr = Layout(insns)[j] /\ insns'[j].slots = insns[j].slots
             /\ insns'[j].mnemonic = insns[j].mnemonic
        /\ Narrow(insns') = Narrow(insns) /\ Layout(insns') = Layout(insns)
    BY <1>1, <2>1, <2>2, PlacedProgram
  <2>4. Referring' = Referring /\ \A j \in Referring : WidthOf(j)' = WidthOf(j)
    BY <2>3 DEF Referring, WidthOf, Refers, LastSlot
  <2>5. \A j : Least(j)' = Least(j)
    BY <2>1, <2>3 DEF Least
  <2>6. Late' = Late
    BY <2>4, <2>5 DEF Late
  <2>7. Typed'
    <3>1. round' \in Nat
      BY <1>1, <2>1
    <3> QED
      BY <2>1, <2>3, <3>1 DEF RelaxInv, Typed
  <2>8. Placed'
    <3>1. \A name \in DOMAIN syms' :
             /\ Spot(name, Narrow(insns), pending) \in 1 .. Len(insns) + 1
             /\ syms'[name] = Layout(insns)[Spot(name, Narrow(insns), pending)]
      BY <1>1, <1>4, <2>1, SymbolPlaces
    <3>2. round' >= 1
      BY <1>1, <2>1
    <3>3. \A name \in DOMAIN syms' :
             /\ Spot(name, Narrow(insns), pending)' \in 1 .. Len(insns') + 1
             /\ syms'[name] = Layout(insns')[Spot(name, Narrow(insns), pending)']
      BY <2>1, <2>3, <3>1
    <3>4. \A j \in 1 .. Len(insns') : insns'[j].addr = Layout(insns')[j]
      BY <2>3
    <3> QED
      BY <3>2, <3>3, <3>4 DEF Placed
  <2>9. Grown'
    <3> SUFFICES ASSUME round >= 1, NEW j \in Referring
                 PROVE  /\ SpotOf(j, Narrow(insns), pending) \in 1 .. Len(insns) + 1
                        /\ WidthOf(j) \in {Least(j), Least(j) + 1}
      BY <1>1, <2>1, <2>3, <2>4, <2>5 DEF Grown
    <3> QED
      BY <1>1 DEF RelaxInv, Grown
  <2>10. Fresh'
    <3> SUFFICES ASSUME round = 0, NEW j \in Referring PROVE WidthOf(j) = 1
      BY <1>1, <2>1, <2>4 DEF Fresh
    <3> QED
      BY DEF RelaxInv, Fresh
  <2>11. Delayed'
    BY <1>1, <2>1, <2>6 DEF RelaxInv, Delayed
  <2> QED
    BY <2>1, <2>7, <2>8, <2>9, <2>10, <2>11, ErrorStays DEF RelaxInv
<1> QED
  BY <1>3, <1>4

(* A reference grows once beyond what its narrowest layout asks for, and a *)
(* round that settles nothing sees one do so.                              *)
LEMMA GrowStep ==
    ASSUME RelaxInv, Grow, NeverGivesUp
    PROVE  RelaxInv' /\ NeverGivesUp'
<1> DEFINE bad == { j \in DOMAIN insns : Unknown(insns[j]) \/ TooFar(insns[j]) }
<1>1. phase = "grow" /\ Typed /\ Placed /\ Program(insns) /\ round \in Nat /\ round >= 1
      /\ Len(insns) \in Nat /\ DOMAIN insns = 1 .. Len(insns)
  BY NarrowProgram DEF RelaxInv, Typed, Placed, Grow
<1>2. CASE bad # {}
  <2>1. Fail("unknown label") \/ Fail("too far")
    BY <1>2, Zenon DEF Grow
  <2> QED
    BY <2>1, FailStep
<1>3. CASE bad = {}
  <2>1. /\ insns' = Widened
        /\ phase' = IF Widened = insns THEN "emit" ELSE "place"
        /\ UNCHANGED <<source, next, pending, syms, round, error, rows, image>>
    BY <1>3, Zenon DEF Grow
  <2>2. \A j \in 1 .. Len(insns) : ~Unknown(insns[j]) /\ ~TooFar(insns[j])
    BY <1>1, <1>3
  <2>3. \A j \in Referring : j \in 1 .. Len(insns) /\ Refers(insns[j])
    BY DEF Referring
  <2>4. ASSUME NEW j \in Referring
        PROVE  /\ SpotOf(j, Narrow(insns), pending) \in 1 .. Len(insns) + 1
               /\ Need(insns[j]) \in {Least(j), Least(j) + 1}
               /\ Least(j) \in 1 .. 8
               /\ Need(insns[j]) \in 1 .. AbsMax
    <3>1. ~Unknown(insns[j]) /\ ~TooFar(insns[j])
      BY <2>2, <2>3
    <3>2. /\ SpotOf(j, Narrow(insns), pending) \in 1 .. Len(insns) + 1
          /\ RefValue(insns[j], LastSlot(insns[j])) =
               ValueIn(Layout(insns), j, Narrow(insns), pending)
      BY <1>1, <3>1, RoundValue
    <3>3. Least(j) \in 1 .. 8 /\ Need(insns[j]) \in {Least(j), Least(j) + 1}
      BY <1>1, <2>3, <3>2, LeastRange DEF Need
    <3>4. Need(insns[j]) <= WidthCap(insns[j])
      <4>1. Len(insns[j].slots) \in Refs(insns[j])
            /\ LastSlot(insns[j]) = insns[j].slots[Len(insns[j].slots)]
        <5>1. insns[j] \in Insns /\ Refers(insns[j])
          BY <1>1, <2>3, NarrowProgram
        <5> QED
          BY <5>1, InsnFields DEF Refers, LastSlot, Refs
      <4>2. ~(SymWidth(RefValue(insns[j], LastSlot(insns[j]))) > WidthCap(insns[j]))
        BY <3>1, <4>1 DEF TooFar
      <4>3. WidthCap(insns[j]) \in Nat
        BY WidthsAssumption DEF WidthCap
      <4> QED
        BY <3>3, <4>2, <4>3 DEF Need
    <3>5. WidthCap(insns[j]) \in 1 .. AbsMax
      BY WidthsAssumption DEF WidthCap
    <3> QED
      BY <3>2, <3>3, <3>4, <3>5, WidthsAssumption
  <2>5. /\ Program(insns') /\ Len(insns') = Len(insns)
        /\ Narrow(insns') = Narrow(insns)
        /\ \A j \in 1 .. Len(insns) : Refers(insns'[j]) <=> Refers(insns[j])
        /\ \A j \in Referring : WidthOf(j)' =
             (IF Need(insns[j]) > WidthOf(j) THEN Need(insns[j]) ELSE WidthOf(j))
        /\ (\A j \in Referring : Need(insns[j]) <= WidthOf(j)) => Widened = insns
    BY <1>1, <2>1, <2>4, WidenedProgram DEF WidthOf
  <2>6. Referring' = Referring
    BY <2>5 DEF Referring
  <2>7. \A j : Least(j)' = Least(j)
    BY <2>1, <2>5 DEF Least
  <2>8. Typed'
    BY <1>1, <2>1, <2>5 DEF Typed
  <2>9. ASSUME NEW j \in Referring
        PROVE  /\ WidthOf(j) \in Nat
               /\ round = 1 => WidthOf(j) = 1
               /\ round >= 2 => WidthOf(j) \in {Least(j), Least(j) + 1}
    <3>1. WidthOf(j) \in Nat
      <4>1. insns[j] \in Insns /\ Refers(insns[j])
        BY <1>1, <2>3, NarrowProgram
      <4> QED
        BY <4>1, InsnFields DEF Refers, LastSlot, WidthOf
    <3> QED
      BY <1>1, <3>1 DEF RelaxInv, Fresh, Grown
  <2>10. ASSUME NEW j \in Referring PROVE WidthOf(j)' \in {Least(j), Least(j) + 1}
    BY <1>1, <2>4, <2>5, <2>9
  <2>11. Grown'
    BY <1>1, <2>1, <2>4, <2>5, <2>6, <2>7, <2>10 DEF Grown
  <2>12. Fresh' /\ Placed'
    BY <1>1, <2>1 DEF Fresh, Placed
  <2>13. IsFiniteSet(Late') /\ Cardinality(Late') \in Nat
    <3>1. Late' \in SUBSET (1 .. Len(insns))
      BY <2>3, <2>6 DEF Late
    <3>2. IsFiniteSet(1 .. Len(insns))
      BY <1>1, FS_Interval
    <3> QED
      BY <3>1, <3>2, FS_Subset, FS_CardinalityType
  <2>14. ASSUME Widened # insns PROVE Cardinality(Late)' >= round - 1
    <3>1. CASE round = 1
      BY <2>13, <3>1
    <3>2. CASE round # 1
      <4>1. round >= 2
        BY <1>1, <3>2
      <4>2. PICK j \in Referring : ~(Need(insns[j]) <= WidthOf(j))
        BY <2>5, <2>14
      <4>3. WidthOf(j) = Least(j) /\ WidthOf(j)' = Least(j) + 1
        BY <2>4, <2>5, <2>9, <4>1, <4>2
      <4>4. j \notin Late /\ j \in Late'
        BY <2>4, <2>6, <2>7, <4>3 DEF Late
      <4>5. ASSUME NEW k \in Late PROVE k \in Late'
        <5>1. k \in Referring /\ WidthOf(k) > Least(k)
          BY DEF Late
        <5>2. WidthOf(k) \in Nat /\ WidthOf(k)' \in Nat /\ Least(k) \in Nat /\ WidthOf(k) <= WidthOf(k)'
          BY <2>4, <2>5, <2>9, <4>1, <5>1
        <5>3. WidthOf(k)' > Least(k)
          BY <5>1, <5>2
        <5> QED
          BY <2>6, <2>7, <5>1, <5>3 DEF Late
      <4>6. IsFiniteSet(Late') /\ Cardinality(Late') \in Nat /\ Cardinality(Late) \in Nat
        BY <1>1, <2>13, LateSize
      <4>7. Late \in SUBSET Late' /\ Late # Late'
        BY <4>4, <4>5
      <4>8. Cardinality(Late) <= Cardinality(Late') /\ Cardinality(Late) # Cardinality(Late')
        BY <4>6, <4>7, FS_Subset
      <4>9. Cardinality(Late) >= round - 2
        BY <1>1, <4>1 DEF RelaxInv, Delayed
      <4> QED
        BY <1>1, <4>6, <4>8, <4>9
    <3> QED
      BY <3>1, <3>2
  <2>15. Delayed'
    BY <1>1, <2>1, <2>14 DEF Delayed
  <2> QED
    BY <2>1, <2>8, <2>11, <2>12, <2>15, ErrorStays DEF RelaxInv
<1> QED
  BY <1>2, <1>3

LEMMA RelaxStep ==
    ASSUME RelaxInv, NeverGivesUp, [Next]_vars PROVE RelaxInv' /\ NeverGivesUp'
<1>1. CASE ParseLine
  BY <1>1, ParseLineStep
<1>2. CASE ParseEnd
  <2>1. phase = "parse" /\ phase' = "place"
        /\ UNCHANGED <<source, next, pending, insns, syms, round, error>>
    BY <1>2 DEF ParseEnd
  <2> QED
    BY <2>1, OtherStep, ErrorStays
<1>3. CASE Place
  BY <1>3, PlaceStep
<1>4. CASE Grow
  BY <1>4, GrowStep
<1>5. CASE Emit
  <2>1. Fail("unencodable")
        \/ UNCHANGED <<source, phase, next, pending, insns, syms, round, error>>
    BY <1>5, Zenon DEF Emit
  <2> QED
    BY <2>1, FailStep, OtherStep, ErrorStays
<1>6. CASE Done
  <2>1. phase' = "done" /\ UNCHANGED <<source, next, pending, insns, syms, round, error>>
    BY <1>6 DEF Done
  <2> QED
    BY <2>1, OtherStep, ErrorStays
<1>7. CASE UNCHANGED vars
  <2>1. UNCHANGED <<source, phase, next, pending, insns, syms, round, error>>
    BY <1>7 DEF vars
  <2> QED
    BY <2>1, OtherStep, ErrorStays
<1> QED
  BY <1>1, <1>2, <1>3, <1>4, <1>5, <1>6, <1>7 DEF Next

(* The rounds the assembler allows itself, two more than instructions, are *)
(* always enough: it never reports that its widths do not settle.          *)
THEOREM RelaxationSettles == Spec => []NeverGivesUp
<1>1. Init => RelaxInv /\ NeverGivesUp
  <2>1. Init => NeverGivesUp
    BY Zenon DEF Init, NeverGivesUp
  <2> QED
    BY <2>1, RelaxInit
<1>2. RelaxInv /\ NeverGivesUp /\ [Next]_vars => RelaxInv' /\ NeverGivesUp'
  BY RelaxStep
<1> QED
  BY <1>1, <1>2, PTL DEF Spec
-----------------------------------------------------------------------------
(* Recursive functions on 0 .. n.                                          *)
LEMMA StaysIn ==
    ASSUME NEW n \in Nat, NEW S, NEW f, f[0] \in S,
           \A i \in 1 .. n : f[i - 1] \in S => f[i] \in S
    PROVE  \A i \in 0 .. n : f[i] \in S
<1> DEFINE T == {i \in Nat : i <= n => f[i] \in S}
<1>1. 0 \in T
  OBVIOUS
<1>2. ASSUME NEW i \in T PROVE i + 1 \in T
  <2>1. CASE i + 1 <= n
    <3>1. i + 1 \in 1 .. n /\ (i + 1) - 1 = i /\ f[i] \in S
      BY <2>1
    <3>2. f[i + 1] \in S
      BY <3>1
    <3> QED
      BY <3>2
  <2> QED
    BY <2>1
<1> HIDE DEF T
<1>3. T = Nat
  BY <1>1, <1>2, Induction DEF T
<1> QED
  BY <1>3 DEF T

Recurs(f, n, start, step) ==
    f = [i \in 0 .. n |-> IF i = 0 THEN start ELSE step[<<i, f[i - 1]>>]]

LEMMA RecursionExists ==
    ASSUME NEW start, NEW step, NEW n \in Nat
    PROVE  \E f : Recurs(f, n, start, step)
<1>1. PICK f : Iterates(n, f, start, step)
  BY IterationExists
<1> DEFINE g == [i \in 0 .. n |-> IF i = 0 THEN start ELSE step[<<i, f[i - 1]>>]]
<1>2. \A i \in 0 .. n : g[i] = f[i]
  BY <1>1 DEF Iterates
<1>3. \A i \in 0 .. n : i # 0 => i - 1 \in 0 .. n
  OBVIOUS
<1>4. g = [i \in 0 .. n |-> IF i = 0 THEN start ELSE step[<<i, g[i - 1]>>]]
  <2>1. \A i \in 0 .. n : i # 0 => g[i - 1] = f[i - 1]
    BY <1>2, <1>3
  <2> HIDE DEF g
  <2>2. g = [i \in 0 .. n |-> IF i = 0 THEN start ELSE step[<<i, f[i - 1]>>]]
    BY DEF g
  <2>3. [i \in 0 .. n |-> IF i = 0 THEN start ELSE step[<<i, f[i - 1]>>]]
          = [i \in 0 .. n |-> IF i = 0 THEN start ELSE step[<<i, g[i - 1]>>]]
    BY <2>1
  <2> QED
    BY <2>2, <2>3
<1> HIDE DEF g
<1>5. Recurs(g, n, start, step)
  BY <1>4 DEF Recurs
<1> QED
  BY <1>5

LEMMA RecursionSteps ==
    ASSUME NEW start, NEW step, NEW n \in Nat, NEW f, Recurs(f, n, start, step)
    PROVE  /\ DOMAIN f = 0 .. n /\ f[0] = start
           /\ \A i \in 1 .. n : f[i] = step[<<i, f[i - 1]>>]
<1>1. DOMAIN f = 0 .. n /\ f[0] = start
  BY DEF Recurs
<1>2. ASSUME NEW i \in 1 .. n PROVE f[i] = step[<<i, f[i - 1]>>]
  <2>1. i \in 0 .. n /\ i # 0
    OBVIOUS
  <2> QED
    BY <2>1 DEF Recurs
<1> QED
  BY <1>1, <1>2

(* The lines of a text that are instructions.                              *)
LEMMA LinesAre ==
    ASSUME NEW S, NEW text \in Seq(S)
    PROVE  LET f == LinesOf(text) IN
           /\ f[0] = <<>>
           /\ \A n \in 0 .. Len(text) : f[n] \in Seq(S)
           /\ \A n \in 1 .. Len(text) :
                f[n] = IF Blank(text[n]) THEN f[n - 1] ELSE Append(f[n - 1], text[n])
<1> DEFINE m == Len(text)
           empty == <<>>
           Q(p) == p = [n \in 0 .. m |->
                    IF n = 0 THEN empty
                    ELSE IF Blank(text[n]) THEN p[n - 1] ELSE Append(p[n - 1], text[n])]
           step == [x \in (1 .. m) \X Seq(S) |->
                      IF Blank(text[x[1]]) THEN x[2] ELSE Append(x[2], text[x[1]])]
<1>1. m \in Nat /\ (\A n \in 1 .. m : text[n] \in S) /\ empty \in Seq(S)
  OBVIOUS
<1>2. LinesOf(text) = CHOOSE p : Q(p)
  BY Zenon DEF LinesOf
<1> HIDE DEF m, step, empty
<1>3. PICK f : Recurs(f, m, empty, step)
  BY <1>1, RecursionExists, Zenon
<1>4. f[0] = empty
  BY <1>1, <1>3, RecursionSteps
<1>5. \A n \in 1 .. m : f[n] = step[<<n, f[n - 1]>>]
  BY <1>1, <1>3, RecursionSteps
<1> USE DEF step
<1>6. \A n \in 0 .. m : f[n] \in Seq(S)
  <2>1. ASSUME NEW n \in 1 .. m, f[n - 1] \in Seq(S) PROVE f[n] \in Seq(S)
    <3>1. f[n] = IF Blank(text[n]) THEN f[n - 1] ELSE Append(f[n - 1], text[n])
      BY <1>5, <2>1
    <3>2. Append(f[n - 1], text[n]) \in Seq(S)
      BY <1>1, <2>1
    <3> QED
      BY <2>1, <3>1, <3>2
  <2>2. f[0] \in Seq(S)
    BY <1>1, <1>4
  <2> QED
    BY <1>1, <2>1, <2>2, StaysIn
<1>7. \A n \in 1 .. m :
        f[n] = IF Blank(text[n]) THEN f[n - 1] ELSE Append(f[n - 1], text[n])
  <2> SUFFICES ASSUME NEW n \in 1 .. m
               PROVE f[n] = IF Blank(text[n]) THEN f[n - 1] ELSE Append(f[n - 1], text[n])
    OBVIOUS
  <2>1. <<n, f[n - 1]>> \in (1 .. m) \X Seq(S)
    BY <1>1, <1>6
  <2> QED
    BY <1>5, <2>1
<1>8. Q(f)
  <2>1. f = [n \in 0 .. m |-> f[n]]
    BY <1>3 DEF Recurs
  <2>2. \A n \in 0 .. m : n # 0 => n \in 1 .. m
    BY <1>1
  <2>3. [n \in 0 .. m |-> f[n]]
          = [n \in 0 .. m |->
                IF n = 0 THEN empty
                ELSE IF Blank(text[n]) THEN f[n - 1] ELSE Append(f[n - 1], text[n])]
    BY <1>4, <1>7, <2>2
  <2> QED
    BY <2>1, <2>3
<1> DEFINE g == CHOOSE p : Q(p)
<1> HIDE DEF Q
<1>9. Q(g)
  BY <1>8
<1> HIDE DEF g
<1>10. g[0] = empty
  BY <1>1, <1>9 DEF Q
<1>11. \A n \in 1 .. m :
        g[n] = IF Blank(text[n]) THEN g[n - 1] ELSE Append(g[n - 1], text[n])
  <2> SUFFICES ASSUME NEW n \in 1 .. m
               PROVE g[n] = IF Blank(text[n]) THEN g[n - 1] ELSE Append(g[n - 1], text[n])
    OBVIOUS
  <2>1. n \in 0 .. m /\ n # 0
    BY <1>1
  <2> QED
    BY <1>9, <2>1 DEF Q
<1>12. \A n \in 0 .. m : g[n] \in Seq(S)
  <2>1. ASSUME NEW n \in 1 .. m, g[n - 1] \in Seq(S) PROVE g[n] \in Seq(S)
    <3>1. Append(g[n - 1], text[n]) \in Seq(S)
      BY <1>1, <2>1
    <3> QED
      BY <1>11, <2>1, <3>1
  <2>2. g[0] \in Seq(S)
    BY <1>1, <1>10
  <2> QED
    BY <1>1, <2>1, <2>2, StaysIn
<1> QED
  BY <1>2, <1>10, <1>11, <1>12 DEF g, m, empty

-----------------------------------------------------------------------------
(* Frames as encode writes them.                                           *)
LEMMA Flattened ==
    ASSUME NEW seqs, Len(seqs) \in 1 .. 3
    PROVE  /\ Len(seqs) = 1 => FlattenSeq(seqs) = seqs[1]
           /\ Len(seqs) = 2 => FlattenSeq(seqs) = seqs[1] \o seqs[2]
           /\ Len(seqs) = 3 => FlattenSeq(seqs) = (seqs[1] \o seqs[2]) \o seqs[3]
<1> DEFINE n == Len(seqs)
           cat(x, i) == x \o seqs[i]
           Q(p) == p = [i \in 1 .. n |-> IF i = 1 THEN seqs[i] ELSE cat(p[i - 1], i)]
           two == cat(seqs[1], 2)
           three == cat(two, 3)
           f == [i \in 1 .. n |-> IF i = 1 THEN seqs[1] ELSE IF i = 2 THEN two ELSE three]
<1>1. n \in 1 .. 3 /\ n # 0
  OBVIOUS
<1>2. FlattenSeq(seqs) = (CHOOSE p : Q(p))[n]
  <2>1. ~(Len(seqs) = 0)
    BY <1>1
  <2> QED
    BY <2>1, Zenon DEF FlattenSeq
<1> HIDE DEF n, cat
<1>3. Q(f)
  <2> DEFINE h(i) == IF i = 1 THEN seqs[i] ELSE cat(f[i - 1], i)
  <2> HIDE DEF two, three
  <2>1. /\ f[1] = seqs[1]
        /\ n >= 2 => f[2] = two
        /\ n = 3 => f[3] = three
    BY <1>1
  <2>2. f = [i \in 1 .. n |-> f[i]]
    OBVIOUS
  <2> HIDE DEF f
  <2>3. f[1] = h(1)
    BY <2>1
  <2>4. n >= 2 => f[2] = h(2)
    BY <2>1 DEF two
  <2>5. n = 3 => f[3] = h(3)
    BY <1>1, <2>1 DEF three
  <2> HIDE DEF h
  <2>6. \A i \in 1 .. n : f[i] = h(i)
    BY <1>1, <2>3, <2>4, <2>5
  <2>7. f = [i \in 1 .. n |-> h(i)]
    BY <2>2, <2>6
  <2> QED
    BY <2>7 DEF h
<1> DEFINE g == CHOOSE p : Q(p)
<1> HIDE DEF f
<1> HIDE DEF Q
<1>4. Q(g)
  BY <1>3
<1> HIDE DEF g
<1>5. g[1] = seqs[1]
  BY <1>1, <1>4 DEF Q
<1>6. \A i \in 2 .. n : g[i] = cat(g[i - 1], i)
  <2> SUFFICES ASSUME NEW i \in 2 .. n PROVE g[i] = cat(g[i - 1], i)
    OBVIOUS
  <2>1. i \in 1 .. n /\ i # 1
    BY <1>1
  <2> QED
    BY <1>4, <2>1 DEF Q
<1>7. n >= 2 => g[2] = cat(g[1], 2)
  <2>1. n >= 2 => 2 \in 2 .. n /\ 2 - 1 = 1
    BY <1>1
  <2> QED
    BY <1>6, <2>1
<1>8. n = 3 => g[3] = cat(g[2], 3)
  <2>1. n = 3 => 3 \in 2 .. n /\ 3 - 1 = 2
    BY <1>1
  <2> QED
    BY <1>6, <2>1
<1>9. FlattenSeq(seqs) = g[n]
  BY <1>2 DEF g
<1>10. /\ n = 1 => FlattenSeq(seqs) = seqs[1]
       /\ n = 2 => FlattenSeq(seqs) = cat(seqs[1], 2)
       /\ n = 3 => FlattenSeq(seqs) = cat(cat(seqs[1], 2), 3)
  BY <1>5, <1>7, <1>8, <1>9
<1> QED
  BY <1>10, Zenon DEF n, cat

LEMMA EmptyConcat ==
    ASSUME NEW S, NEW t \in Seq(S)
    PROVE  /\ <<>> \o t = t /\ t \o <<>> = t
           /\ <<>> \in Seq(S) /\ Len(<<>>) = 0
<1>1. <<>> \in Seq(S) /\ Len(<<>>) = 0
  OBVIOUS
<1> QED
  BY <1>1, ConcatEmptySeq, Zenon

LEMMA Singleton ==
    ASSUME NEW S, NEW x \in S
    PROVE  <<x>> \in Seq(S) /\ Len(<<x>>) = 1 /\ <<x>>[1] = x
  OBVIOUS

LEMMA Longer ==
    ASSUME NEW s \in Seq(Int), NEW t \in Seq(Int), NEW m, Len(s) = m
    PROVE  /\ s \o t \in Seq(Int) /\ Len(s \o t) = m + Len(t)
           /\ \A i \in 1 .. m : (s \o t)[i] = s[i]
           /\ \A i \in 1 .. Len(t) : (s \o t)[m + i] = t[i]
<1>1. m \in Nat /\ Len(t) \in Nat
  OBVIOUS
<1>2. s \o t \in Seq(Int) /\ Len(s \o t) = m + Len(t)
      /\ \A i \in 1 .. m + Len(t) : (s \o t)[i] = IF i <= m THEN s[i] ELSE t[i - m]
  BY ConcatProperties, Zenon
<1>3. \A i \in 1 .. m : i \in 1 .. m + Len(t) /\ i <= m
  BY <1>1
<1>4. \A i \in 1 .. m : (s \o t)[i] = s[i]
  BY <1>2, <1>3
<1>5. ASSUME NEW i \in 1 .. Len(t) PROVE (s \o t)[m + i] = t[i]
  <2> DEFINE p == m + i
  <2>1. p \in 1 .. m + Len(t) /\ ~(p <= m) /\ p - m = i
    BY <1>1
  <2> HIDE DEF p
  <2>2. (s \o t)[p] = t[i]
    BY <1>2, <2>1
  <2> QED
    BY <2>2 DEF p
<1> QED
  BY <1>2, <1>4, <1>5

(* One sequence behind another of length m, the second at most one long.   *)
OneMore(st, s, t, m) ==
    /\ st \in Seq(Int) /\ Len(st) = m + Len(t)
    /\ \A i \in 1 .. m : st[i] = s[i]
    /\ Len(t) = 1 => st[m + 1] = t[1]

LEMMA OneLonger ==
    ASSUME NEW s \in Seq(Int), NEW t \in Seq(Int), NEW m, Len(s) = m
    PROVE  OneMore(s \o t, s, t, m)
<1>1. Len(t) = 1 => 1 \in 1 .. Len(t)
  OBVIOUS
<1> QED
  BY <1>1, Longer DEF OneMore

Behind(st, s, t, m) ==
    /\ st \in Seq(Int) /\ Len(st) = m + Len(t)
    /\ \A i \in 1 .. m : st[i] = s[i]
    /\ \A i \in 1 .. Len(t) : st[m + i] = t[i]

LEMMA Appended ==
    ASSUME NEW s \in Seq(Int), NEW t \in Seq(Int), NEW m, Len(s) = m
    PROVE  Behind(s \o t, s, t, m)
  BY Longer DEF Behind

LEMMA Digits ==
    ASSUME NEW v \in Int, NEW n \in Nat
    PROVE  /\ LowBytes(v, n) \in Seq(Int) /\ Len(LowBytes(v, n)) = n
           /\ \A i \in 1 .. n : LowBytes(v, n)[i] = (v \div Power[n - i]) % ByteSize
<1> DEFINE d(i) == (v \div Power[n - i]) % ByteSize
           b == [i \in 1 .. n |-> d(i)]
<1>1. \A i \in 1 .. n : d(i) \in Int
  <2> SUFFICES ASSUME NEW i \in 1 .. n PROVE d(i) \in Int
    OBVIOUS
  <2>1. n - i \in Nat
    OBVIOUS
  <2>2. Power[n - i] \in Nat \ {0}
    BY <2>1, Powers
  <2>3. v \div Power[n - i] \in Int
    BY <2>2
  <2> QED
    BY <2>3, SizesNonzero
<1>2. LowBytes(v, n) = b
  BY Zenon DEF LowBytes
<1> HIDE DEF d
<1>3. b \in Seq(Int) /\ Len(b) = n
  BY <1>1
<1> QED
  BY <1>2, <1>3 DEF d

(* How many registers an instruction names, and how long its payload is.   *)
RegCount(insn) == IF LastIsImm(insn) THEN Len(insn.slots) - 1 ELSE Len(insn.slots)
ImmBytes(insn) == IF LastIsImm(insn) THEN SlotSize(LastSlot(insn)) ELSE 0

LEMMA SlotKinds ==
    ASSUME NEW insn \in Insns, Shaped(insn)
    PROVE  LET n == Len(insn.slots) IN
           /\ n \in 0 .. 3 /\ DOMAIN insn.slots = 1 .. n
           /\ RegCount(insn) \in 0 .. n
           /\ \A i \in 1 .. n : insn.slots[i].k = "reg" <=> i <= RegCount(insn)
           /\ \A i \in 1 .. n : insn.slots[i].n \in Int
           /\ LastIsImm(insn) => n > 0 /\ RegCount(insn) = n - 1 /\ LastSlot(insn) = insn.slots[n]
                                 /\ LastSlot(insn) \in Slots /\ LastSlot(insn).k \in {"num", "sym"}
           /\ ~LastIsImm(insn) => RegCount(insn) = n
<1> DEFINE n == Len(insn.slots)
<1>1. n \in 0 .. 3 /\ DOMAIN insn.slots = 1 .. n
      /\ \A i \in 1 .. n : insn.slots[i] \in Slots /\ insn.slots[i].n \in Int
                           /\ insn.slots[i].k \in {"reg", "num", "sym"}
  BY InsnFields, ShapedFields
<1>2. \A i \in 1 .. n : i < n => insn.slots[i].k = "reg"
  BY ShapedFields
<1>3. LastIsImm(insn) <=> n > 0 /\ insn.slots[n].k # "reg"
  BY Zenon DEF LastIsImm
<1>4. LastSlot(insn) = insn.slots[n]
  BY DEF LastSlot
<1>5. RegCount(insn) = IF LastIsImm(insn) THEN n - 1 ELSE n
  BY DEF RegCount
<1> HIDE DEF n
<1>6. CASE LastIsImm(insn)
  <2>1. n > 0 /\ n \in 1 .. n /\ insn.slots[n].k # "reg" /\ RegCount(insn) = n - 1
    BY <1>1, <1>3, <1>5, <1>6
  <2>2. \A i \in 1 .. n : insn.slots[i].k = "reg" <=> i <= n - 1
    BY <1>1, <1>2, <2>1
  <2> QED
    BY <1>1, <1>4, <1>6, <2>1, <2>2 DEF n
<1>7. CASE ~LastIsImm(insn)
  <2>1. RegCount(insn) = n /\ (n > 0 => insn.slots[n].k = "reg")
    BY <1>1, <1>3, <1>5, <1>7
  <2>2. \A i \in 1 .. n : insn.slots[i].k = "reg" /\ i <= n
    BY <1>1, <1>2, <2>1
  <2> QED
    BY <1>1, <1>7, <2>1, <2>2 DEF n
<1> QED
  BY <1>6, <1>7

LEMMA RegistersAre ==
    ASSUME NEW insn \in Insns, Shaped(insn)
    PROVE  /\ Registers(insn) \in Seq(Int) /\ Len(Registers(insn)) = RegCount(insn)
           /\ \A i \in 1 .. RegCount(insn) : Registers(insn)[i] = insn.slots[i].n
<1> DEFINE n == Len(insn.slots)
           k == RegCount(insn)
           r(i) == insn.slots[i].n
           parts == [i \in 1 .. n |-> IF insn.slots[i].k = "reg" THEN <<insn.slots[i].n>> ELSE <<>>]
<1>1. n \in 0 .. 3 /\ DOMAIN insn.slots = 1 .. n /\ k \in 0 .. n /\ k >= n - 1
      /\ \A i \in 1 .. n : r(i) \in Int /\ (insn.slots[i].k = "reg" <=> i <= k)
  BY SlotKinds
<1>2. Registers(insn) = FlattenSeq(parts)
  BY <1>1 DEF Registers
<1>3. /\ \A i \in 1 .. n : i <= k => parts[i] = <<r(i)>>
      /\ \A i \in 1 .. n : ~(i <= k) => parts[i] = <<>>
  BY <1>1
<1>4. n \in Nat /\ Len(parts) = n
  BY <1>1
<1> HIDE DEF parts, n, k, r
<1>5. \A i \in 1 .. n : /\ parts[i] \in Seq(Int)
                        /\ i <= k => Len(parts[i]) = 1 /\ parts[i][1] = r(i)
                        /\ ~(i <= k) => Len(parts[i]) = 0
  <2> SUFFICES ASSUME NEW i \in 1 .. n
               PROVE  /\ parts[i] \in Seq(Int)
                      /\ i <= k => Len(parts[i]) = 1 /\ parts[i][1] = r(i)
                      /\ ~(i <= k) => Len(parts[i]) = 0
    OBVIOUS
  <2>1. CASE i <= k
    <3>1. r(i) \in Int /\ parts[i] = <<r(i)>>
      BY <1>1, <1>3, <2>1
    <3> QED
      BY <2>1, <3>1, Singleton
  <2>2. CASE ~(i <= k)
    <3>1. parts[i] = <<>>
      BY <1>3, <2>2
    <3>2. <<>> \in Seq(Int) /\ Len(<<>>) = 0
      OBVIOUS
    <3> QED
      BY <2>2, <3>1, <3>2
  <2> QED
    BY <2>1, <2>2
<1>6. CASE n = 0
  <2>1. FlattenSeq(parts) = parts
    BY <1>4, <1>6 DEF FlattenSeq
  <2>2. k = 0 /\ parts = <<>>
    BY <1>1, <1>4, <1>6 DEF parts
  <2> QED
    BY <1>2, <2>1, <2>2, EmptyConcat DEF k, r
<1>7. CASE n = 1
  <2>1. Len(parts) \in 1 .. 3 /\ Len(parts) = 1 /\ 1 \in 1 .. n
    BY <1>4, <1>7
  <2>2. Registers(insn) = parts[1]
    BY <1>2, <2>1, Flattened, Zenon
  <2>3. CASE k = 1
    BY <1>5, <1>7, <2>2, <2>1, <2>3 DEF k, r
  <2>4. CASE k = 0
    BY <1>5, <1>7, <2>2, <2>1, <2>4 DEF k, r
  <2> QED
    BY <1>1, <1>7, <2>3, <2>4
<1>8. CASE n = 2
  <2>1. Len(parts) \in 1 .. 3 /\ Len(parts) = 2 /\ 1 \in 1 .. n /\ 2 \in 1 .. n
    BY <1>4, <1>8
  <2>2. Registers(insn) = parts[1] \o parts[2]
    BY <1>2, <2>1, Flattened, Zenon
  <2>3. parts[1] \in Seq(Int) /\ parts[2] \in Seq(Int)
    BY <1>5, <2>1
  <2>4. Len(parts[1]) = 1 /\ parts[1][1] = r(1)
    BY <1>1, <1>5, <1>8, <2>1
  <2>5. CASE k = 2
    <3>1. Len(parts[2]) = 1 /\ parts[2][1] = r(2)
      BY <1>5, <2>1, <2>5
    <3>2. OneMore(Registers(insn), parts[1], parts[2], 1)
      BY <2>2, <2>3, <2>4, OneLonger, Zenon
    <3>3. /\ Registers(insn) \in Seq(Int) /\ Len(Registers(insn)) = 2
          /\ Registers(insn)[1] = r(1) /\ Registers(insn)[2] = r(2)
      BY <2>4, <3>1, <3>2 DEF OneMore
    <3> QED
      BY <2>5, <3>3 DEF k, r
  <2>6. CASE k = 1
    <3>1. Len(parts[2]) = 0
      BY <1>5, <2>1, <2>6
    <3>2. OneMore(Registers(insn), parts[1], parts[2], 1)
      BY <2>2, <2>3, <2>4, OneLonger, Zenon
    <3>3. /\ Registers(insn) \in Seq(Int) /\ Len(Registers(insn)) = 1
          /\ Registers(insn)[1] = r(1)
      BY <2>4, <3>1, <3>2 DEF OneMore
    <3> QED
      BY <2>6, <3>3 DEF k, r
  <2> QED
    BY <1>1, <1>8, <2>5, <2>6
<1>9. CASE n = 3
  <2> DEFINE head == parts[1] \o parts[2]
  <2>1. Len(parts) \in 1 .. 3 /\ Len(parts) = 3 /\ 1 \in 1 .. n /\ 2 \in 1 .. n /\ 3 \in 1 .. n
    BY <1>4, <1>9
  <2>2. Registers(insn) = head \o parts[3]
    BY <1>2, <2>1, Flattened, Zenon
  <2>3. parts[1] \in Seq(Int) /\ parts[2] \in Seq(Int) /\ parts[3] \in Seq(Int)
        /\ Len(parts[1]) = 1 /\ parts[1][1] = r(1) /\ Len(parts[2]) = 1 /\ parts[2][1] = r(2)
    BY <1>1, <1>5, <1>9, <2>1
  <2>4. head \in Seq(Int) /\ Len(head) = 2 /\ head[1] = r(1) /\ head[2] = r(2)
    <3>1. OneMore(head, parts[1], parts[2], 1)
      BY <2>3, OneLonger, Zenon
    <3> HIDE DEF head
    <3> QED
      BY <2>3, <3>1 DEF OneMore
  <2> HIDE DEF head
  <2>5. CASE k = 3
    <3>1. Len(parts[3]) = 1 /\ parts[3][1] = r(3)
      BY <1>5, <2>1, <2>5
    <3>2. OneMore(Registers(insn), head, parts[3], 2)
      BY <2>2, <2>3, <2>4, OneLonger, Zenon
    <3>3. /\ Registers(insn) \in Seq(Int) /\ Len(Registers(insn)) = 3
          /\ Registers(insn)[1] = r(1) /\ Registers(insn)[2] = r(2) /\ Registers(insn)[3] = r(3)
      BY <2>4, <3>1, <3>2 DEF OneMore
    <3> QED
      BY <2>5, <3>3 DEF k, r
  <2>6. CASE k = 2
    <3>1. Len(parts[3]) = 0
      BY <1>5, <2>1, <2>6
    <3>2. OneMore(Registers(insn), head, parts[3], 2)
      BY <2>2, <2>3, <2>4, OneLonger, Zenon
    <3>3. /\ Registers(insn) \in Seq(Int) /\ Len(Registers(insn)) = 2
          /\ Registers(insn)[1] = r(1) /\ Registers(insn)[2] = r(2)
      BY <2>4, <3>1, <3>2 DEF OneMore
    <3> QED
      BY <2>6, <3>3 DEF k, r
  <2> QED
    BY <1>1, <1>9, <2>5, <2>6
<1> QED
  BY <1>1, <1>6, <1>7, <1>8, <1>9

LEMMA ImmediateIs ==
    ASSUME NEW insn \in Insns, Shaped(insn), NEW b \in Seq(Int),
           LastIsImm(insn) => SlotBytes(insn, LastSlot(insn)) = b,
           ~LastIsImm(insn) => b = <<>>
    PROVE  Immediate(insn) = b
<1> DEFINE n == Len(insn.slots)
           k == RegCount(insn)
           parts == [i \in 1 .. n |-> SlotBytes(insn, insn.slots[i])]
<1>1. n \in 0 .. 3 /\ DOMAIN insn.slots = 1 .. n /\ k \in 0 .. n
      /\ (LastIsImm(insn) => n > 0 /\ k = n - 1 /\ LastSlot(insn) = insn.slots[n])
      /\ (~LastIsImm(insn) => k = n)
      /\ \A i \in 1 .. n : insn.slots[i].k = "reg" <=> i <= k
  BY SlotKinds
<1>2. Immediate(insn) = FlattenSeq(parts)
  BY <1>1 DEF Immediate
<1>3. \A i \in 1 .. n : i <= k => parts[i] = <<>>
  <2> SUFFICES ASSUME NEW i \in 1 .. n, i <= k PROVE parts[i] = <<>>
    OBVIOUS
  <2>1. insn.slots[i].k = "reg"
    BY <1>1
  <2>2. SlotBytes(insn, insn.slots[i]) = <<>>
    BY <2>1 DEF SlotBytes
  <2> QED
    BY <2>2
<1>4. LastIsImm(insn) => parts[n] = b
  BY <1>1
<1>5. n \in Nat /\ Len(parts) = n
  BY <1>1
<1>6. \A i \in 1 .. n : ~(i <= k) => parts[i] = b
  <2>1. \A i \in 1 .. n : ~(i <= k) => LastIsImm(insn) /\ i = n
    BY <1>1
  <2> QED
    BY <1>4, <2>1
<1> HIDE DEF parts, n, k
<1>7. CASE n = 0
  <2>1. FlattenSeq(parts) = parts
    BY <1>5, <1>7 DEF FlattenSeq
  <2>2. parts = <<>> /\ b = <<>>
    BY <1>1, <1>5, <1>7 DEF parts
  <2> QED
    BY <1>2, <2>1, <2>2
<1>8. (b = <<>> /\ k = n) \/ k = n - 1
  BY <1>1
<1>9. <<>> \o <<>> = <<>> /\ <<>> \o b = b
  BY EmptyConcat
<1>10. CASE n = 1
  <2>1. Len(parts) \in 1 .. 3 /\ Len(parts) = 1 /\ 1 \in 1 .. n
    BY <1>5, <1>10
  <2>2. Immediate(insn) = parts[1]
    BY <1>2, <2>1, Flattened, Zenon
  <2>3. parts[1] = b
    BY <1>3, <1>6, <1>8, <1>10, <2>1
  <2> QED
    BY <2>2, <2>3
<1>11. CASE n = 2
  <2>1. Len(parts) \in 1 .. 3 /\ Len(parts) = 2 /\ 1 \in 1 .. n /\ 2 \in 1 .. n
    BY <1>5, <1>11
  <2>2. Immediate(insn) = parts[1] \o parts[2]
    BY <1>2, <2>1, Flattened, Zenon
  <2>3. parts[1] = <<>> /\ parts[2] = b
    BY <1>3, <1>6, <1>8, <1>11, <2>1
  <2> QED
    BY <1>9, <2>2, <2>3, Zenon
<1>12. CASE n = 3
  <2>1. Len(parts) \in 1 .. 3 /\ Len(parts) = 3 /\ 1 \in 1 .. n /\ 2 \in 1 .. n /\ 3 \in 1 .. n
    BY <1>5, <1>12
  <2>2. Immediate(insn) = (parts[1] \o parts[2]) \o parts[3]
    BY <1>2, <2>1, Flattened, Zenon
  <2>3. parts[1] = <<>> /\ parts[2] = <<>> /\ parts[3] = b
    BY <1>3, <1>6, <1>8, <1>12, <2>1
  <2> QED
    BY <1>9, <2>2, <2>3, Zenon
<1> QED
  BY <1>1, <1>7, <1>10, <1>11, <1>12

(* The rows of INSTRUCTIONS, by what the decoders do with their opcodes.   *)
AluRow(r) ==
    /\ r[2] \in Binary \cup {20} /\ r[4] = 0 /\ r[1] = AluOfNibble[(r[2] % 16) + 1]
    /\ r[3] = IF r[2] = 20 THEN "R_R__OR__R_I" ELSE "R_R_R__OR__R_R_IMM"
BranchRow(r) ==
    r[2] = 48 /\ r[4] \in 0 .. 6 /\ r[3] = "R__OR__I" /\ r[1] = BranchNames[r[4] + 1]
LoadRow(r) ==
    /\ r[2] = 64 /\ r[4] \in {0, 2, 4, 6, 10, 12, 14}
    /\ r[3] = "R_R_R__OR__R_R_IMM" /\ r[1] = LoadNames[(r[4] \div 2) + 1]
StoreRow(r) ==
    /\ r[2] = 65 /\ r[4] \in {0, 2, 4, 6}
    /\ r[3] = "R_R_R__OR__R_R_IMM" /\ r[1] = StoreNames[(r[4] \div 2) + 1]
OtherRow(r) ==
    r \in { <<"nop", 0, "NULL", 0>>, <<"trap", 254, "NULL", 0>>, <<"halt", 255, "NULL", 0>>,
            <<"mov", 1, "R_R__OR__R_I", 0>>, <<"cmp", 32, "R_R__OR__R_I", 0>>,
            <<"cmp.s", 33, "R_R__OR__R_I", 0>>, <<"jmp", 49, "R__OR__I", 0>> }

Branches ==
    { <<"b", 48, "R__OR__I", 0>>, <<"beq", 48, "R__OR__I", 1>>,
      <<"bne", 48, "R__OR__I", 2>>, <<"blt", 48, "R__OR__I", 3>>,
      <<"bge", 48, "R__OR__I", 4>>, <<"bgt", 48, "R__OR__I", 5>>,
      <<"ble", 48, "R__OR__I", 6>> }
Arithmetic ==
    { <<"add", 16, 0>>, <<"sub", 17, 0>>, <<"and", 18, 0>>, <<"or", 19, 0>>,
      <<"xor", 21, 0>>, <<"shl", 22, 0>>, <<"shr", 23, 0>>, <<"sar", 24, 0>>,
      <<"mul", 25, 0>>, <<"div", 26, 0>> }
Loads ==
    { <<"ld", 64, 0>>, <<"ld.b", 64, 2>>, <<"ld.h", 64, 4>>, <<"ld.w", 64, 6>>,
      <<"ld.sb", 64, 10>>, <<"ld.sh", 64, 12>>, <<"ld.sw", 64, 14>> }
Stores == { <<"st", 65, 0>>, <<"st.b", 65, 2>>, <<"st.h", 65, 4>>, <<"st.w", 65, 6>> }

LEMMA Rows ==
    \A r \in INSTRUCTIONS : AluRow(r) \/ BranchRow(r) \/ LoadRow(r) \/ StoreRow(r) \/ OtherRow(r)
<1>1. \A r \in INSTRUCTIONS :
        \/ r \in Branches \/ r = <<"not", 20, "R_R__OR__R_I", 0>> \/ OtherRow(r)
        \/ \E s \in (Arithmetic \cup Loads) \cup Stores :
             r = <<s[1], s[2], "R_R_R__OR__R_R_IMM", s[3]>>
  BY DEF INSTRUCTIONS, OtherRow, Branches, Arithmetic, Loads, Stores
<1>2. \A r : r = <<"not", 20, "R_R__OR__R_I", 0>> => AluRow(r)
  BY DEF AluRow, Binary, AluOfNibble
<1>3. \A r \in Branches : BranchRow(r)
  BY DEF BranchRow, BranchNames, Branches
<1>4. \A s \in Arithmetic : AluRow(<<s[1], s[2], "R_R_R__OR__R_R_IMM", s[3]>>)
  BY DEF AluRow, Binary, AluOfNibble, Arithmetic
<1>5. \A s \in Loads : LoadRow(<<s[1], s[2], "R_R_R__OR__R_R_IMM", s[3]>>)
  BY DEF LoadRow, LoadNames, Loads
<1>6. \A s \in Stores : StoreRow(<<s[1], s[2], "R_R_R__OR__R_R_IMM", s[3]>>)
  BY DEF StoreRow, StoreNames, Stores
<1> QED
  BY <1>1, <1>2, <1>3, <1>4, <1>5, <1>6

RowOf(insn) == Find(insn.mnemonic)

LEMMA RowIs ==
    ASSUME NEW insn \in Insns
    PROVE  /\ RowOf(insn) \in INSTRUCTIONS /\ RowOf(insn)[1] = insn.mnemonic
           /\ OpcodeOf(insn) = RowOf(insn)[2] /\ FormOf(insn) = RowOf(insn)[3]
<1>1. insn.mnemonic \in Mnemonics
  BY InsnFields
<1>2. \E r \in INSTRUCTIONS : r[1] = insn.mnemonic
  BY <1>1, Zenon DEF Mnemonics
<1>3. RowOf(insn) \in INSTRUCTIONS /\ RowOf(insn)[1] = insn.mnemonic
  BY <1>2, Zenon DEF Find, RowOf
<1> QED
  BY <1>3, Zenon DEF OpcodeOf, FormOf, RowOf

(* The flags of a row and of its form. *)
Added(form, imm) ==
    CASE form \in {"R_R__OR__R_I", "R_R_R__OR__R_R_IMM"} /\ imm -> 1
      [] form = "R__OR__I" /\ imm                               -> 8
      [] OTHER                                                  -> 0

LEMMA FlagsAre ==
    ASSUME NEW insn
    PROVE  FlagsOf(insn) = RowOf(insn)[4] + Added(FormOf(insn), LastIsImm(insn))
  BY Zenon DEF FlagsOf, Added, RowOf

LEMMA CodeRange ==
    ASSUME NEW insn \in Insns PROVE OpcodeOf(insn) \in 0 .. 255 /\ FlagsOf(insn) \in 0 .. 15
<1> DEFINE r == RowOf(insn)
           imm == LastIsImm(insn)
<1>1. r \in INSTRUCTIONS /\ OpcodeOf(insn) = r[2] /\ FormOf(insn) = r[3]
      /\ FlagsOf(insn) = r[4] + Added(r[3], imm)
  BY RowIs, FlagsAre
<1> HIDE DEF r, imm
<1>2. AluRow(r) \/ BranchRow(r) \/ LoadRow(r) \/ StoreRow(r) \/ OtherRow(r)
  BY <1>1, Rows
<1>3. r[2] \in 0 .. 255 /\ r[4] + Added(r[3], imm) \in 0 .. 15
  <2>1. CASE AluRow(r)
    BY <2>1 DEF AluRow, Binary, Added
  <2>2. CASE BranchRow(r)
    BY <2>2 DEF BranchRow, Added
  <2>3. CASE LoadRow(r)
    BY <2>3 DEF LoadRow, Added
  <2>4. CASE StoreRow(r)
    BY <2>4 DEF StoreRow, Added
  <2>5. CASE OtherRow(r)
    BY <2>5 DEF OtherRow, Added
  <2> QED
    BY <1>2, <2>1, <2>2, <2>3, <2>4, <2>5
<1> QED
  BY <1>1, <1>3

(* The bytes of a frame whose payload stands for v.                        *)
EncodedAs(bytes, insn, v) ==
    LET k == RegCount(insn)
        w == ImmBytes(insn)
    IN /\ bytes \in Seq(Int) /\ Len(bytes) = 2 + k + w
       /\ bytes[1] = OpcodeOf(insn) /\ bytes[2] = (2 + k + w) * 16 + FlagsOf(insn)
       /\ \A i \in 1 .. k : bytes[2 + i] = insn.slots[i].n
       /\ \A i \in 1 .. w : bytes[2 + k + i] = (v \div Power[w - i]) % ByteSize

LEMMA Pair ==
    ASSUME NEW x \in Int, NEW y \in Int
    PROVE  <<x, y>> \in Seq(Int) /\ Len(<<x, y>>) = 2 /\ <<x, y>>[1] = x /\ <<x, y>>[2] = y
  OBVIOUS

LEMMA ImmRange ==
    ASSUME NEW insn \in Insns, Shaped(insn)
    PROVE  /\ ImmBytes(insn) \in 0 .. 8 /\ RegCount(insn) \in 0 .. 3
           /\ LastIsImm(insn) => RegCount(insn) \in 0 .. 2
           /\ LastIsImm(insn) => ImmBytes(insn) = SlotSize(LastSlot(insn))
           /\ ~LastIsImm(insn) => ImmBytes(insn) = 0
           /\ 2 + RegCount(insn) + ImmBytes(insn) \in 2 .. 12
<1>1. RegCount(insn) \in 0 .. 3
  BY SlotKinds
<1>2. CASE LastIsImm(insn)
  <2> DEFINE s == LastSlot(insn)
             n == Len(insn.slots)
  <2>1. n \in 0 .. 3 /\ n > 0 /\ s = insn.slots[n] /\ s \in Slots /\ s.k \in {"num", "sym"}
        /\ RegCount(insn) = n - 1
    BY <1>2, SlotKinds
  <2>2. s.k = "sym" => s.width \in 1 .. AbsMax
    BY <2>1, ShapedFields
  <2>3. ImmBytes(insn) = SlotSize(s)
    BY <1>2 DEF ImmBytes
  <2> HIDE DEF s, n
  <2>4. SlotSize(s) \in 0 .. 8
    <3>1. CASE s.k = "num"
      BY <2>1, <3>1, SlotSizes
    <3>2. CASE s.k # "num"
      <4>1. s.width \in 1 .. 8 /\ SlotSize(s) = s.width
        BY <2>1, <2>2, <3>2, SlotSizes, WidthsAssumption
      <4> QED
        BY <4>1
    <3> QED
      BY <3>1, <3>2
  <2>5. RegCount(insn) \in 0 .. 2 /\ ImmBytes(insn) \in 0 .. 8
    BY <2>1, <2>3, <2>4
  <2> QED
    BY <1>2, <2>3, <2>5 DEF s
<1>3. CASE ~LastIsImm(insn)
  <2>1. ImmBytes(insn) = 0
    BY <1>3 DEF ImmBytes
  <2> QED
    BY <1>1, <1>3, <2>1
<1> QED
  BY <1>2, <1>3

LEMMA EncodeIs ==
    ASSUME NEW insn \in Insns, Shaped(insn), NEW v \in Int,
           LastIsImm(insn) => SlotBytes(insn, LastSlot(insn)) = LowBytes(v, ImmBytes(insn))
    PROVE  EncodedAs(Encode(insn), insn, v) /\ Total(insn) = Len(Encode(insn))
<1> DEFINE k == RegCount(insn)
           w == ImmBytes(insn)
           op == OpcodeOf(insn)
           len == Total(insn) * 16 + FlagsOf(insn)
           b == IF LastIsImm(insn) THEN LowBytes(v, w) ELSE <<>>
           head == <<op, len>> \o Registers(insn)
<1>1. k \in 0 .. 3 /\ w \in 0 .. 8 /\ (~LastIsImm(insn) => w = 0)
  BY ImmRange
<1>2. /\ Registers(insn) \in Seq(Int) /\ Len(Registers(insn)) = k
      /\ \A i \in 1 .. k : Registers(insn)[i] = insn.slots[i].n
  BY RegistersAre
<1>3. /\ b \in Seq(Int) /\ Len(b) = w
      /\ \A i \in 1 .. w : b[i] = (v \div Power[w - i]) % ByteSize
  <2>1. w \in Nat
    BY <1>1
  <2> HIDE DEF w
  <2>2. CASE LastIsImm(insn)
    BY <2>1, <2>2, Digits
  <2>3. CASE ~LastIsImm(insn)
    <3>1. b = <<>> /\ w = 0
      BY <1>1, <2>3
    <3>2. <<>> \in Seq(Int) /\ Len(<<>>) = 0
      OBVIOUS
    <3> HIDE DEF b
    <3> QED
      BY <3>1, <3>2
  <2> QED
    BY <2>2, <2>3
<1>4. LastIsImm(insn) => SlotBytes(insn, LastSlot(insn)) = b
  OBVIOUS
<1>5. ~LastIsImm(insn) => b = <<>>
  OBVIOUS
<1> HIDE DEF b
<1>6. Immediate(insn) = b
  BY <1>3, <1>4, <1>5, ImmediateIs
<1>7. Total(insn) = 2 + k + w
  BY <1>2, <1>3, <1>6 DEF Total
<1>8. op \in Int /\ FlagsOf(insn) \in Int
  BY CodeRange
<1> HIDE DEF k, w, op
<1>9. len \in Int /\ len = (2 + k + w) * 16 + FlagsOf(insn)
  BY <1>1, <1>7, <1>8
<1> HIDE DEF len
<1>10. Encode(insn) = head \o b
  BY <1>6, Zenon DEF Encode, head, op, len
<1>11. /\ <<op, len>> \in Seq(Int) /\ Len(<<op, len>>) = 2
       /\ <<op, len>>[1] = op /\ <<op, len>>[2] = len
  BY <1>8, <1>9, Pair
<1> DEFINE pair == <<op, len>>
           regs == Registers(insn)
<1>12. pair \in Seq(Int) /\ Len(pair) = 2 /\ regs \in Seq(Int)
  BY <1>2, <1>11, Zenon
<1>13. Behind(pair \o regs, pair, regs, 2)
  <2> HIDE DEF pair, regs
  <2> QED
    BY <1>12, Appended, Zenon
<1>14. Behind(head, pair, regs, 2)
  BY <1>13
<1> HIDE DEF pair, regs, head
<1>15. /\ head \in Seq(Int) /\ Len(head) = 2 + k
       /\ \A i \in 1 .. 2 : head[i] = pair[i]
       /\ \A i \in 1 .. k : head[2 + i] = regs[i]
  BY <1>2, <1>14 DEF Behind, regs
<1>16. head[1] = op /\ head[2] = len
  <2>1. 1 \in 1 .. 2 /\ 2 \in 1 .. 2
    OBVIOUS
  <2>2. head[1] = pair[1] /\ head[2] = pair[2]
    BY <1>15, <2>1, Zenon
  <2> QED
    BY <1>11, <2>2, Zenon DEF pair
<1>17. \A i \in 1 .. k : head[2 + i] = insn.slots[i].n
  BY <1>2, <1>15 DEF regs
<1>18. Behind(Encode(insn), head, b, 2 + k)
  BY <1>3, <1>10, <1>15, Appended, Zenon
<1>19. /\ Encode(insn) \in Seq(Int) /\ Len(Encode(insn)) = (2 + k) + Len(b)
       /\ \A i \in 1 .. 2 + k : Encode(insn)[i] = head[i]
       /\ \A i \in 1 .. Len(b) : Encode(insn)[(2 + k) + i] = b[i]
  BY <1>18 DEF Behind
<1>20. Encode(insn)[1] = op /\ Encode(insn)[2] = len
  <2>1. 1 \in 1 .. 2 + k /\ 2 \in 1 .. 2 + k
    BY <1>1
  <2> QED
    BY <1>16, <1>19, <2>1
<1>21. \A i \in 1 .. k : Encode(insn)[2 + i] = insn.slots[i].n
  <2>1. \A i \in 1 .. k : 2 + i \in 1 .. 2 + k
    BY <1>1
  <2> QED
    BY <1>17, <1>19, <2>1
<1>22. \A i \in 1 .. w : Encode(insn)[(2 + k) + i] = (v \div Power[w - i]) % ByteSize
  BY <1>3, <1>19
<1>23. Len(Encode(insn)) = 2 + k + w
  BY <1>3, <1>19
<1> QED
  BY <1>7, <1>9, <1>19, <1>20, <1>21, <1>22, <1>23 DEF EncodedAs, k, w, op
-----------------------------------------------------------------------------
(* The second byte of a frame. *)
LEMMA Nibbles ==
    ASSUME NEW T \in 2 .. 12, NEW F \in 0 .. 15, NEW f, f[1] = T * 16 + F
    PROVE  /\ LenOf(f) = T /\ FlagBits(f) = F
           /\ FlagBit(f, 0) <=> F % 2 = 1
           /\ FlagBit(f, 3) <=> F \div 8 = 1
<1>1. LenOf(f) = T
  BY DEF LenOf
<1>2. FlagBits(f) = F
  BY DEF FlagBits
<1>3. FlagBit(f, 0) <=> F % 2 = 1
  <2>1. 2 ^ 0 = 1
    OBVIOUS
  <2>2. (T * 16 + F) \div 1 = T * 16 + F
    OBVIOUS
  <2>3. (T * 16 + F) % 2 = F % 2
    OBVIOUS
  <2> QED
    BY <2>1, <2>2, <2>3 DEF FlagBit
<1>4. FlagBit(f, 3) <=> F \div 8 = 1
  <2>1. 2 ^ 3 = 8
    OBVIOUS
  <2>2. (T * 16 + F) \div 8 = T * 2 + F \div 8
    OBVIOUS
  <2>3. (T * 2 + F \div 8) % 2 = F \div 8
    OBVIOUS
  <2> QED
    BY <2>1, <2>2, <2>3 DEF FlagBit
<1> QED
  BY <1>1, <1>2, <1>3, <1>4

(* How many operands the forms have.                                       *)
Arranged(insn) ==
    LET n == Len(insn.slots)
        op == OpcodeOf(insn)
    IN /\ op \in Binary \cup Mem => n = 3
       /\ op \in Unary => n = 2
       /\ op \in Branch => n = 1
       /\ op \in {Nop, Halt} => n = 0
       /\ op = Trap => n <= 1

Opcodes == ((Unary \cup Binary) \cup (Mem \cup Branch)) \cup {Nop, Trap, Halt}

LEMMA NamesByCode ==
    ASSUME NEW f
    PROVE  /\ Opcode(f) \in Binary \cup {20} => NameRead(f) = AluOfNibble[(Opcode(f) % 16) + 1]
           /\ Opcode(f) = 48 => NameRead(f) = BranchNames[(FlagBits(f) % 8) + 1]
           /\ Opcode(f) = 64 => NameRead(f) = LoadNames[(FlagBits(f) \div 2) + 1]
           /\ Opcode(f) = 65 => NameRead(f) = StoreNames[(FlagBits(f) \div 2) + 1]
<1> DEFINE o == Opcode(f)
           a == AluOfNibble[(Opcode(f) % 16) + 1]
           b == BranchNames[(FlagBits(f) % 8) + 1]
           l == LoadNames[(FlagBits(f) \div 2) + 1]
           s == StoreNames[(FlagBits(f) \div 2) + 1]
<1>1. NameRead(f) =
        CASE o \in Binary \cup {20} -> a
          [] o = 48 -> b
          [] o = 64 -> l
          [] o = 65 -> s
          [] o = 1 -> "mov" [] o = 49 -> "jmp"
          [] o = 32 -> "cmp" [] o = 33 -> "cmp.s"
          [] o = 0 -> "nop" [] o = 254 -> "trap" [] o = 255 -> "halt"
  BY Zenon DEF NameRead, Nop, Trap, Halt
<1> HIDE DEF o, a, b, l, s
<1>2. o \in Binary \cup {20} => NameRead(f) = a
  BY <1>1 DEF Binary
<1>3. o = 48 => NameRead(f) = b
  BY <1>1 DEF Binary
<1>4. o = 64 => NameRead(f) = l
  BY <1>1 DEF Binary
<1>5. o = 65 => NameRead(f) = s
  BY <1>1 DEF Binary
<1> QED
  BY <1>2, <1>3, <1>4, <1>5 DEF o, a, b, l, s

(* What the decoders read in the flags of an instruction.                  *)
LEMMA NamesRead ==
    ASSUME NEW insn \in Insns, NEW f, Opcode(f) = OpcodeOf(insn), FlagBits(f) = FlagsOf(insn)
    PROVE  /\ NameRead(f) = insn.mnemonic
           /\ OpcodeOf(insn) \in Opcodes
           /\ OpcodeOf(insn) \in Unary \cup (Binary \cup Mem) =>
                FlagsOf(insn) % 2 = IF LastIsImm(insn) THEN 1 ELSE 0
           /\ OpcodeOf(insn) \in Branch =>
                FlagsOf(insn) \div 8 = IF LastIsImm(insn) THEN 1 ELSE 0
           /\ OpcodeOf(insn) = 48 => FlagsOf(insn) % 8 # 7
<1> DEFINE r == RowOf(insn)
           imm == LastIsImm(insn)
           P == /\ NameRead(f) = r[1]
                /\ r[2] \in Opcodes
                /\ r[2] \in Unary \cup (Binary \cup Mem) => (r[4] + Added(r[3], imm)) % 2 = IF imm THEN 1 ELSE 0
                /\ r[2] \in Branch => (r[4] + Added(r[3], imm)) \div 8 = IF imm THEN 1 ELSE 0
                /\ r[2] = 48 => (r[4] + Added(r[3], imm)) % 8 # 7
<1>1. r \in INSTRUCTIONS /\ OpcodeOf(insn) = r[2] /\ FormOf(insn) = r[3] /\ r[1] = insn.mnemonic
      /\ FlagsOf(insn) = r[4] + Added(r[3], imm)
  BY RowIs, FlagsAre
<1> SUFFICES P
  BY <1>1
<1> HIDE DEF r, imm
<1>2. AluRow(r) \/ BranchRow(r) \/ LoadRow(r) \/ StoreRow(r) \/ OtherRow(r)
  BY <1>1, Rows
<1>3. Opcode(f) = r[2] /\ FlagBits(f) = r[4] + Added(r[3], imm)
  BY <1>1
<1>4. CASE AluRow(r)
  <2>1. r[2] \in Binary \cup {20} /\ r[4] = 0 /\ r[1] = AluOfNibble[(r[2] % 16) + 1]
        /\ Added(r[3], imm) = IF imm THEN 1 ELSE 0
    BY <1>4 DEF AluRow, Added
  <2>2. NameRead(f) = r[1]
    BY <1>3, <2>1, NamesByCode
  <2> QED
    BY <2>1, <2>2 DEF Opcodes, Unary, Binary, Mem, Branch
<1>5. CASE BranchRow(r)
  <2>1. r[2] = 48 /\ r[4] \in 0 .. 6 /\ r[1] = BranchNames[r[4] + 1]
        /\ Added(r[3], imm) = IF imm THEN 8 ELSE 0
    BY <1>5 DEF BranchRow, Added
  <2>2. FlagBits(f) % 8 = r[4] /\ (r[4] + Added(r[3], imm)) % 8 = r[4]
        /\ (r[4] + Added(r[3], imm)) \div 8 = IF imm THEN 1 ELSE 0
    BY <1>3, <2>1
  <2>3. NameRead(f) = r[1]
    <3>1. NameRead(f) = BranchNames[(FlagBits(f) % 8) + 1]
      BY <1>3, <2>1, NamesByCode
    <3> QED
      BY <2>1, <2>2, <3>1
  <2> QED
    BY <2>1, <2>2, <2>3 DEF Opcodes, Unary, Binary, Mem, Branch
<1>6. CASE LoadRow(r)
  <2>1. r[2] = 64 /\ r[4] \in {0, 2, 4, 6, 10, 12, 14} /\ r[1] = LoadNames[(r[4] \div 2) + 1]
        /\ Added(r[3], imm) = IF imm THEN 1 ELSE 0
    BY <1>6 DEF LoadRow, Added
  <2>2. FlagBits(f) \div 2 = r[4] \div 2
        /\ (r[4] + Added(r[3], imm)) % 2 = IF imm THEN 1 ELSE 0
    BY <1>3, <2>1
  <2>3. NameRead(f) = r[1]
    <3>1. NameRead(f) = LoadNames[(FlagBits(f) \div 2) + 1]
      BY <1>3, <2>1, NamesByCode
    <3> QED
      BY <2>1, <2>2, <3>1
  <2> QED
    BY <2>1, <2>2, <2>3 DEF Opcodes, Unary, Binary, Mem, Branch
<1>7. CASE StoreRow(r)
  <2>1. r[2] = 65 /\ r[4] \in {0, 2, 4, 6} /\ r[1] = StoreNames[(r[4] \div 2) + 1]
        /\ Added(r[3], imm) = IF imm THEN 1 ELSE 0
    BY <1>7 DEF StoreRow, Added
  <2>2. FlagBits(f) \div 2 = r[4] \div 2
        /\ (r[4] + Added(r[3], imm)) % 2 = IF imm THEN 1 ELSE 0
    BY <1>3, <2>1
  <2>3. NameRead(f) = r[1]
    <3>1. NameRead(f) = StoreNames[(FlagBits(f) \div 2) + 1]
      BY <1>3, <2>1, NamesByCode
    <3> QED
      BY <2>1, <2>2, <3>1
  <2> QED
    BY <2>1, <2>2, <2>3 DEF Opcodes, Unary, Binary, Mem, Branch
<1>8. CASE OtherRow(r)
  <2>1. \/ r = <<"nop", 0, "NULL", 0>> \/ r = <<"trap", 254, "NULL", 0>>
        \/ r = <<"halt", 255, "NULL", 0>> \/ r = <<"mov", 1, "R_R__OR__R_I", 0>>
        \/ r = <<"cmp", 32, "R_R__OR__R_I", 0>> \/ r = <<"cmp.s", 33, "R_R__OR__R_I", 0>>
        \/ r = <<"jmp", 49, "R__OR__I", 0>>
    BY <1>8 DEF OtherRow
  <2>2. r[4] = 0 /\ r[2] \in {0, 1, 32, 33, 49, 254, 255}
        /\ (r[2] \in {1, 32, 33} => Added(r[3], imm) = IF imm THEN 1 ELSE 0)
        /\ (r[2] = 49 => Added(r[3], imm) = IF imm THEN 8 ELSE 0)
    BY <2>1 DEF Added
  <2>3. NameRead(f) = r[1]
    <3>1. ~(Opcode(f) \in Binary \cup {20}) /\ Opcode(f) \notin {48, 64, 65}
      BY <1>3, <2>2 DEF Binary
    <3> QED
      BY <1>3, <2>1, <3>1 DEF NameRead, Nop, Trap, Halt
  <2>4. r[2] \in Opcodes
    BY <2>2 DEF Opcodes, Unary, Branch, Nop, Trap, Halt
  <2>5. r[2] \in Unary \cup (Binary \cup Mem) => r[2] \in {1, 32, 33}
    BY <2>2 DEF Unary, Binary, Mem
  <2>6. r[2] \in Branch => r[2] = 49
    BY <2>2 DEF Branch
  <2> QED
    BY <2>2, <2>3, <2>4, <2>5, <2>6
<1> QED
  BY <1>2, <1>4, <1>5, <1>6, <1>7, <1>8
Decodes(f, insn, v, len) ==
    LET op == OpcodeOf(insn)
        n == Len(insn.slots)
        w == ImmBytes(insn)
    IN /\ Opcode(f) = op /\ LenOf(f) = len /\ NameRead(f) = insn.mnemonic
       /\ \A i \in 1 .. RegCount(insn) : f[i + 1] = insn.slots[i].n
       /\ op \notin {Nop, Trap, Halt} =>
            /\ n > 0 /\ OperandAt(f) = n + 1
            /\ IsImm(f) <=> LastIsImm(insn)
            /\ LastIsImm(insn) =>
                 /\ ImmLen(f) = w
                 /\ \A i \in 1 .. w : f[n + i] = (v \div Power[w - i]) % ByteSize
       /\ op # Trap => ~SimIllegal(f) /\ WellFormed(f)

(* A simulator reads of a frame what encode wrote. *)
LEMMA Decoded ==
    ASSUME NEW insn \in Insns, Shaped(insn), Arranged(insn), NEW v \in Int,
           NEW bytes, EncodedAs(bytes, insn, v),
           NEW f, \A i \in 0 .. Len(bytes) - 1 : f[i] = bytes[i + 1]
    PROVE  Decodes(f, insn, v, Len(bytes))
<1> DEFINE op == OpcodeOf(insn)
           n == Len(insn.slots)
           k == RegCount(insn)
           w == ImmBytes(insn)
           imm == LastIsImm(insn)
           F == FlagsOf(insn)
           T == 2 + k + w
           reg(i) == insn.slots[i].n
           digit(i) == (v \div Power[w - i]) % ByteSize
<1>1. /\ bytes \in Seq(Int) /\ Len(bytes) = T
      /\ bytes[1] = op /\ bytes[2] = T * 16 + F
      /\ \A i \in 1 .. k : bytes[2 + i] = reg(i)
      /\ \A i \in 1 .. w : bytes[2 + k + i] = digit(i)
  BY DEF EncodedAs
<1>2. w \in 0 .. 8 /\ k \in 0 .. 3 /\ T \in 2 .. 12 /\ (~imm => w = 0)
  BY ImmRange
<1>3. /\ n \in 0 .. 3 /\ k \in 0 .. n
      /\ imm => n > 0 /\ k = n - 1
      /\ ~imm => k = n
  BY SlotKinds
<1>4. \A i \in 1 .. k : reg(i) \in 0 .. NumRegs - 1
  <2>1. \A i \in 1 .. k : i \in 1 .. n /\ insn.slots[i].k = "reg"
    BY <1>3, SlotKinds
  <2> QED
    BY <2>1, ShapedFields
<1>5. op \in 0 .. 255 /\ F \in 0 .. 15
  BY CodeRange
<1>6. /\ op \in Binary \cup Mem => n = 3
      /\ op \in Unary => n = 2
      /\ op \in Branch => n = 1
      /\ op \in {Nop, Halt} => n = 0
  BY Zenon DEF Arranged
<1> HIDE DEF k, w, n, reg, digit, F, op
<1>7. f[0] = op /\ f[1] = T * 16 + F
  <2>1. 0 \in 0 .. Len(bytes) - 1 /\ 1 \in 0 .. Len(bytes) - 1
    BY <1>1, <1>2
  <2> QED
    BY <1>1, <2>1
<1>8. \A i \in 1 .. k : f[i + 1] = reg(i)
  <2> SUFFICES ASSUME NEW i \in 1 .. k PROVE f[i + 1] = reg(i)
    OBVIOUS
  <2>1. i + 1 \in 0 .. Len(bytes) - 1 /\ (i + 1) + 1 = 2 + i
    BY <1>1, <1>2
  <2> QED
    BY <1>1, <2>1
<1>9. imm => \A i \in 1 .. w : f[n + i] = digit(i)
  <2> SUFFICES ASSUME imm, NEW i \in 1 .. w PROVE f[n + i] = digit(i)
    OBVIOUS
  <2>1. n + i \in 0 .. Len(bytes) - 1 /\ (n + i) + 1 = 2 + k + i
    BY <1>1, <1>2, <1>3
  <2> QED
    BY <1>1, <2>1
<1> HIDE DEF imm
<1>10. /\ LenOf(f) = T /\ FlagBits(f) = F
       /\ FlagBit(f, 0) <=> F % 2 = 1
       /\ FlagBit(f, 3) <=> F \div 8 = 1
  <2> HIDE DEF T
  <2> QED
    BY <1>2, <1>5, <1>7, Nibbles
<1>11. Opcode(f) = op
  BY <1>7 DEF Opcode
<1>12. /\ NameRead(f) = insn.mnemonic
       /\ op \in Opcodes
       /\ op \in Unary \cup (Binary \cup Mem) => F % 2 = IF imm THEN 1 ELSE 0
       /\ op \in Branch => F \div 8 = IF imm THEN 1 ELSE 0
       /\ op = 48 => F % 8 # 7
  BY <1>10, <1>11, NamesRead DEF op, F, imm
<1> HIDE DEF T
<1>13. CASE op \in {Nop, Halt}
  <2>1. n = 0 /\ k = 0 /\ w = 0 /\ T = 2 /\ ~imm
    BY <1>2, <1>3, <1>6, <1>13 DEF T
  <2>2. ~HasOperand(f) /\ ~(Opcode(f) \in Branch) /\ Opcode(f) # Trap
        /\ ~(Opcode(f) \in Unary \cup Binary \cup Mem)
    BY <1>11, <1>13 DEF HasOperand, Unary, Binary, Mem, Branch, Nop, Halt, Trap
  <2>3. ~IsImm(f)
    BY <2>2 DEF IsImm
  <2>4. RegBytes(f) = {}
    BY <2>2 DEF RegBytes
  <2>5. ~SimIllegal(f)
    BY <1>11, <1>13, <2>3, <2>4 DEF SimIllegal, Nop, Halt
  <2>6. WellFormed(f)
    BY <1>10, <2>1, <2>2 DEF WellFormed, SimWords, SimConsumed
  <2> QED
    BY <1>1, <1>8, <1>10, <1>11, <1>12, <1>13, <2>5, <2>6 DEF Decodes, op, k, n, w, reg
<1>14. CASE op = Trap
  <2> QED
    BY <1>1, <1>8, <1>10, <1>11, <1>12, <1>14 DEF Decodes, op, k, n, w, reg
<1>15. CASE op \notin {Nop, Trap, Halt}
  <2>1. \/ op \in Unary /\ op \notin Branch /\ n = 2
        \/ op \in Binary \cup Mem /\ op \notin Branch /\ op \notin Unary /\ n = 3
        \/ op \in Branch /\ op \notin Unary /\ op \notin Binary \cup Mem /\ n = 1
    BY <1>6, <1>12, <1>15 DEF Opcodes, Unary, Binary, Mem, Branch
  <2>2. HasOperand(f) /\ n > 0
    BY <1>11, <2>1 DEF HasOperand
  <2>3. OperandAt(f) = n + 1
    BY <1>11, <1>15, <2>1 DEF OperandAt
  <2>4. IsImm(f) <=> imm
    <3>1. CASE op \in Branch
      <4>1. IsImm(f) <=> FlagBit(f, 3)
        BY <1>11, <1>15, <3>1 DEF IsImm
      <4> QED
        BY <1>10, <1>12, <3>1, <4>1
    <3>2. CASE op \notin Branch
      <4>1. IsImm(f) <=> FlagBit(f, 0)
        BY <1>11, <1>15, <2>2, <3>2 DEF IsImm
      <4> QED
        BY <1>10, <1>12, <2>1, <3>2, <4>1
    <3> QED
      BY <3>1, <3>2
  <2>5. imm => ImmLen(f) = w
    BY <1>2, <1>3, <1>10, <2>3 DEF ImmLen, T
  <2>6. \A i \in RegBytes(f) : i - 1 \in 1 .. k /\ i = (i - 1) + 1
    <3> SUFFICES ASSUME NEW i \in RegBytes(f) PROVE i - 1 \in 1 .. k /\ i = (i - 1) + 1
      OBVIOUS
    <3>1. (i \in 2 .. n) \/ (~imm /\ i = n + 1)
      BY <1>3, <2>3, <2>4 DEF RegBytes
    <3> QED
      BY <1>3, <2>2, <3>1
  <2>7. \A i \in RegBytes(f) : f[i] \in 0 .. NumRegs - 1
    BY <1>4, <1>8, <2>6
  <2>8. \A i \in RegBytes(f) : ~(f[i] >= NumRegs)
    <3> SUFFICES ASSUME NEW i \in RegBytes(f) PROVE ~(f[i] >= NumRegs)
      OBVIOUS
    <3> QED
      BY <2>7, NumRegsAssumption
  <2>9. ~SimIllegal(f)
    <3>1. Opcode(f) \in Unary \cup Binary \cup Mem \cup Branch \cup {Nop, Trap, Halt}
      BY <1>11, <2>1, Zenon
    <3>2. ~(IsImm(f) /\ ImmLen(f) > 8)
      BY <1>2, <2>4, <2>5
    <3>3. ~(Opcode(f) = 48 /\ FlagBits(f) % 8 = 7)
      BY <1>10, <1>11, <1>12
    <3> QED
      BY <2>8, <3>1, <3>2, <3>3, Zenon DEF SimIllegal
  <2>10. WellFormed(f)
    <3>1. SimConsumed(f) = T
      BY <1>2, <1>3, <2>2, <2>3, <2>4, <2>5 DEF SimConsumed, T
    <3> QED
      BY <1>2, <1>10, <3>1 DEF WellFormed, SimWords
  <2> QED
    BY <1>1, <1>8, <1>9, <1>10, <1>11, <1>12, <2>2, <2>3, <2>4, <2>5, <2>9, <2>10
    DEF Decodes, op, k, n, w, reg, digit, imm
<1> QED
  BY <1>13, <1>14, <1>15
-----------------------------------------------------------------------------
(* Division. *)
LEMMA Divides ==
    ASSUME NEW v \in Int, NEW d \in Nat \ {0}
    PROVE  /\ v \div d \in Int /\ v % d \in 0 .. d - 1
           /\ v = d * (v \div d) + (v % d)
  OBVIOUS

LEMMA ProductSmall ==
    ASSUME NEW d \in Nat \ {0}, NEW x \in Int, -d < d * x, d * x < d PROVE x = 0
<1>1. CASE x >= 1
  <2>1. d * x >= d
    BY <1>1
  <2> QED
    BY <2>1
<1>2. CASE x <= -1
  <2>1. d * x <= -d
    BY <1>2
  <2> QED
    BY <2>1
<1> QED
  BY <1>1, <1>2

LEMMA QuotientIs ==
    ASSUME NEW v \in Int, NEW d \in Nat \ {0}, NEW q \in Int, NEW r \in 0 .. d - 1,
           v = d * q + r
    PROVE  v \div d = q /\ v % d = r
<1> DEFINE a == v \div d
           b == v % d
<1>1. a \in Int /\ b \in 0 .. d - 1 /\ v = d * a + b
  BY Divides
<1> HIDE DEF a, b
<1>2. d * (a - q) = d * a - d * q /\ d * a \in Int /\ d * q \in Int
  BY <1>1
<1>3. d * (a - q) = r - b
  BY <1>1, <1>2
<1>4. -d < r - b /\ r - b < d
  BY <1>1
<1>5. a - q = 0
  BY <1>1, <1>3, <1>4, ProductSmall
<1> QED
  BY <1>1, <1>2, <1>5 DEF a, b

LEMMA DivideTwice ==
    ASSUME NEW v \in Int, NEW p \in Nat \ {0}, NEW b \in Nat \ {0}
    PROVE  (v \div p) \div b = v \div (b * p)
<1> DEFINE q == v \div p
           r == v % p
           s == q \div b
           t == q % b
           d == b * p
           e == p * t + r
<1>1. q \in Int /\ r \in 0 .. p - 1 /\ v = p * q + r
  BY Divides
<1> HIDE DEF q, r
<1>2. s \in Int /\ t \in 0 .. b - 1 /\ q = b * s + t
  BY <1>1, Divides
<1> HIDE DEF s, t
<1>3. d \in Nat \ {0}
  BY DEF d
<1>4. v = d * s + e
  <2>1. p * (b * s + t) = p * (b * s) + p * t
    BY <1>1, <1>2
  <2>2. p * (b * s) = (b * p) * s
    BY <1>1, <1>2
  <2>3. p * q = p * (b * s) + p * t
    BY <1>2, <2>1
  <2>4. p * t \in Int /\ p * (b * s) \in Int
    BY <1>1, <1>2
  <2> QED
    BY <1>1, <2>2, <2>3, <2>4
<1>5. e \in 0 .. d - 1
  <2>1. p * t >= 0 /\ p * t \in Int
    BY <1>2
  <2>2. p * t <= p * (b - 1)
    <3>1. t <= b - 1 /\ t \in Int /\ b - 1 \in Int
      BY <1>2
    <3> QED
      BY <3>1
  <2>3. p * (b - 1) = b * p - p /\ b * p \in Int
    OBVIOUS
  <2> QED
    BY <1>1, <2>1, <2>2, <2>3
<1> HIDE DEF d, e
<1>6. v \div d = s
  BY <1>2, <1>3, <1>4, <1>5, QuotientIs
<1> QED
  BY <1>6 DEF d, s, q

(* The digits of a number that fits put together again.                    *)
LEMMA TopDigit ==
    ASSUME NEW v \in Int, NEW w \in Nat \ {0}, Fits(v, w)
    PROVE  LET d == (v \div Power[w - 1]) % ByteSize IN
           v \div Power[w] = IF d >= ByteSize \div 2 THEN -1 ELSE 0
<1> DEFINE p == Power[w - 1]
           P == Power[w]
           x == v \div p
           h == ByteSize \div 2
           b == ByteSize
           d == x % b
           r == v % p
<1>1. p \in Nat \ {0} /\ P \in Nat \ {0} /\ P = b * p
  <2>1. w - 1 \in Nat /\ (w - 1) + 1 = w
    OBVIOUS
  <2>2. Power[(w - 1) + 1] = b * Power[w - 1] /\ Power[w - 1] \in Nat \ {0} /\ Power[w] \in Nat \ {0}
    BY <2>1, Powers
  <2> QED
    BY <2>1, <2>2
<1>2. -P <= 2 * v /\ 2 * v < P
  BY DEF Fits
<1>3. b = 2 * h /\ h \in Nat \ {0} /\ b \in Nat \ {0}
  BY SizesNonzero, WidthsAssumption
<1>4. x \in Int /\ r \in 0 .. p - 1 /\ v = p * x + r
  BY <1>1, Divides
<1>5. x \div b = v \div P
  BY <1>1, <1>3, DivideTwice
<1> HIDE DEF p, P, x, h, b, r
<1>6. CASE v >= 0
  <2>1. x >= 0
    <3>1. x <= -1 => p * x <= -p
      BY <1>1, <1>4
    <3> QED
      BY <1>1, <1>4, <1>6, <3>1
  <2>2. x < h
    <3>1. x >= h => p * x >= p * h
      BY <1>1, <1>3, <1>4
    <3>2. P = 2 * (p * h) /\ p * h \in Int /\ p * x \in Int
      BY <1>1, <1>3, <1>4
    <3> QED
      BY <1>1, <1>2, <1>3, <1>4, <3>1, <3>2
  <2>3. x = b * 0 + x /\ x \in 0 .. b - 1
    BY <1>3, <1>4, <2>1, <2>2
  <2>4. x \div b = 0 /\ d = x
    BY <1>3, <2>3, QuotientIs
  <2> HIDE DEF d
  <2>5. ~(d >= h)
    BY <1>3, <2>2, <2>3, <2>4
  <2> QED
    BY <1>5, <2>4, <2>5 DEF d, x, p, P, h, b
<1>7. CASE v < 0
  <2>1. x <= -1
    <3>1. x >= 0 => p * x >= 0
      BY <1>1, <1>4
    <3> QED
      BY <1>1, <1>4, <1>7, <3>1
  <2>2. x >= -h
    <3>1. x <= -h - 1 => p * x <= p * (-h - 1)
      BY <1>1, <1>3, <1>4
    <3>2. P = 2 * (p * h) /\ p * h \in Int /\ p * x \in Int /\ p * (-h - 1) = -(p * h) - p
      BY <1>1, <1>3, <1>4
    <3> QED
      BY <1>1, <1>2, <1>3, <1>4, <3>1, <3>2
  <2>3. x = b * (-1) + (x + b) /\ x + b \in 0 .. b - 1 /\ x + b >= h
    BY <1>3, <1>4, <2>1, <2>2
  <2>4. x \div b = -1 /\ d = x + b
    <3>1. -1 \in Int /\ x \in Int /\ b \in Nat \ {0} /\ x + b \in 0 .. b - 1
      BY <1>3, <1>4, <2>3
    <3>2. x = b * (-1) + (x + b)
      BY <2>3
    <3> HIDE DEF x, b
    <3> QED
      BY <3>1, <3>2, QuotientIs DEF d
  <2> HIDE DEF d
  <2>5. d >= h
    BY <2>3, <2>4
  <2> QED
    BY <1>5, <2>4, <2>5 DEF d, x, p, P, h, b
<1> QED
  BY <1>6, <1>7

LEMMA NextDigit ==
    ASSUME NEW v \in Int, NEW w \in Nat, NEW i \in 1 .. w
    PROVE  v \div Power[w - i] =
             (v \div Power[w - (i - 1)]) * ByteSize + ((v \div Power[w - i]) % ByteSize)
<1> DEFINE p == Power[w - i]
           P == Power[w - (i - 1)]
           b == ByteSize
           x == v \div p
<1>1. p \in Nat \ {0} /\ P = b * p /\ b \in Nat \ {0}
  <2>1. w - i \in Nat /\ (w - i) + 1 = w - (i - 1)
    OBVIOUS
  <2>2. Power[(w - i) + 1] = b * Power[w - i] /\ Power[w - i] \in Nat \ {0}
    BY <2>1, Powers
  <2> QED
    BY <2>1, <2>2, SizesNonzero
<1> HIDE DEF p, P, b
<1>2. x \in Int
  BY <1>1, Divides
<1>3. x \div b = v \div P
  BY <1>1, DivideTwice
<1> HIDE DEF x
<1>4. x = b * (x \div b) + (x % b) /\ x \div b \in Int
  BY <1>1, <1>2, Divides
<1>5. x = (v \div P) * b + (x % b)
  BY <1>1, <1>3, <1>4
<1> QED
  BY <1>5 DEF x, p, P, b

LEMMA PayloadIs ==
    ASSUME NEW f, OperandAt(f) \in Nat, ImmLen(f) \in Nat,
           NEW v \in Int, Fits(v, ImmLen(f)),
           \A i \in 1 .. ImmLen(f) :
             f[(OperandAt(f) - 1) + i] = (v \div Power[ImmLen(f) - i]) % ByteSize
    PROVE  PayloadOf(f) = v
<1> DEFINE at == OperandAt(f)
           w == ImmLen(f)
           half == ByteSize \div 2
           base == IF w > 0 /\ f[at] >= half THEN -1 ELSE 0
           Q(p) == p = [i \in 0 .. w |->
                     CASE i > 0 -> p[i - 1] * ByteSize + f[at + i - 1]
                       [] i = 0 /\ w > 0 /\ f[at] >= half -> -1
                       [] OTHER -> 0]
           g(i) == v \div Power[w - i]
           d(i) == f[at + i - 1]
<1>1. PayloadOf(f) = (CHOOSE p : Q(p))[w]
  BY Zenon DEF PayloadOf
<1>2. /\ at \in Nat /\ w \in Nat /\ Fits(v, w)
      /\ \A i \in 1 .. w : f[(at - 1) + i] = (v \div Power[w - i]) % ByteSize
  OBVIOUS
<1> HIDE DEF at, w
<1>3. \A i \in 1 .. w : d(i) = (v \div Power[w - i]) % ByteSize
  <2> SUFFICES ASSUME NEW i \in 1 .. w PROVE d(i) = (v \div Power[w - i]) % ByteSize
    OBVIOUS
  <2>1. (at - 1) + i = at + i - 1
    BY <1>2
  <2> QED
    BY <1>2, <2>1
<1>4. \A i \in 1 .. w : g(i) = g(i - 1) * ByteSize + d(i)
  BY <1>2, <1>3, NextDigit
<1>5. g(0) = base
  <2>1. CASE w = 0
    <3>1. v = 0 /\ Power[w] = 1
      BY <1>2, <2>1, Powers DEF Fits
    <3> QED
      BY <2>1, <3>1
  <2>2. CASE w > 0
    <3>1. 1 \in 1 .. w /\ at + 1 - 1 = at /\ w \in Nat \ {0} /\ w - 0 = w
      BY <1>2, <2>2
    <3>2. f[at] = (v \div Power[w - 1]) % ByteSize
      BY <1>3, <3>1
    <3>3. v \div Power[w] = IF f[at] >= half THEN -1 ELSE 0
      BY <1>2, <3>1, <3>2, TopDigit
    <3> QED
      BY <2>2, <3>1, <3>3
  <2> QED
    BY <1>2, <2>1, <2>2
<1>6. g(w) = v
  <2>1. w - w = 0 /\ Power[0] = 1 /\ v \div 1 = v
    BY <1>2, Powers
  <2>2. g(w) = v \div Power[0]
    BY <2>1
  <2> QED
    BY <2>1, <2>2
<1> HIDE DEF g, d, base
<1> DEFINE h == [i \in 0 .. w |-> g(i)]
           H(p, i) == IF i = 0 THEN base ELSE p[i - 1] * ByteSize + d(i)
<1>7. ASSUME NEW p PROVE Q(p) <=> p = [i \in 0 .. w |-> H(p, i)]
  <2> DEFINE C(i) == CASE i > 0 -> p[i - 1] * ByteSize + f[at + i - 1]
                       [] i = 0 /\ w > 0 /\ f[at] >= half -> -1
                       [] OTHER -> 0
  <2>1. ASSUME NEW i \in 0 .. w PROVE C(i) = H(p, i)
    <3> HIDE DEF half
    <3>1. CASE i = 0
      BY <3>1 DEF base
    <3>2. CASE i # 0
      <4>1. i > 0
        BY <3>2
      <4> DEFINE c == p[i - 1] * ByteSize + f[at + i - 1]
      <4> HIDE DEF c
      <4>2. C(i) = c
        BY <4>1 DEF c
      <4> QED
        BY <3>2, <4>2 DEF c, d
    <3> QED
      BY <3>1, <3>2
  <2>2. Q(p) <=> p = [i \in 0 .. w |-> C(i)]
    OBVIOUS
  <2> HIDE DEF C, Q, H
  <2>3. [i \in 0 .. w |-> C(i)] = [i \in 0 .. w |-> H(p, i)]
    BY <2>1
  <2> QED
    BY <2>2, <2>3
<1> HIDE DEF Q
<1>8. Q(h)
  <2>1. \A i \in 1 .. w : i - 1 \in 0 .. w
    BY <1>2
  <2>2. \A i \in 0 .. w : i # 0 => i \in 1 .. w
    BY <1>2
  <2>3. \A i \in 0 .. w : h[i] = H(h, i)
    BY <1>4, <1>5, <2>1, <2>2
  <2>4. h = [i \in 0 .. w |-> h[i]]
    OBVIOUS
  <2> HIDE DEF h, H
  <2>5. h = [i \in 0 .. w |-> H(h, i)]
    BY <2>3, <2>4
  <2> QED
    BY <1>7, <2>5
<1> DEFINE p == CHOOSE p : Q(p)
<1>9. Q(p)
  BY <1>8
<1> HIDE DEF p
<1>10. p = [i \in 0 .. w |-> H(p, i)]
  BY <1>7, <1>9
<1>11. p[0] = g(0)
  BY <1>2, <1>5, <1>10
<1>12. \A i \in 1 .. w : p[i] = p[i - 1] * ByteSize + d(i)
  BY <1>2, <1>10
<1> DEFINE T == {i \in Nat : i <= w => p[i] = g(i)}
<1>13. 0 \in T
  BY <1>11
<1>14. ASSUME NEW i \in T PROVE i + 1 \in T
  <2>1. CASE i + 1 <= w
    <3>1. i + 1 \in 1 .. w /\ (i + 1) - 1 = i /\ p[i] = g(i)
      BY <1>2, <2>1
    <3>2. p[i + 1] = p[(i + 1) - 1] * ByteSize + d(i + 1)
      BY <1>12, <3>1
    <3>3. g(i + 1) = g((i + 1) - 1) * ByteSize + d(i + 1)
      BY <1>4, <3>1
    <3>4. p[i + 1] = g(i + 1)
      BY <3>1, <3>2, <3>3
    <3> QED
      BY <3>4
  <2> QED
    BY <2>1
<1> HIDE DEF T
<1>15. T = Nat
  BY <1>13, <1>14, Induction DEF T
<1>16. p[w] = g(w)
  BY <1>2, <1>15 DEF T
<1> QED
  BY <1>1, <1>6, <1>16 DEF p, w
-----------------------------------------------------------------------------
(* The slot s holds what the operand tok says.                             *)
Stands(s, tok) ==
    /\ s.k \in {"reg", "num", "sym"}
    /\ s.k = "reg" <=> IsReg(tok)
    /\ s.k = "num" <=> tok.t = "num"
    /\ s.k \in {"reg", "num"} => s.n = tok.n
    /\ s.k = "sym" => s.name = tok.text

LEMMA SlotHolds ==
    ASSUME NEW x
    PROVE  /\ Reg(x).k = "reg" /\ Reg(x).n = x
           /\ Num(x).k = "num" /\ Num(x).n = x
           /\ Sym(x).k = "sym" /\ Sym(x).name = x
           /\ BadSlot.k = "bad"
  BY DEF Reg, Num, Sym, BadSlot

LEMMA RegStands ==
    ASSUME NEW tok, RegSlot(tok).k # "bad" PROVE Stands(RegSlot(tok), tok) /\ IsReg(tok)
<1>1. IsReg(tok)
  BY SlotHolds DEF RegSlot
<1>2. RegSlot(tok) = Reg(tok.n) /\ tok.t = "reg"
  BY <1>1 DEF RegSlot, IsReg
<1> QED
  BY <1>1, <1>2, SlotHolds DEF Stands

LEMMA OperandStands ==
    ASSUME NEW tok, Operand(tok).k # "bad" PROVE Stands(Operand(tok), tok)
<1>1. CASE IsReg(tok)
  <2>1. Operand(tok) = Reg(tok.n) /\ tok.t = "reg"
    BY <1>1 DEF Operand, IsReg
  <2> QED
    BY <1>1, <2>1, SlotHolds DEF Stands
<1>2. CASE ~IsReg(tok) /\ tok.t = "num"
  <2>1. Operand(tok) = Num(tok.n)
    BY <1>2 DEF Operand, IsReg
  <2> QED
    BY <1>2, <2>1, SlotHolds DEF Stands
<1>3. CASE ~IsReg(tok) /\ tok.t \in {"reg", "name"}
  <2>1. Operand(tok) = Sym(tok.text)
    BY <1>3 DEF Operand
  <2>2. tok.t # "num"
    BY <1>3
  <2> QED
    BY <1>3, <2>1, <2>2, SlotHolds DEF Stands
<1>4. CASE ~IsReg(tok) /\ tok.t # "num" /\ tok.t \notin {"reg", "name"}
  <2>1. Operand(tok) = BadSlot
    BY <1>4 DEF Operand
  <2> QED
    BY <2>1, SlotHolds
<1> QED
  BY <1>1, <1>2, <1>3, <1>4

LEMMA AddressStands ==
    ASSUME NEW tok, \A i \in DOMAIN MemSlots(tok) : MemSlots(tok)[i].k # "bad"
    PROVE  LET m == MemSlots(tok) IN
           /\ m \in Seq({m[1], m[2]}) /\ Len(m) = 2
           /\ Stands(m[1], tok.base) /\ Stands(m[2], Offset(tok))
<1> DEFINE b == RegSlot(tok.base)
           o == CASE tok.sign = ""                       -> Num(0)
                  [] tok.sign = "+" /\ IsReg(tok.off)    -> Reg(tok.off.n)
                  [] tok.sign = "+" /\ tok.off.t = "num" -> Num(tok.off.n)
                  [] tok.sign = "-" /\ tok.off.t = "num" -> Num(-tok.off.n)
                  [] OTHER                               -> BadSlot
           m == MemSlots(tok)
<1>1. CASE tok.t # "mem"
  <2>1. m = <<BadSlot>>
    BY <1>1 DEF MemSlots
  <2>2. 1 \in DOMAIN m /\ m[1] = BadSlot
    <3> HIDE DEF m
    <3> QED
      BY <2>1
  <2> QED
    BY <2>2, SlotHolds
<1>2. CASE tok.t = "mem"
  <2>1. m = <<b, o>>
    BY <1>2 DEF MemSlots
  <2>2. m \in Seq({b, o}) /\ Len(m) = 2 /\ m[1] = b /\ m[2] = o /\ DOMAIN m = {1, 2}
    <3> HIDE DEF m, b, o
    <3> QED
      BY <2>1
  <2>3. b.k # "bad" /\ o.k # "bad"
    <3> HIDE DEF b, o
    <3> QED
      BY <2>2 DEF m
  <2>4. Stands(b, tok.base)
    BY <2>3, RegStands
  <2>5. Stands(o, Offset(tok))
    <3>1. CASE tok.sign = ""
      <4> DEFINE z == [t |-> "num", n |-> 0]
      <4>1. o = Num(0) /\ Offset(tok) = z
        BY <3>1 DEF Offset
      <4>2. z.t = "num" /\ z.n = 0 /\ ~IsReg(z)
        BY DEF IsReg
      <4> HIDE DEF z, o
      <4>3. Stands(Num(0), z)
        BY <4>2, SlotHolds DEF Stands
      <4> QED
        BY <4>1, <4>3, Zenon
    <3>2. CASE tok.sign = "+" /\ IsReg(tok.off)
      <4>1. o = RegSlot(tok.off) /\ Offset(tok) = tok.off
        <5>1. o = RegSlot(tok.off)
          BY <3>2 DEF RegSlot, IsReg
        <5>2. Offset(tok) = tok.off
          BY <3>2 DEF Offset
        <5> HIDE DEF o
        <5> QED
          BY <5>1, <5>2
      <4> HIDE DEF o
      <4> QED
        BY <2>3, <4>1, RegStands
    <3>3. CASE tok.sign = "+" /\ ~IsReg(tok.off) /\ tok.off.t = "num"
      <4> DEFINE z == tok.off
                 x == z.n
      <4>1. o = Num(x) /\ Offset(tok) = z
        BY <3>3 DEF Offset
      <4>2. z.t = "num" /\ z.n = x /\ ~IsReg(z)
        BY <3>3
      <4> HIDE DEF x, z, o
      <4>3. Stands(Num(x), z)
        BY <4>2, SlotHolds DEF Stands
      <4> QED
        BY <4>1, <4>3, Zenon
    <3>4. CASE tok.sign = "-" /\ tok.off.t = "num"
      <4> DEFINE x == -tok.off.n
                 z == [t |-> "num", n |-> x]
      <4>1. o = Num(x) /\ Offset(tok) = z
        BY <3>4 DEF Offset
      <4> HIDE DEF x
      <4>2. z.t = "num" /\ z.n = x /\ ~IsReg(z)
        BY DEF IsReg
      <4> HIDE DEF z, o
      <4>3. Stands(Num(x), z)
        BY <4>2, SlotHolds DEF Stands
      <4> QED
        BY <4>1, <4>3, Zenon
    <3>5. CASE /\ tok.sign # ""
               /\ ~(tok.sign = "+" /\ IsReg(tok.off))
               /\ ~(tok.sign = "+" /\ tok.off.t = "num")
               /\ ~(tok.sign = "-" /\ tok.off.t = "num")
      <4>1. o = BadSlot
        BY <3>5
      <4> HIDE DEF o
      <4> QED
        BY <2>3, <4>1, SlotHolds
    <3> QED
      BY <3>1, <3>2, <3>3, <3>4, <3>5
  <2> HIDE DEF b, o, m
  <2> QED
    BY <2>2, <2>4, <2>5 DEF m
<1> QED
  BY <1>1, <1>2

(* The arguments of a line are its operands, in the order of the frame.    *)
LEMMA OpcodeFacts ==
    ASSUME NEW m \in Mnemonics
    PROVE  /\ Find(m) \in INSTRUCTIONS /\ Find(m)[1] = m
           /\ m = "trap" <=> Find(m)[2] = Trap
           /\ Find(m)[2] \in Binary \cup Mem => Arity[Find(m)[3]] = 3
           /\ Find(m)[2] \in Unary => Arity[Find(m)[3]] = 2
           /\ Find(m)[2] \in Branch => Arity[Find(m)[3]] = 1
           /\ Find(m)[2] \in {Nop, Trap, Halt} => Arity[Find(m)[3]] = 0
<1> DEFINE r == Find(m)
<1>1. r \in INSTRUCTIONS /\ r[1] = m
  <2>1. \E x \in INSTRUCTIONS : x[1] = m
    BY Zenon DEF Mnemonics
  <2> QED
    BY <2>1, Zenon DEF Find
<1> HIDE DEF r
<1>2. /\ Arity["NULL"] = 0 /\ Arity["R__OR__I"] = 1 /\ Arity["R_R__OR__R_I"] = 2
      /\ Arity["R_R_R__OR__R_R_IMM"] = 3
  BY DEF Arity
<1>3. AluRow(r) \/ BranchRow(r) \/ LoadRow(r) \/ StoreRow(r) \/ OtherRow(r)
  BY <1>1, Rows
<1>4. /\ r[2] \in Binary \cup Mem => r[3] = "R_R_R__OR__R_R_IMM"
      /\ r[2] \in Unary => r[3] = "R_R__OR__R_I"
      /\ r[2] \in Branch => r[3] = "R__OR__I"
      /\ r[2] \in {0, 254, 255} => r[3] = "NULL"
  <2>1. CASE AluRow(r)
    BY <2>1 DEF AluRow, Binary, Mem, Unary, Branch
  <2>2. CASE BranchRow(r)
    BY <2>2 DEF BranchRow, Binary, Mem, Unary, Branch
  <2>3. CASE LoadRow(r)
    BY <2>3 DEF LoadRow, Binary, Mem, Unary, Branch
  <2>4. CASE StoreRow(r)
    BY <2>4 DEF StoreRow, Binary, Mem, Unary, Branch
  <2>5. CASE OtherRow(r)
    BY <2>5 DEF OtherRow, Binary, Mem, Unary, Branch
  <2> QED
    BY <1>3, <2>1, <2>2, <2>3, <2>4, <2>5
<1>5. r[1] = "trap" <=> r[2] = 254
  <2>1. \A x \in INSTRUCTIONS : x[1] = "trap" <=> x[2] = 254
    BY DEF INSTRUCTIONS
  <2> QED
    BY <1>1, <2>1
<1> QED
  BY <1>1, <1>2, <1>4, <1>5 DEF r, Nop, Trap, Halt

Matches(slots, ops) ==
    /\ Len(slots) = Len(ops) /\ Len(ops) \in 0 .. 3
    /\ \A i \in 1 .. Len(ops) : Stands(slots[i], ops[i])

LEMMA AddressMatches ==
    ASSUME NEW a, NEW tok, NEW b, b = <<RegSlot(a)>> \o MemSlots(tok),
           \A i \in DOMAIN b : b[i].k # "bad",
           MemSlots(tok) \in Seq(Anything)
    PROVE  Len(b) = 3 /\ Matches(b, <<a, tok.base, Offset(tok)>>)
<1> DEFINE m == MemSlots(tok)
           r == RegSlot(a)
           ops == <<a, tok.base, Offset(tok)>>
           S == Anything \cup {r}
<1>1. r \in S /\ m \in Seq(S)
  <2>1. Anything \subseteq S /\ Len(m) \in Nat /\ m \in [1 .. Len(m) -> Anything]
    BY Zenon, LenProperties
  <2> HIDE DEF m, r, S
  <2> QED
    BY <2>1 DEF S
<1> HIDE DEF m, r, S
<1>2. b \in Seq(S) /\ Len(b) = 1 + Len(m) /\ b[1] = r /\ \A i \in 1 .. Len(m) : b[i + 1] = m[i]
  BY <1>1, Prefixed DEF m, r
<1>3. Len(m) \in Nat /\ DOMAIN m = 1 .. Len(m) /\ DOMAIN b = 1 .. Len(b)
  BY <1>1, <1>2
<1>4. \A i \in DOMAIN m : m[i].k # "bad"
  <2> SUFFICES ASSUME NEW i \in DOMAIN m PROVE m[i].k # "bad"
    OBVIOUS
  <2>1. i \in 1 .. Len(m) /\ i + 1 \in DOMAIN b
    BY <1>2, <1>3
  <2> QED
    BY <1>2, <2>1
<1>5. Len(m) = 2 /\ Stands(m[1], tok.base) /\ Stands(m[2], Offset(tok))
  BY <1>4, AddressStands DEF m
<1>6. Len(b) = 3 /\ b[2] = m[1] /\ b[3] = m[2] /\ 1 \in DOMAIN b
  BY <1>2, <1>3, <1>5
<1>7. Stands(b[1], a)
  <2>1. RegSlot(a).k # "bad"
    BY <1>2, <1>6 DEF r
  <2> QED
    BY <1>2, <2>1, RegStands DEF r
<1>8. Len(ops) = 3 /\ ops[1] = a /\ ops[2] = tok.base /\ ops[3] = Offset(tok)
  OBVIOUS
<1> HIDE DEF ops
<1>9. \A i \in 1 .. 3 : Stands(b[i], ops[i])
  BY <1>5, <1>6, <1>7, <1>8
<1> QED
  BY <1>6, <1>8, <1>9 DEF Matches, ops

LEMMA OperandsMatch ==
    ASSUME NEW line, line.mnemonic \in Mnemonics,
           DOMAIN line.args = 1 .. Len(line.args), Len(line.args) \in Nat,
           \A i \in 1 .. Len(line.args) : Token(line.args[i]),
           NEW b, b = BuildSlots(line.mnemonic, line.args),
           \A i \in DOMAIN b : b[i].k # "bad"
    PROVE  /\ Matches(b, Operands(line))
           /\ LET op == Find(line.mnemonic)[2] IN
              /\ op \in Binary \cup Mem => Len(b) = 3
              /\ op \in Unary => Len(b) = 2
              /\ op \in Branch => Len(b) = 1
              /\ op \in {Nop, Halt} => Len(b) = 0
              /\ op = Trap => Len(b) <= 1
<1> DEFINE args == line.args
           m == line.mnemonic
           n == Len(args)
           opcode == Find(m)[2]
           plain == [i \in 1 .. n |-> IF i < n THEN RegSlot(args[i]) ELSE Operand(args[i])]
           Q == /\ opcode \in Binary \cup Mem => Len(b) = 3
                /\ opcode \in Unary => Len(b) = 2
                /\ opcode \in Branch => Len(b) = 1
                /\ opcode \in {Nop, Halt} => Len(b) = 0
                /\ opcode = Trap => Len(b) <= 1
<1>1. /\ m = "trap" <=> opcode = Trap
      /\ opcode \in Binary \cup Mem => Arity[Find(m)[3]] = 3
      /\ opcode \in Unary => Arity[Find(m)[3]] = 2
      /\ opcode \in Branch => Arity[Find(m)[3]] = 1
      /\ opcode \in {Nop, Trap, Halt} => Arity[Find(m)[3]] = 0
  BY OpcodeFacts
<1>2. \A i \in 1 .. n : MemSlots(args[i]) \in Seq(Anything)
  <2> SUFFICES ASSUME NEW i \in 1 .. n PROVE MemSlots(args[i]) \in Seq(Anything)
    OBVIOUS
  <2>1. BadSlot \in Anything
    BY DEF Anything
  <2>2. <<BadSlot>> \in Seq(Anything)
    BY <2>1, Zenon, Singleton
  <2> QED
    BY <2>2, AddressSlots
<1>3. CASE opcode = 64 /\ n = 2
  <2>1. b = <<RegSlot(args[1])>> \o MemSlots(args[2])
    BY <1>3 DEF BuildSlots
  <2>2. Operands(line) = <<args[1], args[2].base, Offset(args[2])>>
    BY <1>3 DEF Operands
  <2>3. MemSlots(args[2]) \in Seq(Anything)
    BY <1>2, <1>3
  <2>4. Len(b) = 3 /\ Matches(b, <<args[1], args[2].base, Offset(args[2])>>)
    BY <2>1, <2>3, AddressMatches
  <2>5. Q
    BY <1>3, <2>4 DEF Unary, Branch, Nop, Halt, Trap
  <2> QED
    BY <2>2, <2>4, <2>5, Zenon
<1>4. CASE opcode = 65 /\ n = 2
  <2>1. b = <<RegSlot(args[2])>> \o MemSlots(args[1])
    BY <1>4 DEF BuildSlots
  <2>2. Operands(line) = <<args[2], args[1].base, Offset(args[1])>>
    BY <1>4 DEF Operands
  <2>3. MemSlots(args[1]) \in Seq(Anything)
    BY <1>2, <1>4
  <2>4. Len(b) = 3 /\ Matches(b, <<args[2], args[1].base, Offset(args[1])>>)
    BY <2>1, <2>3, AddressMatches
  <2>5. Q
    BY <1>4, <2>4 DEF Unary, Branch, Nop, Halt, Trap
  <2> QED
    BY <2>2, <2>4, <2>5, Zenon
<1>5. CASE ~(opcode = 64 /\ n = 2) /\ ~(opcode = 65 /\ n = 2) /\ m = "trap" /\ n = 1
  <2> DEFINE o == Operand(args[1])
  <2>1. b = <<o>>
    BY <1>5 DEF BuildSlots
  <2>2. Operands(line) = args
    BY <1>1, <1>5 DEF Operands, Trap
  <2> HIDE DEF o
  <2>3. Len(b) = 1 /\ b[1] = o /\ 1 \in DOMAIN b
    BY <2>1
  <2>4. Stands(o, args[1])
    BY <2>3, OperandStands DEF o
  <2>5. Matches(b, args)
    BY <1>5, <2>3, <2>4 DEF Matches
  <2>6. Q
    <3>1. opcode = 254
      BY <1>1, <1>5 DEF Trap
    <3> HIDE DEF opcode
    <3> QED
      BY <2>3, <3>1 DEF Unary, Binary, Mem, Branch, Nop, Halt, Trap
  <2> QED
    BY <2>2, <2>5, <2>6, Zenon
<1>6. CASE /\ ~(opcode = 64 /\ n = 2) /\ ~(opcode = 65 /\ n = 2) /\ ~(m = "trap" /\ n = 1)
           /\ opcode \notin {64, 65} /\ n = Arity[Find(m)[3]]
  <2>1. b = plain
    BY <1>6 DEF BuildSlots
  <2>2. Operands(line) = args
    BY <1>6 DEF Operands
  <2>3. n \in 0 .. 3
    BY <1>6, ArityRange
  <2>4. Len(b) = n /\ DOMAIN b = 1 .. n
        /\ \A i \in 1 .. n : b[i] = IF i < n THEN RegSlot(args[i]) ELSE Operand(args[i])
    BY <2>1, <2>3
  <2>5. ASSUME NEW i \in 1 .. n PROVE Stands(b[i], args[i])
    <3>1. b[i].k # "bad" /\ b[i] = IF i < n THEN RegSlot(args[i]) ELSE Operand(args[i])
      BY <2>4
    <3> QED
      BY <3>1, RegStands, OperandStands
  <2>6. Matches(b, args)
    BY <2>3, <2>4, <2>5 DEF Matches
  <2>7. Q
    BY <1>1, <1>6, <2>4
  <2> QED
    BY <2>2, <2>6, <2>7, Zenon
<1>7. CASE /\ ~(opcode = 64 /\ n = 2) /\ ~(opcode = 65 /\ n = 2) /\ ~(m = "trap" /\ n = 1)
           /\ ~(opcode \notin {64, 65} /\ n = Arity[Find(m)[3]])
  <2>1. b = <<BadSlot>>
    BY <1>7 DEF BuildSlots
  <2>2. 1 \in DOMAIN b /\ b[1] = BadSlot
    BY <2>1
  <2> QED
    BY <2>2, SlotHolds
<1> QED
  BY <1>3, <1>4, <1>5, <1>6, <1>7
-----------------------------------------------------------------------------
(* What has been parsed: the program is what the first n lines say, and    *)
(* every label is in front of what the source has it in front of.          *)
Carried(n, name, j) ==
    \E l \in 1 .. n :
        name \in ToSet(source[l].labels) /\ Len(LinesOf(source)[l - 1]) + 1 = j

InsnOf(insn, line) ==
    insn.mnemonic = line.mnemonic /\ insn.slots = BuildSlots(line.mnemonic, line.args)

ParsedTo(n, code, trailing) ==
    LET read == LinesOf(source)[n] IN
    /\ Len(code) = Len(read)
    /\ \A j \in 1 .. Len(code) :
         /\ InsnOf(code[j], read[j])
         /\ \A i \in 1 .. Len(code[j].labels) : Carried(n, code[j].labels[i], j)
    /\ \A i \in 1 .. Len(trailing) : Carried(n, trailing[i], Len(code) + 1)

Parsed ==
    /\ next \in 1 .. Len(source) + 1
    /\ ParsedTo(next - 1, Narrow(insns), pending)
    /\ phase \notin {"parse", "failed"} => next = Len(source) + 1

LEMMA SourceLines ==
    ASSUME source \in Sources
    PROVE  /\ source \in Seq(ToSet(source)) /\ Len(source) \in Nat
           /\ LinesOf(source)[0] = <<>>
           /\ \A n \in 0 .. Len(source) :
                LinesOf(source)[n] \in Seq(ToSet(source)) /\ Len(LinesOf(source)[n]) \in Nat
           /\ \A n \in 1 .. Len(source) : LinesOf(source)[n] =
                IF Blank(source[n]) THEN LinesOf(source)[n - 1]
                ELSE Append(LinesOf(source)[n - 1], source[n])
<1>1. source \in Seq(ToSet(source))
  BY SourcesAssumption
<1>2. Len(source) \in Nat
  BY <1>1
<1>3. /\ LinesOf(source)[0] = <<>>
      /\ \A n \in 0 .. Len(source) : LinesOf(source)[n] \in Seq(ToSet(source))
      /\ \A n \in 1 .. Len(source) : LinesOf(source)[n] =
           IF Blank(source[n]) THEN LinesOf(source)[n - 1]
           ELSE Append(LinesOf(source)[n - 1], source[n])
  BY <1>1, LinesAre
<1>4. \A n \in 0 .. Len(source) : Len(LinesOf(source)[n]) \in Nat
  BY <1>3, LenProperties
<1> QED
  BY <1>1, <1>2, <1>3, <1>4

(* Every line read is a line of the source. *)
LEMMA LinesTyped ==
    ASSUME source \in Sources, NEW n \in 0 .. Len(source), NEW j \in 1 .. Len(LinesOf(source)[n])
    PROVE  LET line == LinesOf(source)[n][j] IN
           /\ line.labels \in Seq(STRING) /\ line.args \in Seq(ToSet(line.args))
           /\ DOMAIN line.args = 1 .. Len(line.args) /\ Len(line.args) \in Nat
           /\ \A i \in 1 .. Len(line.args) : Token(line.args[i])
<1> DEFINE line == LinesOf(source)[n][j]
           args == line.args
<1>1. line \in ToSet(source)
  <2>1. LinesOf(source)[n] \in Seq(ToSet(source))
    BY SourceLines
  <2> QED
    BY <2>1
<1>2. line.labels \in Seq(STRING) /\ args \in Seq(ToSet(args)) /\ \A tok \in ToSet(args) : Token(tok)
  BY <1>1, SourcesAssumption
<1> HIDE DEF args
<1>3. DOMAIN args = 1 .. Len(args) /\ Len(args) \in Nat
  BY <1>2
<1>4. \A i \in 1 .. Len(args) : args[i] \in ToSet(args)
  BY <1>3 DEF ToSet
<1> QED
  BY <1>2, <1>3, <1>4 DEF args

LEMMA NarrowAlready ==
    ASSUME NEW insn \in Insns, Shaped(insn),
           \A i \in 1 .. Len(insn.slots) : insn.slots[i].k = "sym" => insn.slots[i].width = 1
    PROVE  NarrowInsn(insn).slots = insn.slots
<1> DEFINE n == Len(insn.slots)
<1>1. n \in Nat /\ insn.slots \in Seq(Slots) /\ DOMAIN insn.slots = 1 .. n
      /\ \A i \in 1 .. n : insn.slots[i] \in Slots
  BY InsnFields
<1>2. \A i \in 1 .. n : NarrowSlot(insn.slots[i]) = insn.slots[i]
  <2> SUFFICES ASSUME NEW i \in 1 .. n PROVE NarrowSlot(insn.slots[i]) = insn.slots[i]
    OBVIOUS
  <2> DEFINE s == insn.slots[i]
  <2>1. s \in Slots /\ (s.k = "sym" => s.width = 1)
    BY <1>1
  <2> HIDE DEF s
  <2>2. NarrowSlot(s) = s
    <3>1. CASE s.k = "sym"
      <4>1. NarrowSlot(s) = [s EXCEPT !.width = s.width]
        BY <2>1, <3>1 DEF NarrowSlot
      <4>2. s = [s EXCEPT !.width = s.width]
        BY <2>1 DEF Slots
      <4> QED
        BY <4>1, <4>2
    <3>2. CASE s.k # "sym"
      BY <2>1, <3>2, NarrowSlots
    <3> QED
      BY <3>1, <3>2
  <2> QED
    BY <2>2 DEF s
<1>3. NarrowInsn(insn).slots = [i \in 1 .. n |-> NarrowSlot(insn.slots[i])]
  BY <1>1 DEF NarrowInsn
<1>4. [i \in 1 .. n |-> NarrowSlot(insn.slots[i])] = [i \in 1 .. n |-> insn.slots[i]]
  BY <1>2
<1>5. insn.slots = [i \in 1 .. n |-> insn.slots[i]]
  BY <1>1
<1> QED
  BY <1>3, <1>4, <1>5

LEMMA ParsedInit == ASSUME Init PROVE Parsed
<1>1. source \in Sources /\ phase = "parse" /\ next = 1 /\ pending = <<>> /\ insns = <<>>
  BY Zenon DEF Init
<1>2. Len(source) \in Nat /\ LinesOf(source)[0] = <<>>
  BY <1>1, SourceLines
<1>3. DOMAIN insns = {} /\ Len(pending) = 0
  BY <1>1
<1>4. Narrow(insns) = <<>>
  BY <1>3 DEF Narrow
<1>5. Len(Narrow(insns)) = 0
  BY <1>4
<1>6. ParsedTo(0, Narrow(insns), pending)
  BY <1>2, <1>3, <1>4, <1>5 DEF ParsedTo
<1> QED
  BY <1>1, <1>2, <1>6 DEF Parsed

LEMMA ParsedSame ==
    ASSUME Parsed, UNCHANGED <<source, next, pending>>, Narrow(insns') = Narrow(insns),
           phase' # "parse" => phase' = "failed" \/ next = Len(source) + 1
    PROVE  Parsed'
<1>1. \A n, name, j : Carried(n, name, j)' <=> Carried(n, name, j)
  BY DEF Carried
<1>2. ParsedTo(next - 1, Narrow(insns), pending)'
  BY <1>1 DEF Parsed, ParsedTo
<1> QED
  BY <1>2 DEF Parsed

LEMMA CarriedOn ==
    ASSUME NEW n \in Nat, NEW name, NEW j, Carried(n, name, j) PROVE Carried(n + 1, name, j)
<1>1. 1 .. n \subseteq 1 .. n + 1
  OBVIOUS
<1> QED
  BY <1>1 DEF Carried

LEMMA ParsedLine ==
    ASSUME RelaxInv, ParseLine, RelaxInv', Parsed PROVE Parsed'
<1> DEFINE line == source[next]
           insn == ParseInsn(line)
           old == Narrow(insns)
           new == Narrow(insns')
           read == LinesOf(source)[next - 1]
           more == LinesOf(source)[next]
           n == next - 1
           m == Len(insns)
<1>1. source \in Sources /\ phase = "parse" /\ next \in 1 .. Len(source)
      /\ pending \in Seq(STRING) /\ Program(insns) /\ Program(insns')
  <2>1. next \in Nat \ {0} /\ next <= Len(source) /\ source \in Sources /\ phase = "parse"
    BY Zenon DEF RelaxInv, Typed, ParseLine
  <2>2. Len(source) \in Nat
    BY <2>1, SourceLines
  <2>3. pending \in Seq(STRING) /\ Program(insns) /\ Program(insns')
    BY DEF RelaxInv, Typed
  <2> QED
    BY <2>1, <2>2, <2>3
<1>2. line.labels \in Seq(STRING) /\ line.args \in Seq(ToSet(line.args))
      /\ \A tok \in ToSet(line.args) : Token(tok)
  BY <1>1, LineTyped
<1>3. more = IF Blank(line) THEN read ELSE Append(read, line)
  BY <1>1, SourceLines
<1>4. read \in Seq(ToSet(source)) /\ Len(read) \in Nat /\ line \in ToSet(source)
      /\ n \in Nat /\ Len(source) \in Nat /\ n + 1 = next
  <2>1. n \in 0 .. Len(source) /\ source \in Seq(ToSet(source)) /\ Len(source) \in Nat
    BY <1>1, SourceLines
  <2> QED
    BY <1>1, <2>1, SourceLines
<1>5. /\ Len(old) = Len(read)
      /\ \A j \in 1 .. Len(old) :
           /\ InsnOf(old[j], read[j])
           /\ \A i \in 1 .. Len(old[j].labels) : Carried(n, old[j].labels[i], j)
      /\ \A i \in 1 .. Len(pending) : Carried(n, pending[i], Len(old) + 1)
  BY DEF Parsed, ParsedTo
<1>6. \A i \in 1 .. Len(line.labels) : Carried(next, line.labels[i], Len(read) + 1)
  <2> SUFFICES ASSUME NEW i \in 1 .. Len(line.labels)
               PROVE Carried(next, line.labels[i], Len(read) + 1)
    OBVIOUS
  <2>1. line.labels[i] \in ToSet(line.labels)
    <3> DEFINE labels == line.labels
    <3> HIDE DEF labels
    <3>1. labels \in Seq(STRING) /\ i \in 1 .. Len(labels)
      BY <1>2 DEF labels
    <3>2. labels[i] \in ToSet(labels)
      BY <3>1 DEF ToSet
    <3> QED
      BY <3>2 DEF labels
  <2>2. next \in 1 .. next
    BY <1>1
  <2> QED
    BY <2>1, <2>2 DEF Carried
<1>7. /\ \A j \in 1 .. Len(old) :
           /\ InsnOf(old[j], read[j])
           /\ \A i \in 1 .. Len(old[j].labels) : Carried(next, old[j].labels[i], j)
      /\ \A i \in 1 .. Len(pending) : Carried(next, pending[i], Len(read) + 1)
  BY <1>4, <1>5, CarriedOn
<1>8. \A i \in 1 .. Len(pending \o line.labels) :
        Carried(next, (pending \o line.labels)[i], Len(read) + 1)
  <2> DEFINE a == pending
             b == line.labels
             c == a \o b
  <2>1. a \in Seq(STRING) /\ b \in Seq(STRING)
    BY <1>1, <1>2
  <2>2. /\ c \in Seq(STRING) /\ Len(c) = Len(a) + Len(b)
        /\ \A i \in 1 .. Len(a) + Len(b) : c[i] = IF i <= Len(a) THEN a[i] ELSE b[i - Len(a)]
    BY <2>1, ConcatProperties, Zenon
  <2>3. Len(a) \in Nat /\ Len(b) \in Nat
    BY <2>1
  <2> SUFFICES ASSUME NEW i \in 1 .. Len(c) PROVE Carried(next, c[i], Len(read) + 1)
    OBVIOUS
  <2> HIDE DEF c
  <2>4. CASE i <= Len(a)
    <3>1. i \in 1 .. Len(a) /\ c[i] = a[i]
      BY <2>2, <2>3, <2>4
    <3> QED
      BY <1>7, <3>1
  <2>5. CASE ~(i <= Len(a))
    <3>1. i - Len(a) \in 1 .. Len(b) /\ c[i] = b[i - Len(a)]
      BY <2>2, <2>3, <2>5
    <3> QED
      BY <1>6, <3>1
  <2> QED
    BY <2>4, <2>5
<1> HIDE DEF read, more, line, n
<1>9. CASE Blank(line)
  <2>1. /\ pending' = pending \o line.labels /\ next' = next + 1
        /\ UNCHANGED <<source, phase, insns>>
    BY <1>9, Zenon DEF ParseLine, line
  <2>2. \A k, name, j : Carried(k, name, j)' <=> Carried(k, name, j)
    BY <2>1 DEF Carried
  <2>3. more = read /\ LinesOf(source')[next' - 1] = read /\ next' - 1 = next
    <3>1. next' - 1 = next
      BY <1>1, <2>1
    <3> QED
      BY <1>3, <1>9, <2>1, <3>1 DEF more
  <2>4. ParsedTo(next, old, pending \o line.labels)
    <3> DEFINE trailing == pending \o line.labels
    <3> HIDE DEF trailing, old
    <3>1. \A i \in 1 .. Len(trailing) : Carried(next, trailing[i], Len(old) + 1)
      BY <1>5, <1>8 DEF trailing
    <3> QED
      BY <1>5, <1>7, <2>3, <3>1 DEF ParsedTo, more, trailing
  <2>5. ParsedTo(next - 1, Narrow(insns), pending)'
    <3> DEFINE trailing == pending \o line.labels
    <3> HIDE DEF trailing
    <3>1. pending' = trailing /\ ParsedTo(next, old, trailing)
      BY <2>1, <2>4 DEF trailing
    <3> QED
      BY <2>1, <2>2, <2>3, <3>1 DEF ParsedTo
  <2>6. next' \in 1 .. Len(source') + 1
    BY <1>1, <1>4, <2>1
  <2> QED
    BY <1>1, <2>1, <2>5, <2>6 DEF Parsed
<1>10. CASE ~Blank(line) /\ Rejected(insn)
  <2>1. Fail("bad line")
    BY <1>10, Zenon DEF ParseLine, line
  <2>2. UNCHANGED <<source, next, pending, insns>> /\ phase' = "failed"
    BY <2>1, Zenon DEF Fail
  <2> QED
    BY <2>2, ParsedSame
<1>11. CASE ~Blank(line) /\ ~Rejected(insn)
  <2>1. /\ insns' = Append(insns, insn)
        /\ pending' = <<>> /\ next' = next + 1
        /\ UNCHANGED <<source, phase>>
    BY <1>11, Zenon DEF ParseLine, line
  <2>2. /\ insn \in Insns /\ Shaped(insn)
        /\ insn.mnemonic = line.mnemonic /\ insn.labels = pending \o line.labels
        /\ insn.slots = BuildSlots(line.mnemonic, line.args)
        /\ \A i \in 1 .. Len(insn.slots) : insn.slots[i].k = "sym" => insn.slots[i].width = 1
    BY <1>1, <1>2, <1>11, ParsedInsn
  <2> HIDE DEF insn
  <2>3. m \in Nat /\ Len(old) = m /\ \A j \in 1 .. m : old[j] = NarrowInsn(insns[j])
    BY <1>1, NarrowProgram
  <2>4. insns \in Seq(Insns)
    BY <1>1 DEF Program
  <2>5. /\ Len(insns') = m + 1 /\ \A j \in 1 .. m : insns'[j] = insns[j]
        /\ insns'[m + 1] = insn
    BY <2>1, <2>2, <2>4
  <2>6. Len(new) = m + 1 /\ \A j \in 1 .. m + 1 : new[j] = NarrowInsn(insns'[j])
    BY <1>1, <2>5, NarrowProgram
  <2> DEFINE low == new[m + 1]
  <2>7. /\ \A j \in 1 .. m : new[j] = old[j]
        /\ low = NarrowInsn(insn)
    <3>1. \A j \in 1 .. m : j \in 1 .. m + 1
      BY <2>3
    <3>2. m + 1 \in 1 .. m + 1
      BY <2>3
    <3> HIDE DEF old, new, m
    <3> QED
      BY <2>3, <2>5, <2>6, <3>1, <3>2
  <2>8. /\ low.mnemonic = line.mnemonic /\ low.labels = pending \o line.labels
        /\ low.slots = BuildSlots(line.mnemonic, line.args)
    BY <2>2, <2>7, NarrowInsns, NarrowAlready
  <2> HIDE DEF low, old, new, m
  <2>9. Len(more) = m + 1 /\ (\A j \in 1 .. m : more[j] = read[j]) /\ more[m + 1] = line
    <3>1. more = Append(read, line) /\ Len(read) = m
      BY <1>3, <1>5, <1>11, <2>3
    <3> QED
      BY <1>4, <3>1
  <2>10. InsnOf(low, line)
    BY <2>8 DEF InsnOf
  <2>11. \A i \in 1 .. Len(low.labels) : Carried(next, low.labels[i], m + 1)
    <3>1. Len(read) = m
      BY <1>5, <2>3
    <3> DEFINE trailing == pending \o line.labels
    <3>2. \A i \in 1 .. Len(trailing) : Carried(next, trailing[i], m + 1)
      BY <1>8, <3>1
    <3> HIDE DEF trailing
    <3>3. low.labels = trailing
      BY <2>8 DEF trailing
    <3> QED
      BY <3>2, <3>3
  <2>12. ASSUME NEW j \in 1 .. m + 1
         PROVE  /\ InsnOf(new[j], more[j])
                /\ \A i \in 1 .. Len(new[j].labels) : Carried(next, new[j].labels[i], j)
    <3>1. CASE j \in 1 .. m
      <4>1. new[j] = old[j] /\ more[j] = read[j] /\ j \in 1 .. Len(old)
        BY <2>3, <2>7, <2>9, <3>1
      <4>2. InsnOf(old[j], read[j])
            /\ \A i \in 1 .. Len(old[j].labels) : Carried(next, old[j].labels[i], j)
        BY <1>7, <4>1
      <4> QED
        BY <4>1, <4>2
    <3>2. CASE j = m + 1
      <4>1. new[j] = low /\ more[j] = line
        BY <2>9, <3>2 DEF low
      <4> QED
        BY <2>10, <2>11, <3>2, <4>1
    <3> QED
      BY <2>3, <3>1, <3>2
  <2>13. ParsedTo(next, new, pending')
    <3>1. Len(pending') = 0
      BY <2>1
    <3>2. Len(new) = Len(more)
      BY <2>6, <2>9
    <3> QED
      BY <2>6, <2>12, <3>1, <3>2 DEF ParsedTo, more
  <2>14. \A k, name, j : Carried(k, name, j)' <=> Carried(k, name, j)
    BY <2>1 DEF Carried
  <2>15. next' - 1 = next /\ next' \in 1 .. Len(source') + 1
    BY <1>1, <1>4, <2>1
  <2>16. ParsedTo(next - 1, Narrow(insns), pending)'
    BY <2>1, <2>13, <2>14, <2>15 DEF ParsedTo, new
  <2> QED
    BY <1>1, <2>1, <2>15, <2>16 DEF Parsed
<1> QED
  BY <1>9, <1>10, <1>11
-----------------------------------------------------------------------------
(* References are as wide as their values have asked for, and no wider.    *)
Value(j) == ValueIn(Layout(insns), j, Narrow(insns), pending)

Lands(j) == SpotOf(j, Narrow(insns), pending) \in 1 .. Len(insns) + 1

Known(j) == LastSlot(insns[j]).name \in DOMAIN syms

Tight == \A j \in Referring : Lands(j) => WidthOf(j) <= SymWidth(Value(j))

Settled ==
    phase \in {"emit", "done"} =>
        /\ \A j \in 1 .. Len(insns) : insns[j].addr = Layout(insns)[j]
        /\ \A j \in Referring :
             /\ Known(j) /\ Lands(j)
             /\ RefValue(insns[j], LastSlot(insns[j])) = Value(j)
             /\ WidthOf(j) = SymWidth(Value(j))

LEMMA NarrowestFits ==
    ASSUME NEW code, Program(code), NEW trailing, NEW j \in 1 .. Len(code),
           SpotOf(j, Narrow(code), trailing) \in 1 .. Len(code) + 1
    PROVE  SymWidth(ValueIn(Layout(code), j, Narrow(code), trailing)) \in 1 .. 8
<1> DEFINE i == IF Relative(Narrow(code)[j]) THEN j ELSE 1
           k == SpotOf(j, Narrow(code), trailing)
           v == Layout(code)[k] - Layout(code)[i]
<1>1. i \in 1 .. Len(code) + 1 /\ k \in 1 .. Len(code) + 1
  BY NarrowProgram
<1>2. v = ValueIn(Layout(code), j, Narrow(code), trailing)
  BY DEF ValueIn
<1> HIDE DEF i, k
<1>3. v \in Int
  BY <1>1, LayoutStretches
<1> HIDE DEF v
<1> QED
  BY <1>2, <1>3, WidthNeeded

(* Until a round has widened anything, nothing is too wide.                *)
LEMMA FreshTight ==
    ASSUME RelaxInv', round' = 0 PROVE Tight'
<1>1. \A j \in Referring' : j \in 1 .. Len(insns') /\ WidthOf(j)' = 1
  BY DEF RelaxInv, Fresh, Referring
<1>2. Program(insns')
  BY DEF RelaxInv, Typed
<1>3. ASSUME NEW j \in Referring', Lands(j)' PROVE WidthOf(j)' <= SymWidth(Value(j)')
  <2>1. SpotOf(j, Narrow(insns'), pending') \in 1 .. Len(insns') + 1
    BY <1>3 DEF Lands
  <2>2. SymWidth(ValueIn(Layout(insns'), j, Narrow(insns'), pending')) \in 1 .. 8
    BY <1>1, <1>2, <2>1, NarrowestFits
  <2>3. SymWidth(Value(j)') \in 1 .. 8
    BY <2>2 DEF Value
  <2> QED
    BY <1>1, <2>3
<1> QED
  BY <1>3 DEF Tight

LEMMA TightSame ==
    ASSUME Tight, pending' = pending, Narrow(insns') = Narrow(insns), Len(insns') = Len(insns),
           Layout(insns') = Layout(insns), Referring' = Referring,
           \A j \in Referring : WidthOf(j)' = WidthOf(j)
    PROVE  Tight'
<1>1. \A j : Value(j)' = Value(j) /\ (Lands(j)' <=> Lands(j))
  BY DEF Value, Lands
<1> QED
  BY <1>1 DEF Tight

(* What a round widens, it drives further apart. *)
LEMMA WideningGrows ==
    ASSUME NEW insn \in Insns, Shaped(insn), Refers(insn) => Need(insn) \in 1 .. AbsMax
    PROVE  AlignedUp(InsnSize(insn)) <= AlignedUp(InsnSize(WidenedInsn(insn)))
<1> DEFINE wide == WidenedInsn(insn)
<1>1. /\ wide \in Insns /\ Shaped(wide)
      /\ Refers(wide) <=> Refers(insn)
      /\ Refers(insn) => LastSlot(wide).width =
           (IF Need(insn) > LastSlot(insn).width THEN Need(insn) ELSE LastSlot(insn).width)
      /\ ~Refers(insn) => wide = insn
      /\ NarrowInsn(wide) = NarrowInsn(insn)
  BY WideningInsn
<1> HIDE DEF wide
<1>2. Len(wide.slots) = Len(insn.slots)
  BY <1>1, NarrowInsns
<1>3. CASE Refers(insn)
  <2> DEFINE n == Len(insn.slots)
             s == LastSlot(insn)
             t == LastSlot(wide)
  <2>1. n \in 1 .. 3 /\ s = insn.slots[n] /\ t = wide.slots[n] /\ s.k = "sym" /\ t.k = "sym"
    BY <1>1, <1>2, <1>3, SizeOf DEF Refers, LastSlot
  <2>2. s \in Slots /\ t \in Slots
    <3> HIDE DEF n, s, t
    <3>1. n = Len(insn.slots) /\ n = Len(wide.slots)
      BY <1>2 DEF n
    <3>2. n \in 1 .. n
      BY <2>1
    <3>3. insn.slots[n] \in Slots
      BY <3>1, <3>2, InsnFields
    <3>4. wide.slots[n] \in Slots
      BY <1>1, <3>1, <3>2, InsnFields
    <3> QED
      BY <2>1, <3>3, <3>4
  <2>3. SlotSize(s) = s.width /\ SlotSize(t) = t.width /\ s.width \in Nat /\ t.width \in Nat
    BY <2>1, <2>2, SlotSizes DEF Slots
  <2>4. s.width <= t.width
    BY <1>1, <1>3, <2>3
  <2>5. InsnSize(insn) = 2 + (n - 1) + s.width /\ InsnSize(wide) = 2 + (n - 1) + t.width
    <3> HIDE DEF n, s, t
    <3>1. n > 0 /\ n = Len(insn.slots) /\ n = Len(wide.slots)
          /\ s = LastSlot(insn) /\ t = LastSlot(wide)
      <4>1. n > 0
        BY <2>1
      <4> QED
        BY <1>2, <4>1 DEF n, s, t
    <3>2. InsnSize(insn) = 2 + (n - 1) + SlotSize(s)
      BY <3>1, SizeOf
    <3>3. InsnSize(wide) = 2 + (n - 1) + SlotSize(t)
      BY <1>1, <3>1, SizeOf
    <3> QED
      BY <2>3, <3>2, <3>3
  <2> HIDE DEF n, s, t
  <2>6. InsnSize(insn) \in Nat /\ InsnSize(wide) \in Nat /\ InsnSize(insn) <= InsnSize(wide)
    BY <2>1, <2>3, <2>4, <2>5
  <2> QED
    BY <2>6, RoundsUpInOrder DEF wide
<1>4. CASE ~Refers(insn)
  <2>1. wide = insn /\ AlignedUp(InsnSize(insn)) \in Nat
    BY <1>1, <1>4, NarrowSizes
  <2> QED
    BY <2>1 DEF wide
<1> QED
  BY <1>3, <1>4

LEMMA LongerApart ==
    ASSUME NEW code, NEW wide, Program(code), Program(wide), Len(wide) = Len(code),
           Narrow(wide) = Narrow(code),
           \A j \in 1 .. Len(code) : AlignedUp(InsnSize(code[j])) <= AlignedUp(InsnSize(wide[j])),
           NEW i \in 1 .. Len(code) + 1, NEW k \in 1 .. Len(code) + 1
    PROVE  LET v == Layout(code)[k] - Layout(code)[i]
               w == Layout(wide)[k] - Layout(wide)[i]
           IN v \in Int /\ w \in Int /\ Further(v, w)
<1> DEFINE n == Len(code)
           f == Layout(code)
           g == Layout(wide)
           d(j) == AlignedUp(InsnSize(code[j]))
           e(j) == AlignedUp(InsnSize(wide[j]))
<1>1. /\ n \in Nat /\ f \in [1 .. n + 1 -> Nat] /\ g \in [1 .. n + 1 -> Nat]
      /\ \A j \in 1 .. n : f[j + 1] = f[j] + d(j) /\ g[j + 1] = g[j] + e(j)
  BY ProgramLayout
<1>2. \A j \in 1 .. n : d(j) \in Nat /\ e(j) \in Nat /\ d(j) <= e(j)
  BY NarrowProgram, NarrowSizes
<1> HIDE DEF n, f, g, d, e
<1>3. ASSUME NEW j \in 1 .. n
      PROVE  /\ f[j + 1] - f[j] <= g[j + 1] - g[j]
             /\ f[j] <= f[j + 1]
  <2>1. f[j] \in Nat /\ g[j] \in Nat /\ f[j + 1] = f[j] + d(j) /\ g[j + 1] = g[j] + e(j)
    BY <1>1
  <2> QED
    BY <1>2, <2>1
<1>4. f \in [1 .. n + 1 -> Int] /\ g \in [1 .. n + 1 -> Int]
  BY <1>1
<1>5. \A a, b \in 1 .. n + 1 : a <= b => f[b] - f[a] <= g[b] - g[a]
  BY <1>1, <1>3, <1>4, Distances
<1> DEFINE z == [j \in 1 .. n + 1 |-> 0]
<1>6. \A a, b \in 1 .. n + 1 : a <= b => f[b] - f[a] >= 0
  <2>1. z \in [1 .. n + 1 -> Int] /\ \A j \in 1 .. n + 1 : z[j] = 0
    OBVIOUS
  <2> HIDE DEF z
  <2>2. \A j \in 1 .. n : z[j + 1] - z[j] <= f[j + 1] - f[j]
    <3> SUFFICES ASSUME NEW j \in 1 .. n PROVE z[j + 1] - z[j] <= f[j + 1] - f[j]
      OBVIOUS
    <3>1. j \in 1 .. n + 1 /\ j + 1 \in 1 .. n + 1
      BY <1>1
    <3>2. z[j] = 0 /\ z[j + 1] = 0 /\ f[j] \in Int /\ f[j + 1] \in Int
      BY <1>4, <2>1, <3>1
    <3> QED
      BY <1>3, <3>2
  <2>3. \A a, b \in 1 .. n + 1 : a <= b => z[b] - z[a] <= f[b] - f[a]
    BY <1>1, <1>4, <2>1, <2>2, Distances
  <2> SUFFICES ASSUME NEW a \in 1 .. n + 1, NEW b \in 1 .. n + 1, a <= b PROVE f[b] - f[a] >= 0
    OBVIOUS
  <2>4. f[a] \in Int /\ f[b] \in Int /\ z[a] = 0 /\ z[b] = 0 /\ z[b] - z[a] <= f[b] - f[a]
    BY <1>4, <2>1, <2>3
  <2> QED
    BY <2>4
<1>7. i \in 1 .. n + 1 /\ k \in 1 .. n + 1
  BY DEF n
<1>8. f[i] \in Int /\ f[k] \in Int /\ g[i] \in Int /\ g[k] \in Int
  BY <1>4, <1>7
<1> DEFINE v == f[k] - f[i]
           w == g[k] - g[i]
<1>9. v \in Int /\ w \in Int
  BY <1>8
<1>10. v = 0 => w = 0
  <2> DEFINE low == Layout(Narrow(code))[k] - Layout(Narrow(code))[i]
  <2>1. low \in Int /\ Stretched(low, v)
    BY LayoutStretches DEF f
  <2>2. Stretched(low, w)
    BY LayoutStretches DEF g
  <2> HIDE DEF low, v, w
  <2>3. ASSUME v = 0 PROVE w = 0
    <3>1. low = 0
      BY <2>1, <2>3 DEF Stretched, Further
    <3>2. ByteSize * 0 = 0
      BY SizesNonzero
    <3> QED
      BY <1>9, <2>2, <3>1, <3>2 DEF Stretched, Further
  <2> QED
    BY <2>3
<1>11. (v >= 0 /\ v <= w) \/ (v <= 0 /\ w <= v)
  <2>1. CASE i <= k
    <3>1. f[k] - f[i] >= 0 /\ f[k] - f[i] <= g[k] - g[i]
      BY <1>5, <1>6, <1>7, <2>1
    <3> QED
      BY <3>1
  <2>2. CASE k <= i
    <3>1. f[i] - f[k] >= 0 /\ f[i] - f[k] <= g[i] - g[k]
      BY <1>5, <1>6, <1>7, <2>2
    <3> QED
      BY <1>8, <3>1
  <2>3. i <= k \/ k <= i
    BY <1>1, <1>7
  <2> QED
    BY <2>1, <2>2, <2>3
<1> HIDE DEF v, w
<1>12. Further(v, w)
  BY <1>9, <1>10, <1>11 DEF Further
<1> QED
  BY <1>9, <1>12 DEF v, w, f, g

LEMMA ReferenceNamed ==
    ASSUME NEW code, Program(code), NEW j \in 1 .. Len(code), Refers(code[j])
    PROVE  /\ Len(code[j].slots) \in Refs(code[j])
           /\ LastSlot(code[j]) = code[j].slots[Len(code[j].slots)]
<1>1. code[j] \in Insns
  BY NarrowProgram
<1> QED
  BY <1>1, InsnFields DEF Refers, LastSlot, Refs

(* A round that succeeds. *)
LEMMA Grows ==
    ASSUME RelaxInv, Grow
    PROVE  \/ phase' = "failed" /\ UNCHANGED <<source, next, pending, insns, syms, rows, image>>
           \/ /\ insns' = Widened
              /\ phase' = IF Widened = insns THEN "emit" ELSE "place"
              /\ UNCHANGED <<source, next, pending, syms, rows, image>>
              /\ \A j \in Referring :
                   /\ j \in 1 .. Len(insns) /\ Known(j) /\ Lands(j)
                   /\ RefValue(insns[j], LastSlot(insns[j])) = Value(j)
                   /\ Need(insns[j]) = SymWidth(Value(j))
                   /\ Need(insns[j]) \in 1 .. AbsMax
<1> DEFINE bad == { j \in DOMAIN insns : Unknown(insns[j]) \/ TooFar(insns[j]) }
<1>1. phase = "grow" /\ Typed /\ Placed /\ Program(insns)
      /\ Len(insns) \in Nat /\ DOMAIN insns = 1 .. Len(insns)
  BY NarrowProgram DEF RelaxInv, Typed, Placed, Grow
<1>2. CASE bad # {}
  <2>1. Fail("unknown label") \/ Fail("too far")
    BY <1>2, Zenon DEF Grow
  <2>2. phase' = "failed" /\ UNCHANGED <<source, next, pending, insns, syms, rows, image>>
    BY <2>1, Zenon DEF Fail
  <2> QED
    BY <2>2
<1>3. CASE bad = {}
  <2>1. /\ insns' = Widened
        /\ phase' = IF Widened = insns THEN "emit" ELSE "place"
        /\ UNCHANGED <<source, next, pending, syms, round, error, rows, image>>
    BY <1>3, Zenon DEF Grow
  <2>2. \A j \in 1 .. Len(insns) : ~Unknown(insns[j]) /\ ~TooFar(insns[j])
    BY <1>1, <1>3
  <2>3. \A j \in Referring : j \in 1 .. Len(insns) /\ Refers(insns[j])
    BY DEF Referring
  <2>4. ASSUME NEW j \in Referring
        PROVE  /\ j \in 1 .. Len(insns) /\ Known(j) /\ Lands(j)
               /\ RefValue(insns[j], LastSlot(insns[j])) = Value(j)
               /\ Need(insns[j]) = SymWidth(Value(j))
               /\ Need(insns[j]) \in 1 .. AbsMax
    <3>1. ~Unknown(insns[j]) /\ ~TooFar(insns[j])
      BY <2>2, <2>3
    <3>2. Lands(j) /\ RefValue(insns[j], LastSlot(insns[j])) = Value(j)
      BY <1>1, <3>1, RoundValue DEF Lands, Value
    <3>3. Value(j) \in Int
      BY <1>1, <2>3, <3>2, ValueStretches DEF Value, Lands
    <3>4. Known(j)
      BY <1>1, <2>3, <3>1, ReferenceNamed DEF Unknown, Known
    <3>5. Need(insns[j]) = SymWidth(Value(j)) /\ Need(insns[j]) \in 1 .. 8
      BY <3>2, <3>3, WidthNeeded DEF Need
    <3>6. Need(insns[j]) <= WidthCap(insns[j])
      <4>1. Len(insns[j].slots) \in Refs(insns[j])
            /\ LastSlot(insns[j]) = insns[j].slots[Len(insns[j].slots)]
        BY <1>1, <2>3, ReferenceNamed
      <4>2. ~(SymWidth(RefValue(insns[j], LastSlot(insns[j]))) > WidthCap(insns[j]))
        BY <3>1, <4>1 DEF TooFar
      <4>3. WidthCap(insns[j]) \in Nat
        BY WidthsAssumption DEF WidthCap
      <4> QED
        BY <3>5, <4>2, <4>3 DEF Need
    <3>7. WidthCap(insns[j]) \in 1 .. AbsMax
      BY WidthsAssumption DEF WidthCap
    <3> QED
      BY <2>3, <3>2, <3>5, <3>6, <3>7, <3>4, WidthsAssumption
  <2> HIDE DEF bad
  <2> QED
    BY <2>1, <2>4
<1> QED
  BY <1>2, <1>3

LEMMA GrowTight ==
    ASSUME RelaxInv, Grow, Tight, ~(phase \in {"emit", "done"}) PROVE Tight' /\ Settled'
<1>1. phase = "grow" /\ Program(insns) /\ Placed
  BY DEF RelaxInv, Typed, Grow
<1>2. CASE phase' = "failed" /\ UNCHANGED <<source, next, pending, insns, syms, rows, image>>
  <2>1. Referring' = Referring /\ \A j : WidthOf(j)' = WidthOf(j)
    BY <1>2 DEF Referring, WidthOf
  <2>2. Tight'
    BY <1>2, <2>1, TightSame
  <2> QED
    BY <1>2, <2>2 DEF Settled
<1>3. CASE /\ insns' = Widened
           /\ phase' = IF Widened = insns THEN "emit" ELSE "place"
           /\ UNCHANGED <<source, next, pending, syms, rows, image>>
           /\ \A j \in Referring :
                /\ j \in 1 .. Len(insns) /\ Known(j) /\ Lands(j)
                /\ RefValue(insns[j], LastSlot(insns[j])) = Value(j)
                /\ Need(insns[j]) = SymWidth(Value(j))
                /\ Need(insns[j]) \in 1 .. AbsMax
  <2>1. /\ Program(insns') /\ Len(insns') = Len(insns)
        /\ Narrow(insns') = Narrow(insns)
        /\ \A j \in 1 .. Len(insns) : Refers(insns'[j]) <=> Refers(insns[j])
        /\ \A j \in Referring : WidthOf(j)' =
             (IF Need(insns[j]) > WidthOf(j) THEN Need(insns[j]) ELSE WidthOf(j))
    BY <1>1, <1>3, WidenedProgram DEF WidthOf
  <2>2. Referring' = Referring
    BY <2>1 DEF Referring
  <2>3. Len(insns) \in Nat /\ DOMAIN insns = 1 .. Len(insns)
        /\ \A j \in 1 .. Len(insns) : insns[j] \in Insns /\ Shaped(insns[j])
    BY <1>1, NarrowProgram
  <2>4. \A j \in Referring :
          /\ WidthOf(j) \in Nat /\ WidthOf(j) <= SymWidth(Value(j))
          /\ SymWidth(Value(j)) \in Nat /\ WidthOf(j)' = SymWidth(Value(j))
    <3> SUFFICES ASSUME NEW j \in Referring
                 PROVE  /\ WidthOf(j) \in Nat /\ WidthOf(j) <= SymWidth(Value(j))
                        /\ SymWidth(Value(j)) \in Nat /\ WidthOf(j)' = SymWidth(Value(j))
      OBVIOUS
    <3>1. insns[j] \in Insns /\ Refers(insns[j])
      BY <1>3, <2>3 DEF Referring
    <3>2. WidthOf(j) \in Nat
      BY <3>1, InsnFields DEF Refers, LastSlot, WidthOf
    <3>3. WidthOf(j) <= SymWidth(Value(j)) /\ SymWidth(Value(j)) \in Nat
      BY <1>3, WidthsAssumption DEF Tight
    <3> QED
      BY <1>3, <2>1, <3>2, <3>3
  <2>5. ASSUME NEW j \in 1 .. Len(insns)
        PROVE  AlignedUp(InsnSize(insns[j])) <= AlignedUp(InsnSize(insns'[j]))
    <3>1. insns'[j] = WidenedInsn(insns[j])
      BY <1>3, <2>3 DEF Widened, WidenedInsn
    <3>2. Refers(insns[j]) => Need(insns[j]) \in 1 .. AbsMax
      BY <1>3 DEF Referring
    <3> QED
      BY <2>3, <3>1, <3>2, WideningGrows
  <2>6. ASSUME NEW j \in Referring PROVE WidthOf(j)' <= SymWidth(Value(j)')
    <3> DEFINE k == SpotOf(j, Narrow(insns), pending)
               i == IF Relative(Narrow(insns)[j]) THEN j ELSE 1
    <3>1. i \in 1 .. Len(insns) + 1 /\ k \in 1 .. Len(insns) + 1
      BY <1>3, <2>3 DEF Lands
    <3>2. Value(j) = Layout(insns)[k] - Layout(insns)[i]
          /\ Value(j)' = Layout(insns')[k] - Layout(insns')[i]
      BY <1>3, <2>1 DEF Value, ValueIn
    <3> HIDE DEF i, k
    <3>3. Value(j) \in Int /\ Value(j)' \in Int /\ Further(Value(j), Value(j)')
      BY <1>1, <2>1, <2>5, <3>1, <3>2, LongerApart
    <3>4. SymWidth(Value(j)) <= SymWidth(Value(j)')
      BY <3>3, FurtherNeedsMore
    <3> QED
      BY <2>4, <3>4
  <2>7. Tight'
    BY <2>2, <2>6 DEF Tight
  <2>8. ASSUME Widened = insns PROVE Settled'
    <3>1. \A j \in 1 .. Len(insns) : insns[j].addr = Layout(insns)[j]
      BY <1>1 DEF Placed
    <3>2. insns' = insns
      BY <1>3, <2>8
    <3>3. \A j : /\ WidthOf(j)' = WidthOf(j) /\ Value(j)' = Value(j)
                 /\ Lands(j)' <=> Lands(j)
                 /\ Known(j)' <=> Known(j)
                 /\ RefValue(insns[j], LastSlot(insns[j]))' = RefValue(insns[j], LastSlot(insns[j]))
      BY <1>3, <3>2 DEF WidthOf, Value, Lands, Known, RefValue
    <3> QED
      BY <1>3, <2>2, <2>4, <3>1, <3>2, <3>3 DEF Settled
  <2> QED
    BY <1>3, <2>7, <2>8 DEF Settled
<1> QED
  BY <1>2, <1>3, Grows

LEMMA PlaceTight ==
    ASSUME RelaxInv, Place, Tight PROVE Tight' /\ Settled'
<1>1. Program(insns)
  BY DEF RelaxInv, Typed
<1>2. CASE phase' = "failed"
  <2>1. UNCHANGED <<pending, insns>>
    <3>1. phase' = "failed" => Fail("not converged") \/ Fail("duplicate label")
      BY Zenon DEF Place
    <3> QED
      BY <1>2, <3>1, Zenon DEF Fail
  <2>2. Referring' = Referring /\ \A j : WidthOf(j)' = WidthOf(j)
    BY <2>1 DEF Referring, WidthOf
  <2>3. Tight'
    BY <2>1, <2>2, TightSame
  <2> QED
    BY <1>2, <2>3 DEF Settled
<1>3. CASE phase' # "failed"
  <2>1. /\ insns' = [j \in DOMAIN insns |-> [insns[j] EXCEPT !.addr = Layout(insns)[j]]]
        /\ phase' = "grow" /\ pending' = pending
    BY <1>3, Zenon DEF Place, Fail
  <2>2. Layout(insns) \in [1 .. Len(insns) + 1 -> Nat]
    BY <1>1, ProgramLayout
  <2>3. /\ Len(insns') = Len(insns)
        /\ \A j \in 1 .. Len(insns) : insns'[j].slots = insns[j].slots
        /\ Narrow(insns') = Narrow(insns) /\ Layout(insns') = Layout(insns)
    BY <1>1, <2>1, <2>2, PlacedProgram
  <2>4. Referring' = Referring /\ \A j \in Referring : WidthOf(j)' = WidthOf(j)
    BY <2>3 DEF Referring, WidthOf, Refers, LastSlot
  <2>5. Tight'
    BY <2>1, <2>3, <2>4, TightSame
  <2> QED
    BY <2>1, <2>5 DEF Settled
<1> QED
  BY <1>2, <1>3

LEMMA SettledSame ==
    ASSUME Tight, Settled, UNCHANGED <<pending, insns, syms>>,
           phase' = phase \/ phase' = "failed" \/ (phase = "emit" /\ phase' = "done")
    PROVE  Tight' /\ Settled'
<1>1. Referring' = Referring /\ \A j : WidthOf(j)' = WidthOf(j)
  BY DEF Referring, WidthOf
<1>2. Tight'
  BY <1>1, TightSame
<1>3. \A j : /\ Value(j)' = Value(j)
             /\ Lands(j)' <=> Lands(j)
             /\ Known(j)' <=> Known(j)
             /\ RefValue(insns[j], LastSlot(insns[j]))' = RefValue(insns[j], LastSlot(insns[j]))
  BY DEF Value, Lands, Known, RefValue
<1>4. ASSUME phase' \in {"emit", "done"} PROVE phase \in {"emit", "done"}
  BY <1>4
<1>5. Settled'
  BY <1>1, <1>3, <1>4 DEF Settled
<1> QED
  BY <1>2, <1>5

LEMMA TightStep ==
    ASSUME RelaxInv, RelaxInv', Tight, Settled, [Next]_vars PROVE Tight' /\ Settled'
<1>1. CASE ParseLine
  <2>1. phase = "parse" /\ round' = round /\ (phase' = phase \/ phase' = "failed")
    <3>1. phase = "parse"
      BY <1>1 DEF ParseLine
    <3>2. \/ Fail("bad line") \/ UNCHANGED <<phase, round>>
      BY <1>1, Zenon DEF ParseLine
    <3> QED
      BY <3>1, <3>2, Zenon DEF Fail
  <2>2. round' = 0
    BY <2>1 DEF RelaxInv, Delayed
  <2> QED
    BY <2>1, <2>2, FreshTight DEF Settled
<1>2. CASE ParseEnd
  <2>1. phase = "parse" /\ phase' = "place" /\ round' = round
    BY <1>2 DEF ParseEnd
  <2>2. round' = 0
    BY <2>1 DEF RelaxInv, Delayed
  <2> QED
    BY <2>1, <2>2, FreshTight DEF Settled
<1>3. CASE Place
  BY <1>3, PlaceTight
<1>4. CASE Grow
  <2>1. phase = "grow"
    BY <1>4 DEF Grow
  <2> QED
    BY <1>4, <2>1, GrowTight
<1>5. CASE Emit
  <2>1. Fail("unencodable") \/ UNCHANGED <<phase, pending, insns, syms>>
    BY <1>5, Zenon DEF Emit
  <2>2. CASE Fail("unencodable")
    BY <2>2, SettledSame DEF Fail
  <2>3. CASE UNCHANGED <<phase, pending, insns, syms>>
    BY <2>3, SettledSame
  <2> QED
    BY <2>1, <2>2, <2>3
<1>6. CASE Done
  <2>1. phase = "emit" /\ phase' = "done" /\ UNCHANGED <<pending, insns, syms>>
    BY <1>6 DEF Done
  <2> QED
    BY <2>1, SettledSame
<1>7. CASE UNCHANGED vars
  BY <1>7, SettledSame DEF vars
<1> QED
  BY <1>1, <1>2, <1>3, <1>4, <1>5, <1>6, <1>7 DEF Next
-----------------------------------------------------------------------------
(* A label the symbols know is in front of its place in the source.        *)
Named ==
    phase \in {"grow", "emit", "done"} =>
        \A name \in DOMAIN syms : Carried(next - 1, name, Spot(name, Narrow(insns), pending))

LEMMA SymbolCarried ==
    ASSUME Program(insns), Parsed, pending \in Seq(STRING), NEW name \in DOMAIN Symbols
    PROVE  Carried(next - 1, name, Spot(name, Narrow(insns), pending))
<1> DEFINE low == Narrow(insns)
           r == CHOOSE p \in LabelsOf(low) : low[p[1]].labels[p[2]] = name
<1>1. name \in { NameOf(p) : p \in Attached } \cup ToSet(pending)
  BY DEF Symbols
<1>2. Program(low) /\ Len(low) = Len(insns) /\ Len(insns) \in Nat
      /\ DOMAIN insns = 1 .. Len(insns) /\ DOMAIN low = 1 .. Len(insns)
      /\ \A j \in 1 .. Len(insns) : low[j].labels = insns[j].labels
  <2>1. Program(low) /\ Len(low) = Len(insns)
    BY NarrowProgram
  <2>2. DOMAIN low = 1 .. Len(low)
    BY <2>1, NarrowProgram
  <2> QED
    BY <2>1, <2>2, NarrowProgram, NarrowInsns
<1>3. /\ \A j \in 1 .. Len(low) :
           \A i \in 1 .. Len(low[j].labels) : Carried(next - 1, low[j].labels[i], j)
      /\ \A i \in 1 .. Len(pending) : Carried(next - 1, pending[i], Len(low) + 1)
  BY DEF Parsed, ParsedTo
<1> HIDE DEF low
<1>4. CASE name \in ToSet(pending)
  <2>1. PICK i \in 1 .. Len(pending) : pending[i] = name
    BY <1>4 DEF ToSet
  <2>2. Carried(next - 1, name, Len(low) + 1)
    BY <1>3, <2>1
  <2> QED
    BY <1>4, <2>2 DEF Spot, low
<1>5. CASE name \notin ToSet(pending)
  <2>1. PICK p \in Attached : NameOf(p) = name
    BY <1>1, <1>5
  <2>2. \A j \in 1 .. Len(insns) : DOMAIN low[j].labels = 1 .. Len(low[j].labels)
    <3>1. \A j \in 1 .. Len(insns) : low[j].labels \in Seq(STRING)
      BY <1>2, NarrowProgram, InsnFields
    <3> QED
      BY <3>1
  <2>3. p \in LabelsOf(low) /\ low[p[1]].labels[p[2]] = name
    BY <1>2, <2>1 DEF Attached, LabelsOf, NameOf
  <2>4. r \in LabelsOf(low) /\ low[r[1]].labels[r[2]] = name
    BY <2>3
  <2> HIDE DEF r
  <2>5. r[1] \in 1 .. Len(insns) /\ r[2] \in DOMAIN low[r[1]].labels
    BY <1>2, <2>4 DEF LabelsOf
  <2>6. r[2] \in 1 .. Len(low[r[1]].labels)
    BY <2>2, <2>5
  <2>7. Carried(next - 1, name, r[1])
    BY <1>2, <1>3, <2>4, <2>5, <2>6
  <2>8. Spot(name, low, pending) = r[1]
    BY <1>5 DEF Spot, r
  <2> QED
    BY <2>7, <2>8 DEF low
<1> QED
  BY <1>4, <1>5

LEMMA NamedSame ==
    ASSUME Named, UNCHANGED <<source, next, pending, syms>>, Narrow(insns') = Narrow(insns),
           phase' \in {"grow", "emit", "done"} => phase \in {"grow", "emit", "done"}
    PROVE  Named'
<1>1. \A n, name, j : Carried(n, name, j)' <=> Carried(n, name, j)
  BY DEF Carried
<1> QED
  BY <1>1 DEF Named

LEMMA PlaceKeeps ==
    ASSUME RelaxInv, Place
    PROVE  /\ Narrow(insns') = Narrow(insns) /\ UNCHANGED <<source, next, pending, rows, image>>
           /\ \/ phase' = "failed" /\ UNCHANGED <<syms, insns>>
              \/ phase' = "grow" /\ syms' = Symbols
<1>1. CASE phase' = "failed"
  <2>1. UNCHANGED <<source, next, pending, syms, insns, rows, image>>
    <3>1. phase' = "failed" => Fail("not converged") \/ Fail("duplicate label")
      BY Zenon DEF Place
    <3> QED
      BY <1>1, <3>1, Zenon DEF Fail
  <2> QED
    BY <1>1, <2>1
<1>2. CASE phase' # "failed"
  <2>1. /\ insns' = [j \in DOMAIN insns |-> [insns[j] EXCEPT !.addr = Layout(insns)[j]]]
        /\ phase' = "grow" /\ syms' = Symbols /\ UNCHANGED <<source, next, pending, rows, image>>
    BY <1>2, Zenon DEF Place, Fail
  <2>2. Program(insns) /\ Layout(insns) \in [1 .. Len(insns) + 1 -> Nat]
    BY ProgramLayout DEF RelaxInv, Typed
  <2>3. Narrow(insns') = Narrow(insns)
    BY <2>1, <2>2, PlacedProgram
  <2> QED
    BY <2>1, <2>3
<1> QED
  BY <1>1, <1>2

LEMMA GrowKeeps ==
    ASSUME RelaxInv, Grow
    PROVE  /\ phase = "grow" /\ phase' \in {"failed", "place", "emit"}
           /\ Narrow(insns') = Narrow(insns)
           /\ UNCHANGED <<source, next, pending, syms, rows, image>>
<1>1. phase = "grow"
  BY DEF Grow
<1>2. CASE phase' = "failed" /\ UNCHANGED <<source, next, pending, insns, syms, rows, image>>
  BY <1>1, <1>2
<1>3. CASE /\ insns' = Widened
           /\ phase' = IF Widened = insns THEN "emit" ELSE "place"
           /\ UNCHANGED <<source, next, pending, syms, rows, image>>
           /\ \A j \in Referring :
                /\ j \in 1 .. Len(insns) /\ Known(j) /\ Lands(j)
                /\ RefValue(insns[j], LastSlot(insns[j])) = Value(j)
                /\ Need(insns[j]) = SymWidth(Value(j))
                /\ Need(insns[j]) \in 1 .. AbsMax
  <2>1. Program(insns)
    BY DEF RelaxInv, Typed
  <2>2. Narrow(insns') = Narrow(insns)
    BY <1>3, <2>1, WidenedProgram
  <2> QED
    BY <1>1, <1>3, <2>2
<1> QED
  BY <1>2, <1>3, Grows

(* What happens once the program is parsed. *)
LEMMA NamedStep ==
    ASSUME RelaxInv, Parsed, RelaxInv', Named, [Next]_vars PROVE Parsed' /\ Named'
<1>1. CASE ParseLine
  <2>1. phase' \in {"parse", "failed"}
    <3>1. phase = "parse"
      BY <1>1 DEF ParseLine
    <3>2. \/ Fail("bad line") \/ UNCHANGED <<phase, round>>
      BY <1>1, Zenon DEF ParseLine
    <3> QED
      BY <3>1, <3>2, Zenon DEF Fail
  <2>2. Named'
    BY <2>1 DEF Named
  <2> QED
    BY <1>1, <2>2, ParsedLine
<1>2. CASE ParseEnd
  <2>1. /\ phase = "parse" /\ phase' = "place" /\ next > Len(source)
        /\ UNCHANGED <<source, next, pending, insns>>
    BY <1>2 DEF ParseEnd
  <2>2. next = Len(source) + 1
    <3>1. source \in Sources
      BY DEF RelaxInv, Typed
    <3>2. Len(source) \in Nat
      BY <3>1, SourceLines
    <3> QED
      BY <2>1, <3>2 DEF Parsed
  <2>3. Parsed'
    BY <2>1, <2>2, ParsedSame
  <2> QED
    BY <2>1, <2>3 DEF Named
<1>3. CASE Place
  <2>1. phase = "place"
    BY <1>3 DEF Place
  <2>2. next = Len(source) + 1
    BY <2>1 DEF Parsed
  <2>3. Parsed'
    BY <1>3, <2>2, PlaceKeeps, ParsedSame
  <2>4. CASE phase' = "failed"
    BY <2>3, <2>4 DEF Named
  <2>5. CASE phase' = "grow" /\ syms' = Symbols
    <3>1. Program(insns) /\ pending \in Seq(STRING)
      BY DEF RelaxInv, Typed
    <3>2. \A name \in DOMAIN Symbols : Carried(next - 1, name, Spot(name, Narrow(insns), pending))
      BY <3>1, SymbolCarried
    <3>3. Narrow(insns') = Narrow(insns) /\ UNCHANGED <<source, next, pending>>
      BY <1>3, PlaceKeeps
    <3>4. \A n, name, j : Carried(n, name, j)' <=> Carried(n, name, j)
      BY <3>3 DEF Carried
    <3> QED
      BY <2>3, <2>5, <3>2, <3>3, <3>4 DEF Named
  <2> QED
    BY <1>3, <2>4, <2>5, PlaceKeeps
<1>4. CASE Grow
  <2>1. next = Len(source) + 1
    BY <1>4, GrowKeeps DEF Parsed
  <2>2. Parsed'
    BY <1>4, <2>1, GrowKeeps, ParsedSame
  <2>3. Named'
    BY <1>4, GrowKeeps, NamedSame
  <2> QED
    BY <2>2, <2>3
<1>5. CASE Emit
  <2>1. phase = "emit"
    BY <1>5 DEF Emit
  <2>2. next = Len(source) + 1
    BY <2>1 DEF Parsed
  <2>3. Fail("unencodable") \/ UNCHANGED <<source, phase, next, pending, insns, syms>>
    BY <1>5, Zenon DEF Emit
  <2>4. CASE Fail("unencodable")
    BY <2>2, <2>4, ParsedSame DEF Fail, Named
  <2>5. CASE UNCHANGED <<source, phase, next, pending, insns, syms>>
    BY <2>2, <2>5, ParsedSame, NamedSame
  <2> QED
    BY <2>3, <2>4, <2>5
<1>6. CASE Done
  <2>1. phase = "emit" /\ phase' = "done" /\ UNCHANGED <<source, next, pending, insns, syms>>
    BY <1>6 DEF Done
  <2>2. next = Len(source) + 1
    BY <2>1 DEF Parsed
  <2> QED
    BY <2>1, <2>2, ParsedSame, NamedSame
<1>7. CASE UNCHANGED vars
  <2>1. UNCHANGED <<source, phase, next, pending, insns, syms>>
    BY <1>7 DEF vars
  <2>2. phase' # "parse" => phase' = "failed" \/ next = Len(source) + 1
    BY <2>1 DEF Parsed
  <2> QED
    BY <2>1, <2>2, ParsedSame, NamedSame
<1> QED
  BY <1>1, <1>2, <1>3, <1>4, <1>5, <1>6, <1>7 DEF Next
-----------------------------------------------------------------------------
(* The number the immediate of an instruction stands for.                  *)
Payload(j) ==
    IF Refers(insns[j]) THEN Value(j)
    ELSE IF LastIsImm(insns[j]) THEN LastSlot(insns[j]).n ELSE 0

(* Once the layout is final an instruction is written with the size the    *)
(* layout counted.                                                         *)
LEMMA Encodes ==
    ASSUME Program(insns), Settled, phase \in {"emit", "done"}, NEW j \in 1 .. Len(insns)
    PROVE  LET insn == insns[j] IN
           /\ Payload(j) \in Int
           /\ EncodedAs(Encode(insn), insn, Payload(j))
           /\ Len(Encode(insn)) = InsnSize(insn) /\ InsnSize(insn) \in 2 .. 12
           /\ insn.addr = Layout(insns)[j]
<1> DEFINE insn == insns[j]
           s == LastSlot(insn)
           v == Payload(j)
           n == Len(insn.slots)
<1>1. insn \in Insns /\ Shaped(insn)
  BY NarrowProgram
<1>2. /\ n \in 0 .. 3 /\ RegCount(insn) \in 0 .. n
      /\ \A i \in 1 .. n : insn.slots[i].k = "reg" <=> i <= RegCount(insn)
      /\ LastIsImm(insn) => n > 0 /\ RegCount(insn) = n - 1 /\ s = insn.slots[n]
                            /\ s \in Slots /\ s.k \in {"num", "sym"}
      /\ ~LastIsImm(insn) => RegCount(insn) = n
  BY <1>1, SlotKinds
<1>3. Refers(insn) <=> LastIsImm(insn) /\ s.k = "sym"
  <2>1. ASSUME Refers(insn) PROVE LastIsImm(insn) /\ s.k = "sym"
    BY <2>1 DEF Refers, LastIsImm, LastSlot
  <2>2. ASSUME LastIsImm(insn), s.k = "sym" PROVE Refers(insn)
    BY <1>2, <2>2 DEF Refers
  <2> QED
    BY <2>1, <2>2
<1>4. ASSUME Refers(insn)
      PROVE  v = Value(j) /\ v \in Int /\ RefValue(insn, s) = v /\ s.width = SymWidth(v)
  <2>1. j \in Referring
    BY <1>4 DEF Referring
  <2>2. Lands(j) /\ RefValue(insn, s) = Value(j) /\ WidthOf(j) = SymWidth(Value(j))
    BY <2>1 DEF Settled
  <2>3. Value(j) \in Int
    BY <2>2, ValueStretches DEF Value, Lands
  <2>4. v = Value(j) /\ WidthOf(j) = s.width
    BY <1>4 DEF Payload, WidthOf
  <2> QED
    BY <2>2, <2>3, <2>4
<1>5. v \in Int
  <2>1. CASE Refers(insn)
    BY <1>4, <2>1
  <2>2. CASE ~Refers(insn) /\ LastIsImm(insn)
    <3>1. s.n \in Int
      BY <1>2, <2>2 DEF Slots
    <3> QED
      BY <2>2, <3>1 DEF Payload
  <2>3. CASE ~Refers(insn) /\ ~LastIsImm(insn)
    BY <2>3 DEF Payload
  <2> QED
    BY <2>1, <2>2, <2>3
<1>6. LastIsImm(insn) => SlotBytes(insn, s) = LowBytes(v, ImmBytes(insn))
  <2> SUFFICES ASSUME LastIsImm(insn) PROVE SlotBytes(insn, s) = LowBytes(v, ImmBytes(insn))
    OBVIOUS
  <2>1. ImmBytes(insn) = SlotSize(s)
    BY <1>1, ImmRange
  <2>2. CASE s.k = "sym"
    <3>1. SlotSize(s) = s.width /\ RefValue(insn, s) = v
      BY <1>2, <1>3, <1>4, <2>2, SlotSizes
    <3>2. SlotBytes(insn, s) = LowBytes(RefValue(insn, s), s.width)
      BY <2>2 DEF SlotBytes
    <3> QED
      BY <2>1, <3>1, <3>2
  <2>3. CASE s.k = "num"
    <3>1. SlotSize(s) = NumBytes(s.n) /\ SlotBytes(insn, s) = LowBytes(s.n, NumBytes(s.n))
      BY <2>3 DEF SlotSize, SlotBytes
    <3>2. ~Refers(insn)
      BY <1>3, <2>3
    <3>3. v = s.n
      BY <3>2 DEF Payload
    <3> QED
      BY <2>1, <3>1, <3>3
  <2> QED
    BY <1>2, <2>2, <2>3
<1>7. EncodedAs(Encode(insn), insn, v)
  BY <1>1, <1>5, <1>6, EncodeIs
<1>8. Len(Encode(insn)) = 2 + RegCount(insn) + ImmBytes(insn)
      /\ 2 + RegCount(insn) + ImmBytes(insn) \in 2 .. 12
  BY <1>1, <1>7, ImmRange DEF EncodedAs
<1>9. InsnSize(insn) = 2 + RegCount(insn) + ImmBytes(insn)
  <2>1. /\ n = 0 => InsnSize(insn) = 2
        /\ n > 0 => InsnSize(insn) = 2 + (n - 1) + SlotSize(s)
        /\ LastIsImm(insn) => ImmBytes(insn) = SlotSize(s)
        /\ ~LastIsImm(insn) => ImmBytes(insn) = 0
    BY <1>1, SizeOf, ImmRange
  <2>2. CASE LastIsImm(insn)
    BY <1>2, <1>8, <2>1, <2>2
  <2>3. CASE ~LastIsImm(insn) /\ n > 0
    <3>1. s = insn.slots[n] /\ s.k = "reg"
      BY <1>2, <2>3 DEF LastSlot
    <3>2. s \in Slots /\ s.width = 1
      BY <1>1, <1>2, <2>3, <3>1, InsnFields, ShapedFields
    <3>3. SlotSize(s) = 1
      BY <3>1, <3>2, SlotSizes
    <3> QED
      BY <1>2, <2>1, <2>3, <3>3
  <2>4. CASE ~LastIsImm(insn) /\ n = 0
    BY <1>2, <2>1, <2>4
  <2> QED
    BY <1>2, <2>2, <2>3, <2>4
<1>10. insn.addr = Layout(insns)[j]
  BY DEF Settled
<1> QED
  BY <1>5, <1>7, <1>8, <1>9, <1>10

(* Higher in the program is higher in memory. *)
LEMMA LayoutRises ==
    ASSUME NEW code, Program(code),
           NEW i \in 1 .. Len(code) + 1, NEW k \in 1 .. Len(code) + 1, i <= k
    PROVE  Layout(code)[i] <= Layout(code)[k]
<1> DEFINE n == Len(code)
           f == Layout(code)
           z == [j \in 1 .. n + 1 |-> 0]
<1>1. /\ n \in Nat /\ f \in [1 .. n + 1 -> Int]
      /\ \A j \in 1 .. n : f[j + 1] = f[j] + AlignedUp(InsnSize(code[j]))
  BY ProgramLayout
<1>2. \A j \in 1 .. n : AlignedUp(InsnSize(code[j])) \in Nat
  BY NarrowProgram, NarrowSizes
<1>3. z \in [1 .. n + 1 -> Int] /\ \A j \in 1 .. n + 1 : z[j] = 0
  OBVIOUS
<1>4. i \in 1 .. n + 1 /\ k \in 1 .. n + 1
  OBVIOUS
<1> HIDE DEF n, f, z
<1>5. \A j \in 1 .. n : z[j + 1] - z[j] <= f[j + 1] - f[j]
  <2> SUFFICES ASSUME NEW j \in 1 .. n PROVE z[j + 1] - z[j] <= f[j + 1] - f[j]
    OBVIOUS
  <2>1. j \in 1 .. n + 1 /\ j + 1 \in 1 .. n + 1
    BY <1>1
  <2>2. z[j] = 0 /\ z[j + 1] = 0 /\ f[j] \in Int /\ f[j + 1] = f[j] + AlignedUp(InsnSize(code[j]))
    BY <1>1, <1>3, <2>1
  <2> QED
    BY <1>2, <2>2
<1>6. z[k] - z[i] <= f[k] - f[i]
  BY <1>1, <1>3, <1>4, <1>5, Distances
<1>7. z[k] = 0 /\ z[i] = 0 /\ f[k] \in Int /\ f[i] \in Int
  BY <1>1, <1>3, <1>4
<1>8. f[i] <= f[k]
  BY <1>6, <1>7
<1> QED
  BY <1>8 DEF f

(* One instruction and its padding behind the image. *)
Padded(new, old, bytes, pad, m, n) ==
    /\ new \in Seq(Int) /\ Len(new) = m + n + pad
    /\ \A i \in 1 .. m : new[i] = old[i]
    /\ \A i \in 1 .. n + pad : new[m + i] = IF i <= n THEN bytes[i] ELSE 0

LEMMA ImageGrows ==
    ASSUME NEW old \in Seq(Int), NEW bytes \in Seq(Int), NEW pad \in Nat,
           NEW m, m = Len(old), NEW n, n = Len(bytes)
    PROVE  Padded(old \o bytes \o Zeroes(pad), old, bytes, pad, m, n)
<1> DEFINE z == Zeroes(pad)
           mid == old \o bytes
           new == mid \o z
<1>1. m \in Nat /\ n \in Nat
  OBVIOUS
<1>2. z \in Seq(Int) /\ Len(z) = pad /\ \A i \in 1 .. pad : z[i] = 0
  BY DEF Zeroes
<1>3. Behind(mid, old, bytes, m)
  BY Appended
<1> HIDE DEF z, mid
<1>4. mid \in Seq(Int) /\ Len(mid) = m + n
      /\ (\A i \in 1 .. m : mid[i] = old[i]) /\ (\A i \in 1 .. n : mid[m + i] = bytes[i])
  BY <1>3 DEF Behind
<1>5. Behind(new, mid, z, m + n)
  BY <1>2, <1>4, Appended
<1> HIDE DEF new
<1>6. new \in Seq(Int) /\ Len(new) = m + n + pad
      /\ (\A i \in 1 .. m + n : new[i] = mid[i]) /\ (\A i \in 1 .. pad : new[(m + n) + i] = z[i])
  BY <1>2, <1>5 DEF Behind
<1>7. \A i \in 1 .. m : new[i] = old[i]
  <2>1. \A i \in 1 .. m : i \in 1 .. m + n
    BY <1>1
  <2> QED
    BY <1>4, <1>6, <2>1
<1>8. ASSUME NEW i \in 1 .. n + pad PROVE new[m + i] = IF i <= n THEN bytes[i] ELSE 0
  <2>1. CASE i <= n
    <3>1. i \in 1 .. n /\ m + i \in 1 .. m + n
      BY <1>1, <2>1
    <3> QED
      BY <1>4, <1>6, <2>1, <3>1
  <2>2. CASE ~(i <= n)
    <3> DEFINE k == i - n
    <3>1. k \in 1 .. pad /\ m + i = (m + n) + k
      BY <1>1, <2>2
    <3> HIDE DEF k
    <3>2. new[(m + n) + k] = z[k] /\ z[k] = 0
      BY <1>2, <1>6, <3>1
    <3> QED
      BY <2>2, <3>1, <3>2
  <2> QED
    BY <2>1, <2>2
<1> QED
  BY <1>6, <1>7, <1>8 DEF new, mid, z, Padded
-----------------------------------------------------------------------------
(* A row of the listing, and what it says of the image.                    *)
ListingRow == [addr : Nat, bytes : Seq(Int)]

InImage(at, bytes, img) ==
    \A i \in 1 .. AlignedUp(Len(bytes)) : img[at + i] = IF i <= Len(bytes) THEN bytes[i] ELSE 0

WrittenRow(row, at, bytes, img) ==
    row.addr = at /\ row.bytes = bytes /\ InImage(at, bytes, img)

Written ==
    /\ phase \in {"parse", "place", "grow"} => rows = <<>> /\ image = <<>>
    /\ phase \in {"emit", "done"} =>
         /\ rows \in Seq(ListingRow) /\ Len(rows) <= Len(insns)
         /\ image \in Seq(Int) /\ Len(image) = Layout(insns)[Len(rows) + 1]
         /\ \A k \in 1 .. Len(rows) :
              WrittenRow(rows[k], Layout(insns)[k], Encode(insns[k]), image)
    /\ phase = "done" => Len(rows) = Len(insns)

LEMMA EncodeSame ==
    ASSUME UNCHANGED <<insns, syms>>
    PROVE  Layout(insns)' = Layout(insns) /\ \A k : Encode(insns[k])' = Encode(insns[k])
<1>1. Layout(insns)' = Layout(insns)
  OBVIOUS
<1>2. \A insn, slot : RefValue(insn, slot)' = RefValue(insn, slot)
  BY DEF RefValue
<1>3. \A insn, slot : SlotBytes(insn, slot)' = SlotBytes(insn, slot)
  BY <1>2, Zenon DEF SlotBytes
<1>4. \A insn : Immediate(insn)' = Immediate(insn)
  BY <1>3, Zenon DEF Immediate
<1>5. \A insn : Total(insn)' = Total(insn)
  BY <1>4, Zenon DEF Total
<1>6. \A insn : Encode(insn)' = Encode(insn)
  BY <1>4, <1>5, Zenon DEF Encode
<1> QED
  BY <1>1, <1>6

LEMMA EmitWritten ==
    ASSUME RelaxInv, Settled, Written, Emit PROVE Written'
<1> DEFINE m == Len(rows)
           insn == insns[m + 1]
           bytes == Encode(insn)
           n == Len(bytes)
           at == Layout(insns)[m + 1]
           size == AlignedUp(n)
           pad == size - n
<1>1. /\ phase = "emit" /\ m < Len(insns) /\ Program(insns) /\ Len(insns) \in Nat
      /\ rows \in Seq(ListingRow) /\ image \in Seq(Int) /\ Len(image) = at
      /\ \A k \in 1 .. m : WrittenRow(rows[k], Layout(insns)[k], Encode(insns[k]), image)
  <2>1. phase = "emit" /\ m < Len(insns)
    BY DEF Emit
  <2>2. Program(insns)
    BY DEF RelaxInv, Typed
  <2>3. Len(insns) \in Nat
    BY <2>2, NarrowProgram
  <2> QED
    BY <2>1, <2>2, <2>3 DEF Written
<1>2. m \in Nat
  BY <1>1
<1>3. m + 1 \in 1 .. Len(insns)
  BY <1>1, <1>2
<1>4. bytes \in Seq(Int) /\ n = InsnSize(insn) /\ n \in 2 .. 12 /\ insn.addr = at
  BY <1>1, <1>3, Encodes DEF EncodedAs
<1>5. size \in Nat /\ pad \in Nat /\ n + pad = size
  <2> HIDE DEF n
  <2>1. n \in Nat
    BY <1>4
  <2>2. size \in Nat /\ size >= n
    BY <2>1, RoundsUp
  <2> HIDE DEF size
  <2> QED
    BY <2>1, <2>2
<1>6. at \in Nat /\ Layout(insns)[m + 2] = at + size
  <2>1. /\ Layout(insns) \in [1 .. Len(insns) + 1 -> Nat]
        /\ Layout(insns)[(m + 1) + 1] = Layout(insns)[m + 1] + AlignedUp(InsnSize(insns[m + 1]))
    BY <1>1, <1>3, ProgramLayout
  <2>2. m + 1 \in 1 .. Len(insns) + 1 /\ (m + 1) + 1 = m + 2
    BY <1>1, <1>2
  <2> QED
    BY <1>4, <2>1, <2>2
<1>7. CASE Unencodable(insn)
  <2>1. Fail("unencodable")
    BY <1>7, Zenon DEF Emit
  <2> QED
    BY <2>1 DEF Fail, Written
<1>8. CASE ~Unencodable(insn)
  <2> DEFINE row == [addr |-> insn.addr, bytes |-> bytes]
             new == image \o bytes \o Zeroes(pad)
  <2>1. rows' = Append(rows, row) /\ image' = new /\ UNCHANGED <<phase, insns, syms>>
    BY <1>8, Zenon DEF Emit
  <2>2. /\ new \in Seq(Int) /\ Len(new) = at + n + pad
        /\ \A i \in 1 .. at : new[i] = image[i]
        /\ \A i \in 1 .. n + pad : new[at + i] = IF i <= n THEN bytes[i] ELSE 0
    <3>1. at = Len(image) /\ n = Len(bytes)
      BY <1>1
    <3> HIDE DEF at, n, bytes, pad
    <3>2. Padded(new, image, bytes, pad, at, n)
      BY <1>1, <1>4, <1>5, <3>1, ImageGrows, Zenon
    <3> HIDE DEF new
    <3> QED
      BY <3>2 DEF Padded
  <2>3. row \in ListingRow /\ row.addr = at /\ row.bytes = bytes
    BY <1>4, <1>6 DEF ListingRow
  <2> HIDE DEF new, row
  <2>4. /\ rows' \in Seq(ListingRow) /\ Len(rows') = m + 1 /\ rows'[m + 1] = row
        /\ \A k \in 1 .. m : rows'[k] = rows[k]
    BY <1>1, <2>1, <2>3
  <2>5. WrittenRow(row, at, bytes, new)
    <3> HIDE DEF size, pad, bytes, at
    <3>1. InImage(at, bytes, new)
      BY <1>5, <2>2 DEF InImage, size, n
    <3> QED
      BY <2>3, <3>1 DEF WrittenRow
  <2>6. ASSUME NEW k \in 1 .. m
        PROVE  WrittenRow(rows'[k], Layout(insns)[k], Encode(insns[k]), new)
    <3> DEFINE a == Layout(insns)[k]
               b == Encode(insns[k])
    <3>1. k \in 1 .. Len(insns) /\ k + 1 \in 1 .. Len(insns) + 1 /\ m + 1 \in 1 .. Len(insns) + 1
          /\ k \in 1 .. Len(insns) + 1 /\ k + 1 <= m + 1
      BY <1>1, <1>2
    <3>2. a \in Nat /\ Layout(insns)[k + 1] = a + AlignedUp(Len(b)) /\ AlignedUp(Len(b)) \in Nat
      <4>1. Len(b) = InsnSize(insns[k]) /\ Len(b) \in 2 .. 12
        BY <1>1, <3>1, Encodes
      <4>2. /\ Layout(insns) \in [1 .. Len(insns) + 1 -> Nat]
            /\ Layout(insns)[k + 1] = Layout(insns)[k] + AlignedUp(InsnSize(insns[k]))
        BY <1>1, <3>1, ProgramLayout
      <4>3. AlignedUp(Len(b)) \in Nat
        BY <4>1, RoundsUp
      <4> QED
        BY <3>1, <4>1, <4>2, <4>3
    <3>3. Layout(insns)[k + 1] <= at
      BY <1>1, <3>1, LayoutRises
    <3>4. WrittenRow(rows[k], a, b, image) /\ rows'[k] = rows[k]
      BY <1>1, <2>4
    <3> HIDE DEF a, b, at
    <3>5. InImage(a, b, new)
      <4> SUFFICES ASSUME NEW i \in 1 .. AlignedUp(Len(b))
                   PROVE  new[a + i] = IF i <= Len(b) THEN b[i] ELSE 0
        BY DEF InImage
      <4>1. a + i \in 1 .. at
        BY <1>6, <3>2, <3>3
      <4>2. image[a + i] = IF i <= Len(b) THEN b[i] ELSE 0
        BY <3>4 DEF WrittenRow, InImage
      <4> QED
        BY <2>2, <4>1, <4>2
    <3>6. WrittenRow(rows'[k], a, b, new)
      BY <3>4, <3>5 DEF WrittenRow
    <3> QED
      BY <3>6 DEF a, b
  <2>7. \A k \in 1 .. m + 1 : WrittenRow(rows'[k], Layout(insns)[k], Encode(insns[k]), new)
    <3> SUFFICES ASSUME NEW k \in 1 .. m + 1
                 PROVE  WrittenRow(rows'[k], Layout(insns)[k], Encode(insns[k]), new)
      OBVIOUS
    <3>1. CASE k \in 1 .. m
      BY <2>6, <3>1
    <3>2. CASE k = m + 1
      <4>1. rows'[k] = row
        BY <2>4, <3>2
      <4>2. WrittenRow(row, Layout(insns)[k], Encode(insns[k]), new)
        BY <2>5, <3>2
      <4> QED
        BY <4>1, <4>2
    <3> QED
      BY <1>2, <3>1, <3>2
  <2>8. Layout(insns)' = Layout(insns) /\ \A k : Encode(insns[k])' = Encode(insns[k])
    BY <2>1, EncodeSame
  <2>9. Len(new) = Layout(insns)[Len(rows') + 1]
    <3> HIDE DEF size, pad, n, at
    <3>1. (m + 1) + 1 = m + 2
      BY <1>2
    <3>2. at \in Nat /\ n \in Nat /\ pad \in Nat /\ n + pad = size
      <4>1. n \in 2 .. 12
        BY <1>4, Zenon
      <4>2. n \in Nat
        BY <4>1
      <4> QED
        BY <1>5, <1>6, <4>2, Zenon
    <3>3. at + n + pad = at + (n + pad)
      BY <3>2
    <3> QED
      BY <1>6, <2>2, <2>4, <3>1, <3>2, <3>3
  <2>10. Len(rows') <= Len(insns)
    BY <1>1, <1>2, <2>4
  <2> HIDE DEF m
  <2> QED
    BY <1>1, <2>1, <2>2, <2>4, <2>7, <2>8, <2>9, <2>10 DEF Written
<1> QED
  BY <1>7, <1>8

LEMMA WrittenSame ==
    ASSUME Written, UNCHANGED <<insns, syms, rows, image>>,
           \/ phase' = phase \/ phase' = "failed"
           \/ phase = "emit" /\ phase' = "done" /\ Len(rows) = Len(insns)
    PROVE  Written'
<1>1. Layout(insns)' = Layout(insns) /\ \A k : Encode(insns[k])' = Encode(insns[k])
  BY EncodeSame
<1>2. phase' \in {"emit", "done"} => phase \in {"emit", "done"}
  OBVIOUS
<1>3. phase' \in {"parse", "place", "grow"} => phase \in {"parse", "place", "grow"}
  OBVIOUS
<1> QED
  BY <1>1, <1>2, <1>3 DEF Written

LEMMA EarlyWritten ==
    ASSUME RelaxInv, Written, phase \in {"parse", "place", "grow"}, UNCHANGED <<rows, image>>,
           phase' \in {"parse", "place", "grow", "emit", "failed"}, Program(insns')
    PROVE  Written'
<1>1. rows' = <<>> /\ image' = <<>>
  BY DEF Written
<1>2. Len(insns') \in Nat /\ Layout(insns')[1] = 0
  BY ProgramLayout
<1>3. rows' \in Seq(ListingRow) /\ image' \in Seq(Int) /\ Len(rows') = 0 /\ Len(image') = 0
  BY <1>1
<1>4. Len(rows') <= Len(insns') /\ Len(image') = Layout(insns')[Len(rows') + 1]
      /\ 1 .. Len(rows') = {}
  BY <1>2, <1>3
<1> QED
  BY <1>1, <1>3, <1>4 DEF Written

LEMMA WrittenStep ==
    ASSUME RelaxInv, RelaxInv', Settled, Written, [Next]_vars PROVE Written'
<1>1. Program(insns')
  BY DEF RelaxInv, Typed
<1>2. CASE ParseLine
  <2>1. phase = "parse"
    BY <1>2 DEF ParseLine
  <2>2. UNCHANGED <<rows, image>> /\ phase' \in {"parse", "failed"}
    <3>1. \/ Fail("bad line") \/ UNCHANGED <<phase, rows, image>>
      BY <1>2, Zenon DEF ParseLine
    <3>2. Fail("bad line") => phase' = "failed" /\ UNCHANGED <<rows, image>>
      BY Zenon DEF Fail
    <3> QED
      BY <2>1, <3>1, <3>2
  <2> QED
    BY <1>1, <2>1, <2>2, EarlyWritten
<1>3. CASE ParseEnd
  <2>1. phase = "parse" /\ phase' = "place" /\ UNCHANGED <<rows, image>>
    BY <1>3 DEF ParseEnd
  <2> QED
    BY <1>1, <2>1, EarlyWritten
<1>4. CASE Place
  <2>1. phase = "place"
    BY <1>4 DEF Place
  <2>2. UNCHANGED <<rows, image>> /\ phase' \in {"failed", "grow"}
    BY <1>4, PlaceKeeps
  <2> QED
    BY <1>1, <2>1, <2>2, EarlyWritten
<1>5. CASE Grow
  <2>1. phase = "grow" /\ phase' \in {"failed", "place", "emit"} /\ UNCHANGED <<rows, image>>
    BY <1>5, GrowKeeps
  <2> QED
    BY <1>1, <2>1, EarlyWritten
<1>6. CASE Emit
  BY <1>6, EmitWritten
<1>7. CASE Done
  <2>1. phase = "emit" /\ Len(rows) = Len(insns) /\ phase' = "done"
        /\ UNCHANGED <<insns, syms, rows, image>>
    BY <1>7 DEF Done
  <2> QED
    BY <2>1, WrittenSame
<1>8. CASE UNCHANGED vars
  BY <1>8, WrittenSame DEF vars
<1> QED
  BY <1>2, <1>3, <1>4, <1>5, <1>6, <1>7, <1>8 DEF Next
-----------------------------------------------------------------------------
(* No address is too high for eight bytes. *)
LEMMA LinesBound ==
    ASSUME source \in Sources, NEW n \in 0 .. Len(source)
    PROVE  Len(LinesOf(source)[n]) \in 0 .. n
<1> DEFINE f == LinesOf(source)
           m == Len(source)
           T == {k \in Nat : k <= m => Len(f[k]) <= k}
<1>1. /\ m \in Nat /\ f[0] = <<>>
      /\ \A k \in 0 .. m : f[k] \in Seq(ToSet(source)) /\ Len(f[k]) \in Nat
      /\ \A k \in 1 .. m : f[k] = IF Blank(source[k]) THEN f[k - 1] ELSE Append(f[k - 1], source[k])
  BY SourceLines
<1>2. n \in 0 .. m
  OBVIOUS
<1> HIDE DEF f, m
<1>3. 0 \in T
  BY <1>1
<1>4. ASSUME NEW k \in T PROVE k + 1 \in T
  <2>1. CASE k + 1 <= m
    <3>1. k \in 0 .. m /\ k + 1 \in 1 .. m /\ (k + 1) - 1 = k /\ Len(f[k]) <= k
      BY <1>1, <2>1
    <3>2. f[k + 1] = IF Blank(source[k + 1]) THEN f[k] ELSE Append(f[k], source[k + 1])
      BY <1>1, <3>1
    <3>3. f[k] \in Seq(ToSet(source)) /\ Len(f[k]) \in Nat
      BY <1>1, <3>1
    <3>4. Len(f[k + 1]) \in {Len(f[k]), Len(f[k]) + 1}
      <4> DEFINE g == f[k]
      <4> HIDE DEF g
      <4>1. g \in Seq(ToSet(source)) => Len(Append(g, source[k + 1])) = Len(g) + 1
        BY AppendProperties
      <4> QED
        BY <3>2, <3>3, <4>1 DEF g
    <3> QED
      BY <2>1, <3>1, <3>3, <3>4
  <2> QED
    BY <2>1
<1> HIDE DEF T
<1>5. T = Nat
  BY <1>3, <1>4, Induction DEF T
<1>6. n \in T
  BY <1>1, <1>2, <1>5
<1>7. Len(f[n]) \in Nat
  BY <1>1, <1>2
<1>8. Len(f[n]) \in 0 .. n
  BY <1>1, <1>2, <1>6, <1>7 DEF T
<1> QED
  BY <1>8 DEF f

LEMMA LayoutBound ==
    ASSUME NEW code, Program(code), NEW top \in Nat,
           \A j \in 1 .. Len(code) : AlignedUp(InsnSize(code[j])) <= top
    PROVE  \A k \in 1 .. Len(code) + 1 : Layout(code)[k] \in 0 .. Len(code) * top
<1> DEFINE n == Len(code)
           f == Layout(code)
           d(j) == AlignedUp(InsnSize(code[j]))
           T == {k \in Nat : k <= n => f[k + 1] <= k * top}
<1>1. /\ n \in Nat /\ f \in [1 .. n + 1 -> Nat] /\ f[1] = 0
      /\ \A j \in 1 .. n : f[j + 1] = f[j] + d(j)
  BY ProgramLayout
<1>2. \A j \in 1 .. n : d(j) \in Nat /\ d(j) <= top
  BY NarrowProgram, NarrowSizes
<1> HIDE DEF n, f, d
<1>3. 0 \in T
  BY <1>1
<1>4. ASSUME NEW k \in T PROVE k + 1 \in T
  <2>1. CASE k + 1 <= n
    <3>1. k + 1 \in 1 .. n /\ f[k + 1] <= k * top
      BY <1>1, <2>1
    <3>2. f[(k + 1) + 1] = f[k + 1] + d(k + 1) /\ d(k + 1) \in Nat /\ d(k + 1) <= top
      BY <1>1, <1>2, <3>1
    <3>3. f[k + 1] \in Nat
      BY <1>1, <3>1
    <3>4. (k + 1) * top = k * top + top /\ k * top \in Nat
      OBVIOUS
    <3>5. f[(k + 1) + 1] <= (k + 1) * top
      BY <3>1, <3>2, <3>3, <3>4
    <3> QED
      BY <3>5
  <2> QED
    BY <2>1
<1> HIDE DEF T
<1>5. T = Nat
  BY <1>3, <1>4, Induction DEF T
<1>6. ASSUME NEW k \in 1 .. n + 1 PROVE f[k] \in 0 .. n * top
  <2>1. k - 1 \in T /\ (k - 1) + 1 = k /\ k - 1 <= n
    BY <1>1, <1>5
  <2>2. f[k] <= (k - 1) * top /\ f[k] \in Nat
    BY <1>1, <2>1 DEF T
  <2>3. \A x, y \in Nat : x <= y => x * top <= y * top /\ x * top \in Nat /\ y * top \in Nat
    OBVIOUS
  <2>4. (k - 1) * top <= n * top /\ (k - 1) * top \in Nat /\ n * top \in Nat
    BY <1>1, <2>1, <2>3
  <2> QED
    BY <2>2, <2>4
<1> QED
  BY <1>6 DEF f, n

LEMMA AddressesFit ==
    ASSUME RelaxInv, Parsed, Settled, phase \in {"emit", "done"}, NEW j \in Referring
    PROVE  Fits(Value(j), 8)
<1> DEFINE n == Len(insns)
           top == AlignedUp(12)
           k == SpotOf(j, Narrow(insns), pending)
           i == IF Relative(Narrow(insns)[j]) THEN j ELSE 1
           a == Layout(insns)[k]
           b == Layout(insns)[i]
<1>1. Program(insns) /\ source \in Sources /\ n \in Nat /\ Len(Narrow(insns)) = n
  BY NarrowProgram DEF RelaxInv, Typed
<1>2. j \in 1 .. n /\ Lands(j)
  BY DEF Referring, Settled
<1>3. k \in 1 .. n + 1 /\ i \in 1 .. n + 1 /\ Value(j) = a - b
  BY <1>1, <1>2 DEF Lands, Value, ValueIn
<1>4. top \in Nat
  BY RoundsUp
<1>5. \A l \in 1 .. n : AlignedUp(InsnSize(insns[l])) <= top
  <2> SUFFICES ASSUME NEW l \in 1 .. n PROVE AlignedUp(InsnSize(insns[l])) <= top
    OBVIOUS
  <2>1. InsnSize(insns[l]) \in 2 .. 12
    BY <1>1, Encodes
  <2> QED
    BY <2>1, RoundsUpInOrder
<1> HIDE DEF i, k, top
<1>6. a \in 0 .. n * top /\ b \in 0 .. n * top
  BY <1>1, <1>3, <1>4, <1>5, LayoutBound
<1>7. n <= Len(source) /\ Len(source) \in Nat
  <2>1. Len(source) \in Nat /\ next \in 1 .. Len(source) + 1
    BY <1>1, SourceLines DEF Parsed
  <2>2. next - 1 \in 0 .. Len(source)
    BY <2>1
  <2>3. Len(LinesOf(source)[next - 1]) \in 0 .. next - 1
    BY <1>1, <2>2, LinesBound
  <2>4. Len(LinesOf(source)[next - 1]) = n
    BY <1>1 DEF Parsed, ParsedTo
  <2> QED
    BY <2>1, <2>3, <2>4
<1>8. 2 * (Len(source) * top) < Power[8] /\ Power[8] \in Nat
  BY <1>1, LengthAssumption, Powers DEF top
<1>9. n * top <= Len(source) * top /\ n * top \in Nat /\ Len(source) * top \in Nat
  <2>1. \A x, y \in Nat : x <= y => x * top <= y * top /\ x * top \in Nat /\ y * top \in Nat
    BY <1>4
  <2> QED
    BY <1>1, <1>7, <2>1
<1> HIDE DEF a, b, n
<1>10. 2 * (a - b) < Power[8] /\ -Power[8] <= 2 * (a - b)
  BY <1>6, <1>8, <1>9
<1> QED
  BY <1>3, <1>10 DEF Fits

LEMMA PayloadFits ==
    ASSUME RelaxInv, Parsed, Settled, phase \in {"emit", "done"},
           NEW j \in 1 .. Len(insns), LastIsImm(insns[j])
    PROVE  /\ Fits(Payload(j), ImmBytes(insns[j]))
           /\ Refers(insns[j]) =>
                \A n \in 1 .. ImmBytes(insns[j]) - 1 : ~Fits(Payload(j), n)
<1> DEFINE insn == insns[j]
           s == LastSlot(insn)
<1>1. Program(insns) /\ insn \in Insns /\ Shaped(insn)
  BY NarrowProgram DEF RelaxInv, Typed
<1>2. /\ Len(insn.slots) \in 1 .. 3 /\ s = insn.slots[Len(insn.slots)]
      /\ s \in Slots /\ s.k \in {"num", "sym"} /\ ImmBytes(insn) = SlotSize(s)
  BY <1>1, SlotKinds, ImmRange
<1>3. CASE s.k = "sym"
  <2>1. Refers(insn) /\ j \in Referring
    <3>1. Refers(insn)
      <4> DEFINE n == Len(insn.slots)
      <4>1. n \in 1 .. 3
        BY <1>2
      <4> HIDE DEF n
      <4>2. n > 0
        BY <4>1
      <4> QED
        BY <1>3, <4>2 DEF Refers, n
    <3> QED
      BY <3>1 DEF Referring
  <2>2. Lands(j) /\ s.width = SymWidth(Value(j))
    BY <2>1 DEF Settled, WidthOf
  <2>3. Value(j) \in Int
    BY <1>1, <2>2, ValueStretches DEF Value, Lands
  <2>4. Payload(j) = Value(j) /\ ImmBytes(insn) = SymWidth(Value(j))
    BY <1>2, <1>3, <2>1, <2>2, SlotSizes DEF Payload
  <2>5. Fits(Value(j), 8)
    BY <2>1, AddressesFit
  <2> QED
    BY <2>3, <2>4, <2>5, WidthNeeded
<1>4. CASE s.k = "num"
  <2>1. ~Refers(insn)
    BY <1>4 DEF Refers
  <2>2. Payload(j) = s.n
    BY <2>1 DEF Payload
  <2>3. ImmBytes(insn) = NumBytes(s.n)
    BY <1>2, <1>4, SlotSizes
  <2>4. Fits(s.n, 8)
    <3> DEFINE n == Len(insn.slots)
    <3>1. n \in 1 .. 3 /\ s = insn.slots[n]
      BY <1>2
    <3> HIDE DEF s, n
    <3>2. n \in 1 .. n
      BY <3>1
    <3>3. insn.slots[n].k = "num" => Fits(insn.slots[n].n, 8)
      BY <1>1, <3>2, ShapedFields DEF n
    <3> QED
      BY <1>4, <3>1, <3>3
  <2>5. Fits(s.n, NumBytes(s.n))
    <3>1. CASE s.n = 0
      <4>1. NumBytes(s.n) = 0
        BY <3>1 DEF NumBytes
      <4>2. Fits(0, 0)
        BY Powers DEF Fits
      <4> QED
        BY <3>1, <4>1, <4>2
    <3>2. CASE s.n # 0
      BY <2>4, <3>2, BytesNeeded
    <3> QED
      BY <3>1, <3>2
  <2> QED
    BY <2>1, <2>2, <2>3, <2>5
<1> QED
  BY <1>2, <1>3, <1>4
-----------------------------------------------------------------------------
Whole == RelaxInv /\ NeverGivesUp /\ Parsed /\ Named /\ Tight /\ Settled /\ Written

LEMMA WholeInit == ASSUME Init PROVE Whole
<1>1. phase = "parse" /\ insns = <<>> /\ rows = <<>> /\ image = <<>>
  BY Zenon DEF Init
<1>2. NeverGivesUp
  BY Zenon DEF Init, NeverGivesUp
<1>3. Referring = {}
  <2>1. Len(insns) = 0
    BY <1>1
  <2> QED
    BY <2>1 DEF Referring
<1>4. Named /\ Tight /\ Settled /\ Written
  BY <1>1, <1>3 DEF Named, Tight, Settled, Written
<1> QED
  BY <1>2, <1>4, RelaxInit, ParsedInit DEF Whole

LEMMA WholeStep == ASSUME Whole, [Next]_vars PROVE Whole'
<1>1. RelaxInv' /\ NeverGivesUp'
  BY RelaxStep DEF Whole
<1>2. Parsed' /\ Named'
  BY <1>1, NamedStep DEF Whole
<1>3. Tight' /\ Settled'
  BY <1>1, TightStep DEF Whole
<1>4. Written'
  BY <1>1, WrittenStep DEF Whole
<1> QED
  BY <1>1, <1>2, <1>3, <1>4 DEF Whole

(* An accepted program has an instruction and a row for every line. *)
LEMMA Accepted ==
    ASSUME Whole, phase = "done"
    PROVE  /\ Program(insns) /\ source \in Sources /\ Len(insns) \in Nat
           /\ Len(rows) = Len(insns) /\ Len(Lines) = Len(insns) /\ DOMAIN rows = 1 .. Len(insns)
           /\ next - 1 = Len(source) /\ Len(source) \in Nat
           /\ \A k \in 1 .. Len(insns) :
                InsnOf(Narrow(insns)[k], Lines[k])
                /\ Narrow(insns)[k] = NarrowInsn(insns[k])
<1>1. Program(insns) /\ source \in Sources
  BY DEF Whole, RelaxInv, Typed
<1>2. Len(insns) \in Nat /\ Len(Narrow(insns)) = Len(insns)
      /\ \A k \in 1 .. Len(insns) : Narrow(insns)[k] = NarrowInsn(insns[k])
  BY <1>1, NarrowProgram
<1>3. Len(source) \in Nat
  BY <1>1, SourceLines
<1>4. next = Len(source) + 1
  BY DEF Whole, Parsed
<1>5. next - 1 = Len(source)
  BY <1>3, <1>4
<1>6. ParsedTo(Len(source), Narrow(insns), pending)
  BY <1>5 DEF Whole, Parsed
<1>7. Len(Lines) = Len(insns) /\ \A k \in 1 .. Len(insns) : InsnOf(Narrow(insns)[k], Lines[k])
  BY <1>2, <1>6 DEF ParsedTo, Lines
<1>8. Len(rows) = Len(insns) /\ rows \in Seq(ListingRow)
  BY DEF Whole, Written
<1>9. DOMAIN rows = 1 .. Len(insns)
  BY <1>8
<1> QED
  BY <1>1, <1>2, <1>3, <1>5, <1>7, <1>8, <1>9

(* What its slots hold is what the line says. *)
LEMMA SlotsMatch ==
    ASSUME Whole, phase = "done", NEW k \in 1 .. Len(insns)
    PROVE  /\ insns[k].mnemonic = Lines[k].mnemonic
           /\ Matches(insns[k].slots, Operands(Lines[k]))
           /\ Arranged(insns[k])
<1> DEFINE insn == insns[k]
           low == NarrowInsn(insn)
           line == Lines[k]
           ops == Operands(line)
           n == Len(insn.slots)
<1>1. insn \in Insns /\ Shaped(insn) /\ InsnOf(low, line)
  BY Accepted, NarrowProgram
<1>2. /\ low \in Insns /\ Shaped(low) /\ low.mnemonic = insn.mnemonic /\ Len(low.slots) = n
      /\ low.mnemonic = line.mnemonic /\ low.slots = BuildSlots(line.mnemonic, line.args)
  BY <1>1, NarrowInsns DEF InsnOf
<1>3. line.mnemonic \in Mnemonics
  BY <1>1, <1>2, InsnFields
<1>4. /\ DOMAIN line.args = 1 .. Len(line.args) /\ Len(line.args) \in Nat
      /\ \A i \in 1 .. Len(line.args) : Token(line.args[i])
  <2>1. source \in Sources /\ Len(source) \in Nat /\ k \in 1 .. Len(LinesOf(source)[Len(source)])
    BY Accepted DEF Lines
  <2>2. Len(source) \in 0 .. Len(source)
    BY <2>1
  <2> QED
    BY <2>1, <2>2, LinesTyped DEF Lines
<1> HIDE DEF low, line
<1>5. \A i \in DOMAIN low.slots : low.slots[i].k # "bad"
  BY <1>2, InsnFields
<1>6. /\ Matches(low.slots, ops)
      /\ LET op == Find(line.mnemonic)[2] IN
         /\ op \in Binary \cup Mem => Len(low.slots) = 3
         /\ op \in Unary => Len(low.slots) = 2
         /\ op \in Branch => Len(low.slots) = 1
         /\ op \in {Nop, Halt} => Len(low.slots) = 0
         /\ op = Trap => Len(low.slots) <= 1
  BY <1>2, <1>3, <1>4, <1>5, OperandsMatch
<1>7. OpcodeOf(insn) = Find(line.mnemonic)[2]
  BY <1>2 DEF OpcodeOf
<1>8. Arranged(insn)
  BY <1>2, <1>6, <1>7 DEF Arranged
<1>9. n = Len(ops) /\ n \in 0 .. 3 /\ \A i \in 1 .. n : Stands(low.slots[i], ops[i])
  BY <1>2, <1>6 DEF Matches
<1>10. ASSUME NEW i \in 1 .. n PROVE Stands(insn.slots[i], ops[i])
  <2>1. DOMAIN insn.slots = 1 .. n /\ insn.slots[i] \in Slots
    BY <1>1, InsnFields
  <2>2. low.slots = [l \in DOMAIN insn.slots |-> NarrowSlot(insn.slots[l])]
    BY DEF low, NarrowInsn
  <2>3. low.slots[i] = NarrowSlot(insn.slots[i])
    BY <2>1, <2>2
  <2>4. Stands(NarrowSlot(insn.slots[i]), ops[i])
    BY <1>9, <2>3
  <2> DEFINE s == insn.slots[i]
             t == ops[i]
  <2> HIDE DEF s, t
  <2>5. NarrowSlot(s).k = s.k /\ NarrowSlot(s).n = s.n /\ NarrowSlot(s).name = s.name
    BY <2>1, NarrowSlots DEF s
  <2>6. Stands(s, t)
    BY <2>4, <2>5 DEF Stands, s, t
  <2> QED
    BY <2>6 DEF s, t
<1>11. Matches(insn.slots, ops)
  BY <1>9, <1>10 DEF Matches
<1> QED
  BY <1>2, <1>8, <1>11 DEF line

(* What a simulator finds at the address of a row. *)
LEMMA FinalRow ==
    ASSUME Whole, phase = "done", NEW k \in 1 .. Len(insns)
    PROVE  /\ Decodes(FrameOf(rows[k]), insns[k], Payload(k), Len(rows[k].bytes))
           /\ Payload(k) \in Int /\ Len(rows[k].bytes) \in 2 .. 12
           /\ rows[k].addr = Layout(insns)[k] /\ Layout(insns)[k] \in Nat
           /\ Layout(insns)[k + 1] = Layout(insns)[k] + AlignedUp(Len(rows[k].bytes))
           /\ InImage(Layout(insns)[k], rows[k].bytes, image)
<1> DEFINE insn == insns[k]
           bytes == Encode(insn)
           at == Layout(insns)[k]
           f == FrameOf(rows[k])
           len == Len(bytes)
<1>1. Program(insns) /\ Len(insns) \in Nat /\ Len(rows) = Len(insns)
  BY Accepted
<1>2. insn \in Insns /\ Shaped(insn) /\ Arranged(insn)
  BY <1>1, NarrowProgram, SlotsMatch
<1>3. /\ Payload(k) \in Int /\ EncodedAs(bytes, insn, Payload(k))
      /\ len = InsnSize(insn) /\ len \in 2 .. 12
  BY <1>1, Encodes DEF Whole
<1>4. WrittenRow(rows[k], at, bytes, image) /\ image \in Seq(Int)
      /\ Len(image) = Layout(insns)[Len(insns) + 1]
  BY <1>1 DEF Whole, Written
<1>5. rows[k].addr = at /\ rows[k].bytes = bytes /\ InImage(at, bytes, image)
  BY <1>4 DEF WrittenRow
<1>6. at \in Nat /\ Layout(insns)[k + 1] = at + AlignedUp(len) /\ Layout(insns)[k + 1] <= Len(image)
  <2>1. /\ Layout(insns) \in [1 .. Len(insns) + 1 -> Nat]
        /\ Layout(insns)[k + 1] = Layout(insns)[k] + AlignedUp(InsnSize(insns[k]))
    BY <1>1, ProgramLayout
  <2>2. k \in 1 .. Len(insns) + 1 /\ k + 1 \in 1 .. Len(insns) + 1
        /\ Len(insns) + 1 \in 1 .. Len(insns) + 1 /\ k + 1 <= Len(insns) + 1
    BY <1>1
  <2>3. Layout(insns)[k + 1] <= Layout(insns)[Len(insns) + 1]
    BY <1>1, <2>2, LayoutRises
  <2> QED
    BY <1>3, <1>4, <2>1, <2>2, <2>3
<1> HIDE DEF bytes, len, at, f
<1>7. AlignedUp(len) \in Nat /\ AlignedUp(len) >= len
  <2>1. len \in Nat
    BY <1>3
  <2> QED
    BY <2>1, RoundsUp
<1>8. \A i \in 0 .. len - 1 : f[i] = bytes[i + 1]
  <2> SUFFICES ASSUME NEW i \in 0 .. len - 1 PROVE f[i] = bytes[i + 1]
    OBVIOUS
  <2>1. i \in 0 .. 13 - 1 /\ i + 1 \in 1 .. AlignedUp(len) /\ i + 1 <= len
    <3>1. len \in 2 .. 12 /\ AlignedUp(len) \in Nat /\ AlignedUp(len) >= len
      BY <1>3, <1>7
    <3> QED
      BY <3>1
  <2>2. at + i < Len(image)
    <3> HIDE DEF Layout
    <3>1. Len(image) \in Nat
      BY <1>4
    <3> QED
      BY <1>3, <1>6, <1>7, <2>1, <3>1
  <2>3. f[i] = image[at + i + 1]
    BY <1>5, <2>1, <2>2 DEF FrameOf, MaxInsnBytes, f
  <2>4. image[at + (i + 1)] = bytes[i + 1]
    BY <1>5, <2>1 DEF InImage, len
  <2>5. at + i + 1 = at + (i + 1)
    BY <1>6
  <2> QED
    BY <2>3, <2>4, <2>5
<1>9. Decodes(f, insn, Payload(k), len)
  BY <1>2, <1>3, <1>8, Decoded DEF len
<1> QED
  BY <1>3, <1>5, <1>6, <1>9 DEF f, bytes, len, at
-----------------------------------------------------------------------------
(* What a row says, operand by operand. *)
LEMMA LastOperand ==
    ASSUME Whole, phase = "done", NEW k \in 1 .. Len(insns), Len(Operands(Lines[k])) > 0
    PROVE  LET insn == insns[k]
               ops == Operands(Lines[k])
               last == ops[Len(ops)]
           IN /\ Len(ops) = Len(insn.slots) /\ Len(insn.slots) \in 1 .. 3
              /\ Stands(LastSlot(insn), last)
              /\ LastIsImm(insn) <=> ~IsReg(last)
              /\ Refers(insn) <=> ~IsReg(last) /\ last.t # "num"
<1> DEFINE insn == insns[k]
           ops == Operands(Lines[k])
           n == Len(insn.slots)
           last == ops[Len(ops)]
           s == LastSlot(insn)
<1>1. Len(ops) = n /\ n \in 0 .. 3 /\ \A i \in 1 .. n : Stands(insn.slots[i], ops[i])
  BY SlotsMatch DEF Matches
<1>2. n > 0
  BY <1>1
<1>3. n \in 1 .. n /\ s = insn.slots[n] /\ last = ops[n]
  BY <1>1, <1>2 DEF LastSlot
<1>4. Stands(s, last)
  BY <1>1, <1>3
<1>5. LastIsImm(insn) <=> s.k # "reg"
  BY <1>2 DEF LastIsImm, LastSlot
<1>6. Refers(insn) <=> s.k = "sym"
  BY <1>2 DEF Refers
<1> HIDE DEF s, last
<1>7. LastIsImm(insn) <=> ~IsReg(last)
  BY <1>4, <1>5 DEF Stands
<1>8. Refers(insn) <=> ~IsReg(last) /\ last.t # "num"
  BY <1>4, <1>6 DEF Stands
<1> QED
  BY <1>1, <1>2, <1>4, <1>7, <1>8 DEF s, last

LEMMA RowPayload ==
    ASSUME Whole, phase = "done", NEW k \in 1 .. Len(insns), LastIsImm(insns[k]),
           OpcodeOf(insns[k]) \notin {Nop, Trap, Halt}
    PROVE  /\ PayloadOf(FrameOf(rows[k])) = Payload(k)
           /\ ImmLen(FrameOf(rows[k])) = ImmBytes(insns[k])
<1> DEFINE f == FrameOf(rows[k])
           insn == insns[k]
           n == Len(insn.slots)
           w == ImmBytes(insn)
           v == Payload(k)
<1>1. insn \in Insns /\ Shaped(insn) /\ n \in Nat
  BY Accepted, NarrowProgram, InsnFields
<1>2. /\ OperandAt(f) = n + 1 /\ ImmLen(f) = w
      /\ \A i \in 1 .. w : f[n + i] = (v \div Power[w - i]) % ByteSize
      /\ v \in Int
  BY FinalRow DEF Decodes
<1>3. w \in Nat
  BY <1>1, ImmRange
<1>4. Fits(v, w)
  BY PayloadFits DEF Whole
<1>5. (OperandAt(f) - 1) = n
  BY <1>1, <1>2
<1> HIDE DEF f, n, w, v
<1>6. OperandAt(f) \in Nat /\ ImmLen(f) \in Nat /\ Fits(v, ImmLen(f))
      /\ \A i \in 1 .. ImmLen(f) :
           f[(OperandAt(f) - 1) + i] = (v \div Power[ImmLen(f) - i]) % ByteSize
  BY <1>1, <1>2, <1>3, <1>4, <1>5
<1>7. PayloadOf(f) = v
  BY <1>2, <1>6, PayloadIs
<1> QED
  BY <1>2, <1>7 DEF f, w, v

LEMMA RowSays ==
    ASSUME Whole, phase = "done", NEW k \in 1 .. Len(insns)
    PROVE  Says(Lines[k], FrameOf(rows[k]))
<1> DEFINE f == FrameOf(rows[k])
           insn == insns[k]
           line == Lines[k]
           ops == Operands(line)
           n == Len(insn.slots)
           last == ops[Len(ops)]
           v == Payload(k)
<1>1. insn \in Insns /\ Shaped(insn) /\ insn.mnemonic = line.mnemonic /\ Arranged(insn)
      /\ Len(ops) = n /\ n \in 0 .. 3 /\ \A i \in 1 .. n : Stands(insn.slots[i], ops[i])
  BY Accepted, NarrowProgram, SlotsMatch DEF Matches
<1>2. /\ NameRead(f) = insn.mnemonic /\ Opcode(f) = OpcodeOf(insn)
      /\ \A i \in 1 .. RegCount(insn) : f[i + 1] = insn.slots[i].n
      /\ OpcodeOf(insn) \notin {Nop, Trap, Halt} =>
           OperandAt(f) = n + 1 /\ (IsImm(f) <=> LastIsImm(insn))
  BY FinalRow DEF Decodes
<1>3. /\ RegCount(insn) \in 0 .. n
      /\ \A i \in 1 .. n : insn.slots[i].k = "reg" <=> i <= RegCount(insn)
      /\ LastIsImm(insn) => RegCount(insn) = n - 1
      /\ ~LastIsImm(insn) => RegCount(insn) = n
  BY <1>1, SlotKinds
<1>4. ASSUME NEW i \in 1 .. n, insn.slots[i].k = "reg" PROVE f[i + 1] = ops[i].n
  <2>1. i \in 1 .. RegCount(insn)
    BY <1>3, <1>4
  <2>2. f[i + 1] = insn.slots[i].n
    BY <1>2, <2>1
  <2>3. insn.slots[i].n = ops[i].n
    BY <1>1, <1>4 DEF Stands
  <2> QED
    BY <2>2, <2>3
<1>5. \A i \in 1 .. Len(ops) - 1 : f[i + 1] = ops[i].n
  <2> SUFFICES ASSUME NEW i \in 1 .. Len(ops) - 1 PROVE f[i + 1] = ops[i].n
    OBVIOUS
  <2> HIDE DEF n, ops
  <2>1. i \in 1 .. n /\ i <= RegCount(insn)
    BY <1>1, <1>3
  <2>2. insn.slots[i].k = "reg"
    BY <1>3, <2>1
  <2> QED
    BY <1>4, <2>1, <2>2
<1>6. ASSUME Len(ops) > 0, Opcode(f) # Trap
      PROVE  /\ OperandAt(f) = Len(ops) + 1
             /\ IsImm(f) # IsReg(last)
             /\ IsReg(last) => f[OperandAt(f)] = last.n
             /\ last.t = "num" => PayloadOf(f) = last.n
  <2>1. OpcodeOf(insn) \notin {Nop, Trap, Halt}
    BY <1>1, <1>2, <1>6 DEF Arranged
  <2>2. /\ n > 0 /\ Stands(LastSlot(insn), last)
        /\ LastIsImm(insn) <=> ~IsReg(last)
        /\ Refers(insn) <=> ~IsReg(last) /\ last.t # "num"
    BY <1>1, <1>6, LastOperand
  <2>3. OperandAt(f) = n + 1 /\ (IsImm(f) <=> ~IsReg(last))
    BY <1>2, <2>1, <2>2
  <2>4. IsImm(f) \in BOOLEAN /\ IsReg(last) \in BOOLEAN
    <3>1. IsReg(last) \in BOOLEAN
      BY DEF IsReg
    <3>2. IsImm(f) \in BOOLEAN
      BY DEF IsImm, FlagBit, HasOperand
    <3> QED
      BY <3>1, <3>2
  <2>5. IsImm(f) # IsReg(last)
    BY <2>3, <2>4
  <2>6. n \in 1 .. n /\ LastSlot(insn) = insn.slots[n]
    BY <1>1, <2>2 DEF LastSlot
  <2>7. IsReg(last) => f[n + 1] = last.n
    <3>1. ASSUME IsReg(last) PROVE insn.slots[n].k = "reg" /\ last = ops[n]
      BY <1>1, <2>2, <2>6, <3>1 DEF Stands
    <3> QED
      BY <1>4, <2>6, <3>1
  <2>8. ASSUME last.t = "num" PROVE PayloadOf(f) = last.n
    <3>1. LastSlot(insn).k = "num" /\ LastSlot(insn).n = last.n
      BY <2>2, <2>8 DEF Stands
    <3>2. LastIsImm(insn) /\ ~Refers(insn)
      BY <2>2, <2>6, <3>1 DEF LastIsImm, Refers
    <3>3. v = last.n
      BY <3>1, <3>2 DEF Payload
    <3>4. PayloadOf(f) = v
      BY <2>1, <3>2, RowPayload
    <3> QED
      BY <3>3, <3>4
  <2> QED
    BY <1>1, <2>3, <2>5, <2>7, <2>8
<1> HIDE DEF f, ops, line, last
<1>7. Says(line, f)
  BY <1>1, <1>2, <1>5, <1>6 DEF Says, ops, last
<1> QED
  BY <1>7 DEF f, line
-----------------------------------------------------------------------------
LEMMA WholeReadsBack == ASSUME Whole, phase = "done" PROVE ReadsBack
<1>1. Program(insns) /\ Len(insns) \in Nat
      /\ Len(rows) = Len(insns) /\ Len(Lines) = Len(insns) /\ DOMAIN rows = 1 .. Len(insns)
  BY Accepted
<1>2. Len(image) = Layout(insns)[Len(insns) + 1]
  BY <1>1 DEF Whole, Written
<1>3. ASSUME NEW k \in DOMAIN rows
      PROVE  LET f == FrameOf(rows[k])
                 end == IF k < Len(rows) THEN rows[k + 1].addr ELSE Len(image)
             IN /\ Says(Lines[k], f)
                /\ LenOf(f) = Len(rows[k].bytes)
                /\ Opcode(f) = Trap \/ (~SimIllegal(f) /\ WellFormed(f))
                /\ \A i \in LenOf(f) .. end - rows[k].addr - 1 : image[rows[k].addr + i + 1] = 0
                /\ end = rows[k].addr + AlignedUp(LenOf(f))
  <2> DEFINE f == FrameOf(rows[k])
             end == IF k < Len(rows) THEN rows[k + 1].addr ELSE Len(image)
             bytes == rows[k].bytes
             len == Len(bytes)
             at == rows[k].addr
  <2>1. k \in 1 .. Len(insns)
    BY <1>1, <1>3
  <2>2. /\ Opcode(f) = OpcodeOf(insns[k]) /\ LenOf(f) = len
        /\ OpcodeOf(insns[k]) # Trap => ~SimIllegal(f) /\ WellFormed(f)
        /\ len \in 2 .. 12 /\ at = Layout(insns)[k] /\ at \in Nat
        /\ Layout(insns)[k + 1] = at + AlignedUp(len)
        /\ InImage(at, bytes, image)
    BY <2>1, FinalRow DEF Decodes
  <2>3. end = at + AlignedUp(len)
    <3>1. CASE k < Len(rows)
      <4>1. k + 1 \in 1 .. Len(insns)
        BY <1>1, <2>1, <3>1
      <4>2. rows[k + 1].addr = Layout(insns)[k + 1]
        BY <4>1, FinalRow
      <4> QED
        BY <2>2, <3>1, <4>2
    <3>2. CASE ~(k < Len(rows))
      <4>1. k = Len(insns)
        BY <1>1, <2>1, <3>2
      <4>2. Len(image) = Layout(insns)[k + 1]
        BY <1>2, <4>1
      <4> QED
        BY <2>2, <3>2, <4>2
    <3> QED
      BY <3>1, <3>2
  <2>4. AlignedUp(len) \in Nat
    <3>1. len \in Nat
      BY <2>2
    <3> QED
      BY <3>1, RoundsUp
  <2> HIDE DEF f, end, bytes, len, at
  <2>5. ASSUME NEW i \in len .. end - at - 1 PROVE image[at + i + 1] = 0
    <3>1. i + 1 \in 1 .. AlignedUp(len) /\ ~(i + 1 <= len) /\ at + i + 1 = at + (i + 1)
      BY <2>2, <2>3, <2>4
    <3>2. image[at + (i + 1)] = 0
      BY <2>2, <3>1 DEF InImage, len
    <3> QED
      BY <3>1, <3>2
  <2>6. Says(Lines[k], f)
    BY <2>1, RowSays DEF f
  <2> QED
    BY <2>2, <2>3, <2>5, <2>6 DEF f, end, bytes, len, at
<1> QED
  BY <1>1, <1>3 DEF ReadsBack

(* A row whose line refers to a label. *)
LEMMA RowRefers ==
    ASSUME Whole, phase = "done", NEW k \in References, Opcode(FrameOf(rows[k])) # Trap
    PROVE  /\ k \in Referring /\ LastIsImm(insns[k])
           /\ LastSlot(insns[k]).name = LabelOf(k)
           /\ Opcode(FrameOf(rows[k])) = OpcodeOf(insns[k])
           /\ PayloadOf(FrameOf(rows[k])) = Value(k)
           /\ ImmLen(FrameOf(rows[k])) = ImmBytes(insns[k])
<1> DEFINE insn == insns[k]
           ops == Operands(Lines[k])
           last == ops[Len(ops)]
<1>1. k \in 1 .. Len(insns) /\ Len(ops) > 0 /\ ~IsReg(last) /\ last.t # "num"
  BY Accepted DEF References
<1>2. /\ Len(insn.slots) \in 1 .. 3 /\ Stands(LastSlot(insn), last)
      /\ LastIsImm(insn) /\ Refers(insn)
  BY <1>1, LastOperand
<1>3. k \in Referring
  BY <1>1, <1>2 DEF Referring
<1>4. LastSlot(insn).name = LabelOf(k)
  BY <1>1, <1>2 DEF Stands, LabelOf
<1>5. Opcode(FrameOf(rows[k])) = OpcodeOf(insn)
  BY <1>1, FinalRow DEF Decodes
<1>6. OpcodeOf(insn) \notin {Nop, Trap, Halt}
  <2> DEFINE op == OpcodeOf(insn)
             n == Len(insn.slots)
  <2>1. op \in {Nop, Halt} => n = 0
    BY <1>1, SlotsMatch DEF Arranged
  <2>2. op # Trap
    BY <1>5
  <2> HIDE DEF op, n
  <2>3. n > 0
    BY <1>2 DEF n, Refers
  <2>4. op \notin {Nop, Trap, Halt}
    BY <2>1, <2>2, <2>3
  <2> QED
    BY <2>4 DEF op
<1>7. PayloadOf(FrameOf(rows[k])) = Payload(k) /\ ImmLen(FrameOf(rows[k])) = ImmBytes(insn)
  BY <1>1, <1>2, <1>6, RowPayload
<1>8. Payload(k) = Value(k)
  BY <1>2 DEF Payload
<1> QED
  BY <1>2, <1>3, <1>4, <1>5, <1>7, <1>8

LEMMA WholeShortest == ASSUME Whole, phase = "done" PROVE ShortestThatFits
<1>1. ASSUME NEW k \in References, Opcode(FrameOf(rows[k])) # Trap,
             NEW n \in 1 .. ImmLen(FrameOf(rows[k])) - 1
      PROVE  ~Fits(PayloadOf(FrameOf(rows[k])), n)
  <2>1. /\ k \in Referring /\ LastIsImm(insns[k])
        /\ PayloadOf(FrameOf(rows[k])) = Value(k)
        /\ ImmLen(FrameOf(rows[k])) = ImmBytes(insns[k])
    BY <1>1, RowRefers
  <2>2. k \in 1 .. Len(insns) /\ Refers(insns[k])
    BY <2>1 DEF Referring
  <2>3. Payload(k) = Value(k)
    BY <2>2 DEF Payload
  <2>4. \A i \in 1 .. ImmBytes(insns[k]) - 1 : ~Fits(Payload(k), i)
    BY <2>1, <2>2, PayloadFits DEF Whole
  <2> QED
    BY <1>1, <2>1, <2>3, <2>4
<1> QED
  BY <1>1 DEF ShortestThatFits

LEMMA WholeLands == ASSUME Whole, phase = "done" PROVE ReferencesLand
<1>1. ASSUME NEW k \in References, Opcode(FrameOf(rows[k])) # Trap
      PROVE  PayloadOf(FrameOf(rows[k]))
               + (IF Opcode(FrameOf(rows[k])) = 48 THEN rows[k].addr ELSE 0) \in PlacesOf(LabelOf(k))
  <2> DEFINE name == LabelOf(k)
             spot == Spot(name, Narrow(insns), pending)
             at == Layout(insns)[spot]
             f == FrameOf(rows[k])
  <2>1. /\ k \in Referring /\ LastSlot(insns[k]).name = name
        /\ Opcode(f) = OpcodeOf(insns[k]) /\ PayloadOf(f) = Value(k)
    BY <1>1, RowRefers
  <2>2. /\ Program(insns) /\ Len(insns) \in Nat /\ Len(rows) = Len(insns)
        /\ next - 1 = Len(source) /\ Len(source) \in Nat
        /\ Narrow(insns)[k] = NarrowInsn(insns[k]) /\ k \in 1 .. Len(insns)
        /\ Refers(insns[k])
    BY <2>1, Accepted DEF Referring
  <2>3. insns[k] \in Insns /\ Shaped(insns[k])
    BY <2>2, NarrowProgram
  <2>4. Known(k) /\ Lands(k)
    BY <2>1 DEF Whole, Settled
  <2>5. LastSlot(Narrow(insns)[k]).name = name /\ Narrow(insns)[k].mnemonic = insns[k].mnemonic
    <3>1. LastSlot(insns[k]) \in Slots /\ Len(insns[k].slots) > 0
      BY <2>2, <2>3, InsnFields DEF Refers, LastSlot
    <3>2. LastSlot(NarrowInsn(insns[k])) = NarrowSlot(LastSlot(insns[k]))
          /\ NarrowInsn(insns[k]).mnemonic = insns[k].mnemonic
      BY <2>3, <3>1, NarrowInsns
    <3>3. NarrowSlot(LastSlot(insns[k])).name = LastSlot(insns[k]).name
      BY <3>1, NarrowSlots
    <3> QED
      BY <2>1, <2>2, <3>2, <3>3
  <2>6. spot = SpotOf(k, Narrow(insns), pending) /\ spot \in 1 .. Len(insns) + 1
    BY <2>4, <2>5 DEF SpotOf, Lands
  <2>7. Relative(Narrow(insns)[k]) <=> OpcodeOf(insns[k]) = 48
    BY <2>5 DEF Relative, OpcodeOf
  <2>8. Value(k) = at - Layout(insns)[IF OpcodeOf(insns[k]) = 48 THEN k ELSE 1]
    BY <2>6, <2>7 DEF Value, ValueIn
  <2>9. rows[k].addr = Layout(insns)[k] /\ Layout(insns)[k] \in Nat
        /\ Layout(insns)[1] = 0 /\ at \in Nat
    BY <2>2, <2>6, FinalRow, ProgramLayout
  <2>10. Carried(Len(source), name, spot)
    BY <2>1, <2>2, <2>4 DEF Whole, Named, Known
  <2>11. at \in PlacesOf(name)
    <3> HIDE DEF name, spot, at
    <3>1. PICK l \in 1 .. Len(source) :
            name \in ToSet(source[l].labels) /\ Len(LinesOf(source)[l - 1]) + 1 = spot
      BY <2>10 DEF Carried
    <3>2. at = IF spot <= Len(rows) THEN rows[spot].addr ELSE Len(image)
      <4>1. CASE spot <= Len(rows)
        <5>1. spot \in 1 .. Len(insns)
          BY <2>2, <2>6, <4>1
        <5> QED
          BY <4>1, <5>1, FinalRow DEF at
      <4>2. CASE ~(spot <= Len(rows))
        <5>1. spot = Len(insns) + 1
          BY <2>2, <2>6, <4>2
        <5>2. Len(image) = Layout(insns)[Len(insns) + 1]
          BY <2>2 DEF Whole, Written
        <5> QED
          BY <4>2, <5>1, <5>2 DEF at
      <4> QED
        BY <4>1, <4>2
    <3>3. DOMAIN source = 1 .. Len(source)
      <4>1. source \in Seq(ToSet(source))
        BY Accepted, SourceLines
      <4> QED
        BY <4>1
    <3> QED
      BY <3>1, <3>2, <3>3 DEF PlacesOf
  <2>12. PayloadOf(f) + (IF Opcode(f) = 48 THEN rows[k].addr ELSE 0) = at
    <3> HIDE DEF at, f
    <3>1. CASE OpcodeOf(insns[k]) = 48
      BY <2>1, <2>8, <2>9, <3>1
    <3>2. CASE OpcodeOf(insns[k]) # 48
      BY <2>1, <2>8, <2>9, <3>2
    <3> QED
      BY <3>1, <3>2
  <2> QED
    BY <2>11, <2>12
<1> QED
  BY <1>1 DEF ReferencesLand

(* Every row of an accepted program reads back, at the address the listing *)
(* gives it, as the instruction its source line says, and the next row     *)
(* begins where its padding ends: the sizes the layout counted are the     *)
(* bytes that encode wrote.                                                *)
THEOREM ProgramReadsBack == Spec => []ReadsBack
<1>1. Init => Whole
  BY WholeInit
<1>2. Whole /\ [Next]_vars => Whole'
  BY WholeStep
<1>3. Whole => ReadsBack
  <2>1. phase # "done" => ReadsBack
    BY DEF ReadsBack
  <2> QED
    BY <2>1, WholeReadsBack
<1> QED
  BY <1>1, <1>2, <1>3, PTL DEF Spec

(* Every label reference of an accepted program, a relative branch or an   *)
(* absolute immediate, is the address of a place that carries the label.   *)
THEOREM LabelsLand == Spec => []ReferencesLand
<1>1. Init => Whole
  BY WholeInit
<1>2. Whole /\ [Next]_vars => Whole'
  BY WholeStep
<1>3. Whole => ReferencesLand
  <2>1. phase # "done" => ReferencesLand
    BY DEF ReferencesLand
  <2> QED
    BY <2>1, WholeLands
<1> QED
  BY <1>1, <1>2, <1>3, PTL DEF Spec

(* No label reference of an accepted program is longer than its value in   *)
(* the final layout needs.                                                 *)
THEOREM ReferencesShortest == Spec => []ShortestThatFits
<1>1. Init => Whole
  BY WholeInit
<1>2. Whole /\ [Next]_vars => Whole'
  BY WholeStep
<1>3. Whole => ShortestThatFits
  <2>1. phase # "done" => ShortestThatFits
    BY DEF ShortestThatFits
  <2> QED
    BY <2>1, WholeShortest
<1> QED
  BY <1>1, <1>2, <1>3, PTL DEF Spec
=============================================================================
