---------------------------- MODULE MemIfProofs ----------------------------
(***************************************************************************)
(* Proofs about the SPI memory interface, for every command, address, byte *)
(* and register width, every memory and every length of synchronizer.      *)
(***************************************************************************)
EXTENDS MemIf, SequenceTheorems, WellFoundedInduction, TLAPS

(* Facts about bit strings, and the arithmetic they rest on: induction over *)
(* the naturals, powers of two, quotients and remainders.                   *)

(* Induction over the naturals, stated with a set: the library states it   *)
(* with an operator, which the provers cannot instantiate.                 *)
LEMMA LeastNatural ==
    ASSUME NEW T \in SUBSET Nat, T # {}
    PROVE  \E x \in T : \A y \in T : x <= y
<1>1. IsWellFoundedOn(OpToRel(<, Nat), Nat)
  BY NatLessThanWellFounded, Zenon
<1>2. \A x, y \in Nat : y < x => <<y, x>> \in OpToRel(<, Nat)
  BY DEF OpToRel
<1>3. PICK x \in T : \A y \in T : ~ (<<y, x>> \in OpToRel(<, Nat))
  BY <1>1, WFMin, Zenon
<1>4. \A y \in T : ~ (y < x)
  BY <1>2, <1>3
<1> QED
  BY <1>4

LEMMA Induction ==
    ASSUME NEW T \in SUBSET Nat, 0 \in T, \A n \in T : n + 1 \in T
    PROVE  T = Nat
<1> SUFFICES ASSUME Nat \ T # {} PROVE FALSE
  OBVIOUS
<1>1. PICK x \in Nat \ T : \A y \in Nat \ T : x <= y
  BY LeastNatural
<1>2. x # 0 /\ x - 1 \in T
  BY <1>1
<1> QED
  BY <1>1, <1>2
-----------------------------------------------------------------------------
(* Powers of two.  That the recursive definition defines a function is     *)
(* shown by the restrictions of that function to 0 .. m.                   *)
Doubles(m, f) == f \in [0 .. m -> Nat] /\ f[0] = 1 /\ \A n \in 1 .. m : f[n] = 2 * f[n - 1]

LEMMA DoublesExists == \A m \in Nat : \E f : Doubles(m, f)
<1> DEFINE T == {m \in Nat : \E f : Doubles(m, f)}
<1>1. 0 \in T
  <2>1. Doubles(0, [n \in 0 .. 0 |-> 1])
    BY DEF Doubles
  <2> QED
    BY <2>1
<1>2. ASSUME NEW m \in T PROVE m + 1 \in T
  <2>1. PICK f : Doubles(m, f)
    OBVIOUS
  <2> DEFINE g == [n \in 0 .. m + 1 |-> IF n <= m THEN f[n] ELSE 2 * f[m]]
  <2>2. Doubles(m + 1, g)
    BY <2>1 DEF Doubles
  <2> QED
    BY <2>2
<1> HIDE DEF T
<1>3. T = Nat
  BY <1>1, <1>2, Induction DEF T
<1> QED
  BY <1>3 DEF T

LEMMA DoublesUnique ==
    ASSUME NEW m \in Nat, NEW k \in Nat, m <= k, NEW f, NEW g, Doubles(m, f), Doubles(k, g)
    PROVE  f[m] = g[m]
<1> DEFINE T == {n \in Nat : n <= m => f[n] = g[n]}
<1>1. 0 \in T
  BY DEF Doubles
<1>2. ASSUME NEW n \in T PROVE n + 1 \in T
  BY DEF Doubles
<1> HIDE DEF T
<1>3. T = Nat
  BY <1>1, <1>2, Induction DEF T
<1> QED
  BY <1>3 DEF T

LEMMA Pow2Doubles == Pow2 = [n \in Nat |-> IF n = 0 THEN 1 ELSE 2 * Pow2[n - 1]]
<1> DEFINE D(n) == CHOOSE f : Doubles(n, f)
           F == [n \in Nat |-> D(n)[n]]
<1>1. \A n \in Nat : Doubles(n, D(n))
  BY DoublesExists
<1> HIDE DEF D
<1>2. \A n \in Nat : F[n] = IF n = 0 THEN 1 ELSE 2 * F[n - 1]
  <2> SUFFICES ASSUME NEW n \in Nat PROVE F[n] = IF n = 0 THEN 1 ELSE 2 * F[n - 1]
    OBVIOUS
  <2>1. CASE n = 0
    BY <1>1, <2>1 DEF Doubles
  <2>2. CASE n # 0
    <3>1. n - 1 \in Nat /\ n - 1 <= n
      BY <2>2
    <3>2. D(n - 1)[n - 1] = D(n)[n - 1]
      BY <1>1, <3>1, DoublesUnique
    <3>3. D(n)[n] = 2 * D(n)[n - 1]
      BY <1>1, <2>2 DEF Doubles
    <3> QED
      BY <2>2, <3>1, <3>2, <3>3
  <2> QED
    BY <2>1, <2>2
<1>3. F = [n \in Nat |-> IF n = 0 THEN 1 ELSE 2 * F[n - 1]]
  BY <1>2
<1> HIDE DEF F
<1> QED
  BY <1>3 DEF Pow2

LEMMA Powers ==
    /\ Pow2[0] = 1
    /\ \A n \in Nat : Pow2[n] \in Nat \ {0} /\ Pow2[n + 1] = 2 * Pow2[n]
<1>1. \A n \in Nat : Pow2[n] = IF n = 0 THEN 1 ELSE 2 * Pow2[n - 1]
  BY Pow2Doubles
<1> DEFINE T == {n \in Nat : Pow2[n] \in Nat \ {0}}
<1>2. 0 \in T
  BY <1>1
<1>3. ASSUME NEW n \in T PROVE n + 1 \in T
  BY <1>1
<1> HIDE DEF T
<1>4. T = Nat
  BY <1>2, <1>3, Induction DEF T
<1> QED
  BY <1>1, <1>4 DEF T
-----------------------------------------------------------------------------
(* Quotients and remainders by a number that is not a numeral.             *)
LEMMA DivMod ==
    ASSUME NEW n \in Int, NEW c \in Nat \ {0}
    PROVE  n \div c \in Int /\ n % c \in 0 .. c - 1 /\ n = c * (n \div c) + (n % c)
  OBVIOUS

LEMMA DivUnique ==
    ASSUME NEW c \in Nat \ {0}, NEW q \in Int, NEW t \in 0 .. c - 1
    PROVE  (c * q + t) \div c = q /\ (c * q + t) % c = t
<1> DEFINE n == c * q + t
           d == n \div c
           m == n % c
<1>1. n \in Int /\ d \in Int /\ m \in 0 .. c - 1 /\ n = c * d + m
  BY DivMod
<1> HIDE DEF d, m
<1>2. c * (d - q) = t - m
  BY <1>1
<1>3. d - q < 1 /\ d - q > -1
  <2>1. c * (d - q) < c * 1 /\ c * (d - q) > c * (-1)
    BY <1>1, <1>2
  <2> QED
    BY <2>1, <1>1
<1>4. d = q
  BY <1>1, <1>3
<1> QED
  BY <1>1, <1>4 DEF d, m

LEMMA Halves ==
    ASSUME NEW n \in Int, NEW p \in Nat \ {0}
    PROVE  (n \div 2) \div p = n \div (2 * p)
<1> DEFINE h == n \div 2
           q == h \div p
           r == h % p
<1>1. h \in Int /\ n % 2 \in 0 .. 1 /\ n = 2 * h + (n % 2)
  OBVIOUS
<1> HIDE DEF h
<1>2. q \in Int /\ r \in 0 .. p - 1 /\ h = p * q + r
  BY <1>1, DivMod
<1> HIDE DEF q, r
<1> DEFINE c == 2 * p
           t == 2 * r + (n % 2)
<1>3. c \in Nat \ {0} /\ t \in 0 .. c - 1
  BY <1>1, <1>2
<1>4. n = c * q + t
  BY <1>1, <1>2
<1> HIDE DEF c, t
<1>5. n \div c = q
  BY <1>2, <1>3, <1>4, DivUnique
<1> QED
  BY <1>5 DEF c, q, h

LEMMA ModAdd ==
    ASSUME NEW c \in Nat \ {0}, NEW a \in Int, NEW b \in Int
    PROVE  ((a % c) + b) % c = (a + b) % c
<1> DEFINE q == a \div c
           r == a % c
           s == (r + b) \div c
           t == (r + b) % c
<1>1. q \in Int /\ r \in 0 .. c - 1 /\ a = c * q + r
  BY DivMod
<1>2. s \in Int /\ t \in 0 .. c - 1 /\ r + b = c * s + t
  BY <1>1, DivMod
<1> HIDE DEF q, r, s, t
<1>3. a + b = c * (q + s) + t
  BY <1>1, <1>2
<1>4. (c * (q + s) + t) % c = t
  BY <1>1, <1>2, DivUnique
<1> QED
  BY <1>3, <1>4 DEF t, r

LEMMA ModInjective ==
    ASSUME NEW c \in Nat \ {0}, NEW x \in Int, NEW i \in 0 .. c - 1, NEW j \in 0 .. c - 1,
           (x + i) % c = (x + j) % c
    PROVE  i = j
<1> DEFINE p == (x + i) \div c
           q == (x + j) \div c
           r == (x + i) % c
<1>1. p \in Int /\ q \in Int /\ x + i = c * p + r /\ x + j = c * q + r
  BY DivMod
<1> HIDE DEF p, q, r
<1>2. r \in Int
  <2>1. x + i \in Int
    OBVIOUS
  <2> QED
    BY <2>1, DivMod DEF r
<1>3. i - j = c * (p - q)
  BY <1>1, <1>2
<1>4. p - q < 1 /\ p - q > -1
  <2>1. c * (p - q) < c * 1 /\ c * (p - q) > c * (-1)
    BY <1>3
  <2> QED
    BY <2>1, <1>1
<1> QED
  BY <1>1, <1>3, <1>4

(* One more: the remainder grows, or comes round and the quotient grows.   *)
LEMMA DivSucc ==
    ASSUME NEW c \in Nat \ {0}, NEW d \in Nat
    PROVE  /\ d % c = c - 1 => (d + 1) \div c = (d \div c) + 1 /\ (d + 1) % c = 0
           /\ d % c # c - 1 => (d + 1) \div c = d \div c /\ (d + 1) % c = (d % c) + 1
<1> DEFINE q == d \div c
           r == d % c
<1>1. q \in Int /\ r \in 0 .. c - 1 /\ d = c * q + r
  BY DivMod
<1> HIDE DEF q, r
<1>2. CASE r = c - 1
  <2>1. d + 1 = c * (q + 1) + 0 /\ 0 \in 0 .. c - 1 /\ q + 1 \in Int
    BY <1>1, <1>2
  <2>2. (d + 1) \div c = q + 1 /\ (d + 1) % c = 0
    BY <2>1, DivUnique
  <2> QED
    BY <1>2, <2>2 DEF q, r
<1>3. CASE r # c - 1
  <2>1. d + 1 = c * q + (r + 1) /\ r + 1 \in 0 .. c - 1
    BY <1>1, <1>3
  <2>2. (d + 1) \div c = q /\ (d + 1) % c = r + 1
    BY <1>1, <2>1, DivUnique
  <2> QED
    BY <1>3, <2>2 DEF q, r
<1> QED
  BY <1>2, <1>3
-----------------------------------------------------------------------------
(* Bit strings are functions on 1 .. w, and what the operators on them do. *)
LEMMA Length == ASSUME NEW w \in Nat, NEW b \in [1 .. w -> Bit] PROVE Len(b) = w
  BY DEF Bit

LEMMA BitsTyped == ASSUME NEW n \in Int, NEW w \in Nat PROVE Bits(n, w) \in [1 .. w -> Bit]
<1> SUFFICES ASSUME NEW i \in 1 .. w PROVE (n \div Pow2[w - i]) % 2 \in Bit
  BY DEF Bits
<1>1. w - i \in Nat
  OBVIOUS
<1>2. Pow2[w - i] \in Nat \ {0}
  BY <1>1, Powers
<1>3. n \div Pow2[w - i] \in Int
  BY <1>2, DivMod
<1> QED
  BY <1>3 DEF Bit

LEMMA BitsInjective ==
    \A w \in Nat : \A n, m \in 0 .. Pow2[w] - 1 : Bits(n, w) = Bits(m, w) => n = m
<1> DEFINE T == {w \in Nat : \A n, m \in 0 .. Pow2[w] - 1 : Bits(n, w) = Bits(m, w) => n = m}
<1>1. 0 \in T
  BY Powers
<1>2. ASSUME NEW w \in T PROVE w + 1 \in T
  <2> SUFFICES ASSUME NEW n \in 0 .. Pow2[w + 1] - 1, NEW m \in 0 .. Pow2[w + 1] - 1,
                      Bits(n, w + 1) = Bits(m, w + 1)
               PROVE  n = m
    OBVIOUS
  <2>1. w \in Nat /\ Pow2[w] \in Nat \ {0} /\ Pow2[w + 1] = 2 * Pow2[w]
    BY Powers
  <2>2. /\ n \div 2 \in 0 .. Pow2[w] - 1 /\ m \div 2 \in 0 .. Pow2[w] - 1
        /\ n = 2 * (n \div 2) + (n % 2) /\ m = 2 * (m \div 2) + (m % 2)
    BY <2>1
  <2>3. ASSUME NEW x \in Nat, NEW i \in 1 .. w
        PROVE  Bits(x, w + 1)[i] = Bits(x \div 2, w)[i]
    <3>1. w - i \in Nat /\ w + 1 - i = w - i + 1 /\ i \in 1 .. w + 1
      BY <2>1
    <3>2. Pow2[w - i] \in Nat \ {0} /\ Pow2[w + 1 - i] = 2 * Pow2[w - i]
      BY <3>1, Powers
    <3>3. (x \div 2) \div Pow2[w - i] = x \div (2 * Pow2[w - i])
      <4>1. x \in Int
        OBVIOUS
      <4> QED
        BY <3>2, <4>1, Halves, Zenon
    <3> QED
      BY <3>1, <3>2, <3>3 DEF Bits
  <2>4. ASSUME NEW x \in Nat PROVE Bits(x, w + 1)[w + 1] = x % 2
    <3>1. w + 1 \in 1 .. w + 1 /\ w + 1 - (w + 1) = 0
      BY <2>1
    <3>2. x \div Pow2[w + 1 - (w + 1)] = x
      BY <3>1, Powers
    <3> QED
      BY <3>1, <3>2 DEF Bits
  <2>5. Bits(n \div 2, w) = Bits(m \div 2, w)
    <3>1. \A i \in 1 .. w : Bits(n \div 2, w)[i] = Bits(m \div 2, w)[i]
      BY <2>1, <2>3
    <3> QED
      BY <3>1 DEF Bits
  <2>6. n \div 2 = m \div 2
    BY <2>2, <2>5, Zenon
  <2>7. n % 2 = m % 2
    BY <2>1, <2>4
  <2> QED
    BY <2>2, <2>6, <2>7
<1> HIDE DEF T
<1>3. T = Nat
  BY <1>1, <1>2, Induction DEF T
<1> QED
  BY <1>3, Zenon DEF T

(* A number that fits is read back from its bits.                          *)
LEMMA ValueOfBits ==
    ASSUME NEW w \in Nat, NEW n \in 0 .. Pow2[w] - 1
    PROVE  Value(Bits(n, w)) = n
<1>1. n \in Int /\ Pow2[w] \in Nat
  BY Powers
<1>2. Len(Bits(n, w)) = w
  BY <1>1, BitsTyped, Length
<1> DEFINE v == Value(Bits(n, w))
<1>3. v \in 0 .. Pow2[w] - 1 /\ Bits(v, w) = Bits(n, w)
  BY <1>2, Zenon DEF Value
<1> QED
  BY <1>3, BitsInjective, Zenon

LEMMA Concatenated ==
    ASSUME NEW n \in Nat, NEW b \in [1 .. n -> Bit], NEW m \in Nat, NEW c \in [1 .. m -> Bit]
    PROVE  /\ b \o c \in [1 .. n + m -> Bit]
           /\ \A i \in 1 .. n + m : (b \o c)[i] = IF i <= n THEN b[i] ELSE c[i - n]
<1> DEFINE d == b \o c
<1>1. Len(b) = n /\ Len(c) = m
  BY Length
<1>2. b \in Seq(Bit) /\ c \in Seq(Bit)
  BY DEF Bit
<1>3. /\ d \in Seq(Bit) /\ Len(d) = Len(b) + Len(c)
      /\ \A i \in 1 .. Len(b) + Len(c) : d[i] = IF i <= Len(b) THEN b[i] ELSE c[i - Len(b)]
  BY <1>2, ConcatProperties, Zenon
<1> HIDE DEF d
<1>4. d \in [1 .. Len(d) -> Bit]
  BY <1>3, LenProperties
<1>5. d \in [1 .. n + m -> Bit]
  BY <1>1, <1>3, <1>4
<1> QED
  BY <1>1, <1>3, <1>5 DEF d

LEMMA Slice ==
    ASSUME NEW w \in Nat, NEW b \in [1 .. w -> Bit], NEW i \in 1 .. w, NEW j \in i .. w
    PROVE  SubSeq(b, i, j) = [k \in 1 .. j - i + 1 |-> b[i + k - 1]]
<1>1. \A k \in i .. j : b[k] \in Bit
  OBVIOUS
<1> QED
  BY <1>1

LEMMA ShiftedIn ==
    ASSUME NEW w \in Nat, NEW b \in [1 .. w -> Bit], NEW bit \in Bit
    PROVE  /\ ShiftIn(b, bit) \in [1 .. w -> Bit]
           /\ \A i \in 1 .. w : ShiftIn(b, bit)[i] = IF i < w THEN b[i + 1] ELSE bit
  BY Length DEF ShiftIn, Bit

LEMMA ShiftedLeft ==
    ASSUME NEW w \in Nat, NEW b \in [1 .. w -> Bit], NEW n \in Nat
    PROVE  /\ Shl(b, n) \in [1 .. w -> Bit]
           /\ \A i \in 1 .. w : Shl(b, n)[i] = IF i + n <= w THEN b[i + n] ELSE 0
  BY Length DEF Shl, Bit
-----------------------------------------------------------------------------
(* The counters of the two ends, which nothing else of the state disturbs. *)
CInv ==
    /\ state \in {"IDLE", "HDR", "DATA", "DONE"}
    /\ phase \in {0, 1}
    /\ data_bits \in Int
    /\ bits_left \in Int
    /\ bit_cnt \in Int
    /\ InStep

LEMMA SckCounts == ASSUME SckRises PROVE bit_cnt' = bit_cnt + 1
  BY DEF SckRises

LEMMA InitCounts == Init => CInv
  BY DEF Init, CInv, InStep

LEMMA AcceptCounts == ASSUME CInv, Accept PROVE CInv'
<1>1. bit_cnt' = bit_cnt /\ bit_cnt = 0
  BY DEF Accept, Quiet, device, CInv, InStep
<1>2. state' = "HDR" /\ bits_left' = HdrBits /\ phase' = 0
  BY DEF Accept
<1>3. data_bits' \in Int
  <2>1. PICK r \in Requests : data_bits' = r.size * ByteBits
    BY DEF Accept
  <2>2. r.size \in Int
    <3>1. r.size \in Sizes
      BY <2>1 DEF Requests
    <3>2. r.size \in 1 .. DataBytes
      BY <3>1, AccessAssumption, Zenon
    <3> QED
      BY <3>2
  <2> QED
    BY <2>1, <2>2, WidthsAssumption
<1>4. HdrBits \in Int
  BY WidthsAssumption DEF HdrBits
<1> QED
  BY <1>1, <1>2, <1>3, <1>4 DEF CInv, InStep

LEMMA RiseCounts == ASSUME CInv, HdrRise \/ DataRise PROVE CInv'
<1>1. HdrBits \in Int
  BY WidthsAssumption DEF HdrBits
<1>2. CASE HdrRise
  BY <1>1, <1>2, SckCounts DEF HdrRise, CInv, InStep
<1>3. CASE DataRise
  BY <1>1, <1>3, SckCounts DEF DataRise, CInv, InStep
<1> QED
  BY <1>2, <1>3

LEMMA HdrFallCounts == ASSUME CInv, HdrFall PROVE CInv'
<1>1. HdrBits \in Int
  BY WidthsAssumption DEF HdrBits
<1>2. bit_cnt' = bit_cnt /\ bit_cnt = HdrBits - bits_left + 1
  BY DEF HdrFall, Quiet, device, CInv, InStep
<1>3. CASE LastBit
  BY <1>1, <1>2, <1>3 DEF HdrFall, LastBit, CInv, InStep
<1>4. CASE ~LastBit
  BY <1>1, <1>2, <1>4 DEF HdrFall, CInv, InStep
<1> QED
  BY <1>3, <1>4

LEMMA DataFallCounts == ASSUME CInv, DataFall PROVE CInv'
<1>1. HdrBits \in Int
  BY WidthsAssumption DEF HdrBits
<1>2. bit_cnt = HdrBits + data_bits - bits_left + 1
  BY DEF DataFall, CInv, InStep
<1>3. CASE LastBit
  BY <1>3 DEF DataFall, CsRises, CInv, InStep
<1>4. CASE ~LastBit
  BY <1>1, <1>2, <1>4 DEF DataFall, Quiet, device, CInv, InStep
<1> QED
  BY <1>3, <1>4

(* The interface and the memory never lose count of each other's bits,     *)
(* whatever the widths: neither end tells the other where it is.           *)
THEOREM InStepAlways == Spec => []InStep
<1>1. CInv /\ [Next]_vars => CInv'
  <2> SUFFICES ASSUME CInv, [Next]_vars PROVE CInv'
    OBVIOUS
  <2>1. CASE Idle \/ Done
    BY <2>1 DEF Idle, Done, Quiet, regs, device, CInv, InStep
  <2>2. CASE UNCHANGED vars
    BY <2>2 DEF vars, regs, device, CInv, InStep
  <2> QED
    BY <2>1, <2>2, AcceptCounts, RiseCounts, HdrFallCounts, DataFallCounts DEF Next
<1>2. CInv => InStep
  BY DEF CInv
<1> QED
  BY <1>1, <1>2, InitCounts, PTL DEF Spec
-----------------------------------------------------------------------------
(* The two ends bit by bit.  The header as the interface built it, and how *)
(* many bits of the data have gone over the wires.                         *)
HeaderOf(r) == (IF r.we THEN CMD_WRITE ELSE CMD_READ) \o Bits(r.addr, AddrBits)
Header == HeaderOf(asked)
Moved == bit_cnt - HdrBits
WholeBytes == Moved \div ByteBits
OddBits == Moved % ByteBits

InRange ==
    /\ state = "HDR" => bits_left \in 1 .. HdrBits
    /\ state = "DATA" => bits_left \in 1 .. data_bits
    /\ state # "IDLE" => we_q = asked.we /\ data_bits = asked.size * ByteBits

(* The header: what is left to send is at the top of one register, what   *)
(* has been taken is at the bottom of the other.                           *)
HeaderOnItsWay ==
    state = "HDR" =>
        /\ \A i \in 1 .. bits_left : hdr_sr[i] = Header[i + (HdrBits - bits_left)]
        /\ \A i \in 1 .. bit_cnt : dev_hdr[HdrBits - bit_cnt + i] = Header[i]
        /\ data_sr = LoadShifter(asked)
        /\ mem = before
        /\ bit_cnt = HdrBits =>
              /\ is_write = asked.we
              /\ dev_addr = asked.addr
              /\ ~asked.we => out_byte = mem[dev_addr]

(* The memory is at the byte whose bits are on the wire.                   *)
AtItsByte ==
    state = "DATA" =>
        /\ is_write = asked.we
        /\ dev_addr = (asked.addr + WholeBytes) % Pow2[AddrBits]

(* A store: what is left of the operand, and of the byte being put        *)
(* together; the whole bytes are in memory.                                *)
StoreOnItsWay ==
    state = "DATA" /\ asked.we =>
        /\ \A i \in 1 .. bits_left : data_sr[i] = asked.wdata[DataBits - bits_left + i]
        /\ \A i \in 1 .. OddBits :
              wr_byte[ByteBits - OddBits + i]
                  = asked.wdata[DataBits - data_bits + (WholeBytes * ByteBits + i)]
        /\ mem = Stored(before, asked, WholeBytes)

(* A load: what is left of the byte on the wire, and the bits captured.    *)
Captured(n) ==
    /\ \A i \in 1 .. DataBits - n : data_sr[i] = 0
    /\ \A k \in Nat : \A i \in 1 .. ByteBits :
          k * ByteBits + i <= n =>
              data_sr[DataBits - n + (k * ByteBits + i)]
                  = mem[(asked.addr + k) % Pow2[AddrBits]][i]

LoadOnItsWay ==
    state = "DATA" /\ ~asked.we =>
        /\ mem = before
        /\ \A i \in 1 .. ByteBits - OddBits : out_byte[i] = mem[dev_addr][i + OddBits]
        /\ SyncStages = 0 => Captured(Moved)

Finished ==
    /\ state \in {"IDLE", "DONE"} => mem = Stored(before, asked, IF asked.we THEN asked.size ELSE 0)
    /\ state = "DONE" /\ ~asked.we /\ SyncStages = 0 => Captured(data_bits)

Transfer ==
    HeaderOnItsWay /\ AtItsByte /\ StoreOnItsWay /\ LoadOnItsWay /\ Finished

IInv == TypeOK /\ InStep /\ InRange /\ Transfer

LEMMA Widths ==
    /\ CmdBits \in Nat \ {0} /\ AddrBits \in Nat \ {0} /\ ByteBits \in Nat \ {0}
    /\ DataBytes \in Nat \ {0} /\ SyncStages \in Nat
    /\ HdrBits \in Nat \ {0} /\ HdrBits = CmdBits + AddrBits
    /\ DataBits \in Nat \ {0} /\ DataBits = DataBytes * ByteBits
    /\ Pow2[AddrBits] \in Nat \ {0}
<1>1. Pow2[AddrBits] \in Nat \ {0}
  BY WidthsAssumption, Powers
<1> QED
  BY <1>1, WidthsAssumption DEF HdrBits, DataBits

LEMMA Request ==
    ASSUME NEW r \in Requests
    PROVE  /\ r.we \in BOOLEAN /\ r.addr \in Addr /\ r.wdata \in [1 .. DataBits -> Bit]
           /\ r.size \in 1 .. DataBytes /\ r.size <= Pow2[AddrBits]
           /\ r.size * ByteBits \in 1 .. DataBits
<1>1. r.we \in BOOLEAN /\ r.addr \in Addr /\ r.size \in Sizes /\ r.wdata \in WData
  BY DEF Requests
<1>2. /\ r.wdata \in [1 .. DataBits -> Bit] /\ r.size \in 1 .. DataBytes
      /\ r.size <= Pow2[AddrBits]
  BY <1>1, AccessAssumption, Zenon
<1>3. r.size * ByteBits >= 1 /\ r.size * ByteBits <= DataBytes * ByteBits
  <2>1. r.size \in Int /\ r.size >= 1 /\ r.size <= DataBytes
    BY <1>2
  <2> QED
    BY <2>1, Widths
<1>4. r.size * ByteBits \in Int
  BY <1>2, Widths
<1> QED
  BY <1>1, <1>2, <1>3, <1>4, Widths

LEMMA CommandsDiffer ==
    /\ CMD_READ \in [1 .. CmdBits -> Bit] /\ CMD_WRITE \in [1 .. CmdBits -> Bit]
    /\ CMD_READ # CMD_WRITE
<1>1. CMD_READ \in [1 .. CmdBits -> Bit] /\ CMD_WRITE \in [1 .. CmdBits -> Bit]
  <2>1. CmdBits \in Nat /\ 3 \in Int /\ 2 \in Int
    BY Widths
  <2> QED
    BY <2>1, BitsTyped, Zenon DEF CMD_READ, CMD_WRITE
<1>2. CmdBits \in 1 .. CmdBits /\ CmdBits - CmdBits = 0
  BY Widths
<1>3. CMD_READ[CmdBits] = (3 \div Pow2[0]) % 2 /\ CMD_WRITE[CmdBits] = (2 \div Pow2[0]) % 2
  BY <1>2 DEF CMD_READ, CMD_WRITE, Bits
<1>4. CMD_READ[CmdBits] = 1 /\ CMD_WRITE[CmdBits] = 0
  BY <1>3, Powers
<1> QED
  BY <1>1, <1>4

(* The header is the command, then the address; both are read back.        *)
LEMMA HeaderReadBack ==
    ASSUME NEW r \in Requests
    PROVE  /\ HeaderOf(r) \in [1 .. HdrBits -> Bit]
           /\ SubSeq(HeaderOf(r), 1, CmdBits) = CMD_WRITE <=> r.we
           /\ Value(SubSeq(HeaderOf(r), CmdBits + 1, HdrBits)) = r.addr
<1> DEFINE c == IF r.we THEN CMD_WRITE ELSE CMD_READ
           a == Bits(r.addr, AddrBits)
           h == c \o a
<1>1. r.addr \in 0 .. Pow2[AddrBits] - 1 /\ r.addr \in Int /\ r.we \in BOOLEAN
  BY Request DEF Addr
<1>2. c \in [1 .. CmdBits -> Bit]
  BY CommandsDiffer
<1>3. a \in [1 .. AddrBits -> Bit]
  BY <1>1, Widths, BitsTyped
<1>4. Value(a) = r.addr
  BY <1>1, Widths, ValueOfBits
<1>5. c = CMD_WRITE <=> r.we
  BY <1>1, CommandsDiffer
<1> HIDE DEF c, a
<1>6. /\ h \in [1 .. HdrBits -> Bit]
      /\ \A i \in 1 .. HdrBits : h[i] = IF i <= CmdBits THEN c[i] ELSE a[i - CmdBits]
  BY <1>2, <1>3, Widths, Concatenated
<1> HIDE DEF h
<1>7. SubSeq(h, 1, CmdBits) = c
  <2>1. SubSeq(h, 1, CmdBits) = [k \in 1 .. CmdBits - 1 + 1 |-> h[1 + k - 1]]
    BY <1>6, Widths, Slice
  <2>2. SubSeq(h, 1, CmdBits) = [k \in 1 .. CmdBits |-> c[k]]
    BY <2>1, <1>6, Widths
  <2> QED
    BY <2>2, <1>2
<1>8. SubSeq(h, CmdBits + 1, HdrBits) = a
  <2>1. SubSeq(h, CmdBits + 1, HdrBits)
            = [k \in 1 .. HdrBits - (CmdBits + 1) + 1 |-> h[CmdBits + 1 + k - 1]]
    BY <1>6, Widths, Slice
  <2>2. SubSeq(h, CmdBits + 1, HdrBits) = [k \in 1 .. AddrBits |-> a[k]]
    BY <2>1, <1>6, Widths
  <2> QED
    BY <2>2, <1>3
<1>9. HeaderOf(r) = h
  BY DEF h, c, a, HeaderOf
<1> QED
  BY <1>4, <1>5, <1>6, <1>7, <1>8, <1>9, Zenon

(* Memory after the bytes of a store, one byte at a time.                  *)
LEMMA StoredNone ==
    ASSUME NEW m \in [Addr -> Byte], NEW r
    PROVE  Stored(m, r, 0) = m
  BY DEF Stored

LEMMA StoredNext ==
    ASSUME NEW m, NEW r \in Requests, NEW k \in Nat, k + 1 <= r.size
    PROVE  Stored(m, r, k + 1)
               = [Stored(m, r, k) EXCEPT
                     ![(r.addr + k) % Pow2[AddrBits]] = ByteOf(r.wdata, r.size, k)]
<1> DEFINE M == Pow2[AddrBits]
           At(j) == (r.addr + j) % M
           Byt(j) == ByteOf(r.wdata, r.size, j)
<1>1. M \in Nat \ {0} /\ r.addr \in 0 .. M - 1 /\ r.addr \in Int /\ k \in 0 .. M - 1
  BY Widths, Request DEF Addr
<1>2. ASSUME NEW i \in 0 .. k, NEW j \in 0 .. k, At(i) = At(j) PROVE i = j
  <2>1. i \in 0 .. M - 1 /\ j \in 0 .. M - 1
    BY <1>1
  <2> QED
    BY <1>1, <1>2, <2>1, ModInjective, Zenon
<1>3. Addr = 0 .. M - 1
  BY DEF Addr
<1> DEFINE Pick(a, n) == CHOOSE j \in 0 .. n - 1 : a = At(j)
<1>4. \A n : Stored(m, r, n) = [a \in Addr |->
          IF \E j \in 0 .. n - 1 : a = At(j) THEN Byt(Pick(a, n)) ELSE m[a]]
  BY DEF Stored
<1> HIDE DEF M, At, Byt
<1>5. \A n \in Nat : \A a : (\E j \in 0 .. n - 1 : a = At(j)) =>
          Pick(a, n) \in 0 .. n - 1 /\ a = At(Pick(a, n))
  OBVIOUS
<1> HIDE DEF Pick
<1>6. At(k) = (r.addr + k) % Pow2[AddrBits] /\ Byt(k) = ByteOf(r.wdata, r.size, k)
  BY DEF At, M, Byt
<1>7. ASSUME NEW a \in Addr
      PROVE  Stored(m, r, k + 1)[a] = IF a = At(k) THEN Byt(k) ELSE Stored(m, r, k)[a]
  <2>1. k + 1 - 1 = k /\ k + 1 \in Nat /\ 0 .. k = (0 .. k - 1) \cup {k}
    OBVIOUS
  <2>2. CASE a = At(k)
    <3>1. Pick(a, k + 1) \in 0 .. k /\ a = At(Pick(a, k + 1))
      BY <2>1, <2>2, <1>5
    <3>2. Pick(a, k + 1) = k
      BY <3>1, <2>2, <1>2
    <3> QED
      BY <2>1, <2>2, <3>2, <1>4
  <2>3. CASE a # At(k) /\ \E j \in 0 .. k - 1 : a = At(j)
    <3>1. Pick(a, k) \in 0 .. k - 1 /\ a = At(Pick(a, k))
      BY <2>3, <1>5
    <3>2. Pick(a, k + 1) \in 0 .. k /\ a = At(Pick(a, k + 1))
      BY <2>1, <2>3, <1>5
    <3>3. Pick(a, k + 1) = Pick(a, k)
      BY <2>1, <3>1, <3>2, <1>2
    <3> QED
      BY <2>1, <2>3, <3>3, <1>4
  <2>4. CASE a # At(k) /\ ~ \E j \in 0 .. k - 1 : a = At(j)
    <3>1. ~ \E j \in 0 .. k + 1 - 1 : a = At(j)
      BY <2>1, <2>4
    <3> QED
      BY <2>4, <3>1, <1>4
  <2> QED
    BY <2>2, <2>3, <2>4
<1>8. Stored(m, r, k) = [a \in Addr |-> Stored(m, r, k)[a]]
      /\ Stored(m, r, k + 1) = [a \in Addr |-> Stored(m, r, k + 1)[a]]
  BY <1>4
<1> QED
  BY <1>6, <1>7, <1>8
-----------------------------------------------------------------------------
(* Every action keeps the transfer on its way.                             *)
LEMMA Counted == ASSUME IInv PROVE CInv /\ bit_cnt \in Nat
<1>1. CInv
  BY Widths DEF IInv, TypeOK, CInv, Bit
<1>2. bit_cnt \in 0 .. HdrBits + DataBits
  BY DEF IInv, TypeOK
<1> QED
  BY <1>1, <1>2, Widths

LEMMA ZerosTyped == \A w \in Nat : Zeros(w) \in [1 .. w -> Bit]
  BY DEF Zeros, Bit

LEMMA InitKeeps == Init => IInv
<1> SUFFICES ASSUME Init PROVE IInv
  OBVIOUS
<1>1. mem \in [Addr -> Byte] /\ before = mem /\ asked \in Requests /\ ~asked.we
  <2>1. mem \in Memories
    BY DEF Init
  <2> QED
    BY <2>1, AccessAssumption DEF Init
<1>2. /\ state = "IDLE" /\ phase = 0 /\ we_q = FALSE /\ data_bits = 0 /\ bits_left = 0
      /\ bit_cnt = 0 /\ is_write = FALSE /\ dev_addr = 0
      /\ hdr_sr = Zeros(HdrBits) /\ data_sr = Zeros(DataBits) /\ sync = Zeros(SyncStages)
      /\ dev_hdr = Zeros(HdrBits) /\ wr_byte = Zeros(ByteBits) /\ out_byte = Zeros(ByteBits)
  BY DEF Init
<1>3. TypeOK
  <2>1. 0 \in Addr
    BY Widths DEF Addr
  <2>2. /\ Zeros(HdrBits) \in [1 .. HdrBits -> Bit] /\ Zeros(DataBits) \in [1 .. DataBits -> Bit]
        /\ Zeros(SyncStages) \in [1 .. SyncStages -> Bit] /\ Zeros(ByteBits) \in Byte
    BY Widths, ZerosTyped DEF Byte
  <2>3. 0 \in 0 .. DataBits /\ 0 \in 0 .. HdrBits + DataBits
    BY Widths
  <2> QED
    BY <1>1, <1>2, <2>1, <2>2, <2>3 DEF TypeOK, Bit
<1>4. InStep /\ InRange
  BY <1>2 DEF InStep, InRange
<1>5. Transfer
  BY <1>1, <1>2, StoredNone
  DEF Transfer, HeaderOnItsWay, AtItsByte, StoreOnItsWay, LoadOnItsWay, Finished
<1> QED
  BY <1>3, <1>4, <1>5 DEF IInv

LEMMA Synchronized ==
    ASSUME TypeOK, Synchronize PROVE sync' \in [1 .. SyncStages -> Bit]
<1>1. out_byte[1] \in Bit
  BY Widths DEF TypeOK, Byte
<1>2. ASSUME NEW i \in 1 .. SyncStages
      PROVE  (IF i = 1 THEN out_byte[1] ELSE sync[i - 1]) \in Bit
  BY <1>1, Widths DEF TypeOK
<1> QED
  BY <1>2 DEF Synchronize

(* What the shifter is loaded with: the operand's low bytes at its top.    *)
LEMMA Loaded ==
    ASSUME NEW r \in Requests
    PROVE  /\ LoadShifter(r) \in [1 .. DataBits -> Bit]
           /\ r.we => \A i \in 1 .. r.size * ByteBits :
                 LoadShifter(r)[i] = r.wdata[DataBits - r.size * ByteBits + i]
           /\ ~r.we => \A i \in 1 .. DataBits : LoadShifter(r)[i] = 0
<1> DEFINE s == r.size * ByteBits
<1>1. s \in 1 .. DataBits /\ r.wdata \in [1 .. DataBits -> Bit] /\ DataBits \in Nat
  BY Request, Widths
<1>2. DataBits - s \in Nat
  BY <1>1
<1>3. CASE r.we
  <2>1. LoadShifter(r) = Shl(r.wdata, DataBits - s)
    BY <1>3 DEF LoadShifter
  <2>2. /\ Shl(r.wdata, DataBits - s) \in [1 .. DataBits -> Bit]
        /\ \A i \in 1 .. DataBits : Shl(r.wdata, DataBits - s)[i]
              = IF i + (DataBits - s) <= DataBits THEN r.wdata[i + (DataBits - s)] ELSE 0
    BY <1>1, <1>2, ShiftedLeft, Zenon
  <2> HIDE DEF s
  <2>3. \A i \in 1 .. s : LoadShifter(r)[i] = r.wdata[DataBits - s + i]
    <3> SUFFICES ASSUME NEW i \in 1 .. s PROVE LoadShifter(r)[i] = r.wdata[DataBits - s + i]
      OBVIOUS
    <3>1. i \in 1 .. DataBits /\ i + (DataBits - s) <= DataBits /\ i + (DataBits - s) = DataBits - s + i
      BY <1>1
    <3> QED
      BY <2>1, <2>2, <3>1
  <2> QED
    BY <1>3, <2>1, <2>2, <2>3 DEF s
<1>4. CASE ~r.we
  BY <1>1, <1>4, ZerosTyped DEF LoadShifter, Zeros
<1> QED
  BY <1>3, <1>4

LEMMA AcceptKeeps == ASSUME IInv, Accept PROVE IInv'
<1>1. PICK r \in Requests :
          /\ we_q' = r.we /\ data_bits' = r.size * ByteBits /\ hdr_sr' = HeaderOf(r)
          /\ data_sr' = LoadShifter(r) /\ asked' = r
  BY DEF Accept, HeaderOf
<1>2. /\ state = "IDLE" /\ state' = "HDR" /\ bits_left' = HdrBits /\ phase' = 0
      /\ before' = mem /\ mem' = mem /\ bit_cnt' = bit_cnt /\ dev_hdr' = dev_hdr
      /\ is_write' = is_write /\ dev_addr' = dev_addr /\ wr_byte' = wr_byte
      /\ out_byte' = out_byte /\ Synchronize
  BY DEF Accept, Quiet, device
<1>3. CInv'
  BY Counted, AcceptCounts
<1>4. bit_cnt' = 0
  BY <1>2 DEF IInv, InStep
<1>5. /\ HeaderOf(r) \in [1 .. HdrBits -> Bit] /\ LoadShifter(r) \in [1 .. DataBits -> Bit]
      /\ r.we \in BOOLEAN /\ r.size * ByteBits \in 0 .. DataBits
      /\ HdrBits \in 0 .. HdrBits + DataBits /\ HdrBits \in 1 .. HdrBits
      /\ 0 \in 0 .. HdrBits + DataBits
  BY HeaderReadBack, Loaded, Request, Widths
<1>6. TypeOK'
  BY <1>1, <1>2, <1>4, <1>5, Synchronized DEF IInv, TypeOK, Bit
<1>7. InRange'
  BY <1>1, <1>2, <1>5 DEF InRange
<1>8. HeaderOnItsWay'
  <2>1. Header' = HeaderOf(r)
    BY <1>1 DEF Header, HeaderOf
  <2>2. \A i \in 1 .. HdrBits : i + (HdrBits - HdrBits) = i
    BY Widths
  <2>3. LoadShifter(asked)' = LoadShifter(r)
    BY <1>1 DEF LoadShifter
  <2> QED
    BY <1>1, <1>2, <1>4, <2>1, <2>2, <2>3, Widths DEF HeaderOnItsWay
<1>9. Transfer'
  BY <1>2, <1>8 DEF Transfer, AtItsByte, StoreOnItsWay, LoadOnItsWay, Finished
<1> QED
  BY <1>3, <1>6, <1>7, <1>9 DEF IInv, CInv

LEMMA IdleKeeps == ASSUME IInv, Idle PROVE IInv'
<1>1. /\ state = "IDLE" /\ state' = "IDLE" /\ phase' = phase /\ we_q' = we_q
      /\ data_bits' = data_bits /\ bits_left' = bits_left /\ hdr_sr' = hdr_sr
      /\ data_sr' = data_sr /\ mem' = mem /\ bit_cnt' = bit_cnt /\ dev_hdr' = dev_hdr
      /\ is_write' = is_write /\ dev_addr' = dev_addr /\ wr_byte' = wr_byte
      /\ out_byte' = out_byte /\ asked' = asked /\ before' = before /\ Synchronize
  BY DEF Idle, Quiet, regs, device, history
<1>2. TypeOK'
  BY <1>1, Synchronized DEF IInv, TypeOK
<1>3. InStep' /\ InRange'
  BY <1>1 DEF IInv, InStep, InRange
<1>4. Transfer'
  BY <1>1 DEF IInv, Transfer, HeaderOnItsWay, AtItsByte, StoreOnItsWay, LoadOnItsWay,
              Finished, Stored
<1> QED
  BY <1>2, <1>3, <1>4 DEF IInv

LEMMA DoneKeeps == ASSUME IInv, Done PROVE IInv'
<1>1. /\ state = "DONE" /\ state' = "IDLE" /\ phase' = phase /\ we_q' = we_q
      /\ data_bits' = data_bits /\ bits_left' = bits_left /\ hdr_sr' = hdr_sr
      /\ data_sr' = data_sr /\ mem' = mem /\ bit_cnt' = bit_cnt /\ dev_hdr' = dev_hdr
      /\ is_write' = is_write /\ dev_addr' = dev_addr /\ wr_byte' = wr_byte
      /\ out_byte' = out_byte /\ asked' = asked /\ before' = before /\ Synchronize
  BY DEF Done, Quiet, device, history
<1>2. TypeOK'
  BY <1>1, Synchronized DEF IInv, TypeOK
<1>3. InStep' /\ InRange'
  BY <1>1 DEF IInv, InStep, InRange
<1>4. Transfer'
  BY <1>1 DEF IInv, Transfer, HeaderOnItsWay, AtItsByte, StoreOnItsWay, LoadOnItsWay,
              Finished, Stored
<1> QED
  BY <1>2, <1>3, <1>4 DEF IInv

(* The memory takes a bit of the header; with the last one it knows what   *)
(* it is asked and begins a load with the first byte.                      *)
LEMMA HeaderBitTaken ==
    ASSUME IInv, state = "HDR", phase = 0, SckRises
    PROVE  /\ bit_cnt' = bit_cnt + 1 /\ mem' = mem /\ wr_byte' = wr_byte
           /\ dev_hdr' \in [1 .. HdrBits -> Bit]
           /\ \A i \in 1 .. bit_cnt' : dev_hdr'[HdrBits - bit_cnt' + i] = Header[i]
           /\ is_write' \in BOOLEAN /\ dev_addr' \in Addr /\ out_byte' \in Byte
           /\ bit_cnt' = HdrBits =>
                 /\ is_write' = asked.we
                 /\ dev_addr' = asked.addr
                 /\ ~asked.we => out_byte' = mem[dev_addr']
<1>1. /\ bits_left \in 1 .. HdrBits /\ bit_cnt = HdrBits - bits_left
      /\ bit_cnt \in 0 .. HdrBits - 1 /\ HdrBits \in Nat \ {0}
  BY Widths DEF IInv, InStep, InRange
<1>2. asked \in Requests /\ Header \in [1 .. HdrBits -> Bit] /\ dev_hdr \in [1 .. HdrBits -> Bit]
  BY HeaderReadBack DEF IInv, TypeOK, Header
<1>3. spi_mosi = Header[bit_cnt + 1] /\ spi_mosi \in Bit
  <2>1. 1 \in 1 .. bits_left /\ 1 + (HdrBits - bits_left) = bit_cnt + 1 /\ bit_cnt + 1 \in 1 .. HdrBits
    BY <1>1
  <2>2. hdr_sr[1] = Header[bit_cnt + 1]
    BY <2>1 DEF IInv, Transfer, HeaderOnItsWay
  <2> QED
    BY <1>2, <2>1, <2>2 DEF spi_mosi
<1> DEFINE h == ShiftIn(dev_hdr, spi_mosi)
<1>4. TakeHeaderBit /\ bit_cnt' = bit_cnt + 1
  BY <1>1 DEF SckRises
<1>5. /\ h \in [1 .. HdrBits -> Bit]
      /\ \A i \in 1 .. HdrBits : h[i] = IF i < HdrBits THEN dev_hdr[i + 1] ELSE spi_mosi
  <2>1. HdrBits \in Nat
    BY <1>1
  <2> QED
    BY <1>2, <1>3, <2>1, ShiftedIn, Zenon
<1>6. dev_hdr' = h /\ mem' = mem /\ wr_byte' = wr_byte
  BY <1>4 DEF TakeHeaderBit
<1>7. /\ bit_cnt = HdrBits - 1 =>
            /\ is_write' = (SubSeq(h, 1, CmdBits) = CMD_WRITE)
            /\ dev_addr' = Value(SubSeq(h, CmdBits + 1, HdrBits))
            /\ out_byte' = IF is_write' THEN out_byte
                           ELSE mem[Value(SubSeq(h, CmdBits + 1, HdrBits))]
      /\ bit_cnt # HdrBits - 1 =>
            is_write' = is_write /\ dev_addr' = dev_addr /\ out_byte' = out_byte
  BY <1>4 DEF TakeHeaderBit
<1> HIDE DEF h
<1>8. ASSUME NEW i \in 1 .. bit_cnt + 1 PROVE h[HdrBits - (bit_cnt + 1) + i] = Header[i]
  <2> DEFINE p == HdrBits - (bit_cnt + 1) + i
  <2>1. p \in 1 .. HdrBits
    BY <1>1
  <2>2. CASE i <= bit_cnt
    <3>1. p < HdrBits /\ p + 1 = HdrBits - bit_cnt + i /\ i \in 1 .. bit_cnt
      BY <1>1, <2>2
    <3>2. dev_hdr[HdrBits - bit_cnt + i] = Header[i]
      BY <3>1 DEF IInv, Transfer, HeaderOnItsWay
    <3> QED
      BY <1>5, <2>1, <3>1, <3>2
  <2>3. CASE i = bit_cnt + 1
    BY <1>1, <1>3, <1>5, <2>1, <2>3
  <2> QED
    BY <1>1, <2>2, <2>3
<1>9. CASE bit_cnt = HdrBits - 1
  <2>1. \A i \in 1 .. HdrBits : h[i] = Header[i]
    BY <1>1, <1>8, <1>9
  <2>2. h = Header
    <3>1. /\ h = [i \in 1 .. HdrBits |-> h[i]]
          /\ Header = [i \in 1 .. HdrBits |-> Header[i]]
      BY <1>2, <1>5, Zenon
    <3>2. [i \in 1 .. HdrBits |-> h[i]] = [i \in 1 .. HdrBits |-> Header[i]]
      BY <2>1, Zenon
    <3> QED
      BY <3>1, <3>2, Zenon
  <2>3. /\ SubSeq(h, 1, CmdBits) = CMD_WRITE <=> asked.we
        /\ Value(SubSeq(h, CmdBits + 1, HdrBits)) = asked.addr
    BY <1>2, <2>2, HeaderReadBack, Zenon DEF Header
  <2>4. asked.we \in BOOLEAN /\ asked.addr \in Addr
    BY <1>2, Request
  <2>5. is_write' = asked.we
    BY <1>7, <1>9, <2>3, <2>4, Zenon
  <2>6. dev_addr' = asked.addr
    BY <1>7, <1>9, <2>3
  <2>7. out_byte' = IF asked.we THEN out_byte ELSE mem[asked.addr]
    BY <1>7, <1>9, <2>3, <2>5
  <2>8. out_byte' \in Byte
    BY <2>4, <2>7 DEF IInv, TypeOK
  <2> QED
    BY <1>4, <1>5, <1>6, <1>8, <2>4, <2>5, <2>6, <2>7, <2>8
<1>10. CASE bit_cnt # HdrBits - 1
  <2>1. is_write' \in BOOLEAN /\ dev_addr' \in Addr /\ out_byte' \in Byte
    BY <1>7, <1>10 DEF IInv, TypeOK
  <2>2. bit_cnt' # HdrBits
    BY <1>1, <1>4, <1>10
  <2> QED
    BY <1>4, <1>5, <1>6, <1>8, <2>1, <2>2
<1> QED
  BY <1>9, <1>10

LEMMA HdrRiseKeeps == ASSUME IInv, HdrRise PROVE IInv'
<1>1. /\ state = "HDR" /\ state' = "HDR" /\ phase = 0 /\ phase' = 1 /\ we_q' = we_q
      /\ data_bits' = data_bits /\ bits_left' = bits_left /\ hdr_sr' = hdr_sr
      /\ data_sr' = data_sr /\ asked' = asked /\ before' = before
      /\ Synchronize /\ SckRises
  BY DEF HdrRise, history
<1>2. /\ bit_cnt' = bit_cnt + 1 /\ mem' = mem /\ wr_byte' = wr_byte
      /\ dev_hdr' \in [1 .. HdrBits -> Bit]
      /\ \A i \in 1 .. bit_cnt' : dev_hdr'[HdrBits - bit_cnt' + i] = Header[i]
      /\ is_write' \in BOOLEAN /\ dev_addr' \in Addr /\ out_byte' \in Byte
      /\ bit_cnt' = HdrBits =>
            /\ is_write' = asked.we
            /\ dev_addr' = asked.addr
            /\ ~asked.we => out_byte' = mem[dev_addr']
  BY <1>1, HeaderBitTaken
<1>3. CInv'
  BY Counted, RiseCounts
<1>4. InRange'
  BY <1>1 DEF IInv, InRange
<1>5. bit_cnt' \in 0 .. HdrBits + DataBits
  <2>1. bit_cnt = HdrBits - bits_left /\ bits_left \in 1 .. HdrBits
    BY <1>1, Widths DEF IInv, InStep, InRange
  <2> QED
    BY <1>2, <2>1, Widths
<1>6. TypeOK'
  BY <1>1, <1>2, <1>5, Synchronized DEF IInv, TypeOK, Bit
<1>7. HeaderOnItsWay'
  <2>1. Header' = Header /\ LoadShifter(asked)' = LoadShifter(asked)
    BY <1>1 DEF Header, HeaderOf, LoadShifter
  <2> QED
    BY <1>1, <1>2, <2>1 DEF IInv, Transfer, HeaderOnItsWay
<1>8. Transfer'
  BY <1>1, <1>7 DEF Transfer, AtItsByte, StoreOnItsWay, LoadOnItsWay, Finished
<1> QED
  BY <1>3, <1>4, <1>6, <1>8 DEF IInv, CInv

LEMMA HdrFallKeeps == ASSUME IInv, HdrFall PROVE IInv'
<1>1. /\ state = "HDR" /\ phase = 1 /\ phase' = 0 /\ we_q' = we_q
      /\ data_bits' = data_bits /\ hdr_sr' = Shl(hdr_sr, 1) /\ data_sr' = data_sr
      /\ mem' = mem /\ bit_cnt' = bit_cnt /\ dev_hdr' = dev_hdr
      /\ is_write' = is_write /\ dev_addr' = dev_addr /\ wr_byte' = wr_byte
      /\ out_byte' = out_byte /\ asked' = asked /\ before' = before /\ Synchronize
  BY DEF HdrFall, Quiet, device, history
<1>2. /\ bits_left \in 1 .. HdrBits /\ bit_cnt = HdrBits - bits_left + 1
      /\ we_q = asked.we /\ data_bits = asked.size * ByteBits
  BY <1>1 DEF IInv, InStep, InRange
<1>3. asked \in Requests /\ asked.size * ByteBits \in 1 .. DataBits /\ asked.we \in BOOLEAN
  BY Request DEF IInv, TypeOK
<1>4. /\ Shl(hdr_sr, 1) \in [1 .. HdrBits -> Bit]
      /\ \A i \in 1 .. HdrBits :
            Shl(hdr_sr, 1)[i] = IF i + 1 <= HdrBits THEN hdr_sr[i + 1] ELSE 0
  <2>1. HdrBits \in Nat /\ hdr_sr \in [1 .. HdrBits -> Bit] /\ 1 \in Nat
    BY Widths DEF IInv, TypeOK
  <2> QED
    BY <2>1, ShiftedLeft
<1>5. CInv'
  BY Counted, HdrFallCounts
<1>6. CASE LastBit
  <2>1. state' = "DATA" /\ bits_left' = data_bits /\ bits_left = 1 /\ bit_cnt = HdrBits
    BY <1>2, <1>6, Widths DEF HdrFall, LastBit
  <2>2. InRange'
    BY <1>1, <1>2, <1>3, <2>1 DEF InRange
  <2>3. TypeOK'
    <3>1. data_bits \in 0 .. HdrBits + DataBits
      BY <1>2, <1>3, Widths
    <3> QED
      BY <1>1, <1>4, <2>1, <3>1, Synchronized DEF IInv, TypeOK, Bit
  <2>4. /\ is_write = asked.we /\ dev_addr = asked.addr
        /\ ~asked.we => out_byte = mem[dev_addr]
        /\ data_sr = LoadShifter(asked) /\ mem = before
    BY <1>1, <2>1 DEF IInv, Transfer, HeaderOnItsWay
  <2>5. Moved' = 0 /\ WholeBytes' = 0 /\ OddBits' = 0
    <3>1. Moved' = 0
      BY <1>1, <2>1, Widths DEF Moved
    <3>2. 0 = ByteBits * 0 + 0 /\ 0 \in 0 .. ByteBits - 1
      BY Widths
    <3>3. 0 \div ByteBits = 0 /\ 0 % ByteBits = 0
      BY <3>2, Widths, DivUnique
    <3> QED
      BY <3>1, <3>3 DEF WholeBytes, OddBits
  <2>6. AtItsByte'
    <3>1. asked.addr \in 0 .. Pow2[AddrBits] - 1
      BY <1>3, Request DEF Addr
    <3>2. (asked.addr + 0) % Pow2[AddrBits] = asked.addr
      <4>1. asked.addr + 0 = Pow2[AddrBits] * 0 + asked.addr
        BY <3>1, Widths
      <4>2. (Pow2[AddrBits] * 0 + asked.addr) % Pow2[AddrBits] = asked.addr
        <5>1. 0 \in Int /\ Pow2[AddrBits] \in Nat \ {0}
          BY Widths
        <5> QED
          BY <3>1, <5>1, DivUnique, Zenon
      <4> QED
        BY <4>1, <4>2
    <3> QED
      BY <1>1, <2>1, <2>4, <2>5, <3>2 DEF AtItsByte
  <2>7. StoreOnItsWay'
    <3> SUFFICES ASSUME asked.we PROVE StoreOnItsWay'
      BY <1>1 DEF StoreOnItsWay
    <3>1. \A i \in 1 .. data_bits : data_sr[i] = asked.wdata[DataBits - data_bits + i]
      BY <1>2, <1>3, <2>4, Loaded
    <3>2. Stored(before, asked, 0) = before
      BY StoredNone DEF IInv, TypeOK
    <3>3. Stored(before, asked, WholeBytes)' = Stored(before, asked, 0)
      BY <1>1, <2>5 DEF Stored
    <3> QED
      BY <1>1, <2>1, <2>4, <2>5, <3>1, <3>2, <3>3 DEF StoreOnItsWay
  <2>8. LoadOnItsWay'
    <3> SUFFICES ASSUME ~asked.we PROVE LoadOnItsWay'
      BY <1>1 DEF LoadOnItsWay
    <3>1. \A i \in 1 .. DataBits : data_sr[i] = 0
      BY <1>3, <2>4, Loaded
    <3>2. Captured(0)'
      <4>1. \A k \in Nat, i \in 1 .. ByteBits : ~ (k * ByteBits + i <= 0)
        <5> SUFFICES ASSUME NEW k \in Nat, NEW i \in 1 .. ByteBits PROVE k * ByteBits + i > 0
          BY Widths
        <5>1. k * ByteBits \in Nat
          BY Widths
        <5> QED
          BY <5>1
      <4>2. DataBits - 0 = DataBits
        BY Widths
      <4> QED
        BY <1>1, <3>1, <4>1, <4>2 DEF Captured
    <3>3. Captured(Moved)'
      BY <2>5, <3>2 DEF Captured
    <3>4. \A i \in 1 .. ByteBits - 0 : i + 0 = i
      BY Widths
    <3> QED
      BY <1>1, <2>1, <2>4, <2>5, <3>3, <3>4 DEF LoadOnItsWay
  <2>9. HeaderOnItsWay' /\ Finished'
    BY <2>1 DEF HeaderOnItsWay, Finished
  <2> QED
    BY <1>5, <2>2, <2>3, <2>6, <2>7, <2>8, <2>9 DEF IInv, CInv, Transfer
<1>7. CASE ~LastBit
  <2>1. /\ state' = "HDR" /\ bits_left' = bits_left - 1 /\ bits_left' \in 1 .. HdrBits
    BY <1>1, <1>2, <1>7, Widths DEF HdrFall, LastBit
  <2>2. InRange'
    BY <1>1, <1>2, <2>1 DEF InRange
  <2>3. TypeOK'
    <3>1. bits_left - 1 \in 0 .. HdrBits + DataBits
      BY <1>2, Widths
    <3> QED
      BY <1>1, <1>4, <2>1, <3>1, Synchronized DEF IInv, TypeOK, Bit
  <2>4. HeaderOnItsWay'
    <3>1. Header' = Header /\ LoadShifter(asked)' = LoadShifter(asked)
      BY <1>1 DEF Header, HeaderOf, LoadShifter
    <3>2. \A i \in 1 .. bits_left - 1 :
              Shl(hdr_sr, 1)[i] = Header[i + (HdrBits - (bits_left - 1))]
      <4> SUFFICES ASSUME NEW i \in 1 .. bits_left - 1
                   PROVE  Shl(hdr_sr, 1)[i] = Header[i + (HdrBits - (bits_left - 1))]
        OBVIOUS
      <4>1. /\ i \in 1 .. HdrBits /\ i + 1 <= HdrBits /\ i + 1 \in 1 .. bits_left
            /\ (i + 1) + (HdrBits - bits_left) = i + (HdrBits - (bits_left - 1))
        BY <1>2, Widths
      <4>2. hdr_sr[i + 1] = Header[(i + 1) + (HdrBits - bits_left)]
        BY <1>1, <4>1 DEF IInv, Transfer, HeaderOnItsWay
      <4> QED
        BY <1>4, <4>1, <4>2
    <3> QED
      BY <1>1, <2>1, <3>1, <3>2 DEF IInv, Transfer, HeaderOnItsWay
  <2>5. Transfer'
    BY <2>1, <2>4 DEF Transfer, AtItsByte, StoreOnItsWay, LoadOnItsWay, Finished
  <2> QED
    BY <1>5, <2>2, <2>3, <2>5 DEF IInv, CInv
<1> QED
  BY <1>6, <1>7

(* Where the data is between two bits, and one bit later.                  *)
LEMMA Position ==
    ASSUME IInv, state = "DATA", phase = 0
    PROVE  /\ asked \in Requests /\ asked.we \in BOOLEAN /\ we_q = asked.we
           /\ data_bits = asked.size * ByteBits /\ data_bits \in 1 .. DataBits
           /\ bits_left \in 1 .. data_bits
           /\ Moved \in Nat /\ Moved = data_bits - bits_left /\ bit_cnt = HdrBits + Moved
           /\ WholeBytes \in Nat /\ WholeBytes + 1 <= asked.size
           /\ OddBits \in 0 .. ByteBits - 1
           /\ WholeBytes * ByteBits \in Nat /\ Moved = WholeBytes * ByteBits + OddBits
<1>1. /\ asked \in Requests /\ we_q = asked.we /\ data_bits = asked.size * ByteBits
      /\ bits_left \in 1 .. data_bits /\ bit_cnt = HdrBits + data_bits - bits_left
  BY Counted, Widths DEF IInv, TypeOK, InStep, InRange
<1>2. asked.we \in BOOLEAN /\ asked.size \in Nat /\ asked.size * ByteBits \in 1 .. DataBits
  BY <1>1, Request, Widths
<1>3. Moved \in Nat /\ Moved = data_bits - bits_left /\ bit_cnt = HdrBits + Moved
  BY <1>1, <1>2, Widths DEF Moved
<1>4. /\ WholeBytes \in Int /\ OddBits \in 0 .. ByteBits - 1
      /\ Moved = ByteBits * WholeBytes + OddBits
  <2>1. Moved \in Int /\ ByteBits \in Nat \ {0}
    BY <1>3, Widths
  <2> QED
    BY <2>1, DivMod, Zenon DEF WholeBytes, OddBits
<1>5. WholeBytes >= 0
  <2> SUFFICES ASSUME WholeBytes <= -1 PROVE FALSE
    BY <1>4
  <2>1. ByteBits * WholeBytes <= ByteBits * (-1)
    BY <1>4, Widths
  <2> QED
    BY <1>3, <1>4, <2>1, Widths
<1>6. WholeBytes < asked.size
  <2> SUFFICES ASSUME WholeBytes >= asked.size PROVE FALSE
    BY <1>2, <1>4
  <2>1. ByteBits * WholeBytes >= ByteBits * asked.size
    BY <1>2, <1>4, Widths
  <2>2. ByteBits * asked.size = data_bits
    BY <1>1, <1>2, Widths
  <2>3. ByteBits * WholeBytes \in Int /\ data_bits \in Int /\ bits_left \in Int
    BY <1>1, <1>2, <1>4, Widths
  <2>4. Moved >= data_bits
    BY <1>4, <2>1, <2>2, <2>3
  <2> QED
    BY <1>1, <1>3, <2>3, <2>4
<1>7. WholeBytes * ByteBits = ByteBits * WholeBytes /\ WholeBytes * ByteBits \in Nat
  BY <1>4, <1>5, Widths
<1> QED
  BY <1>1, <1>2, <1>3, <1>4, <1>5, <1>6, <1>7

LEMMA PositionNext ==
    ASSUME IInv, state = "DATA", phase = 0, bit_cnt' = bit_cnt + 1
    PROVE  /\ Moved' = Moved + 1
           /\ LastBitOfByte <=> OddBits = ByteBits - 1
           /\ OddBits = ByteBits - 1 => WholeBytes' = WholeBytes + 1 /\ OddBits' = 0
           /\ OddBits # ByteBits - 1 => WholeBytes' = WholeBytes /\ OddBits' = OddBits + 1
<1>1. Moved' = Moved + 1 /\ Moved \in Nat
  BY Position, Widths DEF Moved
<1>2. LastBitOfByte <=> OddBits = ByteBits - 1
  BY DEF LastBitOfByte, OddBits, Moved
<1>3. /\ Moved % ByteBits = ByteBits - 1 =>
            (Moved + 1) \div ByteBits = (Moved \div ByteBits) + 1 /\ (Moved + 1) % ByteBits = 0
      /\ Moved % ByteBits # ByteBits - 1 =>
            (Moved + 1) \div ByteBits = Moved \div ByteBits
            /\ (Moved + 1) % ByteBits = (Moved % ByteBits) + 1
  BY <1>1, Widths, DivSucc, Zenon
<1>4. WholeBytes' = (Moved + 1) \div ByteBits /\ OddBits' = (Moved + 1) % ByteBits
  BY <1>1 DEF WholeBytes, OddBits
<1> QED
  BY <1>1, <1>2, <1>3, <1>4 DEF WholeBytes, OddBits

LEMMA NextByte ==
    ASSUME IInv, state = "DATA", phase = 0
    PROVE  /\ NextAddr = (asked.addr + (WholeBytes + 1)) % Pow2[AddrBits]
           /\ NextAddr \in Addr /\ dev_addr \in Addr
<1>1. asked.addr \in Int /\ WholeBytes \in Nat /\ dev_addr \in Addr
  <2>1. asked \in Requests /\ WholeBytes \in Nat /\ dev_addr \in Addr
    BY Position DEF IInv, TypeOK
  <2>2. asked.addr \in Addr
    BY <2>1, Request
  <2> QED
    BY <2>1, <2>2, Widths DEF Addr
<1>2. dev_addr = (asked.addr + WholeBytes) % Pow2[AddrBits]
  BY DEF IInv, Transfer, AtItsByte
<1>3. (((asked.addr + WholeBytes) % Pow2[AddrBits]) + 1) % Pow2[AddrBits]
          = (asked.addr + WholeBytes + 1) % Pow2[AddrBits]
  <2>1. Pow2[AddrBits] \in Nat \ {0} /\ asked.addr + WholeBytes \in Int /\ 1 \in Int
    BY <1>1, Widths
  <2> QED
    BY <2>1, ModAdd, Zenon
<1>4. asked.addr + WholeBytes + 1 = asked.addr + (WholeBytes + 1)
  BY <1>1
<1>5. NextAddr \in Addr
  <2>1. dev_addr + 1 \in Int /\ Pow2[AddrBits] \in Nat \ {0}
    BY <1>1, Widths DEF Addr
  <2> QED
    BY <2>1, DivMod DEF NextAddr, Addr
<1> QED
  BY <1>1, <1>2, <1>3, <1>4, <1>5 DEF NextAddr

(* A bit of a store: the byte the memory puts together is the operand's.   *)
LEMMA StoreBitTaken ==
    ASSUME IInv, state = "DATA", phase = 0, asked.we, SckRises
    PROVE  /\ bit_cnt' = bit_cnt + 1 /\ dev_hdr' = dev_hdr /\ is_write' = is_write
           /\ out_byte' = out_byte
           /\ wr_byte' \in Byte /\ mem' \in [Addr -> Byte] /\ dev_addr' \in Addr
           /\ dev_addr' = (asked.addr + WholeBytes') % Pow2[AddrBits]
           /\ \A i \in 1 .. OddBits' :
                 wr_byte'[ByteBits - OddBits' + i]
                     = asked.wdata[DataBits - data_bits + (WholeBytes' * ByteBits + i)]
           /\ mem' = Stored(before, asked, WholeBytes')
<1> DEFINE q == WholeBytes
           r == OddBits
           w == WholeBytes * ByteBits
           D == DataBits - data_bits
           byte == ShiftIn(wr_byte, spi_mosi)
<1>1. /\ asked \in Requests /\ we_q /\ data_bits = asked.size * ByteBits
      /\ data_bits \in 1 .. DataBits /\ bits_left \in 1 .. data_bits /\ bit_cnt = HdrBits + Moved
      /\ Moved \in Nat /\ Moved = data_bits - bits_left
      /\ q \in Nat /\ q + 1 <= asked.size /\ r \in 0 .. ByteBits - 1
      /\ w \in Nat /\ Moved = w + r
  BY Position
<1>2. is_write /\ dev_addr = (asked.addr + q) % Pow2[AddrBits] /\ dev_addr \in Addr
  BY NextByte DEF IInv, Transfer, AtItsByte
<1>3. TakeDataBit /\ bit_cnt' = bit_cnt + 1
  <2>1. ~ (bit_cnt < HdrBits)
    BY <1>1, Widths
  <2> QED
    BY <1>2, <2>1 DEF SckRises
<1>4. /\ wr_byte' = byte
      /\ LastBitOfByte => mem' = [mem EXCEPT ![dev_addr] = byte] /\ dev_addr' = NextAddr
      /\ ~LastBitOfByte => mem' = mem /\ dev_addr' = dev_addr
      /\ dev_hdr' = dev_hdr /\ is_write' = is_write /\ out_byte' = out_byte
  BY <1>3 DEF TakeDataBit
<1>5. /\ LastBitOfByte <=> r = ByteBits - 1
      /\ r = ByteBits - 1 => WholeBytes' = q + 1 /\ OddBits' = 0
      /\ r # ByteBits - 1 => WholeBytes' = q /\ OddBits' = r + 1
  BY <1>3, PositionNext
<1>6. asked.wdata \in [1 .. DataBits -> Bit] /\ DataBits \in Nat /\ ByteBits \in Nat \ {0}
  BY <1>1, Request, Widths
<1>7. spi_mosi = asked.wdata[D + (w + (r + 1))] /\ spi_mosi \in Bit
  <2>1. /\ 1 \in 1 .. bits_left /\ DataBits - bits_left + 1 = D + (w + (r + 1))
        /\ DataBits - bits_left + 1 \in 1 .. DataBits
    BY <1>1, <1>6
  <2>2. data_sr[1] = asked.wdata[DataBits - bits_left + 1]
    BY <2>1 DEF IInv, Transfer, StoreOnItsWay
  <2> QED
    BY <1>1, <1>6, <2>1, <2>2 DEF spi_mosi
<1>8. /\ byte \in [1 .. ByteBits -> Bit]
      /\ \A i \in 1 .. ByteBits : byte[i] = IF i < ByteBits THEN wr_byte[i + 1] ELSE spi_mosi
  <2>1. wr_byte \in [1 .. ByteBits -> Bit] /\ ByteBits \in Nat
    BY <1>6 DEF IInv, TypeOK, Byte
  <2>2. spi_mosi \in Bit
    BY <1>7
  <2> QED
    BY <2>1, <2>2, ShiftedIn, Zenon
<1> HIDE DEF byte, q, r, w, D
<1>9. \A i \in 1 .. r : wr_byte[ByteBits - r + i] = asked.wdata[D + (w + i)]
  BY DEF IInv, Transfer, StoreOnItsWay, r, w, D
<1>10. ASSUME NEW i \in 1 .. r + 1 PROVE byte[ByteBits - (r + 1) + i] = asked.wdata[D + (w + i)]
  <2> DEFINE p == ByteBits - (r + 1) + i
  <2>1. p \in 1 .. ByteBits
    BY <1>1, <1>6
  <2>2. CASE i <= r
    <3>1. p < ByteBits /\ p + 1 = ByteBits - r + i /\ i \in 1 .. r
      BY <1>1, <1>6, <2>2
    <3> QED
      BY <1>8, <1>9, <2>1, <3>1
  <2>3. CASE i = r + 1
    BY <1>1, <1>6, <1>7, <1>8, <2>1, <2>3
  <2> QED
    BY <1>1, <2>2, <2>3
<1>11. mem = Stored(before, asked, q) /\ mem \in [Addr -> Byte]
  BY DEF IInv, TypeOK, Transfer, StoreOnItsWay, q
<1>12. CASE r = ByteBits - 1
  <2>1. /\ mem' = [mem EXCEPT ![dev_addr] = byte] /\ dev_addr' = NextAddr
        /\ WholeBytes' = q + 1 /\ OddBits' = 0
    BY <1>4, <1>5, <1>12
  <2>2. byte = ByteOf(asked.wdata, asked.size, q)
    <3>1. ASSUME NEW i \in 1 .. ByteBits
          PROVE  byte[i] = asked.wdata[DataBits - (asked.size - q) * ByteBits + i]
      <4>1. i \in 1 .. r + 1 /\ ByteBits - (r + 1) + i = i
        BY <1>6, <1>12
      <4>2. byte[i] = asked.wdata[D + (w + i)]
        BY <1>10, <4>1
      <4>3. D + (w + i) = DataBits - (asked.size - q) * ByteBits + i
        <5>1. asked.size \in Int
          BY <1>1, Request
        <5>2. (asked.size - q) * ByteBits = asked.size * ByteBits - q * ByteBits
          BY <1>1, <1>6, <5>1
        <5> QED
          BY <1>1, <1>6, <5>1, <5>2 DEF D, w, q
      <4> QED
        BY <4>2, <4>3
    <3>2. byte = [i \in 1 .. ByteBits |-> byte[i]]
      BY <1>8, Zenon
    <3> QED
      BY <3>1, <3>2 DEF ByteOf
  <2>3. Stored(before, asked, WholeBytes + 1)
            = [Stored(before, asked, WholeBytes) EXCEPT
                  ![(asked.addr + WholeBytes) % Pow2[AddrBits]]
                      = ByteOf(asked.wdata, asked.size, WholeBytes)]
    <3>1. asked \in Requests /\ WholeBytes \in Nat /\ WholeBytes + 1 <= asked.size
      BY Position
    <3> QED
      BY <3>1, StoredNext, ZenonT(60)
  <2>4. mem' = Stored(before, asked, WholeBytes')
    BY <1>2, <1>11, <2>1, <2>2, <2>3 DEF q
  <2>5. dev_addr' = (asked.addr + WholeBytes') % Pow2[AddrBits] /\ dev_addr' \in Addr
    BY <2>1, NextByte DEF q
  <2>6. mem' \in [Addr -> Byte] /\ wr_byte' \in Byte
    BY <1>2, <1>4, <1>8, <1>11, <2>1 DEF Byte
  <2>7. \A i \in 1 .. OddBits' : FALSE
    BY <2>1
  <2> QED
    BY <1>3, <1>4, <2>4, <2>5, <2>6, <2>7
<1>13. CASE r # ByteBits - 1
  <2>1. mem' = mem /\ dev_addr' = dev_addr /\ WholeBytes' = q /\ OddBits' = r + 1
    BY <1>4, <1>5, <1>13
  <2>2. \A i \in 1 .. OddBits' :
            wr_byte'[ByteBits - OddBits' + i]
                = asked.wdata[DataBits - data_bits + (WholeBytes' * ByteBits + i)]
    BY <1>4, <1>10, <2>1 DEF D, w, q
  <2>3. wr_byte' \in Byte
    BY <1>4, <1>8 DEF Byte
  <2> QED
    BY <1>2, <1>3, <1>4, <1>11, <2>1, <2>2, <2>3
<1> QED
  BY <1>12, <1>13

(* A bit of a load: the memory goes on to the next bit, or byte.           *)
LEMMA LoadBitGiven ==
    ASSUME IInv, state = "DATA", phase = 0, ~asked.we, SckRises
    PROVE  /\ bit_cnt' = bit_cnt + 1 /\ dev_hdr' = dev_hdr /\ is_write' = is_write
           /\ wr_byte' = wr_byte /\ mem' = mem
           /\ out_byte' \in Byte /\ dev_addr' \in Addr
           /\ dev_addr' = (asked.addr + WholeBytes') % Pow2[AddrBits]
           /\ \A i \in 1 .. ByteBits - OddBits' : out_byte'[i] = mem[dev_addr'][i + OddBits']
<1>1. /\ bit_cnt = HdrBits + Moved /\ Moved \in Nat /\ OddBits \in 0 .. ByteBits - 1
      /\ ByteBits \in Nat \ {0} /\ HdrBits \in Nat
  BY Position, Widths
<1>2. /\ ~is_write /\ dev_addr = (asked.addr + WholeBytes) % Pow2[AddrBits]
      /\ \A i \in 1 .. ByteBits - OddBits : out_byte[i] = mem[dev_addr][i + OddBits]
  BY DEF IInv, Transfer, AtItsByte, LoadOnItsWay
<1>3. GiveDataBit /\ bit_cnt' = bit_cnt + 1
  <2>1. ~ (bit_cnt < HdrBits)
    BY <1>1
  <2> QED
    BY <1>2, <2>1 DEF SckRises
<1>4. /\ LastBitOfByte <=> OddBits = ByteBits - 1
      /\ OddBits = ByteBits - 1 => WholeBytes' = WholeBytes + 1 /\ OddBits' = 0
      /\ OddBits # ByteBits - 1 => WholeBytes' = WholeBytes /\ OddBits' = OddBits + 1
  BY <1>3, PositionNext
<1>5. /\ out_byte \in [1 .. ByteBits -> Bit] /\ mem \in [Addr -> Byte]
      /\ dev_addr \in Addr /\ NextAddr \in Addr
      /\ NextAddr = (asked.addr + (WholeBytes + 1)) % Pow2[AddrBits]
  BY NextByte DEF IInv, TypeOK, Byte
<1>6. dev_hdr' = dev_hdr /\ is_write' = is_write /\ wr_byte' = wr_byte /\ mem' = mem
  BY <1>3 DEF GiveDataBit
<1>7. CASE LastBitOfByte
  <2>1. out_byte' = mem[NextAddr] /\ dev_addr' = NextAddr
    BY <1>3, <1>7 DEF GiveDataBit
  <2>2. WholeBytes' = WholeBytes + 1 /\ OddBits' = 0
    BY <1>4, <1>7
  <2>3. out_byte' \in Byte
    BY <1>5, <2>1
  <2>4. \A i \in 1 .. ByteBits - OddBits' : out_byte'[i] = mem[dev_addr'][i + OddBits']
    <3>1. \A i \in 1 .. ByteBits - 0 : i + 0 = i
      BY <1>1
    <3> QED
      BY <2>1, <2>2, <3>1
  <2> QED
    BY <1>3, <1>5, <1>6, <2>1, <2>2, <2>3, <2>4
<1>8. CASE ~LastBitOfByte
  <2>1. out_byte' = Shl(out_byte, 1) /\ dev_addr' = dev_addr
    BY <1>3, <1>8 DEF GiveDataBit
  <2>2. WholeBytes' = WholeBytes /\ OddBits' = OddBits + 1
    BY <1>4, <1>8
  <2>3. /\ Shl(out_byte, 1) \in [1 .. ByteBits -> Bit]
        /\ \A i \in 1 .. ByteBits :
              Shl(out_byte, 1)[i] = IF i + 1 <= ByteBits THEN out_byte[i + 1] ELSE 0
    <3>1. ByteBits \in Nat /\ 1 \in Nat
      BY <1>1
    <3> QED
      BY <1>5, <3>1, ShiftedLeft
  <2>4. ASSUME NEW i \in 1 .. ByteBits - (OddBits + 1)
        PROVE  out_byte'[i] = mem[dev_addr][i + (OddBits + 1)]
    <3>1. /\ i \in 1 .. ByteBits /\ i + 1 <= ByteBits /\ i + 1 \in 1 .. ByteBits - OddBits
          /\ (i + 1) + OddBits = i + (OddBits + 1)
      BY <1>1
    <3>2. out_byte[i + 1] = mem[dev_addr][(i + 1) + OddBits]
      BY <1>2, <3>1
    <3> QED
      BY <2>1, <2>3, <3>1, <3>2
  <2>5. out_byte' \in Byte
    BY <2>1, <2>3 DEF Byte
  <2> QED
    BY <1>2, <1>3, <1>5, <1>6, <2>1, <2>2, <2>4, <2>5
<1> QED
  BY <1>7, <1>8

(* Without flip-flops on the pin the bit captured is the one on the wire.  *)
LEMMA BitCaptured ==
    ASSUME IInv, state = "DATA", phase = 0, ~asked.we, SyncStages = 0,
           bit_cnt' = bit_cnt + 1, data_sr' = ShiftIn(data_sr, spi_miso),
           mem' = mem, asked' = asked
    PROVE  Captured(Moved)'
<1>1. /\ Moved \in Nat /\ data_bits \in 1 .. DataBits /\ Moved = data_bits - bits_left
      /\ bits_left \in 1 .. data_bits /\ DataBits \in Nat
      /\ WholeBytes \in Nat /\ OddBits \in 0 .. ByteBits - 1 /\ ByteBits \in Nat \ {0}
      /\ Moved = WholeBytes * ByteBits + OddBits /\ WholeBytes * ByteBits \in Nat
  BY Position, Widths
<1>2. Moved' = Moved + 1
  BY PositionNext
<1>3. /\ dev_addr = (asked.addr + WholeBytes) % Pow2[AddrBits]
      /\ \A i \in 1 .. ByteBits - OddBits : out_byte[i] = mem[dev_addr][i + OddBits]
      /\ Captured(Moved)
  BY DEF IInv, Transfer, AtItsByte, LoadOnItsWay
<1>4. spi_miso = mem[dev_addr][OddBits + 1] /\ spi_miso \in Bit
  <2>1. 1 \in 1 .. ByteBits - OddBits /\ 1 + OddBits = OddBits + 1 /\ 1 \in 1 .. ByteBits
    BY <1>1
  <2>2. out_byte[1] \in Bit
    BY <2>1 DEF IInv, TypeOK, Byte
  <2> QED
    BY <1>3, <2>1, <2>2 DEF spi_miso
<1>5. \A i \in 1 .. DataBits : data_sr'[i] = IF i < DataBits THEN data_sr[i + 1] ELSE spi_miso
  <2>1. data_sr \in [1 .. DataBits -> Bit]
    BY DEF IInv, TypeOK
  <2>2. DataBits \in Nat
    BY <1>1
  <2>3. spi_miso \in Bit
    BY <1>4
  <2>4. \A i \in 1 .. DataBits :
            ShiftIn(data_sr, spi_miso)[i] = IF i < DataBits THEN data_sr[i + 1] ELSE spi_miso
    BY <2>1, <2>2, <2>3, ShiftedIn, Zenon
  <2>5. data_sr' = ShiftIn(data_sr, spi_miso)
    OBVIOUS
  <2> QED
    BY <2>4, <2>5, Zenon
<1>6. \A i \in 1 .. DataBits - (Moved + 1) : data_sr'[i] = 0
  <2> SUFFICES ASSUME NEW i \in 1 .. DataBits - (Moved + 1) PROVE data_sr'[i] = 0
    OBVIOUS
  <2>1. i \in 1 .. DataBits /\ i < DataBits /\ i + 1 \in 1 .. DataBits - Moved
    BY <1>1
  <2> QED
    BY <1>3, <1>5, <2>1 DEF Captured
<1>7. ASSUME NEW k \in Nat, NEW i \in 1 .. ByteBits, k * ByteBits + i <= Moved + 1
      PROVE  data_sr'[DataBits - (Moved + 1) + (k * ByteBits + i)]
                 = mem[(asked.addr + k) % Pow2[AddrBits]][i]
  <2> DEFINE n == k * ByteBits + i
             p == DataBits - (Moved + 1) + n
  <2>1. k * ByteBits \in Nat
    BY <1>1
  <2>2. n \in Nat \ {0} /\ p \in 1 .. DataBits
    BY <1>1, <1>7, <2>1
  <2>3. CASE n <= Moved
    <3>1. p < DataBits /\ p + 1 = DataBits - Moved + n
      BY <1>1, <2>2, <2>3
    <3>2. data_sr[DataBits - Moved + (k * ByteBits + i)]
              = mem[(asked.addr + k) % Pow2[AddrBits]][i]
      BY <1>3, <2>3 DEF Captured
    <3> QED
      BY <1>5, <2>2, <3>1, <3>2
  <2>4. CASE n = Moved + 1
    <3>1. i - 1 \in 0 .. ByteBits - 1 /\ ByteBits * k + (i - 1) = Moved
          /\ ByteBits * WholeBytes + OddBits = Moved
      BY <1>1, <2>1, <2>4
    <3>2. Moved \div ByteBits = k /\ Moved % ByteBits = i - 1
      <4>1. k \in Int /\ ByteBits \in Nat \ {0}
        BY <1>1
      <4>2. /\ (ByteBits * k + (i - 1)) \div ByteBits = k
            /\ (ByteBits * k + (i - 1)) % ByteBits = i - 1
        BY <3>1, <4>1, DivUnique, Zenon
      <4> QED
        BY <3>1, <4>2
    <3>3. k = WholeBytes /\ i = OddBits + 1
      BY <1>1, <3>2 DEF WholeBytes, OddBits
    <3>4. p = DataBits
      BY <1>1, <2>4
    <3>5. data_sr'[p] = spi_miso
      BY <1>1, <1>5, <2>2, <3>4
    <3> QED
      BY <1>3, <1>4, <3>3, <3>5
  <2> QED
    BY <1>1, <1>7, <2>2, <2>3, <2>4
<1> QED
  BY <1>2, <1>6, <1>7 DEF Captured

LEMMA DataRiseKeeps == ASSUME IInv, DataRise PROVE IInv'
<1>1. /\ state = "DATA" /\ state' = "DATA" /\ phase = 0 /\ phase' = 1 /\ we_q' = we_q
      /\ data_bits' = data_bits /\ bits_left' = bits_left /\ hdr_sr' = hdr_sr
      /\ data_sr' = (IF we_q THEN data_sr ELSE ShiftIn(data_sr, spi_miso))
      /\ asked' = asked /\ before' = before /\ Synchronize /\ SckRises
  BY DEF DataRise, history
<1>2. CInv'
  BY Counted, RiseCounts
<1>3. InRange'
  BY <1>1 DEF IInv, InRange
<1>4. /\ asked \in Requests /\ asked.we \in BOOLEAN /\ we_q = asked.we
      /\ bit_cnt = HdrBits + Moved /\ Moved = data_bits - bits_left
      /\ data_bits \in 1 .. DataBits /\ bits_left \in 1 .. data_bits
  BY <1>1, Position
<1>5. bit_cnt + 1 \in 0 .. HdrBits + DataBits
  BY <1>4, Widths
<1>6. is_write = asked.we
  BY <1>1 DEF IInv, Transfer, AtItsByte
<1>7. CASE asked.we
  <2>1. /\ bit_cnt' = bit_cnt + 1 /\ dev_hdr' = dev_hdr /\ is_write' = is_write
        /\ out_byte' = out_byte
        /\ wr_byte' \in Byte /\ mem' \in [Addr -> Byte] /\ dev_addr' \in Addr
        /\ dev_addr' = (asked.addr + WholeBytes') % Pow2[AddrBits]
        /\ \A i \in 1 .. OddBits' :
              wr_byte'[ByteBits - OddBits' + i]
                  = asked.wdata[DataBits - data_bits + (WholeBytes' * ByteBits + i)]
        /\ mem' = Stored(before, asked, WholeBytes')
    BY <1>1, <1>7, StoreBitTaken
  <2>2. data_sr' = data_sr
    BY <1>1, <1>4, <1>7
  <2>3. TypeOK'
    BY <1>1, <1>5, <2>1, <2>2, Synchronized DEF IInv, TypeOK, Bit
  <2>4. AtItsByte' /\ LoadOnItsWay' /\ HeaderOnItsWay' /\ Finished'
    BY <1>1, <1>6, <1>7, <2>1 DEF AtItsByte, LoadOnItsWay, HeaderOnItsWay, Finished
  <2>5. StoreOnItsWay'
    <3>1. Stored(before, asked, WholeBytes)' = Stored(before, asked, WholeBytes')
      BY <1>1 DEF Stored
    <3> QED
      BY <1>1, <1>7, <2>1, <2>2, <3>1 DEF IInv, Transfer, StoreOnItsWay
  <2> QED
    BY <1>2, <1>3, <2>3, <2>4, <2>5 DEF IInv, CInv, Transfer
<1>8. CASE ~asked.we
  <2>1. /\ bit_cnt' = bit_cnt + 1 /\ dev_hdr' = dev_hdr /\ is_write' = is_write
        /\ wr_byte' = wr_byte /\ mem' = mem
        /\ out_byte' \in Byte /\ dev_addr' \in Addr
        /\ dev_addr' = (asked.addr + WholeBytes') % Pow2[AddrBits]
        /\ \A i \in 1 .. ByteBits - OddBits' : out_byte'[i] = mem[dev_addr'][i + OddBits']
    BY <1>1, <1>8, LoadBitGiven
  <2>2. data_sr' = ShiftIn(data_sr, spi_miso)
    BY <1>1, <1>4, <1>8
  <2>3. data_sr' \in [1 .. DataBits -> Bit]
    <3>1. spi_miso \in Bit
      <4>1. out_byte[1] \in Bit
        BY Widths DEF IInv, TypeOK, Byte
      <4>2. SyncStages # 0 => sync[SyncStages] \in Bit
        BY Widths DEF IInv, TypeOK
      <4> QED
        BY <4>1, <4>2 DEF spi_miso
    <3>2. data_sr \in [1 .. DataBits -> Bit] /\ DataBits \in Nat
      BY Widths DEF IInv, TypeOK
    <3> QED
      BY <2>2, <3>1, <3>2, ShiftedIn
  <2>4. TypeOK'
    BY <1>1, <1>5, <2>1, <2>3, Synchronized DEF IInv, TypeOK, Bit
  <2>5. AtItsByte' /\ StoreOnItsWay' /\ HeaderOnItsWay' /\ Finished'
    BY <1>1, <1>6, <1>8, <2>1 DEF AtItsByte, StoreOnItsWay, HeaderOnItsWay, Finished
  <2>6. LoadOnItsWay'
    <3>1. mem = before
      BY <1>1, <1>8 DEF IInv, Transfer, LoadOnItsWay
    <3>2. SyncStages = 0 => Captured(Moved)'
      BY <1>1, <1>8, <2>1, <2>2, BitCaptured
    <3> QED
      BY <1>1, <2>1, <3>1, <3>2 DEF LoadOnItsWay
  <2> QED
    BY <1>2, <1>3, <2>4, <2>5, <2>6 DEF IInv, CInv, Transfer
<1> QED
  BY <1>4, <1>7, <1>8

LEMMA DataFallKeeps == ASSUME IInv, DataFall PROVE IInv'
<1>1. /\ state = "DATA" /\ phase = 1 /\ phase' = 0 /\ we_q' = we_q
      /\ data_bits' = data_bits /\ bits_left' = bits_left - 1 /\ hdr_sr' = hdr_sr
      /\ data_sr' = (IF we_q THEN Shl(data_sr, 1) ELSE data_sr)
      /\ mem' = mem /\ dev_hdr' = dev_hdr /\ is_write' = is_write /\ dev_addr' = dev_addr
      /\ wr_byte' = wr_byte /\ out_byte' = out_byte /\ asked' = asked /\ before' = before
      /\ Synchronize
      /\ LastBit => state' = "DONE" /\ bit_cnt' = 0
      /\ ~LastBit => state' = "DATA" /\ bit_cnt' = bit_cnt
  BY DEF DataFall, CsRises, Quiet, device, history
<1>2. CInv'
  BY Counted, DataFallCounts
<1>3. /\ asked \in Requests /\ asked.we \in BOOLEAN /\ we_q = asked.we
      /\ asked.size \in Nat /\ data_bits = asked.size * ByteBits
      /\ data_bits \in 1 .. DataBits /\ bits_left \in 1 .. data_bits
      /\ bit_cnt = HdrBits + data_bits - bits_left + 1
  <2>1. /\ asked \in Requests /\ we_q = asked.we /\ data_bits = asked.size * ByteBits
        /\ bits_left \in 1 .. data_bits /\ bit_cnt = HdrBits + data_bits - bits_left + 1
    BY <1>1 DEF IInv, TypeOK, InStep, InRange
  <2> QED
    BY <2>1, Request, Widths
<1>4. /\ data_sr \in [1 .. DataBits -> Bit] /\ Shl(data_sr, 1) \in [1 .. DataBits -> Bit]
      /\ \A i \in 1 .. DataBits :
            Shl(data_sr, 1)[i] = IF i + 1 <= DataBits THEN data_sr[i + 1] ELSE 0
  <2>1. DataBits \in Nat /\ data_sr \in [1 .. DataBits -> Bit] /\ 1 \in Nat
    BY Widths DEF IInv, TypeOK
  <2> QED
    BY <2>1, ShiftedLeft
<1>5. InRange'
  BY <1>1, <1>3, Widths DEF InRange, LastBit
<1>6. TypeOK'
  <2>1. bit_cnt \in 0 .. HdrBits + DataBits /\ 0 \in 0 .. HdrBits + DataBits
        /\ bits_left - 1 \in 0 .. HdrBits + DataBits
    BY <1>3, Widths
  <2>2. data_sr' \in [1 .. DataBits -> Bit]
    BY <1>1, <1>4
  <2>3. bit_cnt' \in 0 .. HdrBits + DataBits /\ state' \in {"IDLE", "HDR", "DATA", "DONE"}
    BY <1>1, <2>1
  <2> QED
    BY <1>1, <2>1, <2>2, <2>3, Synchronized DEF IInv, TypeOK, Bit
<1>7. CASE LastBit
  <2>1. bits_left = 1 /\ Moved = data_bits /\ state' = "DONE"
    BY <1>1, <1>3, <1>7, Widths DEF LastBit, Moved
  <2>2. WholeBytes = asked.size
    <3>1. data_bits = ByteBits * asked.size + 0 /\ 0 \in 0 .. ByteBits - 1
          /\ asked.size \in Int /\ ByteBits \in Nat \ {0}
      BY <1>3, Widths
    <3>2. (ByteBits * asked.size + 0) \div ByteBits = asked.size
      BY <3>1, DivUnique, Zenon
    <3> QED
      BY <2>1, <3>1, <3>2 DEF WholeBytes
  <2>3. Finished'
    <3>1. CASE asked.we
      <4>1. mem = Stored(before, asked, asked.size)
        BY <1>1, <2>2, <3>1 DEF IInv, Transfer, StoreOnItsWay
      <4>2. Stored(before, asked, IF asked.we THEN asked.size ELSE 0)'
                = Stored(before, asked, asked.size)
        BY <1>1, <3>1 DEF Stored
      <4> QED
        BY <1>1, <3>1, <4>1, <4>2 DEF Finished
    <3>2. CASE ~asked.we
      <4>1. mem = before /\ (SyncStages = 0 => Captured(Moved))
        BY <1>1, <3>2 DEF IInv, Transfer, LoadOnItsWay
      <4>2. Stored(before, asked, 0) = before
        BY StoredNone DEF IInv, TypeOK
      <4>3. Stored(before, asked, IF asked.we THEN asked.size ELSE 0)'
                = Stored(before, asked, 0)
        BY <1>1, <3>2 DEF Stored
      <4>4. SyncStages = 0 => Captured(data_bits)'
        BY <1>1, <1>3, <2>1, <3>2, <4>1 DEF Captured
      <4> QED
        BY <1>1, <4>1, <4>2, <4>3, <4>4 DEF Finished
    <3> QED
      BY <1>3, <3>1, <3>2
  <2>4. Transfer'
    BY <2>1, <2>3 DEF Transfer, HeaderOnItsWay, AtItsByte, StoreOnItsWay, LoadOnItsWay
  <2> QED
    BY <1>2, <1>5, <1>6, <2>4 DEF IInv, CInv
<1>8. CASE ~LastBit
  <2>1. state' = "DATA" /\ bit_cnt' = bit_cnt /\ bits_left' = bits_left - 1
    BY <1>1, <1>8
  <2>2. Moved' = Moved /\ WholeBytes' = WholeBytes /\ OddBits' = OddBits
    BY <2>1 DEF Moved, WholeBytes, OddBits
  <2>3. AtItsByte'
    BY <1>1, <2>2 DEF IInv, Transfer, AtItsByte
  <2>4. StoreOnItsWay'
    <3> SUFFICES ASSUME asked.we PROVE StoreOnItsWay'
      BY <1>1 DEF StoreOnItsWay
    <3>1. ASSUME NEW i \in 1 .. bits_left - 1
          PROVE  data_sr'[i] = asked.wdata[DataBits - (bits_left - 1) + i]
      <4>1. /\ i \in 1 .. DataBits /\ i + 1 <= DataBits /\ i + 1 \in 1 .. bits_left
            /\ DataBits - bits_left + (i + 1) = DataBits - (bits_left - 1) + i
        BY <1>3, Widths
      <4>2. data_sr[i + 1] = asked.wdata[DataBits - bits_left + (i + 1)]
        BY <1>1, <4>1 DEF IInv, Transfer, StoreOnItsWay
      <4>3. data_sr'[i] = data_sr[i + 1]
        BY <1>1, <1>3, <1>4, <4>1
      <4> QED
        BY <4>1, <4>2, <4>3
    <3>2. Stored(before, asked, WholeBytes)' = Stored(before, asked, WholeBytes)
      BY <1>1, <2>2 DEF Stored
    <3> QED
      BY <1>1, <2>1, <2>2, <3>1, <3>2 DEF IInv, Transfer, StoreOnItsWay
  <2>5. LoadOnItsWay'
    <3> SUFFICES ASSUME ~asked.we PROVE LoadOnItsWay'
      BY <1>1 DEF LoadOnItsWay
    <3>1. data_sr' = data_sr
      BY <1>1, <1>3
    <3>2. Captured(Moved) => Captured(Moved)'
      BY <1>1, <2>2, <3>1 DEF Captured
    <3> QED
      BY <1>1, <2>2, <3>2 DEF IInv, Transfer, LoadOnItsWay
  <2>6. Transfer'
    BY <2>1, <2>3, <2>4, <2>5 DEF Transfer, HeaderOnItsWay, Finished
  <2> QED
    BY <1>2, <1>5, <1>6, <2>6 DEF IInv, CInv
<1> QED
  BY <1>7, <1>8

LEMMA TransferNext == IInv /\ [Next]_vars => IInv'
<1> SUFFICES ASSUME IInv, [Next]_vars PROVE IInv'
  OBVIOUS
<1>1. CASE UNCHANGED vars
  <2>1. /\ state' = state /\ phase' = phase /\ we_q' = we_q
        /\ data_bits' = data_bits /\ bits_left' = bits_left /\ hdr_sr' = hdr_sr
        /\ data_sr' = data_sr /\ sync' = sync /\ mem' = mem /\ bit_cnt' = bit_cnt
        /\ dev_hdr' = dev_hdr /\ is_write' = is_write /\ dev_addr' = dev_addr
        /\ wr_byte' = wr_byte /\ out_byte' = out_byte /\ asked' = asked /\ before' = before
    BY <1>1 DEF vars, regs, device, history
  <2>2. TypeOK' /\ InStep' /\ InRange'
    BY <2>1 DEF IInv, TypeOK, InStep, InRange
  <2>3. HeaderOnItsWay' /\ AtItsByte'
    BY <2>1 DEF IInv, Transfer, HeaderOnItsWay, AtItsByte, Header, HeaderOf, LoadShifter,
                WholeBytes, Moved
  <2>4. StoreOnItsWay' /\ LoadOnItsWay' /\ Finished'
    BY <2>1 DEF IInv, Transfer, StoreOnItsWay, LoadOnItsWay, Finished, Stored, Captured,
                WholeBytes, OddBits, Moved
  <2> QED
    BY <2>2, <2>3, <2>4 DEF IInv, Transfer
<1> QED
  BY <1>1, IdleKeeps, AcceptKeeps, HdrRiseKeeps, HdrFallKeeps, DataRiseKeeps, DataFallKeeps,
     DoneKeeps DEF Next

(* Every register of the two ends keeps its range: the interface never     *)
(* counts past the transaction and the memory never leaves its addresses.  *)
THEOREM TypeCorrect == Spec => []TypeOK
<1>1. IInv => TypeOK
  BY DEF IInv
<1> QED
  BY <1>1, InitKeeps, TransferNext, PTL DEF Spec

(* For every width, memory and request, a store writes its bytes in order, *)
(* big-endian, and nothing else, and a load writes nothing.                *)
THEOREM StoreReachesMemoryAlways == Spec => []StoreReachesMemory
<1>1. IInv => StoreReachesMemory
  <2> SUFFICES ASSUME IInv PROVE StoreReachesMemory
    OBVIOUS
  <2>1. state \in {"IDLE", "HDR", "DATA", "DONE"} /\ Stored(before, asked, 0) = before
    BY StoredNone DEF IInv, TypeOK
  <2>2. CASE state = "HDR"
    BY <2>1, <2>2 DEF IInv, Transfer, HeaderOnItsWay, StoreReachesMemory
  <2>3. CASE state = "DATA"
    <3>1. asked.we \in BOOLEAN
      BY DEF IInv, TypeOK, Requests
    <3>2. WholeBytes = (bit_cnt - HdrBits) \div ByteBits
      BY DEF WholeBytes, Moved
    <3>3. CASE asked.we
      <4>1. mem = Stored(before, asked, WholeBytes)
        BY <2>3, <3>3 DEF IInv, Transfer, StoreOnItsWay
      <4> QED
        BY <2>3, <3>2, <3>3, <4>1 DEF StoreReachesMemory
    <3>4. CASE ~asked.we
      <4>1. mem = before
        BY <2>3, <3>4 DEF IInv, Transfer, LoadOnItsWay
      <4> QED
        BY <2>1, <3>4, <4>1 DEF StoreReachesMemory
    <3> QED
      BY <3>1, <3>3, <3>4
  <2>4. CASE state \in {"IDLE", "DONE"}
    BY <2>4 DEF IInv, Transfer, Finished, StoreReachesMemory
  <2> QED
    BY <2>1, <2>2, <2>3, <2>4
<1> QED
  BY <1>1, InitKeeps, TransferNext, PTL DEF Spec

(* Wired straight to the memory, a load answers with the bytes at its      *)
(* address, big-endian and zero-extended.                                  *)
THEOREM LoadReturnsMemoryAlways == ASSUME SyncStages = 0 PROVE Spec => []LoadReturnsMemory
<1>1. IInv => LoadReturnsMemory
  <2> SUFFICES ASSUME IInv, rvalid, ~asked.we
               PROVE  /\ \A i \in 1 .. DataBits - asked.size * ByteBits : data_sr[i] = 0
                      /\ \A k \in 0 .. asked.size - 1 :
                            ByteOf(data_sr, asked.size, k)
                                = mem[(asked.addr + k) % Pow2[AddrBits]]
    BY DEF LoadReturnsMemory
  <2>1. state = "DONE" /\ data_bits = asked.size * ByteBits /\ asked \in Requests
    BY DEF rvalid, IInv, InRange, TypeOK
  <2>2. Captured(data_bits)
    BY <2>1 DEF IInv, Transfer, Finished
  <2>3. asked.size \in Nat /\ asked.addr \in Int /\ asked.size * ByteBits \in 1 .. DataBits
    <3>1. asked.size \in 1 .. DataBytes /\ asked.addr \in Addr
          /\ asked.size * ByteBits \in 1 .. DataBits
      BY <2>1, Request
    <3> QED
      BY <3>1, Widths DEF Addr
  <2>4. \A i \in 1 .. DataBits - asked.size * ByteBits : data_sr[i] = 0
    BY <2>1, <2>2 DEF Captured
  <2>5. ASSUME NEW k \in 0 .. asked.size - 1
        PROVE  ByteOf(data_sr, asked.size, k) = mem[(asked.addr + k) % Pow2[AddrBits]]
    <3> DEFINE b == mem[(asked.addr + k) % Pow2[AddrBits]]
    <3>1. (asked.addr + k) % Pow2[AddrBits] \in Addr
      <4>1. asked.addr + k \in Int /\ Pow2[AddrBits] \in Nat \ {0}
        BY <2>3, Widths
      <4> QED
        BY <4>1, DivMod DEF Addr
    <3>2. b \in [1 .. ByteBits -> Bit]
      BY <3>1 DEF IInv, TypeOK, Byte
    <3>3. ASSUME NEW i \in 1 .. ByteBits
          PROVE  data_sr[DataBits - (asked.size - k) * ByteBits + i] = b[i]
      <4>1. /\ (asked.size - k) * ByteBits = asked.size * ByteBits - k * ByteBits
            /\ k * ByteBits \in Nat
        BY <2>3, Widths
      <4>2. k * ByteBits + i <= data_bits
        <5>1. (asked.size - k) * ByteBits >= 1 * ByteBits
          <6>1. asked.size - k >= 1 /\ asked.size - k \in Int
            BY <2>3
          <6> QED
            BY <6>1, Widths
        <5> QED
          BY <2>1, <2>3, <4>1, <5>1, Widths
      <4>3. DataBits - data_bits + (k * ByteBits + i)
                = DataBits - (asked.size - k) * ByteBits + i
        BY <2>1, <2>3, <4>1, Widths
      <4>4. data_sr[DataBits - data_bits + (k * ByteBits + i)] = b[i]
        BY <2>2, <4>2 DEF Captured
      <4> QED
        BY <4>3, <4>4
    <3> HIDE DEF b
    <3>4. ByteOf(data_sr, asked.size, k) = [i \in 1 .. ByteBits |-> b[i]]
      BY <3>3 DEF ByteOf
    <3>5. b = [i \in 1 .. ByteBits |-> b[i]]
      BY <3>2, Zenon
    <3> QED
      BY <3>4, <3>5 DEF b
  <2> QED
    BY <2>4, <2>5
<1> QED
  BY <1>1, InitKeeps, TransferNext, PTL DEF Spec
=============================================================================
