------------------------------- MODULE Memory -------------------------------
(***************************************************************************)
(* Simulated memory, src/vea_sim/src/memory.rs: pages allocated on the     *)
(* first write, multi-byte accesses that may straddle them, and the faults *)
(* of an access that is too wide or runs off the top.                      *)
(*                                                                         *)
(* One process-wide lock is held for the length of each operation, so an   *)
(* operation is one step of the component that calls it.                   *)
(***************************************************************************)
EXTENDS Naturals, Sequences

CONSTANTS
    PageSize,   \* PAGE_SIZE
    TopPage,    \* the number of the last page of the address space
    ByteSize,   \* number of values of a byte
    Widths      \* the widths one access may have, 1, 2, 4 and 8

ASSUME MemorySizesAssumption ==
    /\ PageSize \in Nat \ {0}
    /\ TopPage \in Nat
    /\ ByteSize \in Nat \ {0}
    /\ Widths \subseteq Nat \ {0}

VARIABLE store      \* page number -> its bytes, for the pages allocated

MaxAddr == (TopPage + 1) * PageSize - 1
Addr == 0 .. MaxAddr
Pages == 0 .. TopPage
ByteValue == 0 .. ByteSize - 1
BlankPage == [o \in 0 .. PageSize - 1 |-> 0]

PageOf(a) == a \div PageSize
OffOf(a) == a % PageSize

(* Nothing was ever written. *)
Empty == [p \in {} |-> BlankPage]

(* The byte at an address, zero where the page has no storage. *)
ByteAt(s, a) == IF PageOf(a) \in DOMAIN s THEN s[PageOf(a)][OffOf(a)] ELSE 0

CheckWidth(w) == w \in Widths
CheckRange(a, len) == len > 0 => a + len - 1 <= MaxAddr

(* The low w bytes of a value, big end first. *)
BigEndian(v, w) == [i \in 1 .. w |-> (v \div ByteSize ^ (w - i)) % ByteSize]

TouchedPages(a, bytes) == { PageOf(a + i - 1) : i \in DOMAIN bytes }

PutBytes_FirstPageOnly(s, a, bytes) ==
    [p \in DOMAIN s \cup { PageOf(a) : i \in DOMAIN bytes } |->
        [o \in 0 .. PageSize - 1 |->
            LET x == p * PageSize + o IN
            IF x >= a /\ x < a + Len(bytes) THEN bytes[x - a + 1] ELSE ByteAt(s, x)]]

(* Bytes written in order from address a, each into its page, blank pages  *)
(* allocated on the way.                                                   *)
PutBytes(s, a, bytes) ==
    [p \in DOMAIN s \cup TouchedPages(a, bytes) |->
        [o \in 0 .. PageSize - 1 |->
            LET x == p * PageSize + o IN
            IF x >= a /\ x < a + Len(bytes) THEN bytes[x - a + 1] ELSE ByteAt(s, x)]]

WriteFaults(a, w) == ~CheckWidth(w) \/ ~CheckRange(a, w)

Write(a, w, v) ==
    /\ ~WriteFaults(a, w)
    /\ store' = PutBytes(store, a, BigEndian(v, w))

Clear == store' = Empty

(* For display: what a hex view from an address shows, shorter at the top. *)
Dump(a, len) ==
    [i \in 1 .. (IF a + len <= MaxAddr + 1 THEN len ELSE MaxAddr + 1 - a) |-> ByteAt(store, a + i - 1)]
=============================================================================
