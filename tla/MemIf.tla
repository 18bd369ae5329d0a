------------------------------- MODULE MemIf -------------------------------
(***************************************************************************)
(* The memory interface of the core, core/mem_if.sv, bit by bit: a load or *)
(* store becomes an SPI transaction of a command, an address and the data, *)
(* most significant byte first.  The other end of the wires is the SPI     *)
(* memory of the test benches, core/tb/tb_spi_mem.sv, which is clocked by  *)
(* sck and reset by cs_n alone.                                            *)
(*                                                                         *)
(* A step is an edge of clk; the edges it causes on sck and cs_n are part  *)
(* of it.  Commands, addresses, bytes and registers keep their structure   *)
(* and have the widths the constants give them.                            *)
(***************************************************************************)
EXTENDS VeaBits

CONSTANTS
    CmdBits,     \* 8: a command
    AddrBits,    \* 24: an address
    ByteBits,    \* 8: a byte
    DataBytes,   \* 8: the data register, a doubleword
    Sizes,       \* {1, 2, 4, 8}: bytes of an access
    WData,       \* store operands, DataBits wide
    Memories,    \* initial memories
    SyncStages   \* flip-flops between the miso pin and spi_miso

HdrBits == CmdBits + AddrBits
DataBits == DataBytes * ByteBits
Addr == 0 .. Pow2[AddrBits] - 1
Byte == [1 .. ByteBits -> Bit]

ASSUME WidthsAssumption ==
    /\ {CmdBits, AddrBits, ByteBits, DataBytes} \subseteq Nat \ {0}
    /\ SyncStages \in Nat

(* An access is no longer than the register, and than memory: it does not   *)
(* come round to its own first byte.                                       *)
ASSUME AccessAssumption ==
    /\ Sizes \subseteq 1 .. DataBytes
    /\ \A s \in Sizes : s <= Pow2[AddrBits]
    /\ WData \subseteq [1 .. DataBits -> Bit]
    /\ Memories \subseteq [Addr -> Byte]

Requests == [we : BOOLEAN, addr : Addr, size : Sizes, wdata : WData]

VARIABLES
    state, phase, we_q, data_bits, bits_left, hdr_sr, data_sr,   \* mem_if.sv
    sync,                                                        \* the board's flip-flops
    mem, bit_cnt, dev_hdr, is_write, dev_addr, wr_byte, out_byte,  \* tb_spi_mem.sv
    asked, before              \* history: the last request and the memory it met

regs == <<state, phase, we_q, data_bits, bits_left, hdr_sr, data_sr>>
device == <<mem, bit_cnt, dev_hdr, is_write, dev_addr, wr_byte, out_byte>>
history == <<asked, before>>
vars == <<regs, sync, device, history>>

TypeOK ==
    /\ state \in {"IDLE", "HDR", "DATA", "DONE"}
    /\ phase \in Bit
    /\ we_q \in BOOLEAN
    /\ data_bits \in 0 .. DataBits
    /\ bits_left \in 0 .. HdrBits + DataBits
    /\ hdr_sr \in [1 .. HdrBits -> Bit]
    /\ data_sr \in [1 .. DataBits -> Bit]
    /\ sync \in [1 .. SyncStages -> Bit]
    /\ mem \in [Addr -> Byte]
    /\ bit_cnt \in 0 .. HdrBits + DataBits
    /\ dev_hdr \in [1 .. HdrBits -> Bit]
    /\ is_write \in BOOLEAN
    /\ dev_addr \in Addr
    /\ wr_byte \in Byte
    /\ out_byte \in Byte
    /\ asked \in Requests
    /\ before \in [Addr -> Byte]

(* Registers without a reset are written before they are read; zeros stand *)
(* for whatever they hold.                                                 *)
Init ==
    /\ state = "IDLE" /\ phase = 0
    /\ we_q = FALSE /\ data_bits = 0 /\ bits_left = 0
    /\ hdr_sr = Zeros(HdrBits) /\ data_sr = Zeros(DataBits)
    /\ sync = Zeros(SyncStages)
    /\ mem \in Memories
    /\ bit_cnt = 0 /\ dev_hdr = Zeros(HdrBits) /\ is_write = FALSE
    /\ dev_addr = 0 /\ wr_byte = Zeros(ByteBits) /\ out_byte = Zeros(ByteBits)
    /\ asked \in {r \in Requests : ~r.we}
    /\ before = mem
-----------------------------------------------------------------------------
CMD_READ == Bits(3, CmdBits)
CMD_WRITE == Bits(2, CmdBits)

rvalid == state = "DONE"
spi_mosi == IF state = "HDR" THEN hdr_sr[1] ELSE IF we_q THEN data_sr[1] ELSE 0
spi_miso == IF SyncStages = 0 THEN out_byte[1] ELSE sync[SyncStages]

Synchronize ==
    sync' = [i \in 1 .. SyncStages |-> IF i = 1 THEN out_byte[1] ELSE sync[i - 1]]
-----------------------------------------------------------------------------
(* The memory, at the rising edges of sck and of cs_n. *)
LastBitOfByte == (bit_cnt - HdrBits) % ByteBits = ByteBits - 1
NextAddr == (dev_addr + 1) % Pow2[AddrBits]

TakeHeaderBit ==
    LET hdr == ShiftIn(dev_hdr, spi_mosi)
        addr == Value(SubSeq(hdr, CmdBits + 1, HdrBits))
    IN  /\ dev_hdr' = hdr
        /\ IF bit_cnt = HdrBits - 1
           THEN /\ is_write' = (SubSeq(hdr, 1, CmdBits) = CMD_WRITE)
                /\ dev_addr' = addr
                /\ out_byte' = IF is_write' THEN out_byte ELSE mem[addr]
           ELSE UNCHANGED <<is_write, dev_addr, out_byte>>
        /\ UNCHANGED <<mem, wr_byte>>

TakeDataBit ==
    LET byte == ShiftIn(wr_byte, spi_mosi) IN
    /\ wr_byte' = byte
    /\ IF LastBitOfByte
       THEN mem' = [mem EXCEPT ![dev_addr] = byte] /\ dev_addr' = NextAddr
       ELSE UNCHANGED <<mem, dev_addr>>
    /\ UNCHANGED <<dev_hdr, is_write, out_byte>>

GiveDataBit ==
    /\ IF LastBitOfByte
       THEN out_byte' = mem[NextAddr] /\ dev_addr' = NextAddr
       ELSE out_byte' = Shl(out_byte, 1) /\ UNCHANGED dev_addr
    /\ UNCHANGED <<mem, dev_hdr, is_write, wr_byte>>

SckRises ==
    /\ bit_cnt' = bit_cnt + 1
    /\ IF bit_cnt < HdrBits THEN TakeHeaderBit
       ELSE IF is_write THEN TakeDataBit ELSE GiveDataBit

CsRises == bit_cnt' = 0 /\ UNCHANGED <<mem, dev_hdr, is_write, dev_addr, wr_byte, out_byte>>

Quiet == UNCHANGED device
-----------------------------------------------------------------------------
(* The interface, one action per state and phase. *)
LoadShifter_KeepsStale(r) == IF r.we THEN Shl(r.wdata, DataBits - r.size * ByteBits) ELSE data_sr
LoadShifter_Unjustified(r) == IF r.we THEN r.wdata ELSE Zeros(DataBits)
LoadShifter(r) ==
    IF r.we THEN Shl(r.wdata, DataBits - r.size * ByteBits) ELSE Zeros(DataBits)

Idle == state = "IDLE" /\ Quiet /\ UNCHANGED <<regs, history>> /\ Synchronize

Accept ==
    /\ state = "IDLE"
    /\ \E r \in Requests :
          /\ we_q' = r.we
          /\ data_bits' = r.size * ByteBits
          /\ hdr_sr' = (IF r.we THEN CMD_WRITE ELSE CMD_READ) \o Bits(r.addr, AddrBits)
          /\ data_sr' = LoadShifter(r)
          /\ asked' = r
    /\ state' = "HDR" /\ bits_left' = HdrBits /\ phase' = 0
    /\ before' = mem
    /\ Quiet /\ Synchronize

HdrRise_NoPhase ==
    /\ state = "HDR" /\ phase = 0
    /\ Quiet /\ Synchronize
    /\ UNCHANGED <<regs, history>>

HdrRise ==
    /\ state = "HDR" /\ phase = 0
    /\ phase' = 1
    /\ SckRises /\ Synchronize
    /\ UNCHANGED <<state, we_q, data_bits, bits_left, hdr_sr, data_sr, history>>

LastBit_Early == bits_left <= 2
LastBit == bits_left = 1

HdrFall ==
    /\ state = "HDR" /\ phase = 1
    /\ phase' = 0
    /\ hdr_sr' = Shl(hdr_sr, 1)
    /\ IF LastBit THEN state' = "DATA" /\ bits_left' = data_bits
       ELSE bits_left' = bits_left - 1 /\ UNCHANGED state
    /\ Quiet /\ Synchronize
    /\ UNCHANGED <<we_q, data_bits, data_sr, history>>

DataRise ==
    /\ state = "DATA" /\ phase = 0
    /\ phase' = 1
    /\ data_sr' = IF we_q THEN data_sr ELSE ShiftIn(data_sr, spi_miso)
    /\ SckRises /\ Synchronize
    /\ UNCHANGED <<state, we_q, data_bits, bits_left, hdr_sr, history>>

DataFall ==
    /\ state = "DATA" /\ phase = 1
    /\ phase' = 0
    /\ bits_left' = bits_left - 1
    /\ data_sr' = IF we_q THEN Shl(data_sr, 1) ELSE data_sr
    /\ IF LastBit THEN state' = "DONE" /\ CsRises ELSE UNCHANGED state /\ Quiet
    /\ Synchronize
    /\ UNCHANGED <<we_q, data_bits, hdr_sr, history>>

Done ==
    /\ state = "DONE" /\ state' = "IDLE"
    /\ Quiet /\ Synchronize
    /\ UNCHANGED <<phase, we_q, data_bits, bits_left, hdr_sr, data_sr, history>>

Next == Idle \/ Accept \/ HdrRise \/ HdrFall \/ DataRise \/ DataFall \/ Done

Spec == Init /\ [][Next]_vars

(* The clock runs: an accepted request is worked on at every edge.  Nothing *)
(* obliges Execute to make a request.                                       *)
FairSpec == Spec /\ WF_vars(state # "IDLE" /\ Next)
-----------------------------------------------------------------------------
(* The two ends never lose count of each other's bits: the memory has seen *)
(* as many sck edges as the interface has driven, and starts each          *)
(* transaction at zero.  Neither end tells the other where it is.          *)
InStep ==
    bit_cnt = CASE state = "HDR"  -> HdrBits - bits_left + phase
                [] state = "DATA" -> HdrBits + data_bits - bits_left + phase
                [] OTHER          -> 0

(* Byte k of a value of n bytes, most significant first, in a register     *)
(* that holds the value in its low bits.                                   *)
ByteOf(reg, n, k) == [i \in 1 .. ByteBits |-> reg[DataBits - (n - k) * ByteBits + i]]

(* A load answers with the bytes at its address, in big-endian order and   *)
(* zero-extended, whatever the transactions before it left in either       *)
(* end's registers.                                                        *)
LoadReturnsMemory ==
    rvalid /\ ~asked.we =>
        /\ \A i \in 1 .. DataBits - asked.size * ByteBits : data_sr[i] = 0
        /\ \A k \in 0 .. asked.size - 1 :
              ByteOf(data_sr, asked.size, k) = mem[(asked.addr + k) % Pow2[AddrBits]]

(* The memory after the first k bytes of a store. *)
Stored(m, r, k) ==
    [a \in Addr |->
        IF \E j \in 0 .. k - 1 : a = (r.addr + j) % Pow2[AddrBits]
        THEN ByteOf(r.wdata, r.size,
                    CHOOSE j \in 0 .. k - 1 : a = (r.addr + j) % Pow2[AddrBits])
        ELSE m[a]]

(* A store writes its bytes in order and nothing else: at every moment     *)
(* memory holds what it held at the request with a prefix of the bytes,    *)
(* and all of them by the time the request is answered; a load writes none. *)
StoreReachesMemory ==
    LET sent == CASE ~asked.we \/ state = "HDR" -> 0
                  [] asked.we /\ state = "DATA" -> (bit_cnt - HdrBits) \div ByteBits
                  [] OTHER -> asked.size
    IN  mem = Stored(before, asked, sent)

(* Every accepted request is answered: the pipeline waits in Execute until *)
(* then, and nothing else releases it.                                     *)
Answered == state = "HDR" ~> rvalid

(* mem_if.sv:122-124 of the sample point: "miso was set up by the far side *)
(* during the phase=0 half that just ended, so it is safe to capture now". *)
(* The bit a load captures is the one the memory is driving.               *)
MisoIsSettled ==
    state = "DATA" /\ phase = 0 /\ ~we_q => spi_miso = out_byte[1]
=============================================================================
