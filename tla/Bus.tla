--------------------------------- MODULE Bus ---------------------------------
(***************************************************************************)
(* src/bus.rs and src/memory.rs: which region an address falls in, what a  *)
(* load or a store of one, two or four bytes does there, and the mailbox   *)
(* behind the overlay in RAM.  A value is a sequence of bytes, the most    *)
(* significant first, as the guest sees it in memory.  Addresses are       *)
(* signed 32-bit numbers: the boot ROM at 0xFF000000 is at BootRomBase.    *)
(* The registers of the GPU, the drive, DMA and audio are in modules of    *)
(* their own; the inputs here do not reach them.                           *)
(***************************************************************************)
EXTENDS Integers, SequencesExt

CONSTANT Cells   (* the <<area, offset>> of the bytes of memory that are kept *)

Word(n) == <<0, 0, 0, n>>
WordZero == Word(0)
None == <<>>

MailboxBase == 16777216                    \* 0x0100_0000
UnifiedRamSize == 28 * 1048576
ColdFireLocalBase == 33554432              \* 0x0200_0000
ColdFireIoBase == 35651584                 \* 0x0220_0000
MiuBase == 83886080                        \* 0x0500_0000
BootRomBase == -16777216                   \* 0xFF00_0000
LocalSize == 2097152
RomSize == 524288

\* The mailbox comes first: it lies within the RAM.
Overlay == MailboxBase..(MailboxBase + 15)
Region(a) ==
  CASE a \in Overlay -> "Mailbox"
    [] a \in 0..(UnifiedRamSize - 1) /\ a \notin Overlay -> "UnifiedRam"
    [] a \in ColdFireLocalBase..(ColdFireLocalBase + LocalSize - 1) -> "ColdFireLocal"
    [] a \in ColdFireIoBase..(ColdFireIoBase + 63) -> "ColdFireIo"
    [] a \in MiuBase..(MiuBase + 15) -> "MiuRegs"
    [] a \in BootRomBase..(BootRomBase + RomSize - 1) -> "BootRom"
    [] OTHER -> "Reserved"

Base(r) == CASE r = "UnifiedRam" -> 0 [] r = "ColdFireLocal" -> ColdFireLocalBase [] OTHER -> BootRomBase
Size(r) == CASE r = "UnifiedRam" -> UnifiedRamSize [] r = "ColdFireLocal" -> LocalSize [] OTHER -> RomSize

Memories == {"UnifiedRam", "ColdFireLocal", "BootRom"}

\* The region is that of the first byte alone: a word may begin below the
\* mailbox and go on in the RAM under it, but not past the end of its memory.
Offset(a) == a - Base(Region(a))
Fits(a, n) == Offset(a) + n <= Size(Region(a))
-----------------------------------------------------------------------------
(* The I/O registers of the ColdFire *)

TxReady == Word(192)

CfIoReset == [i \in 0..15 |-> CASE i = 1 -> TxReady [] i = 8 -> <<0, 0, 255, 255>> [] OTHER -> WordZero]

CfIoRead(io, off) == IF off \div 4 < 16 THEN io[off \div 4] ELSE WordZero

CfIoWrite(io, off, w) ==
  LET i == off \div 4
  IN  CASE i = 0 -> [io EXCEPT ![0] = w, ![1] = TxReady]
        [] i \in 1..15 -> [io EXCEPT ![i] = w]
        [] OTHER -> io

\* Mutant: the lanes of a little-endian machine.
LaneSwapped(off, n) == CASE n = 1 -> 4 - (off % 4) [] n = 2 -> 3 - 2 * ((off % 4) \div 2) [] OTHER -> 1

\* The first of the bytes of a register that an access of n bytes is about.
Lane(off, n) == CASE n = 1 -> (off % 4) + 1 [] n = 2 -> 2 * ((off % 4) \div 2) + 1 [] OTHER -> 1

Take(w, first, n) == SubSeq(w, first, first + n - 1)
Put(w, first, v) == [i \in 1..4 |-> IF i \in first..(first + Len(v) - 1) THEN v[i - first + 1] ELSE w[i]]

\* The registers of the MIU, the mailbox and DMA have no lanes: a short load
\* gets the low bytes, a short store replaces the register.
Low(w, n) == [i \in 1..n |-> w[4 - n + i]]
Widen(v) == [i \in 1..4 |-> IF i > 4 - Len(v) THEN v[i - 4 + Len(v)] ELSE 0]
-----------------------------------------------------------------------------
(* The mailbox.  cmd, resp, stat and arg are registers 0, 4, 8 and 12.     *)

\* Exec (1), DmaAudio (6), Halt (255) and unknown commands do nothing.
IoRead == 2
IoWrite == 3
Joypad == 4
CdromStatus == 5
UartWrite == 7

\* What the service answers to a command, and what it does to the registers.
Response(b, cmd, arg) ==
  CASE cmd = Word(IoRead) -> CfIoRead(b.io, arg[4] % 64)
    [] cmd = Word(Joypad) -> CfIoRead(b.io, 32)
    [] cmd = Word(CdromStatus) -> Word(IF b.disc THEN 1 ELSE 0)
    [] OTHER -> WordZero

Performed(b, cmd, arg) ==
  CASE cmd = Word(IoWrite) -> CfIoWrite(b.io, arg[4], <<0, 0, arg[1], arg[2]>>)
    [] cmd = Word(UartWrite) -> CfIoWrite(b.io, 0, Word(arg[4]))
    [] OTHER -> b.io

\* Mutant: the status is cleared and the response left as it was.
ServiceSilent(b) ==
  IF b.mbox[8] # Word(1) THEN b
  ELSE [b EXCEPT !.mbox[8] = WordZero, !.io = Performed(b, b.mbox[0], b.mbox[12])]

ServiceMailbox(b) ==
  IF b.mbox[8] # Word(1) THEN b
  ELSE [b EXCEPT !.mbox[4] = Response(b, b.mbox[0], b.mbox[12]),
                 !.mbox[8] = WordZero,
                 !.io = Performed(b, b.mbox[0], b.mbox[12])]

\* Mutant: nobody services the command.
WriteMailboxIdle(b, off, w) == IF off \in {0, 4, 8, 12} THEN [b EXCEPT !.mbox[off] = w] ELSE b

WriteMailbox(b, off, w) ==
  CASE off = 8 -> ServiceMailbox([b EXCEPT !.mbox[8] = w])
    [] off \in {0, 4, 12} -> [b EXCEPT !.mbox[off] = w]
    [] OTHER -> b
-----------------------------------------------------------------------------
(* The bus *)

BusInit(disc) ==
  [mem |-> [c \in Cells |-> 0], io |-> CfIoReset, mbox |-> [r \in {0, 4, 8, 12} |-> WordZero],
   miu |-> [r \in {0, 4, 8, 12} |-> WordZero], disc |-> disc]

\* read_byte, read_half and read_word: the n bytes at a, or None.
Read(b, a, n) ==
  LET r == Region(a)
  IN  CASE r \in Memories /\ Fits(a, n) -> [i \in 1..n |-> b.mem[<<r, Offset(a) + i - 1>>]]
        [] r = "ColdFireIo" -> Take(CfIoRead(b.io, a % 64), Lane(a, n), n)
        [] r = "Mailbox" /\ a % 4 = 0 -> Low(b.mbox[a % 16], n)
        [] r = "MiuRegs" /\ a % 4 = 0 -> Low(b.miu[a % 16], n)
        [] OTHER -> None

Store(b, a, v) ==
  LET r == Region(a)  off == Offset(a)
  IN  [b EXCEPT !.mem = [c \in Cells |-> IF c[1] = r /\ c[2] \in off..(off + Len(v) - 1)
                                         THEN v[c[2] - off + 1] ELSE @[c]]]

\* write_byte, write_half and write_word; a store that is refused changes
\* nothing.  The local memory of the ColdFire and the ROM take no stores.
Write(b, a, v) ==
  LET r == Region(a)
  IN  CASE r = "UnifiedRam" /\ Fits(a, Len(v)) -> Store(b, a, v)
        [] r = "ColdFireIo" ->
             [b EXCEPT !.io = CfIoWrite(@, a % 64, Put(CfIoRead(@, a % 64), Lane(a, Len(v)), v))]
        [] r = "Mailbox" /\ Len(v) = 1 ->
             WriteMailbox(b, 4 * ((a % 16) \div 4), Put(b.mbox[4 * ((a % 16) \div 4)], (a % 4) + 1, v))
        [] r = "Mailbox" /\ Len(v) > 1 -> WriteMailbox(b, a % 16, Widen(v))
        [] r = "MiuRegs" /\ a % 16 \in {0, 8, 12} -> [b EXCEPT !.miu[a % 16] = Widen(v)]
        [] OTHER -> b

\* A byte by the bits that are set in it.
Weight == <<1, 2, 4, 8, 16, 32, 64, 128>>
BitSet(byte, i) == (byte \div Weight[i + 1]) % 2 = 1
Bits(set) ==
  LET part(i) == IF i \in set THEN Weight[i + 1] ELSE 0
  IN  part(0) + part(1) + part(2) + part(3) + part(4) + part(5) + part(6) + part(7)

\* set_joypad: a button that is held is a 0 bit; the upper half is zero.
PadWord(held) == <<0, 0, 255 - Bits({ i \in 0..7 : i + 8 \in held }), 255 - Bits({ i \in 0..7 : i \in held })>>
SetJoypad(b, held) == [b EXCEPT !.io = CfIoWrite(@, 32, PadWord(held))]
=============================================================================
