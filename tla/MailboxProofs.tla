---------------------------- MODULE MailboxProofs ----------------------------
(***************************************************************************)
(* Theorems about Mailbox for any number of clients, every request of      *)
(* theirs, every stray store and any number of calls.                      *)
(***************************************************************************)
EXTENDS Mailbox, SequenceTheorems, TLAPS

IsWord(w) == w \in Words
IsStored(v) == v \in Seq(0..255) /\ Len(v) \in {1, 2, 4}
IsIo(io) == DOMAIN io = 0..15 /\ \A i \in 0..15 : IsWord(io[i])
IsFour(regs) == DOMAIN regs = {0, 4, 8, 12} /\ \A r \in {0, 4, 8, 12} : IsWord(regs[r])
IsMem(m) == \A c \in Cells : m[c] \in Bytes

IsBus(b) ==
  /\ DOMAIN b = {"mem", "io", "mbox", "miu", "disc"}
  /\ IsFour(b.mbox) /\ IsFour(b.miu) /\ IsIo(b.io) /\ IsMem(b.mem)

\* No command is pending.
Quiet(b) == b.mbox[8] # Word(1)

IsRequest(r) == r[1] \in 0..255 /\ r[2] \in Seq(0..255) /\ Len(r[2]) = 4

IsCall(c) ==
  /\ {"at", "req", "res", "n"} \subseteq DOMAIN c
  /\ IsRequest(c.req)

Typed ==
  /\ IsBus(bus) /\ Quiet(bus)
  /\ DOMAIN call = Clients /\ \A c \in Clients : IsCall(call[c])
  /\ DOMAIN seen = Clients /\ \A c \in Clients : DOMAIN seen[c] = {"calm", "answers", "helds"}
  /\ DOMAIN past = {"gpio", "junk", "strays"} /\ past.strays \in Nat

\* What an undisturbed call has in the registers: what it stored so far, and
\* after its kick an answer to its request.
Held4(mbox, c, s) ==
  s.calm =>
    /\ c.at \in {"cmd", "stat", "done", "resp"} => mbox[12] = c.req[2]
    /\ c.at \in {"stat", "done", "resp"} => mbox[0] = Word(c.req[1])
    /\ c.at \in {"done", "resp"} => mbox[4] \in s.answers /\ IsWord(mbox[4])
    /\ c.at = "idle" => c.res \in s.answers

Kept == \A c \in Clients : Held4(bus.mbox, call[c], seen[c])

IInv == Typed /\ Kept

\* The GPIO shows the buttons that are held, and the kernel's answer is what it
\* showed at one of the kicks.
OfPad(mbox, c, s, in) ==
  s.calm =>
    /\ c.at \in {"done", "resp"} => \E h \in s.helds : mbox[4] = PadWord(h)
    /\ c.at = "idle" => in.state \in s.helds

PadInv ==
  /\ held \subseteq 0..15 /\ \A h \in seen[Kernel].helds : h \subseteq 0..15
  /\ call[Kernel].req = <<IoRead, Word(32)>>
  /\ ~past.gpio => bus.io[8] = PadWord(held) /\ OfPad(bus.mbox, call[Kernel], seen[Kernel], input)
-----------------------------------------------------------------------------
(* The four addresses of the mailbox. *)
LEMMA Registers ==
  /\ \A a \in {Cmd, Resp, Stat, Arg} : Region(a) = "Mailbox" /\ a % 4 = 0
  /\ Cmd % 16 = 0 /\ Resp % 16 = 4 /\ Stat % 16 = 8 /\ Arg % 16 = 12
<1>1. ASSUME NEW a \in {Cmd, Resp, Stat, Arg} PROVE a \in Overlay /\ a % 4 = 0
  BY SMT DEF Cmd, Resp, Stat, Arg, MailboxBase, Overlay
<1>2. Cmd % 16 = 0 /\ Resp % 16 = 4 /\ Stat % 16 = 8 /\ Arg % 16 = 12
  BY SMT DEF Cmd, Resp, Stat, Arg, MailboxBase
<1>3. ASSUME NEW a \in Overlay PROVE Region(a) = "Mailbox"
  <2>1. a \in Int /\ a >= 16777216 /\ a <= 16777231
    BY SMT DEF Overlay, MailboxBase
  <2>2. a \notin ColdFireLocalBase..(ColdFireLocalBase + LocalSize - 1)
    BY <2>1, SMT DEF ColdFireLocalBase
  <2>3. a \notin ColdFireIoBase..(ColdFireIoBase + 63)
    BY <2>1, SMT DEF ColdFireIoBase
  <2>4. a \notin MiuBase..(MiuBase + 15)
    BY <2>1, SMT DEF MiuBase
  <2>5. a \notin BootRomBase..(BootRomBase + RomSize - 1)
    <3>1. BootRomBase \in Int /\ BootRomBase < -524288 /\ RomSize = 524288
      BY SMT DEF BootRomBase, RomSize
    <3> QED
      BY <2>1, <3>1, SMT
  <2> QED
    BY <2>2, <2>3, <2>4, <2>5, Zenon DEF Region
<1> QED
  BY <1>1, <1>2, <1>3

(* A word load of a register gives the register. *)
LEMMA LoadsRegister ==
  ASSUME NEW b, NEW a \in {Cmd, Resp, Stat, Arg}, IsWord(b.mbox[a % 16])
  PROVE  Read(b, a, 4) = b.mbox[a % 16]
<1>1. Low(b.mbox[a % 16], 4) = b.mbox[a % 16]
  <2>1. \A w \in Words : [i \in 1..4 |-> w[i]] = w
    BY DEF Words
  <2>2. \A w : [i \in 1..4 |-> w[4 - 4 + i]] = [i \in 1..4 |-> w[i]]
    OBVIOUS
  <2> QED
    BY <2>1, <2>2, Zenon DEF IsWord, Low
<1>2. Region(a) = "Mailbox" /\ a % 4 = 0 /\ "Mailbox" \notin Memories
  BY Registers DEF Memories
<1>3. Read(b, a, 4) = Low(b.mbox[a % 16], 4)
  BY <1>2, Zenon DEF Read
<1> QED
  BY <1>1, <1>3

(* A store of a word puts that word. *)
LEMMA WidenWord ==
  ASSUME NEW v \in Seq(0..255), Len(v) = 4
  PROVE  Widen(v) = v
<1>1. v = [i \in 1..4 |-> v[i]]
  OBVIOUS
<1>2. Widen(v) = [i \in 1..4 |-> v[i]]
  BY DEF Widen
<1> QED
  BY <1>1, <1>2

(* Four bytes make a word. *)
LEMMA FourBytes ==
  ASSUME NEW x \in 0..255, NEW y \in 0..255, NEW z \in 0..255, NEW u \in 0..255
  PROVE  IsWord(<<x, y, z, u>>)
<1> DEFINE w == <<x, y, z, u>>
<1>1. w = [i \in 1..4 |-> w[i]] /\ \A i \in 1..4 : w[i] \in 0..255
  OBVIOUS
<1> HIDE DEF w
<1>2. w \in [1..4 -> 0..255]
  BY <1>1
<1> QED
  BY <1>2 DEF IsWord, Words, Bytes, w

LEMMA WordIsWord ==
  ASSUME NEW n \in 0..255
  PROVE  Word(n) \in Seq(0..255) /\ Len(Word(n)) = 4 /\ IsWord(Word(n))
<1>1. Word(n) \in Seq(0..255) /\ Len(Word(n)) = 4
  BY DEF Word
<1>2. 0 \in 0..255
  OBVIOUS
<1> QED
  BY <1>1, <1>2, FourBytes DEF Word

(* Of what is stored each is a byte, and so is each of what is made of it. *)
LEMMA StoredBytes ==
  ASSUME NEW v, IsStored(v)
  PROVE  Len(v) \in Nat /\ Len(v) > 0 /\ \A i \in 1..Len(v) : v[i] \in 0..255
<1>1. v \in Seq(0..255) /\ Len(v) \in {1, 2, 4}
  BY DEF IsStored
<1>2. ASSUME NEW i \in 1..Len(v) PROVE v[i] \in 0..255
  BY <1>1, ElementOfSeq, Zenon
<1>3. Len(v) \in Nat /\ Len(v) > 0
  <2> DEFINE n == Len(v)
  <2>1. n \in {1, 2, 4}
    BY <1>1
  <2> HIDE DEF n
  <2>2. n \in Nat /\ n > 0
    BY <2>1
  <2> QED
    BY <2>2 DEF n
<1> QED
  BY <1>2, <1>3

(* Four of them are a word. *)
LEMMA StoredWord ==
  ASSUME NEW v \in Seq(0..255), Len(v) = 4
  PROVE  IsWord(v)
<1>1. v = [i \in 1..4 |-> v[i]]
  OBVIOUS
<1>2. IsStored(v)
  BY DEF IsStored
<1>3. \A i \in 1..4 : v[i] \in 0..255
  BY <1>2, StoredBytes
<1>4. v \in [1..4 -> 0..255]
  BY <1>1, <1>3
<1> QED
  BY <1>4 DEF IsWord, Words, Bytes

LEMMA MadeOfBytes ==
  ASSUME NEW v, IsStored(v)
  PROVE  /\ IsWord(Widen(v))
         /\ \A w, n : IsWord(w) /\ n \in 1..4 => IsWord(Put(w, n, v))
<1>1. Len(v) \in {1, 2, 4} /\ \A i \in 1..Len(v) : v[i] \in 0..255
  BY StoredBytes DEF IsStored
<1>2. ASSUME NEW i \in 1..4
      PROVE  (IF i > 4 - Len(v) THEN v[i - 4 + Len(v)] ELSE 0) \in 0..255
  <2>1. i > 4 - Len(v) => i - 4 + Len(v) \in 1..Len(v)
    BY <1>1
  <2> QED
    BY <1>1, <2>1
<1>3. Widen(v) \in [1..4 -> 0..255]
  BY <1>2 DEF Widen
<1>4. ASSUME NEW w, IsWord(w), NEW n \in 1..4 PROVE Put(w, n, v) \in [1..4 -> 0..255]
  <2>1. \A i \in 1..4 : w[i] \in 0..255
    BY <1>4 DEF IsWord, Words, Bytes
  <2>2. ASSUME NEW i \in 1..4
        PROVE  (IF i \in n..(n + Len(v) - 1) THEN v[i - n + 1] ELSE w[i]) \in 0..255
    <3>1. i \in n..(n + Len(v) - 1) => i - n + 1 \in 1..Len(v)
      BY <1>1
    <3> QED
      BY <1>1, <2>1, <3>1
  <2> QED
    BY <2>2 DEF Put
<1> QED
  BY <1>3, <1>4 DEF IsWord, Words, Bytes
-----------------------------------------------------------------------------
(* What a store does *)

LEMMA IoWriteKeeps ==
  ASSUME NEW io, IsIo(io), NEW off, NEW w, IsWord(w)
  PROVE  IsIo(CfIoWrite(io, off, w))
<1>1. IsWord(TxReady)
  <2>1. 192 \in 0..255
    OBVIOUS
  <2> QED
    BY <2>1, WordIsWord DEF TxReady
<1>2. \/ CfIoWrite(io, off, w) = [io EXCEPT ![0] = w, ![1] = TxReady]
      \/ \E i \in 1..15 : CfIoWrite(io, off, w) = [io EXCEPT ![i] = w]
      \/ CfIoWrite(io, off, w) = io
  <2>1. CASE off \div 4 = 0
    <3>1. off \div 4 \notin 1..15
      BY <2>1
    <3>2. CfIoWrite(io, off, w) = [io EXCEPT ![0] = w, ![1] = TxReady]
      BY <2>1, <3>1, Zenon DEF CfIoWrite
    <3> QED
      BY <3>2
  <2>2. CASE off \div 4 \in 1..15
    <3>1. off \div 4 # 0
      BY <2>2
    <3>2. CfIoWrite(io, off, w) = [io EXCEPT ![off \div 4] = w]
      BY <2>2, <3>1, Zenon DEF CfIoWrite
    <3> QED
      BY <2>2, <3>2
  <2>3. CASE off \div 4 # 0 /\ off \div 4 \notin 1..15
    BY <2>3, Zenon DEF CfIoWrite
  <2> QED
    BY <2>1, <2>2, <2>3
<1> QED
  BY <1>1, <1>2 DEF IsIo

(* A register is taken out of a word, or is the answer to a command. *)
LEMMA IoReadIsWord ==
  ASSUME NEW io, IsIo(io), NEW off \in Nat
  PROVE  IsWord(CfIoRead(io, off))
<1>1. IsWord(WordZero)
  <2>1. 0 \in 0..255
    OBVIOUS
  <2> QED
    BY <2>1, WordIsWord DEF WordZero
<1>2. off \div 4 \in Nat
  OBVIOUS
<1>3. off \div 4 < 16 => off \div 4 \in 0..15
  BY <1>2
<1> QED
  BY <1>1, <1>3 DEF CfIoRead, IsIo

LEMMA BytesOfWord ==
  ASSUME NEW w, IsWord(w)
  PROVE  \A i \in 1..4 : w[i] \in 0..255
BY DEF IsWord, Words, Bytes

LEMMA AnswerIsWord ==
  ASSUME NEW b, IsBus(b), NEW cmd, NEW arg, IsWord(arg)
  PROVE  IsWord(Response(b, cmd, arg))
<1>1. IsWord(CfIoRead(b.io, arg[4] % 64)) /\ IsWord(CfIoRead(b.io, 32))
  <2>1. arg[4] % 64 \in Nat /\ 32 \in Nat
    BY BytesOfWord
  <2> QED
    BY <2>1, IoReadIsWord DEF IsBus
<1>2. IsWord(Word(0)) /\ IsWord(Word(1)) /\ IsWord(WordZero)
  <2>1. 0 \in 0..255 /\ 1 \in 0..255
    OBVIOUS
  <2> QED
    BY <2>1, WordIsWord DEF WordZero
<1>3. /\ Word(IoRead) # Word(Joypad) /\ Word(IoRead) # Word(CdromStatus)
      /\ Word(Joypad) # Word(CdromStatus)
  BY DEF Word, IoRead, Joypad, CdromStatus
<1>4. CASE cmd = Word(IoRead)
  <2>1. Response(b, cmd, arg) = CfIoRead(b.io, arg[4] % 64)
    BY <1>3, <1>4, Zenon DEF Response
  <2> QED
    BY <1>1, <2>1
<1>5. CASE cmd = Word(Joypad)
  <2>1. Response(b, cmd, arg) = CfIoRead(b.io, 32)
    BY <1>3, <1>5, Zenon DEF Response
  <2> QED
    BY <1>1, <2>1
<1>6. CASE cmd = Word(CdromStatus)
  <2>1. Response(b, cmd, arg) = Word(IF b.disc THEN 1 ELSE 0)
    BY <1>3, <1>6, Zenon DEF Response
  <2> QED
    BY <1>2, <2>1
<1>7. CASE cmd \notin {Word(IoRead), Word(Joypad), Word(CdromStatus)}
  <2>1. Response(b, cmd, arg) = WordZero
    BY <1>7, Zenon DEF Response
  <2> QED
    BY <1>2, <2>1
<1> QED
  BY <1>4, <1>5, <1>6, <1>7

(* The service leaves registers of words, and no command pending. *)
LEMMA ServiceKeeps ==
  ASSUME NEW b, IsBus(b)
  PROVE  IsBus(ServiceMailbox(b)) /\ Quiet(ServiceMailbox(b))
<1> DEFINE answer == Response(b, b.mbox[0], b.mbox[12])
           performed == Performed(b, b.mbox[0], b.mbox[12])
<1>1. IsIo(performed)
  <2>1. /\ b.mbox[12][1] \in 0..255 /\ b.mbox[12][2] \in 0..255 /\ b.mbox[12][4] \in 0..255
        /\ 0 \in 0..255
    <3>1. IsWord(b.mbox[12])
      BY DEF IsBus, IsFour
    <3> QED
      BY <3>1, BytesOfWord
  <2>2. IsWord(<<0, 0, b.mbox[12][1], b.mbox[12][2]>>)
    BY <2>1, FourBytes
  <2>3. Word(IoWrite) # Word(UartWrite)
    BY DEF Word, IoWrite, UartWrite
  <2>4. CASE b.mbox[0] = Word(IoWrite)
    <3>1. performed = CfIoWrite(b.io, b.mbox[12][4], <<0, 0, b.mbox[12][1], b.mbox[12][2]>>)
      BY <2>3, <2>4, Zenon DEF Performed
    <3> QED
      BY <2>2, <3>1, IoWriteKeeps DEF IsBus
  <2>5. CASE b.mbox[0] = Word(UartWrite)
    <3>1. performed = CfIoWrite(b.io, 0, Word(b.mbox[12][4]))
      BY <2>3, <2>5, Zenon DEF Performed
    <3>2. IsWord(Word(b.mbox[12][4]))
      BY <2>1, WordIsWord
    <3> QED
      BY <3>1, <3>2, IoWriteKeeps DEF IsBus
  <2>6. CASE b.mbox[0] # Word(IoWrite) /\ b.mbox[0] # Word(UartWrite)
    <3>1. performed = b.io
      BY <2>6, Zenon DEF Performed
    <3> QED
      BY <3>1 DEF IsBus
  <2> QED
    BY <2>4, <2>5, <2>6
<1>2. IsWord(WordZero) /\ WordZero # Word(1)
  <2>1. 0 \in 0..255
    OBVIOUS
  <2> QED
    BY <2>1, WordIsWord DEF WordZero, Word
<1>3. IsWord(answer)
  BY AnswerIsWord DEF IsBus, IsFour
<1> DEFINE s == [b EXCEPT !.mbox[4] = answer, !.mbox[8] = WordZero, !.io = performed]
<1>4. CASE b.mbox[8] # Word(1)
  <2>1. ServiceMailbox(b) = b
    BY <1>4 DEF ServiceMailbox
  <2> QED
    BY <1>4, <2>1 DEF Quiet
<1>5. CASE b.mbox[8] = Word(1)
  <2>1. ServiceMailbox(b) = s
    BY <1>5, Zenon DEF ServiceMailbox
  <2> HIDE DEF answer, performed
  <2>2. /\ DOMAIN s = DOMAIN b /\ s.miu = b.miu /\ s.mem = b.mem /\ s.io = performed
        /\ s.mbox = [b.mbox EXCEPT ![4] = answer, ![8] = WordZero]
    BY DEF IsBus
  <2>3. DOMAIN b.mbox = {0, 4, 8, 12} /\ \A r \in {0, 4, 8, 12} : IsWord(b.mbox[r])
    BY DEF IsBus, IsFour
  <2> HIDE DEF s
  <2>4. IsFour(s.mbox) /\ s.mbox[8] = WordZero
    BY <1>2, <1>3, <2>2, <2>3 DEF IsFour
  <2>5. IsBus(s)
    BY <1>1, <2>2, <2>4 DEF IsBus
  <2> QED
    BY <1>2, <2>1, <2>4, <2>5 DEF Quiet
<1> QED
  BY <1>4, <1>5

LEMMA WriteMailboxKeeps ==
  ASSUME NEW b, IsBus(b), Quiet(b), NEW off, NEW w, IsWord(w)
  PROVE  IsBus(WriteMailbox(b, off, w)) /\ Quiet(WriteMailbox(b, off, w))
<1>1. ASSUME NEW r \in {0, 4, 8, 12}
      PROVE  IsBus([b EXCEPT !.mbox[r] = w]) /\ (r # 8 => Quiet([b EXCEPT !.mbox[r] = w]))
  <2> DEFINE c == [b EXCEPT !.mbox[r] = w]
  <2>1. /\ DOMAIN c = DOMAIN b /\ c.miu = b.miu /\ c.mem = b.mem /\ c.io = b.io
        /\ c.mbox = [b.mbox EXCEPT ![r] = w]
    BY DEF IsBus
  <2>2. DOMAIN b.mbox = {0, 4, 8, 12} /\ \A x \in {0, 4, 8, 12} : IsWord(b.mbox[x])
    BY DEF IsBus, IsFour
  <2> HIDE DEF c
  <2>3. IsFour(c.mbox) /\ (r # 8 => c.mbox[8] = b.mbox[8])
    BY <2>1, <2>2 DEF IsFour
  <2>4. IsBus(c)
    BY <2>1, <2>3 DEF IsBus
  <2> QED
    BY <2>3, <2>4 DEF Quiet, c
<1>2. CASE off = 8
  <2>1. WriteMailbox(b, off, w) = ServiceMailbox([b EXCEPT !.mbox[8] = w])
    <3>1. 8 \notin {0, 4, 12}
      OBVIOUS
    <3> QED
      BY <1>2, <3>1, Zenon DEF WriteMailbox
  <2> QED
    BY <1>1, <2>1, ServiceKeeps
<1>3. CASE off \in {0, 4, 12}
  <2>1. WriteMailbox(b, off, w) = [b EXCEPT !.mbox[off] = w] /\ off # 8
    <3>1. off # 8
      BY <1>3
    <3> QED
      BY <1>3, <3>1, Zenon DEF WriteMailbox
  <2> QED
    BY <1>1, <1>3, <2>1
<1>4. CASE off # 8 /\ off \notin {0, 4, 12}
  <2>1. WriteMailbox(b, off, w) = b
    BY <1>4, Zenon DEF WriteMailbox
  <2> QED
    BY <2>1
<1> QED
  BY <1>2, <1>3, <1>4

(* A store, wherever it goes, leaves bytes in memory and words in the        *)
(* registers, and no command pending; one outside the mailbox leaves the     *)
(* mailbox alone.                                                            *)
LEMMA WriteKeeps ==
  ASSUME NEW b, IsBus(b), Quiet(b), NEW a \in Int, NEW v, IsStored(v)
  PROVE  /\ IsBus(Write(b, a, v)) /\ Quiet(Write(b, a, v))
         /\ Region(a) # "Mailbox" => Write(b, a, v).mbox = b.mbox
<1> DEFINE r == Region(a)
<1>1. /\ IsWord(Widen(v))
      /\ \A w, n : IsWord(w) /\ n \in 1..4 => IsWord(Put(w, n, v))
  BY MadeOfBytes
<1>2. Len(v) \in {1, 2, 4} /\ \A i \in 1..Len(v) : v[i] \in 0..255
  BY StoredBytes DEF IsStored
<1>3. CASE r = "UnifiedRam"
  <2>1. Write(b, a, v) = Store(b, a, v) \/ Write(b, a, v) = b
    <3>1. CASE Fits(a, Len(v))
      BY <1>3, <3>1, Zenon DEF Write
    <3>2. CASE ~Fits(a, Len(v))
      BY <1>3, <3>2, Zenon DEF Write
    <3> QED
      BY <3>1, <3>2
  <2> DEFINE off == Offset(a)
             m == [c \in Cells |-> IF c[1] = r /\ c[2] \in off..(off + Len(v) - 1)
                                   THEN v[c[2] - off + 1] ELSE b.mem[c]]
  <2>2. Store(b, a, v) = [b EXCEPT !.mem = m]
    BY DEF Store
  <2>3. off \in Int
    <3>1. Base(r) = 0
      BY <1>3 DEF Base
    <3> HIDE DEF r
    <3>2. off = a - Base(r)
      BY DEF Offset, r
    <3> QED
      BY <3>1, <3>2
  <2>4. IsMem(m)
    <3>1. ASSUME NEW c \in Cells PROVE m[c] \in Bytes
      <4> HIDE DEF off
      <4>1. CASE c[1] = r /\ c[2] \in off..(off + Len(v) - 1)
        <5>1. c[2] - off + 1 \in 1..Len(v)
          BY <1>2, <2>3, <4>1
        <5>2. m[c] = v[c[2] - off + 1]
          BY <4>1
        <5> QED
          BY <1>2, <5>1, <5>2 DEF Bytes
      <4>2. CASE ~(c[1] = r /\ c[2] \in off..(off + Len(v) - 1))
        <5>1. m[c] = b.mem[c]
          BY <4>2
        <5> QED
          BY <5>1 DEF IsBus, IsMem
      <4> QED
        BY <4>1, <4>2
    <3> QED
      BY <3>1 DEF IsMem
  <2> HIDE DEF m
  <2>5. IsBus([b EXCEPT !.mem = m]) /\ [b EXCEPT !.mem = m].mbox = b.mbox
    BY <2>4 DEF IsBus
  <2> QED
    BY <1>3, <2>1, <2>2, <2>5 DEF Quiet
<1>4. CASE r = "ColdFireIo"
  <2> DEFINE w == Put(CfIoRead(b.io, a % 64), Lane(a, Len(v)), v)
  <2>1. Write(b, a, v) = [b EXCEPT !.io = CfIoWrite(@, a % 64, Put(CfIoRead(@, a % 64), Lane(a, Len(v)), v))]
    BY <1>4, Zenon DEF Write
  <2>2. Write(b, a, v) = [b EXCEPT !.io = CfIoWrite(b.io, a % 64, w)]
    BY <2>1
  <2>3. IsWord(w)
    <3>1. IsWord(CfIoRead(b.io, a % 64))
      BY IoReadIsWord DEF IsBus
    <3>2. Lane(a, Len(v)) \in 1..4
      BY <1>2 DEF Lane
    <3> QED
      BY <1>1, <3>1, <3>2
  <2>4. IsIo(CfIoWrite(b.io, a % 64, w))
    BY <2>3, IoWriteKeeps DEF IsBus
  <2> HIDE DEF w
  <2> QED
    BY <1>4, <2>2, <2>4 DEF IsBus, Quiet
<1>5. CASE r = "Mailbox"
  <2>1. CASE Len(v) = 1
    <3>1. ~(Len(v) > 1)
      BY <2>1
    <3> DEFINE reg == 4 * ((a % 16) \div 4)
               n == (a % 4) + 1
    <3>2. Write(b, a, v) = WriteMailbox(b, reg, Put(b.mbox[reg], n, v))
      BY <1>5, <2>1, <3>1, Zenon DEF Write
    <3>3. reg \in {0, 4, 8, 12} /\ n \in 1..4
      OBVIOUS
    <3> HIDE DEF reg, n
    <3>4. IsWord(Put(b.mbox[reg], n, v))
      BY <1>1, <3>3 DEF IsBus, IsFour
    <3> QED
      BY <1>5, <3>2, <3>4, WriteMailboxKeeps
  <2>2. CASE Len(v) > 1
    <3>1. Len(v) # 1
      BY <1>2, <2>2
    <3>2. Write(b, a, v) = WriteMailbox(b, a % 16, Widen(v))
      BY <1>5, <2>2, <3>1, Zenon DEF Write
    <3> QED
      BY <1>1, <1>5, <3>2, WriteMailboxKeeps
  <2> QED
    BY <1>2, <2>1, <2>2
<1>6. CASE r = "MiuRegs"
  <2>1. CASE a % 16 \in {0, 8, 12}
    <3> DEFINE q == a % 16  w == Widen(v)  regs == [b.miu EXCEPT ![q] = w]
    <3>1. Write(b, a, v) = [b EXCEPT !.miu[q] = w]
      BY <1>6, <2>1, Zenon DEF Write
    <3>2. q \in {0, 4, 8, 12} /\ IsWord(w) /\ IsFour(b.miu)
      BY <1>1, <2>1 DEF IsBus
    <3>3. Write(b, a, v) = [b EXCEPT !.miu = regs]
      BY <3>1
    <3> HIDE DEF q, w
    <3>4. IsFour(regs)
      BY <3>2 DEF IsFour
    <3> HIDE DEF regs
    <3> QED
      BY <1>6, <3>3, <3>4 DEF IsBus, Quiet
  <2>2. CASE a % 16 \notin {0, 8, 12}
    <3>1. Write(b, a, v) = b
      BY <1>6, <2>2, Zenon DEF Write
    <3> QED
      BY <3>1
  <2> QED
    BY <2>1, <2>2
<1>7. CASE r \notin {"UnifiedRam", "ColdFireIo", "Mailbox", "MiuRegs"}
  <2>1. Write(b, a, v) = b
    BY <1>7, Zenon DEF Write
  <2> QED
    BY <1>7, <2>1
<1> QED
  BY <1>3, <1>4, <1>5, <1>6, <1>7

(* A store of a word to a register puts it there, and nothing else changes   *)
(* in the mailbox; at the status, 1 makes the companion answer.              *)
LEMMA StoresRegister ==
  ASSUME NEW b, IsBus(b), NEW w \in Seq(0..255), Len(w) = 4
  PROVE  /\ Write(b, Cmd, w) = [b EXCEPT !.mbox[0] = w]
         /\ Write(b, Arg, w) = [b EXCEPT !.mbox[12] = w]
         /\ Write(b, Stat, w) = ServiceMailbox([b EXCEPT !.mbox[8] = w])
<1>1. ASSUME NEW a \in {Cmd, Arg, Stat} PROVE Write(b, a, w) = WriteMailbox(b, a % 16, w)
  <2>1. Region(a) = "Mailbox" /\ Len(w) # 1 /\ Len(w) > 1
    BY Registers
  <2>2. Write(b, a, w) = WriteMailbox(b, a % 16, Widen(w))
    BY <2>1, Zenon DEF Write
  <2> QED
    BY <2>2, WidenWord
<1>2. 0 # 8 /\ 12 # 8 /\ 8 \notin {0, 4, 12}
  OBVIOUS
<1>3. WriteMailbox(b, 0, w) = [b EXCEPT !.mbox[0] = w]
  BY <1>2, Zenon DEF WriteMailbox
<1>4. WriteMailbox(b, 12, w) = [b EXCEPT !.mbox[12] = w]
  BY <1>2, Zenon DEF WriteMailbox
<1>5. WriteMailbox(b, 8, w) = ServiceMailbox([b EXCEPT !.mbox[8] = w])
  BY <1>2, Zenon DEF WriteMailbox
<1> QED
  BY <1>1, <1>3, <1>4, <1>5, Registers

(* The kick: the answer is there, and it is an answer in the state before. *)
LEMMA Kick ==
  ASSUME NEW b, IsBus(b)
  PROVE  LET after == Write(b, Stat, Word(1)) IN
         /\ after.mbox[0] = b.mbox[0] /\ after.mbox[12] = b.mbox[12]
         /\ after.mbox[4] = Response(b, b.mbox[0], b.mbox[12])
<1> DEFINE k == [b EXCEPT !.mbox[8] = Word(1)]
<1>1. Word(1) \in Seq(0..255) /\ Len(Word(1)) = 4
  <2>1. 1 \in 0..255
    OBVIOUS
  <2> QED
    BY <2>1, WordIsWord, Zenon
<1>2. Write(b, Stat, Word(1)) = ServiceMailbox(k)
  BY <1>1, StoresRegister
<1>3. /\ k.mbox[8] = Word(1) /\ k.mbox[0] = b.mbox[0] /\ k.mbox[12] = b.mbox[12]
      /\ k.io = b.io /\ k.disc = b.disc
      /\ "mbox" \in DOMAIN k /\ {0, 4, 8, 12} \subseteq DOMAIN k.mbox /\ "io" \in DOMAIN k
  BY DEF IsBus, IsFour
<1> HIDE DEF k
<1> DEFINE answer == Response(k, k.mbox[0], k.mbox[12])
           performed == Performed(k, k.mbox[0], k.mbox[12])
           s == [k EXCEPT !.mbox[4] = answer, !.mbox[8] = WordZero, !.io = performed]
<1>4. ServiceMailbox(k) = s
  BY <1>3, Zenon DEF ServiceMailbox
<1>5. answer = Response(b, b.mbox[0], b.mbox[12])
  BY <1>3, Zenon DEF Response
<1> HIDE DEF answer, performed
<1>6. s.mbox[0] = k.mbox[0] /\ s.mbox[12] = k.mbox[12] /\ s.mbox[4] = answer
  BY <1>3
<1> HIDE DEF s
<1> QED
  BY <1>2, <1>3, <1>4, <1>5, <1>6, Zenon
-----------------------------------------------------------------------------
(* One lemma for each kind of step *)

LEMMA InitHolds == Init => IInv
<1> SUFFICES ASSUME Init PROVE IInv
  OBVIOUS
<1>1. IsWord(<<0, 0, 255, 255>>) /\ IsWord(WordZero) /\ IsWord(TxReady)
  <2>1. 0 \in 0..255 /\ 255 \in 0..255 /\ 192 \in 0..255
    OBVIOUS
  <2> QED
    BY <2>1, FourBytes, WordIsWord DEF WordZero, TxReady
<1>2. PICK disc \in Discs : bus = BusInit(disc)
  BY DEF Init
<1>3. WordZero # Word(1)
  BY DEF WordZero, Word
<1>4. IsIo(CfIoReset)
  <2>1. ASSUME NEW i \in 0..15 PROVE IsWord(CfIoReset[i])
    <3>1. CASE i = 1
      <4>1. i # 8
        BY <3>1
      <4>2. CfIoReset[i] = TxReady
        BY <3>1, <4>1, Zenon DEF CfIoReset
      <4> QED
        BY <1>1, <4>2
    <3>2. CASE i = 8
      <4>1. i # 1
        BY <3>2
      <4>2. CfIoReset[i] = <<0, 0, 255, 255>>
        BY <3>2, <4>1, Zenon DEF CfIoReset
      <4> QED
        BY <1>1, <4>2
    <3>3. CASE i # 1 /\ i # 8
      <4>2. CfIoReset[i] = WordZero
        BY <3>3, Zenon DEF CfIoReset
      <4> QED
        BY <1>1, <4>2
    <3> QED
      BY <3>1, <3>2, <3>3
  <2>2. DOMAIN CfIoReset = 0..15
    BY Zenon DEF CfIoReset
  <2> QED
    BY <2>1, <2>2 DEF IsIo
<1>5. IsBus(bus) /\ Quiet(bus)
  <2>1. bus.mbox = [r \in {0, 4, 8, 12} |-> WordZero] /\ bus.io = CfIoReset
        /\ DOMAIN bus = {"mem", "io", "mbox", "miu", "disc"}
        /\ bus.miu = [r \in {0, 4, 8, 12} |-> WordZero] /\ bus.mem = [c \in Cells |-> 0]
    BY <1>2 DEF BusInit
  <2>2. IsFour(bus.mbox) /\ IsFour(bus.miu) /\ bus.mbox[8] = WordZero
    BY <1>1, <2>1 DEF IsFour
  <2>3. IsMem(bus.mem)
    BY <2>1 DEF IsMem, Bytes
  <2> QED
    BY <1>3, <1>4, <2>1, <2>2, <2>3 DEF IsBus, Quiet
<1>6. IsRequest(<<IoRead, Word(32)>>)
  BY DEF IsRequest, IoRead, Word
<1>7. Typed
  BY <1>5, <1>6 DEF Init, Typed, IsCall
<1>8. Kept
  BY DEF Init, Kept, Held4
<1> QED
  BY <1>7, <1>8 DEF IInv

(* A client moves on: only its own place changes. *)
LEMMA MovesOn ==
  ASSUME Typed, NEW c \in Clients, NEW from, NEW to, Goto(c, from, to)
  PROVE  /\ call[c].at = from
         /\ DOMAIN call' = Clients
         /\ \A d \in Clients :
              /\ IsCall(call'[d])
              /\ call'[d].req = call[d].req /\ call'[d].res = call[d].res
              /\ call'[d].at = IF d = c THEN to ELSE call[d].at
BY DEF Typed, IsCall, Goto

(* The requests are bytes that can be stored. *)
LEMMA RequestWords ==
  ASSUME Typed, NEW c \in Clients
  PROVE  /\ call[c].req[2] \in Seq(0..255) /\ Len(call[c].req[2]) = 4
         /\ Word(call[c].req[1]) \in Seq(0..255) /\ Len(Word(call[c].req[1])) = 4
         /\ IsStored(call[c].req[2]) /\ IsStored(Word(call[c].req[1]))
<1>1. IsRequest(call[c].req)
  BY DEF Typed, IsCall
<1> QED
  BY <1>1, WordIsWord DEF IsRequest, IsStored

(* The registers, and the 1 of a kick. *)
LEMMA Registered ==
  /\ \A a \in {Cmd, Resp, Stat, Arg} : a \in Int
  /\ IsStored(Word(1))
<1>1. \A a \in {Cmd, Resp, Stat, Arg} : a \in Int
  BY SMT DEF Cmd, Resp, Stat, Arg, MailboxBase
<1>2. 1 \in 0..255
  OBVIOUS
<1> QED
  BY <1>1, <1>2, WordIsWord DEF IsStored

(* A store of a client keeps the types. *)
LEMMA StoreTyped ==
  ASSUME Typed, NEW c \in Clients, NEW from, NEW to, Goto(c, from, to),
         NEW a \in Int, NEW w, IsStored(w), StoreBy(c, a, w)
  PROVE  Typed'
<1>1. IsBus(bus') /\ Quiet(bus')
  BY WriteKeeps DEF Typed, StoreBy
<1>2. DOMAIN call' = Clients /\ \A d \in Clients : IsCall(call'[d])
  BY MovesOn
<1>3. DOMAIN seen' = Clients /\ \A d \in Clients : DOMAIN seen'[d] = {"calm", "answers", "helds"}
  BY DEF StoreBy
<1>4. DOMAIN past' = {"gpio", "junk", "strays"} /\ past'.strays \in Nat
  BY DEF StoreBy, Typed
<1> QED
  BY <1>1, <1>2, <1>3, <1>4 DEF Typed, Quiet

LEMMA WriteArgKeeps ==
  ASSUME IInv, NEW c \in Clients, WriteArg(c)
  PROVE  IInv'
<1> DEFINE w == call[c].req[2]
<1>1. Goto(c, "arg", "cmd") /\ StoreBy(c, Arg, w) /\ Typed
  BY DEF WriteArg, IInv
<1>2. bus' = [bus EXCEPT !.mbox[12] = w]
  BY <1>1, RequestWords, StoresRegister DEF StoreBy, Typed
<1>3. bus'.mbox[12] = w /\ bus'.mbox[0] = bus.mbox[0] /\ bus'.mbox[4] = bus.mbox[4]
  BY <1>1, <1>2 DEF Typed, IsBus, IsFour
<1>4. ASSUME NEW d \in Clients PROVE Held4(bus'.mbox, call'[d], seen'[d])
  <2>1. /\ call'[d].req = call[d].req /\ call'[d].res = call[d].res
        /\ call'[d].at = IF d = c THEN "cmd" ELSE call[d].at
    BY <1>1, MovesOn
  <2>2. CASE d = c
    BY <1>3, <2>1, <2>2 DEF Held4
  <2>3. CASE d # c
    <3>1. Arg # Stat
      BY Registers
    <3>2. /\ seen'[d].calm => seen[d].calm /\ call[d].req = call[c].req
          /\ seen'[d].answers = seen[d].answers
      BY <1>1, <2>3, <3>1 DEF StoreBy
    <3>3. Held4(bus.mbox, call[d], seen[d])
      BY DEF IInv, Kept
    <3> QED
      BY <1>3, <2>1, <2>3, <3>2, <3>3 DEF Held4
  <2> QED
    BY <2>2, <2>3
<1>5. Typed'
  BY <1>1, StoreTyped, RequestWords, Registered
<1> QED
  BY <1>4, <1>5 DEF IInv, Kept

LEMMA WriteCmdKeeps ==
  ASSUME IInv, NEW c \in Clients, WriteCmd(c)
  PROVE  IInv'
<1> DEFINE w == Word(call[c].req[1])
<1>1. Goto(c, "cmd", "stat") /\ StoreBy(c, Cmd, w) /\ Typed
  BY DEF WriteCmd, IInv
<1>2. bus' = [bus EXCEPT !.mbox[0] = w]
  BY <1>1, RequestWords, StoresRegister DEF StoreBy, Typed
<1>3. bus'.mbox[0] = w /\ bus'.mbox[12] = bus.mbox[12] /\ bus'.mbox[4] = bus.mbox[4]
  BY <1>1, <1>2 DEF Typed, IsBus, IsFour
<1>4. ASSUME NEW d \in Clients PROVE Held4(bus'.mbox, call'[d], seen'[d])
  <2>1. /\ call'[d].req = call[d].req /\ call'[d].res = call[d].res
        /\ call'[d].at = IF d = c THEN "stat" ELSE call[d].at
    BY <1>1, MovesOn
  <2>2. Cmd # Stat /\ Cmd # Arg
    BY Registers
  <2>3. /\ seen'[d].calm => seen[d].calm /\ call[d].req = call[c].req
        /\ seen'[d].answers = seen[d].answers
    BY <1>1, <2>2 DEF StoreBy
  <2>4. Held4(bus.mbox, call[d], seen[d]) /\ call[c].at = "cmd"
    BY <1>1 DEF IInv, Kept, Goto
  <2> QED
    BY <1>3, <2>1, <2>3, <2>4 DEF Held4
<1>5. Typed'
  BY <1>1, StoreTyped, RequestWords, Registered
<1> QED
  BY <1>4, <1>5 DEF IInv, Kept

LEMMA WriteStatKeeps ==
  ASSUME IInv, NEW c \in Clients, WriteStat(c)
  PROVE  IInv'
<1>1. Goto(c, "stat", "done") /\ StoreBy(c, Stat, Word(1)) /\ Typed
  BY DEF WriteStat, IInv
<1>2. /\ bus'.mbox[0] = bus.mbox[0] /\ bus'.mbox[12] = bus.mbox[12]
      /\ bus'.mbox[4] = Response(bus, bus.mbox[0], bus.mbox[12])
  BY <1>1, Kick DEF StoreBy, Typed
<1>3. ASSUME NEW d \in Clients PROVE Held4(bus'.mbox, call'[d], seen'[d])
  <2> DEFINE answer == Response(bus, Word(call[d].req[1]), call[d].req[2])
  <2>1. /\ call'[d].req = call[d].req /\ call'[d].res = call[d].res
        /\ call'[d].at = IF d = c THEN "done" ELSE call[d].at
    BY <1>1, MovesOn
  <2>2. Stat # Arg
    BY Registers
  <2>3. /\ seen'[d].calm => seen[d].calm
        /\ seen'[d].answers = seen[d].answers \union {answer}
    BY <1>1, <2>2 DEF StoreBy
  <2>4. Held4(bus.mbox, call[d], seen[d]) /\ call[c].at = "stat"
    BY <1>1 DEF IInv, Kept, Goto
  <2>5. IsWord(answer)
    <3>1. IsRequest(call[d].req) /\ IsBus(bus)
      BY <1>1 DEF Typed, IsCall
    <3>3. IsWord(call[d].req[2])
      BY <3>1, StoredWord DEF IsRequest
    <3> QED
      BY <3>1, <3>3, AnswerIsWord
  <2> HIDE DEF answer
  <2>6. ASSUME seen'[d].calm, call'[d].at \in {"done", "resp"} PROVE bus'.mbox[4] = answer
    <3>1. bus.mbox[0] = Word(call[d].req[1]) /\ bus.mbox[12] = call[d].req[2]
      BY <2>1, <2>3, <2>4, <2>6 DEF Held4
    <3> QED
      BY <1>2, <3>1 DEF answer
  <2> QED
    BY <1>2, <2>1, <2>3, <2>4, <2>5, <2>6 DEF Held4
<1>4. Typed'
  BY <1>1, StoreTyped, RequestWords, Registered
<1> QED
  BY <1>3, <1>4 DEF IInv, Kept

(* A client that waits, or takes its answer. *)
LEMMA WaitKeeps ==
  ASSUME IInv, NEW c \in Clients, AwaitFree(c) \/ AwaitDone(c)
  PROVE  IInv'
<1>1. PICK from, to : /\ Goto(c, from, to)
                      /\ <<from, to>> \in {<<"free", "arg">>, <<"done", "resp">>}
  BY DEF AwaitFree, AwaitDone
<1>2. UNCHANGED <<bus, seen, past>> /\ Typed
  BY DEF AwaitFree, AwaitDone, IInv
<1>3. ASSUME NEW d \in Clients PROVE Held4(bus'.mbox, call'[d], seen'[d])
  <2>1. /\ call'[d].req = call[d].req /\ call'[d].res = call[d].res
        /\ call'[d].at = IF d = c THEN to ELSE call[d].at
        /\ call[c].at = from
    BY <1>1, <1>2, MovesOn
  <2>2. Held4(bus.mbox, call[d], seen[d])
    BY DEF IInv, Kept
  <2> QED
    BY <1>1, <1>2, <2>1, <2>2 DEF Held4
<1>4. Typed'
  BY <1>1, <1>2, MovesOn DEF Typed
<1> QED
  BY <1>3, <1>4 DEF IInv, Kept

LEMMA ReadRespKeeps ==
  ASSUME IInv, NEW c \in Clients, ReadResp(c)
  PROVE  IInv'
<1> DEFINE w == Read(bus, Resp, 4)
<1>1. /\ call[c].at = "resp" /\ call' = [call EXCEPT ![c].at = "idle", ![c].res = w]
      /\ UNCHANGED <<bus, seen, past>> /\ Typed
  BY DEF ReadResp, IInv
<1>2. seen[c].calm => w \in seen[c].answers
  <2>1. Held4(bus.mbox, call[c], seen[c])
    BY DEF IInv, Kept
  <2> QED
    BY <1>1, <2>1, LoadsRegister, Registers DEF Held4
<1> HIDE DEF w
<1>3. /\ DOMAIN call' = Clients
      /\ \A d \in Clients : IsCall(call'[d])
      /\ \A d \in Clients \ {c} : call'[d] = call[d]
      /\ call'[c].at = "idle" /\ call'[c].res = w
  BY <1>1 DEF Typed, IsCall
<1>4. ASSUME NEW d \in Clients PROVE Held4(bus'.mbox, call'[d], seen'[d])
  <2>1. CASE d = c
    BY <1>1, <1>2, <1>3, <2>1 DEF Held4
  <2>2. CASE d # c
    <3>1. Held4(bus.mbox, call[d], seen[d])
      BY DEF IInv, Kept
    <3> QED
      BY <1>1, <1>3, <2>2, <3>1
  <2> QED
    BY <2>1, <2>2
<1>5. Typed'
  BY <1>1, <1>3 DEF Typed
<1> QED
  BY <1>4, <1>5 DEF IInv, Kept

LEMMA CallKeeps ==
  ASSUME IInv, NEW c \in Clients, Call(c)
  PROVE  IInv'
<1>1. PICK r \in IF c = Kernel THEN {<<IoRead, Word(32)>>} ELSE Requests :
        call' = [call EXCEPT ![c].at = "free", ![c].req = r, ![c].n = @ + 1]
  BY DEF Call
<1>2. IsRequest(r)
  <2>1. IsRequest(<<IoRead, Word(32)>>)
    BY DEF IsRequest, IoRead, Word
  <2>2. \A q \in Requests : IsRequest(q)
    BY MailboxAssumption, Zenon DEF IsRequest
  <2> QED
    BY <2>1, <2>2, Zenon
<1>3. UNCHANGED <<bus, seen, past>> /\ Typed
  BY DEF Call, IInv
<1>4. /\ DOMAIN call' = Clients
      /\ \A d \in Clients : IsCall(call'[d])
      /\ \A d \in Clients \ {c} : call'[d] = call[d]
      /\ call'[c].at = "free"
  BY <1>1, <1>2, <1>3 DEF Typed, IsCall
<1>5. Kept'
  BY <1>3, <1>4 DEF IInv, Kept, Held4
<1>6. Typed'
  BY <1>3, <1>4 DEF Typed
<1> QED
  BY <1>5, <1>6 DEF IInv

(* Which bits a byte has. *)
LEMMA BitsOfByte ==
  ASSUME NEW S
  PROVE  /\ Bits(S) \in 0..255
         /\ \A i \in 0..7 : ~BitSet(255 - Bits(S), i) <=> i \in S
<1> DEFINE p(i, n) == IF i \in S THEN n ELSE 0
           total == p(0, 1) + p(1, 2) + p(2, 4) + p(3, 8) + p(4, 16) + p(5, 32) + p(6, 64) + p(7, 128)
<1>1. /\ Weight[1] = 1 /\ Weight[2] = 2 /\ Weight[3] = 4 /\ Weight[4] = 8
      /\ Weight[5] = 16 /\ Weight[6] = 32 /\ Weight[7] = 64 /\ Weight[8] = 128
  BY DEF Weight
<1>2. Bits(S) = total
  BY <1>1 DEF Bits
<1>3. total \in 0..255
  OBVIOUS
<1> DEFINE rest == 255 - total
<1>4. /\ rest % 2 = 0 <=> 0 \in S
      /\ (rest \div 2) % 2 = 0 <=> 1 \in S
      /\ (rest \div 4) % 2 = 0 <=> 2 \in S
      /\ (rest \div 8) % 2 = 0 <=> 3 \in S
      /\ (rest \div 16) % 2 = 0 <=> 4 \in S
      /\ (rest \div 32) % 2 = 0 <=> 5 \in S
      /\ (rest \div 64) % 2 = 0 <=> 6 \in S
      /\ (rest \div 128) % 2 = 0 <=> 7 \in S
  OBVIOUS
<1>5. rest \in Int
  OBVIOUS
<1> HIDE DEF rest
<1>6. ASSUME NEW i \in 0..7 PROVE ~BitSet(rest, i) <=> i \in S
  BY <1>1, <1>4, <1>5 DEF BitSet
<1> QED
  BY <1>2, <1>3, <1>6 DEF rest

(* The register of the buttons that are held is a word, and what the kernel  *)
(* makes of it are those buttons.                                            *)
LEMMA PadIsWord ==
  ASSUME NEW h
  PROVE  IsWord(PadWord(h)) /\ (h \subseteq 0..15 => Buttons(PadWord(h)) = h)
<1> DEFINE upper == { i \in 0..7 : i + 8 \in h }
           lower == { i \in 0..7 : i \in h }
           x == 255 - Bits(upper)
           y == 255 - Bits(lower)
<1>1. /\ x \in 0..255 /\ y \in 0..255 /\ 0 \in 0..255
      /\ \A i \in 0..7 : ~BitSet(x, i) <=> i \in upper
      /\ \A i \in 0..7 : ~BitSet(y, i) <=> i \in lower
  BY BitsOfByte
<1> HIDE DEF x, y
<1>2. PadWord(h) = <<0, 0, x, y>>
  BY DEF PadWord, x, y
<1>3. Buttons(PadWord(h)) = { i \in 0..7 : ~BitSet(y, i) } \union { i \in 8..15 : ~BitSet(x, i - 8) }
  BY <1>2 DEF Buttons
<1>4. \A i \in 8..15 : ~BitSet(x, i - 8) <=> i \in h
  <2> TAKE i \in 8..15
  <2>1. i - 8 \in 0..7 /\ (i - 8) + 8 = i
    OBVIOUS
  <2> QED
    BY <1>1, <2>1
<1>5. \A i \in 0..7 : ~BitSet(y, i) <=> i \in h
  BY <1>1
<1>6. ASSUME h \subseteq 0..15 PROVE Buttons(PadWord(h)) = h
  <2>1. \A i \in h : i \in 0..7 \/ i \in 8..15
    BY <1>6
  <2> QED
    BY <1>3, <1>4, <1>5, <2>1
<1>7. IsWord(PadWord(h))
  BY <1>1, <1>2, FourBytes
<1> QED
  BY <1>6, <1>7

(* The host sets buttons: a register outside the mailbox. *)
LEMMA HostKeeps ==
  ASSUME IInv, Host
  PROVE  IInv'
<1>1. PICK s \in Held : bus' = SetJoypad(bus, s)
  BY DEF Host
<1>2. UNCHANGED <<call, seen, past>> /\ Typed
  BY DEF Host, IInv
<1>3. IsBus(bus') /\ Quiet(bus') /\ bus'.mbox = bus.mbox
  <2> DEFINE io == CfIoWrite(bus.io, 32, PadWord(s))
  <2>1. bus' = [bus EXCEPT !.io = io]
    BY <1>1 DEF SetJoypad
  <2>2. IsIo(io)
    BY <1>2, PadIsWord, IoWriteKeeps DEF Typed, IsBus
  <2> HIDE DEF io
  <2> QED
    BY <1>2, <2>1, <2>2 DEF Typed, IsBus, Quiet
<1>4. Kept'
  BY <1>2, <1>3 DEF IInv, Kept
<1>5. Typed'
  BY <1>2, <1>3 DEF Typed
<1> QED
  BY <1>4, <1>5 DEF IInv

(* A stray store: outside the mailbox it disturbs no call, inside it disturbs *)
(* every one.                                                                *)
LEMMA StrayKeeps ==
  ASSUME IInv, Stray
  PROVE  IInv'
<1>1. PICK s \in Strays :
        /\ bus' = Write(bus, s[1], s[2])
        /\ past' = [past EXCEPT !.strays = @ + 1, !.gpio = @ \/ bus'.io[8] # bus.io[8],
                                !.junk = @ \/ bus'.mbox[8] # WordZero]
        /\ seen' = [c \in Clients |-> [seen[c] EXCEPT !.calm = @ /\ Region(s[1]) # "Mailbox"]]
  BY DEF Stray
<1>2. UNCHANGED call /\ Typed
  BY DEF Stray, IInv
<1>3. IsBus(bus') /\ Quiet(bus') /\ (Region(s[1]) # "Mailbox" => bus'.mbox = bus.mbox)
  <2>1. s[1] \in Int /\ IsStored(s[2])
    BY MailboxAssumption DEF IsStored
  <2> QED
    BY <1>1, <1>2, <2>1, WriteKeeps DEF Typed
<1>4. ASSUME NEW c \in Clients
      PROVE  /\ DOMAIN seen'[c] = {"calm", "answers", "helds"}
             /\ seen'[c].answers = seen[c].answers
             /\ seen'[c].calm = (seen[c].calm /\ Region(s[1]) # "Mailbox")
  BY <1>1, <1>2 DEF Typed
<1>5. Kept'
  BY <1>2, <1>3, <1>4 DEF IInv, Kept, Held4
<1>6. Typed'
  <2>1. DOMAIN seen' = Clients
    BY <1>1
  <2>2. DOMAIN past' = {"gpio", "junk", "strays"} /\ past'.strays \in Nat
    BY <1>1, <1>2 DEF Typed
  <2> QED
    BY <1>2, <1>3, <1>4, <2>1, <2>2 DEF Typed, Quiet
<1> QED
  BY <1>5, <1>6 DEF IInv
-----------------------------------------------------------------------------
(* The pad *)

(* What a poll asks for is the register of the buttons. *)
LEMMA PollsPad ==
  ASSUME NEW b
  PROVE  Response(b, Word(IoRead), Word(32)) = b.io[8]
<1>1. Word(32)[4] % 64 = 32 /\ 32 \div 4 = 8 /\ 8 < 16
  BY DEF Word
<1>2. Response(b, Word(IoRead), Word(32)) = CfIoRead(b.io, Word(32)[4] % 64)
  <2>1. /\ Word(IoRead) # Word(Joypad) /\ Word(IoRead) # Word(CdromStatus)
    BY DEF Word, IoRead, Joypad, CdromStatus
  <2> QED
    BY <2>1, Zenon DEF Response
<1> QED
  BY <1>1, <1>2 DEF CfIoRead

LEMMA PadInit == Init => PadInv
<1> SUFFICES ASSUME Init PROVE PadInv
  OBVIOUS
<1>0. Kernel \in Clients
  BY MailboxAssumption
<1>1. /\ held = {} /\ call[Kernel].req = <<IoRead, Word(32)>> /\ call[Kernel].at = "idle"
      /\ seen[Kernel] = [calm |-> FALSE, answers |-> {}, helds |-> {}]
      /\ input.state = {}
  BY <1>0 DEF Init
<1>2. bus.io = CfIoReset
  BY DEF Init, BusInit
<1>3. CfIoReset[8] = <<0, 0, 255, 255>>
  BY DEF CfIoReset
<1>4. Bits({}) = 0
  BY DEF Bits
<1>5. PadWord({}) = <<0, 0, 255, 255>>
  <2>1. { i \in 0..7 : i + 8 \in {} } = {} /\ { i \in 0..7 : i \in {} } = {}
    OBVIOUS
  <2>2. PadWord({}) = <<0, 0, 255 - 0, 255 - 0>>
    BY <1>4, <2>1 DEF PadWord
  <2> QED
    BY <2>2
<1> QED
  BY <1>1, <1>2, <1>3, <1>5 DEF PadInv, OfPad

(* A store of a client: what it leaves of the GPIO, and of the history of a  *)
(* call of the kernel.                                                       *)
LEMMA StorePad ==
  ASSUME IInv, PadInv, NEW c \in Clients, NEW from, NEW to, Goto(c, from, to),
         NEW a \in {Cmd, Stat, Arg}, NEW w, StoreBy(c, a, w),
         c = Kernel => to \notin {"resp", "idle"},
         \/ a \in {Cmd, Arg} /\ bus'.mbox[4] = bus.mbox[4] /\ to # "done"
         \/ a = Stat /\ from = "stat" /\ bus'.mbox[4] = Response(bus, bus.mbox[0], bus.mbox[12])
  PROVE  PadInv'
<1>0. Kernel \in Clients /\ Typed
  BY MailboxAssumption DEF IInv
<1>1. /\ call'[Kernel].req = call[Kernel].req
      /\ call'[Kernel].at = IF Kernel = c THEN to ELSE call[Kernel].at
      /\ call[c].at = from
  BY <1>0, MovesOn
<1>2. held' = held /\ input' = input
  BY DEF StoreBy
<1>3. ~past'.gpio => ~past.gpio /\ bus'.io[8] = bus.io[8]
  BY <1>0 DEF StoreBy, Typed
<1>4. /\ Arg # Stat /\ Cmd # Stat
      /\ seen'[Kernel].helds = (IF Kernel = c /\ a = Arg THEN {} ELSE seen[Kernel].helds)
                               \union (IF a = Stat THEN {held} ELSE {})
      /\ seen'[Kernel].calm = ((Kernel = c /\ a = Arg) \/ (seen[Kernel].calm /\ call[Kernel].req = call[c].req))
  BY <1>0, Registers DEF StoreBy
<1>5. \A h \in seen'[Kernel].helds : h \subseteq 0..15
  BY <1>4 DEF PadInv
<1>6. ASSUME ~past'.gpio PROVE OfPad(bus'.mbox, call'[Kernel], seen'[Kernel], input')
  <2> SUFFICES ASSUME seen'[Kernel].calm
               PROVE  /\ call'[Kernel].at \in {"done", "resp"} => \E h \in seen'[Kernel].helds : bus'.mbox[4] = PadWord(h)
                      /\ call'[Kernel].at = "idle" => input'.state \in seen'[Kernel].helds
    BY DEF OfPad
  <2>1. OfPad(bus.mbox, call[Kernel], seen[Kernel], input) /\ bus.io[8] = PadWord(held)
    BY <1>3, <1>6 DEF PadInv
  <2>2. CASE a \in {Cmd, Arg}
    <3>1. CASE Kernel = c
      BY <1>1, <1>4, <2>2, <3>1
    <3>2. CASE Kernel # c
      <4>1. /\ seen[Kernel].calm /\ seen'[Kernel].helds = seen[Kernel].helds
            /\ call'[Kernel].at = call[Kernel].at /\ bus'.mbox[4] = bus.mbox[4]
        BY <1>1, <1>4, <2>2, <3>2
      <4> QED
        BY <1>2, <2>1, <4>1 DEF OfPad
    <3> QED
      BY <3>1, <3>2
  <2>3. CASE a = Stat
    <3>1. /\ seen[Kernel].calm /\ seen'[Kernel].helds = seen[Kernel].helds \union {held}
          /\ bus'.mbox[4] = Response(bus, bus.mbox[0], bus.mbox[12]) /\ from = "stat"
      BY <1>4, <2>3
    <3>2. call'[Kernel].at = "idle" => input'.state \in seen'[Kernel].helds
      BY <1>1, <1>2, <2>1, <3>1 DEF OfPad
    <3>3. ASSUME call'[Kernel].at \in {"done", "resp"} PROVE bus'.mbox[4] = PadWord(held)
      <4>1. call[Kernel].at \in {"stat", "done", "resp"}
        BY <1>1, <3>1, <3>3
      <4>2. Held4(bus.mbox, call[Kernel], seen[Kernel])
        BY <1>0 DEF IInv, Kept
      <4>3. bus.mbox[0] = Word(IoRead) /\ bus.mbox[12] = Word(32)
        BY <3>1, <4>1, <4>2 DEF PadInv, Held4
      <4> QED
        BY <2>1, <3>1, <4>3, PollsPad
    <3> QED
      BY <3>1, <3>2, <3>3
  <2> QED
    BY <2>2, <2>3
<1> QED
  BY <1>1, <1>2, <1>3, <1>5, <1>6 DEF PadInv

LEMMA WritesKeepPad ==
  ASSUME IInv, PadInv, NEW c \in Clients, WriteArg(c) \/ WriteCmd(c) \/ WriteStat(c)
  PROVE  PadInv'
<1>0. Typed /\ IsBus(bus)
  BY DEF IInv, Typed
<1>1. CASE WriteArg(c)
  <2> DEFINE w == call[c].req[2]
  <2>1. Goto(c, "arg", "cmd") /\ StoreBy(c, Arg, w)
    BY <1>1 DEF WriteArg
  <2>2. bus' = [bus EXCEPT !.mbox[12] = w]
    BY <1>0, <2>1, RequestWords, StoresRegister DEF StoreBy
  <2> HIDE DEF w
  <2>3. bus'.mbox[4] = bus.mbox[4]
    BY <1>0, <2>2 DEF IsBus, IsFour
  <2> QED
    BY <2>1, <2>3, StorePad
<1>2. CASE WriteCmd(c)
  <2> DEFINE w == Word(call[c].req[1])
  <2>1. Goto(c, "cmd", "stat") /\ StoreBy(c, Cmd, w)
    BY <1>2 DEF WriteCmd
  <2>2. bus' = [bus EXCEPT !.mbox[0] = w]
    BY <1>0, <2>1, RequestWords, StoresRegister DEF StoreBy
  <2> HIDE DEF w
  <2>3. bus'.mbox[4] = bus.mbox[4]
    BY <1>0, <2>2 DEF IsBus, IsFour
  <2> QED
    BY <2>1, <2>3, StorePad
<1>3. CASE WriteStat(c)
  <2>1. Goto(c, "stat", "done") /\ StoreBy(c, Stat, Word(1))
    BY <1>3 DEF WriteStat
  <2>2. bus'.mbox[4] = Response(bus, bus.mbox[0], bus.mbox[12])
    BY <1>0, <2>1, Kick DEF StoreBy
  <2> QED
    BY <2>1, <2>2, StorePad
<1> QED
  BY <1>1, <1>2, <1>3

LEMMA ClientKeepsPad ==
  ASSUME IInv, PadInv, NEW c \in Clients, Call(c) \/ AwaitFree(c) \/ AwaitDone(c) \/ ReadResp(c)
  PROVE  PadInv'
<1>0. Kernel \in Clients /\ Typed /\ UNCHANGED <<bus, held, seen, past>>
  BY MailboxAssumption DEF IInv, Call, AwaitFree, AwaitDone, ReadResp
<1>1. CASE Call(c)
  <2>1. PICK r \in IF c = Kernel THEN {<<IoRead, Word(32)>>} ELSE Requests :
          call' = [call EXCEPT ![c].at = "free", ![c].req = r, ![c].n = @ + 1]
    BY <1>1 DEF Call
  <2>2. /\ input' = input
        /\ c = Kernel => call'[Kernel].at = "free" /\ call'[Kernel].req = <<IoRead, Word(32)>>
        /\ c # Kernel => call'[Kernel] = call[Kernel]
    BY <1>0, <1>1, <2>1 DEF Typed, IsCall, Call
  <2> QED
    BY <1>0, <2>2 DEF PadInv, OfPad
<1>2. CASE AwaitFree(c) \/ AwaitDone(c)
  <2>1. PICK from, to : Goto(c, from, to) /\ <<from, to>> \in {<<"free", "arg">>, <<"done", "resp">>}
    BY <1>2 DEF AwaitFree, AwaitDone
  <2>2. /\ input' = input /\ call'[Kernel].req = call[Kernel].req
        /\ call'[Kernel].at = IF Kernel = c THEN to ELSE call[Kernel].at
        /\ call[c].at = from
    BY <1>0, <1>2, <2>1, MovesOn DEF AwaitFree, AwaitDone
  <2> QED
    BY <1>0, <2>1, <2>2 DEF PadInv, OfPad
<1>3. CASE ReadResp(c)
  <2> DEFINE w == Read(bus, Resp, 4)
  <2>1. /\ call[c].at = "resp" /\ call' = [call EXCEPT ![c].at = "idle", ![c].res = w]
        /\ c # Kernel => input' = input
        /\ c = Kernel => input'.state = Buttons(w)
    BY <1>3 DEF ReadResp
  <2>2. w = bus.mbox[4]
    BY <1>0, LoadsRegister, Registers DEF Typed, IsBus, IsFour
  <2> HIDE DEF w
  <2>3. CASE c # Kernel
    <3>1. call'[Kernel] = call[Kernel]
      BY <1>0, <2>1, <2>3 DEF Typed
    <3> QED
      BY <1>0, <2>1, <2>3, <3>1 DEF PadInv
  <2>4. CASE c = Kernel
    <3>1. call'[Kernel].at = "idle" /\ call'[Kernel].req = call[Kernel].req
      BY <1>0, <2>1, <2>4 DEF Typed, IsCall
    <3>2. ASSUME ~past.gpio, seen[Kernel].calm PROVE input'.state \in seen[Kernel].helds
      <4>1. PICK h \in seen[Kernel].helds : w = PadWord(h)
        BY <2>1, <2>2, <2>4, <3>2 DEF PadInv, OfPad
      <4>2. Buttons(w) = h
        BY <4>1, PadIsWord DEF PadInv
      <4> QED
        BY <2>1, <2>4, <4>2
    <3> QED
      BY <1>0, <3>1, <3>2 DEF PadInv, OfPad
  <2> QED
    BY <2>3, <2>4
<1> QED
  BY <1>1, <1>2, <1>3

LEMMA OthersKeepPad ==
  ASSUME IInv, PadInv, Host \/ Stray \/ UNCHANGED vars
  PROVE  PadInv'
<1>0. Kernel \in Clients /\ Typed /\ IsBus(bus)
  BY MailboxAssumption DEF IInv, Typed
<1>1. CASE Host
  <2> PICK s \in Held : held' = s /\ bus' = SetJoypad(bus, s)
    BY <1>1 DEF Host
  <2>1. UNCHANGED <<call, input, seen, past>>
    BY <1>1 DEF Host
  <2>2. bus' = [bus EXCEPT !.io = [bus.io EXCEPT ![8] = PadWord(s)]]
    <3>1. 32 \div 4 = 8
      OBVIOUS
    <3>2. CfIoWrite(bus.io, 32, PadWord(s)) = [bus.io EXCEPT ![8] = PadWord(s)]
      BY <3>1 DEF CfIoWrite
    <3> QED
      BY <3>2 DEF SetJoypad
  <2> DEFINE w == PadWord(s)
  <2> HIDE DEF w
  <2>3. bus'.mbox = bus.mbox /\ bus'.io[8] = w
    BY <1>0, <2>2 DEF IsBus, IsIo, w
  <2>4. s \subseteq 0..15
    BY MailboxAssumption
  <2> QED
    BY <2>1, <2>3, <2>4 DEF PadInv, w
<1>2. CASE Stray
  <2>1. PICK s \in Strays :
          /\ bus' = Write(bus, s[1], s[2])
          /\ past' = [past EXCEPT !.strays = @ + 1, !.gpio = @ \/ bus'.io[8] # bus.io[8],
                                  !.junk = @ \/ bus'.mbox[8] # WordZero]
          /\ seen' = [c \in Clients |-> [seen[c] EXCEPT !.calm = @ /\ Region(s[1]) # "Mailbox"]]
    BY <1>2 DEF Stray
  <2>2. UNCHANGED <<held, call, input>>
    BY <1>2 DEF Stray
  <2>3. Region(s[1]) # "Mailbox" => bus'.mbox = bus.mbox
    <3>1. s[1] \in Int /\ IsStored(s[2])
      BY MailboxAssumption DEF IsStored
    <3> QED
      BY <1>0, <2>1, <3>1, WriteKeeps DEF Typed
  <2>4. /\ seen'[Kernel].helds = seen[Kernel].helds
        /\ seen'[Kernel].calm = (seen[Kernel].calm /\ Region(s[1]) # "Mailbox")
    BY <1>0, <2>1 DEF Typed
  <2>5. ~past'.gpio => ~past.gpio /\ bus'.io[8] = bus.io[8]
    BY <1>0, <2>1 DEF Typed
  <2> QED
    BY <2>2, <2>3, <2>4, <2>5 DEF PadInv, OfPad
<1>3. CASE UNCHANGED vars
  BY <1>3 DEF vars, PadInv
<1> QED
  BY <1>1, <1>2, <1>3

-----------------------------------------------------------------------------
(* Bytes in address order *)

\* The byte at an address of a memory or of an I/O register.
ByteAt(b, a) ==
  IF Region(a) = "ColdFireIo" THEN CfIoRead(b.io, a % 64)[(a % 4) + 1] ELSE b.mem[<<Region(a), Offset(a)>>]

(* Where the regions lie that are flat: the RAM below the local memory, and   *)
(* that next to the I/O registers.                                           *)
LEMMA Bounds ==
  /\ UnifiedRamSize \in Int /\ LocalSize \in Int /\ ColdFireLocalBase \in Int /\ ColdFireIoBase \in Int
  /\ 0 < UnifiedRamSize /\ UnifiedRamSize <= ColdFireLocalBase /\ 0 < LocalSize
  /\ ColdFireLocalBase + LocalSize = ColdFireIoBase /\ ColdFireIoBase % 64 = 0
BY SMT DEF UnifiedRamSize, LocalSize, ColdFireLocalBase, ColdFireIoBase

LEMMA FlatRegions ==
  ASSUME NEW a \in Int
  PROVE  /\ Region(a) = "UnifiedRam" => a \in 0..(UnifiedRamSize - 1) /\ Offset(a) = a
         /\ Region(a) = "ColdFireLocal" => a \in ColdFireLocalBase..(ColdFireIoBase - 1) /\ Offset(a) = a - ColdFireLocalBase
         /\ Region(a) = "ColdFireIo" => a \in ColdFireIoBase..(ColdFireIoBase + 63)
<1>1. Region(a) = "UnifiedRam" => a \in 0..(UnifiedRamSize - 1)
  BY Zenon DEF Region
<1>2. Region(a) = "ColdFireLocal" => a \in ColdFireLocalBase..(ColdFireLocalBase + LocalSize - 1)
  BY Zenon DEF Region
<1>3. Region(a) = "ColdFireIo" => a \in ColdFireIoBase..(ColdFireIoBase + 63)
  BY Zenon DEF Region
<1>4. Base("UnifiedRam") = 0 /\ Base("ColdFireLocal") = ColdFireLocalBase
  BY Zenon DEF Base
<1>5. /\ Region(a) = "UnifiedRam" => Offset(a) = a
      /\ Region(a) = "ColdFireLocal" => Offset(a) = a - ColdFireLocalBase
  BY <1>4 DEF Offset
<1> QED
  BY <1>1, <1>2, <1>3, <1>5, Bounds

(* A load of one byte gives it. *)
LEMMA ReadsByte ==
  ASSUME NEW b, IsBus(b), NEW a \in Int, Flat(a)
  PROVE  Read(b, a, 1) = <<ByteAt(b, a)>>
<1> DEFINE r == Region(a)
<1>1. CASE r = "ColdFireIo"
  <2> DEFINE w == CfIoRead(b.io, a % 64)  k == (a % 4) + 1
  <2>1. Read(b, a, 1) = SubSeq(w, k, k + 1 - 1)
    <3>1. r \notin Memories
      BY <1>1 DEF Memories
    <3>2. Read(b, a, 1) = Take(CfIoRead(b.io, a % 64), Lane(a, 1), 1)
      BY <1>1, <3>1, Zenon DEF Read
    <3>3. Lane(a, 1) = k
      BY DEF Lane
    <3> QED
      BY <3>2, <3>3 DEF Take
  <2>2. IsWord(w)
    <3>1. a % 64 \in Nat
      OBVIOUS
    <3> QED
      BY <3>1, IoReadIsWord DEF IsBus
  <2>3. k \in 1..4
    OBVIOUS
  <2>4. ByteAt(b, a) = w[k]
    BY <1>1 DEF ByteAt
  <2> HIDE DEF w, k
  <2> DEFINE t == SubSeq(w, k, k)
  <2>5. t \in Seq(0..255) /\ Len(t) = 1 /\ t[1] = w[k]
    <3>1. k \in Int /\ \A i \in k..k : w[i] \in 0..255
      BY <2>2, <2>3, BytesOfWord
    <3> QED
      BY <3>1, SubSeqProperties
  <2>6. k + 1 - 1 = k
    BY <2>3
  <2> HIDE DEF t
  <2>7. t = <<w[k]>>
    BY <2>5
  <2> QED
    BY <2>1, <2>4, <2>6, <2>7 DEF t
<1>2. CASE r \in {"UnifiedRam", "ColdFireLocal"}
  <2>1. Fits(a, 1) /\ Offset(a) \in Int
    <3>1. Size("UnifiedRam") = UnifiedRamSize /\ Size("ColdFireLocal") = LocalSize
      BY Zenon DEF Size
    <3> QED
      BY <1>2, <3>1, FlatRegions, Bounds DEF Fits
  <2>2. Read(b, a, 1) = [i \in 1..1 |-> b.mem[<<r, Offset(a) + i - 1>>]]
    <3>1. r \in Memories
      BY <1>2 DEF Memories
    <3>2. r # "ColdFireIo" /\ r # "Mailbox" /\ r # "MiuRegs"
      BY <1>2
    <3> QED
      BY <2>1, <3>1, <3>2, Zenon DEF Read
  <2> DEFINE off == Offset(a)
  <2>3. ByteAt(b, a) = b.mem[<<r, off>>]
    BY <1>2 DEF ByteAt
  <2> HIDE DEF off, r
  <2>4. [i \in 1..1 |-> b.mem[<<r, off + i - 1>>]] = <<b.mem[<<r, off>>]>>
    <3>1. \A i \in 1..1 : off + i - 1 = off
      BY <2>1 DEF off
    <3>2. [i \in 1..1 |-> b.mem[<<r, off + i - 1>>]] = [i \in 1..1 |-> b.mem[<<r, off>>]]
      BY <3>1
    <3>3. \A x : [i \in 1..1 |-> x] = <<x>>
      OBVIOUS
    <3> QED
      BY <3>2, <3>3
  <2> QED
    BY <2>2, <2>3, <2>4 DEF off
<1> QED
  BY <1>1, <1>2 DEF Flat

\* What the law says of one byte.
Law(b, s, a) ==
  ByteAt(Write(b, s[1], s[2]), a)
    = IF Lands(s) /\ a \in s[1]..(s[1] + Len(s[2]) - 1) THEN s[2][a - s[1] + 1] ELSE ByteAt(b, a)

(* A store to RAM that fits. *)
LEMMA RamLaw ==
  ASSUME NEW b, IsBus(b), NEW s, s[1] \in Int, IsStored(s[2]), Region(s[1]) = "UnifiedRam",
         s[1] + Len(s[2]) <= UnifiedRamSize,
         NEW a \in Int, Flat(a), Region(a) \in Memories => <<Region(a), Offset(a)>> \in Cells
  PROVE  Law(b, s, a)
<1> DEFINE x == s[1]  v == s[2]  c == <<Region(a), Offset(a)>>
           m == [d \in Cells |-> IF d[1] = "UnifiedRam" /\ d[2] \in x..(x + Len(v) - 1) THEN v[d[2] - x + 1] ELSE b.mem[d]]
<1>1. x \in 0..(UnifiedRamSize - 1) /\ Offset(x) = x /\ Len(v) \in {1, 2, 4} /\ x + Len(v) <= UnifiedRamSize
  BY FlatRegions DEF IsStored
<1>2. Write(b, x, v) = [b EXCEPT !.mem = m]
  <2>1. Fits(x, Len(v))
    <3>1. Size("UnifiedRam") = UnifiedRamSize
      BY Zenon DEF Size
    <3> QED
      BY <1>1, <3>1 DEF Fits
  <2>2. Write(b, x, v) = Store(b, x, v)
    BY <2>1, Zenon DEF Write
  <2>3. Store(b, x, v) = [b EXCEPT !.mem = [d \in Cells |-> IF d[1] = Region(x) /\ d[2] \in Offset(x)..(Offset(x) + Len(v) - 1)
                                                          THEN v[d[2] - Offset(x) + 1] ELSE @[d]]]
    BY Zenon DEF Store
  <2> QED
    BY <1>1, <2>2, <2>3
<1>3. Lands(s)
  BY DEF Lands
<1> HIDE DEF m, v, x
<1> DEFINE after == Write(b, x, v)
<1>4. after.mem = m /\ after.io = b.io
  BY <1>2 DEF IsBus
<1> HIDE DEF after
<1>5. CASE Region(a) = "ColdFireIo"
  <2>1. a \notin x..(x + Len(v) - 1)
    BY <1>1, <1>5, FlatRegions, Bounds
  <2> QED
    BY <1>4, <1>5, <2>1 DEF Law, ByteAt, after, x, v
<1>6. CASE Region(a) = "UnifiedRam"
  <2>1. c \in Cells /\ c[1] = "UnifiedRam" /\ c[2] = a
    BY <1>6, FlatRegions DEF Memories
  <2>2. m[c] = IF a \in x..(x + Len(v) - 1) THEN v[a - x + 1] ELSE b.mem[c]
    BY <2>1 DEF m
  <2>3. ByteAt(after, a) = m[c] /\ ByteAt(b, a) = b.mem[c]
    BY <1>4, <1>6 DEF ByteAt
  <2> QED
    BY <1>3, <2>2, <2>3 DEF Law, after, x, v
<1>7. CASE Region(a) = "ColdFireLocal"
  <2>1. a \notin x..(x + Len(v) - 1)
    BY <1>1, <1>7, FlatRegions, Bounds
  <2>2. c \in Cells /\ c[1] # "UnifiedRam"
    BY <1>7 DEF Memories
  <2>3. m[c] = b.mem[c]
    BY <2>2 DEF m
  <2>4. ByteAt(after, a) = m[c] /\ ByteAt(b, a) = b.mem[c]
    BY <1>4, <1>7 DEF ByteAt
  <2> QED
    BY <2>1, <2>3, <2>4 DEF Law, after, x, v
<1> QED
  BY <1>5, <1>6, <1>7 DEF Flat

(* An aligned store to an I/O register. *)
LEMMA IoLaw ==
  ASSUME NEW b, IsBus(b), NEW s, s[1] \in Int, IsStored(s[2]), Region(s[1]) = "ColdFireIo",
         s[1] % Len(s[2]) = 0,
         NEW a \in Int, Flat(a), a \notin (ColdFireIoBase + 4)..(ColdFireIoBase + 7)
  PROVE  Law(b, s, a)
<1> DEFINE x == s[1]  v == s[2]  n == Len(v)  o == x % 64  first == Lane(x, n)
           w == Put(CfIoRead(b.io, o), first, v)
           after == Write(b, x, v)
<1>1. n \in {1, 2, 4} /\ x \in ColdFireIoBase..(ColdFireIoBase + 63) /\ x % n = 0
  BY FlatRegions DEF IsStored
<1>2. o = x - ColdFireIoBase /\ first = (x % 4) + 1
  <2>1. o = x - ColdFireIoBase
    BY <1>1, Bounds
  <2>2. ASSUME n = 1 PROVE first = (x % 4) + 1
    <3>1. n # 2
      BY <2>2
    <3> QED
      BY <2>2, <3>1, Zenon DEF Lane
  <2>3. ASSUME n = 2 PROVE first = (x % 4) + 1
    <3>1. n # 1
      BY <2>3
    <3>2. first = 2 * ((x % 4) \div 2) + 1
      BY <2>3, <3>1, Zenon DEF Lane
    <3> QED
      BY <1>1, <2>3, <3>2, Bounds
  <2>4. ASSUME n = 4 PROVE first = (x % 4) + 1
    <3>1. n # 1 /\ n # 2
      BY <2>4
    <3>2. first = 1
      BY <2>4, <3>1, Zenon DEF Lane
    <3> QED
      BY <1>1, <2>4, <3>2, Bounds
  <2> QED
    BY <1>1, <2>1, <2>2, <2>3, <2>4
<1>3. after = [b EXCEPT !.io = CfIoWrite(b.io, o, w)]
  <2>1. after = [b EXCEPT !.io = CfIoWrite(@, x % 64, Put(CfIoRead(@, x % 64), Lane(x, Len(v)), v))]
    BY Zenon DEF Write
  <2> QED
    BY <2>1
<1>4. Lands(s)
  BY DEF Lands
<1>5. \A k \in 1..4 : w[k] = IF k \in first..(first + n - 1) THEN v[k - first + 1] ELSE CfIoRead(b.io, o)[k]
  BY DEF Put
<1> HIDE DEF x, v, n, o, first, w
<1> DEFINE io == CfIoWrite(b.io, o, w)
<1>6. after.io = io /\ after.mem = b.mem
  BY <1>3 DEF IsBus
<1> DEFINE i == o \div 4
<1>7. i \in 0..15 /\ o = 4 * i + (x % 4)
  BY <1>1, <1>2, Bounds
<1>8. /\ i = 0 => io = [b.io EXCEPT ![0] = w, ![1] = TxReady]
      /\ i \in 1..15 => io = [b.io EXCEPT ![i] = w]
  <2>1. i = 0 => i \notin 1..15
    OBVIOUS
  <2>2. i \in 1..15 => i # 0
    OBVIOUS
  <2> QED
    BY <2>1, <2>2, Zenon DEF CfIoWrite
<1> HIDE DEF io, i, after
<1>9. \A j \in 0..15 : j # 1 => io[j] = IF j = i THEN w ELSE b.io[j]
  <2>1. DOMAIN b.io = 0..15
    BY DEF IsBus, IsIo
  <2>2. CASE i = 0
    BY <1>8, <2>1, <2>2
  <2>3. CASE i \in 1..15
    BY <1>8, <2>1, <2>3
  <2>4. i = 0 \/ i \in 1..15
    BY <1>7
  <2> QED
    BY <2>2, <2>3, <2>4
<1>10. CASE Region(a) # "ColdFireIo"
  <2>1. a \notin x..(x + n - 1)
    <3>1. a < ColdFireIoBase
      BY <1>10, FlatRegions, Bounds DEF Flat
    <3> QED
      BY <1>1, <3>1, Bounds
  <2>2. ByteAt(after, a) = ByteAt(b, a)
    BY <1>6, <1>10 DEF ByteAt
  <2> QED
    BY <2>1, <2>2 DEF Law, after, x, v, n
<1>11. CASE Region(a) = "ColdFireIo"
  <2> DEFINE p == a % 64  j == p \div 4  k == (a % 4) + 1
  <2>1. a \in ColdFireIoBase..(ColdFireIoBase + 63) /\ a \notin (ColdFireIoBase + 4)..(ColdFireIoBase + 7)
    BY <1>11, FlatRegions
  <2>2. p = a - ColdFireIoBase /\ j \in 0..15 /\ k \in 1..4 /\ p = 4 * j + (k - 1) /\ j # 1 /\ j < 16
    BY <2>1, Bounds
  <2>3. ByteAt(after, a) = io[j][k] /\ ByteAt(b, a) = b.io[j][k]
    BY <1>6, <1>11, <2>2 DEF ByteAt, CfIoRead
  <2>4. i = j => CfIoRead(b.io, o) = b.io[j]
    BY <1>7, <2>2 DEF CfIoRead, i
  <2> HIDE DEF p, j, k
  <2>5. x % 4 \in 0..3
    BY <1>1
  <2>6. (x % 4) + n <= 4
    BY <1>1
  <2>7. a \in x..(x + n - 1) <=> (i = j /\ k \in first..(first + n - 1))
    BY <1>1, <1>2, <1>7, <2>1, <2>2, <2>5, <2>6, Bounds
  <2>8. i = j => k - first = a - x
    BY <1>1, <1>2, <1>7, <2>1, <2>2, <2>5, Bounds
  <2>9. ByteAt(after, a) = IF a \in x..(x + n - 1) THEN v[a - x + 1] ELSE ByteAt(b, a)
    <3>1. CASE i = j
      <4>1. io[j] = w
        BY <1>9, <2>2, <3>1
      <4>2. CASE k \in first..(first + n - 1)
        <5>1. w[k] = v[k - first + 1]
          BY <1>5, <2>2, <4>2
        <5> QED
          BY <2>3, <2>7, <2>8, <3>1, <4>1, <4>2, <5>1
      <4>3. CASE k \notin first..(first + n - 1)
        <5>1. w[k] = b.io[j][k]
          BY <1>5, <2>2, <2>4, <3>1, <4>3
        <5> QED
          BY <2>3, <2>7, <4>1, <4>3, <5>1
      <4> QED
        BY <4>2, <4>3
    <3>2. CASE i # j
      <4>1. io[j] = b.io[j]
        BY <1>9, <2>2, <3>2
      <4> QED
        BY <2>3, <2>7, <3>2, <4>1
    <3> QED
      BY <3>1, <3>2
  <2> QED
    BY <1>4, <2>9 DEF Law, after, x, v, n
<1> QED
  BY <1>10, <1>11

(* A store that does not land leaves memory and the I/O registers alone. *)
LEMMA LostLaw ==
  ASSUME NEW b, IsBus(b), NEW s, s[1] \in Int, IsStored(s[2]), Region(s[1]) # "Mailbox", ~Lands(s), NEW a
  PROVE  Law(b, s, a)
<1> DEFINE x == s[1]  v == s[2]  r == Region(x)  after == Write(b, x, v)
<1>1. after = b \/ \E q : after = [b EXCEPT !.miu[x % 16] = q]
  <2>1. CASE r = "UnifiedRam"
    <3>1. ~Fits(x, Len(v))
      <4>1. Size("UnifiedRam") = UnifiedRamSize /\ Offset(x) = x
        BY <2>1, FlatRegions, Zenon DEF Size
      <4>2. ~(x + Len(v) <= UnifiedRamSize)
        BY <2>1 DEF Lands
      <4> QED
        BY <2>1, <4>1, <4>2 DEF Fits
    <3> QED
      BY <2>1, <3>1, Zenon DEF Write
  <2>2. CASE r = "MiuRegs"
    <3>1. CASE x % 16 \in {0, 8, 12}
      BY <2>2, <3>1, Zenon DEF Write
    <3>2. CASE x % 16 \notin {0, 8, 12}
      BY <2>2, <3>2, Zenon DEF Write
    <3> QED
      BY <3>1, <3>2
  <2>3. CASE r \notin {"UnifiedRam", "MiuRegs"}
    <3>1. r # "ColdFireIo" /\ r # "Mailbox"
      BY DEF Lands
    <3> QED
      BY <2>3, <3>1, Zenon DEF Write
  <2> QED
    BY <2>1, <2>2, <2>3
<1> HIDE DEF after
<1>2. after.mem = b.mem /\ after.io = b.io
  BY <1>1 DEF IsBus
<1>3. ByteAt(after, a) = ByteAt(b, a)
  BY <1>2 DEF ByteAt
<1> QED
  BY <1>3 DEF Law, after

-----------------------------------------------------------------------------
(* The theorems *)

LEMMA StepKeeps == IInv /\ [Next]_vars => IInv'
<1> SUFFICES ASSUME IInv, [Next]_vars PROVE IInv'
  OBVIOUS
<1>1. CASE \E c \in Clients : Call(c) \/ Client(c)
  BY <1>1, CallKeeps, WaitKeeps, WriteArgKeeps, WriteCmdKeeps, WriteStatKeeps, ReadRespKeeps DEF Client
<1>2. CASE Host
  BY <1>2, HostKeeps
<1>3. CASE Stray
  BY <1>3, StrayKeeps
<1>4. CASE UNCHANGED vars
  BY <1>4 DEF vars, IInv, Typed, Kept
<1> QED
  BY <1>1, <1>2, <1>3, <1>4 DEF Next

LEMMA Invariant == Spec => []IInv
  BY InitHolds, StepKeeps, PTL DEF Spec

(* Every register is four bytes and no command is ever pending: the service  *)
(* runs within the store that asks for it (src/bus.rs:539).                  *)
THEOREM TypeCorrect == Spec => []TypeOK
<1>1. IInv => TypeOK
  BY DEF IInv, Typed, IsBus, IsFour, IsIo, IsMem, IsWord, Quiet, TypeOK
<1> QED
  BY <1>1, Invariant, PTL

(* A call gets an answer to its own request, as of one of the kicks since its *)
(* own, if only the same request and stores outside the mailbox came between *)
(* (kernel/input.c:19).                                                      *)
THEOREM OwnAnswerHolds == Spec => []OwnAnswer
<1>1. IInv => OwnAnswer
  BY DEF IInv, Kept, Held4, OwnAnswer
<1> QED
  BY <1>1, Invariant, PTL

(* A status nobody is about to overwrite, once it is not 0, stays until       *)
(* another stray store (src/bus.rs:539, kernel/input.c:21).                  *)
THEOREM WedgedHolds == Spec => WedgedForEver
<1>1. IInv /\ [Next]_vars => [Wedged => Wedged' \/ past'.strays # past.strays]_vars
  <2> SUFFICES ASSUME IInv, Next, Wedged PROVE Wedged' \/ past'.strays # past.strays
    BY DEF Wedged
  <2>1. ~StatusFree
    <3>1. Read(bus, Stat, 4) = bus.mbox[8]
      BY LoadsRegister, Registers DEF IInv, Typed, IsBus, IsFour
    <3> QED
      BY <3>1 DEF StatusFree, Wedged
  <2>2. Typed /\ \A c \in Clients : call[c].at \notin {"arg", "cmd", "stat"}
    BY DEF Wedged, IInv
  <2>3. ASSUME NEW c \in Clients, Call(c) PROVE Wedged'
    <3>1. bus' = bus /\ \A d \in Clients : call'[d].at \in {call[d].at, "free"}
      BY <2>2, <2>3 DEF Call, Typed, IsCall
    <3> QED
      BY <2>2, <3>1 DEF Wedged
  <2>4. ASSUME NEW c \in Clients, Client(c) PROVE Wedged'
    <3>1. ReadResp(c)
      BY <2>1, <2>2, <2>4 DEF Client, AwaitFree, AwaitDone, WriteArg, WriteCmd, WriteStat, Goto
    <3>2. bus' = bus /\ \A d \in Clients : call'[d].at \in {call[d].at, "idle"}
      BY <2>2, <3>1 DEF ReadResp, Typed, IsCall
    <3> QED
      BY <2>2, <3>2 DEF Wedged
  <2>5. CASE Host
    <3>1. bus'.mbox = bus.mbox /\ call' = call
      BY <2>2, <2>5 DEF Host, SetJoypad, Typed, IsBus
    <3> QED
      BY <2>2, <3>1 DEF Wedged
  <2>6. CASE Stray
    BY <2>2, <2>6 DEF Stray, Typed
  <2> QED
    BY <2>3, <2>4, <2>5, <2>6 DEF Next
<1> QED
  BY <1>1, Invariant, PTL DEF Spec, WedgedForEver

(* The buttons of an undisturbed poll are those held when the mailbox looked, *)
(* as long as no guest stores to the GPIO (src/bus.rs:250,                   *)
(* kernel/input.c:37).                                                       *)
THEOREM PadIsTruthful == Spec => []TruthfulPad
<1>1. IInv /\ PadInv /\ [Next]_vars => PadInv'
  BY WritesKeepPad, ClientKeepsPad, OthersKeepPad DEF Next, Client
<1>2. IInv /\ PadInv => TruthfulPad
  BY DEF PadInv, OfPad, TruthfulPad
<1> QED
  BY <1>1, <1>2, PadInit, Invariant, PTL DEF Spec

(* Memory and the I/O registers are bytes in address order, whatever the     *)
(* size of the accesses (src/bus.rs:309, src/memory.rs:165): a store changes *)
(* the bytes it covers, those of its first byte's region, and no others.     *)
THEOREM OrderHolds == Spec => []BytesInOrder
<1>1. ASSUME IInv PROVE BytesInOrder
  <2>1. IsBus(bus) /\ Quiet(bus)
    BY <1>1 DEF IInv, Typed
  <2>2. ASSUME NEW s \in Stores, Lawful(s), NEW a \in Watched, Flat(a),
               a \notin (ColdFireIoBase + 4)..(ColdFireIoBase + 7)
        PROVE  Read(Write(bus, s[1], s[2]), a, 1) =
                 IF Lands(s) /\ a \in s[1]..(s[1] + Len(s[2]) - 1) THEN <<s[2][a - s[1] + 1]>> ELSE Read(bus, a, 1)
    <3>1. s[1] \in Int /\ IsStored(s[2])
      BY MailboxAssumption DEF IsStored
    <3>2. a \in Int /\ (Region(a) \in Memories => <<Region(a), Offset(a)>> \in Cells)
      BY MailboxAssumption
    <3>3. IsBus(Write(bus, s[1], s[2]))
      BY <2>1, <3>1, WriteKeeps
    <3>4. Law(bus, s, a)
      <4>1. CASE ~Lands(s)
        BY <2>1, <2>2, <3>1, <4>1, LostLaw DEF Lawful
      <4>2. CASE Lands(s) /\ Region(s[1]) = "ColdFireIo"
        BY <2>1, <2>2, <3>1, <3>2, <4>2, IoLaw DEF Lawful
      <4>3. CASE Lands(s) /\ Region(s[1]) # "ColdFireIo"
        BY <2>1, <2>2, <3>1, <3>2, <4>3, RamLaw DEF Lands
      <4> QED
        BY <4>1, <4>2, <4>3
    <3>5. /\ Read(Write(bus, s[1], s[2]), a, 1) = <<ByteAt(Write(bus, s[1], s[2]), a)>>
          /\ Read(bus, a, 1) = <<ByteAt(bus, a)>>
      BY <2>1, <2>2, <3>2, <3>3, ReadsByte
    <3> QED
      BY <3>4, <3>5 DEF Law
  <2> QED
    BY <2>2 DEF BytesInOrder
<1> QED
  BY <1>1, Invariant, PTL
=============================================================================
