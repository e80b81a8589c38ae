------------------------------ MODULE DmaProofs ------------------------------
(***************************************************************************)
(* Theorems about DmaCopy for every set of channels, burst size, memory    *)
(* map, set of drivers and jobs, and every write of the meddler.           *)
(***************************************************************************)
EXTENDS DmaCopy, WellFoundedInduction, TLAPS

(* Min of two integers is the smaller one. *)
LEMMA MinOfTwo ==
  ASSUME NEW a \in Int, NEW b \in Int
  PROVE  Min({a, b}) = IF a <= b THEN a ELSE b
<1> DEFINE m == IF a <= b THEN a ELSE b
<1>1. m \in {a, b} /\ \A y \in {a, b} : m <= y
  OBVIOUS
<1>2. \A x \in {a, b} : (\A y \in {a, b} : x <= y) => x = m
  BY <1>1
<1> QED
  BY <1>1, <1>2 DEF Min

\* What the registers of one channel always satisfy.
ChannelOK(r) ==
  /\ r \in Register
  /\ r.state = "Bursting" <=> "busy" \in r.status
  /\ r.state = "Bursting" => "done" \notin r.status
  /\ r.state = "Done" => r.status = {"done"}
  /\ r.burst <= BurstSize /\ r.burst % WordSize = 0

(* A tick moves a whole number of words that fits in what is left of the   *)
(* burst and of the transfer.                                              *)
LEMMA WordsFit ==
  ASSUME NEW r, ChannelOK(r)
  PROVE  /\ WordsNow(r) \in Nat
         /\ WordSize * WordsNow(r) <= r.size
         /\ r.burst + WordSize * WordsNow(r) \in 0..BurstSize
         /\ (r.burst + WordSize * WordsNow(r)) % WordSize = 0
<1> DEFINE left == BurstSize - r.burst
<1>1. r.burst \in Nat /\ r.size \in Nat /\ BurstSize \in Nat /\ r.burst <= BurstSize
      /\ r.burst % 4 = 0
  BY DmaAssumption DEF ChannelOK, Register, DmaAssumption, WordSize
<1>2. left \in Nat
  BY <1>1
<1>3. WordsNow(r) = (IF left <= r.size THEN left ELSE r.size) \div 4
  BY <1>1, <1>2, MinOfTwo DEF WordsNow, WordSize
<1> HIDE DEF left
<1>4. WordsNow(r) \in Nat /\ 4 * WordsNow(r) <= r.size /\ 4 * WordsNow(r) <= left
  BY <1>1, <1>2, <1>3
<1>5. r.burst + 4 * WordsNow(r) <= BurstSize
  BY <1>1, <1>4 DEF left
<1>6. (r.burst + 4 * WordsNow(r)) % 4 = 0
  BY <1>1, <1>4
<1> QED
  BY <1>1, <1>4, <1>5, <1>6 DEF WordSize

(* write_reg keeps a channel consistent, whatever is written.              *)
LEMMA WriteRegOK ==
  ASSUME NEW r, ChannelOK(r), NEW reg, NEW val,
         \/ reg \in {"src", "dst"} /\ val \in 0..(AddrSpace - 1)
         \/ reg = "size" /\ val \in Nat
         \/ reg \in {"start", "abort"}
  PROVE  ChannelOK(WriteReg(r, reg, val))
<1>1. CASE reg = "src" /\ val \in 0..(AddrSpace - 1)
  <2>1. WriteReg(r, reg, val) = [r EXCEPT !.src = val]
    BY <1>1 DEF WriteReg
  <2> QED
    BY <1>1, <2>1 DEF ChannelOK, Register
<1>2. CASE reg = "dst" /\ val \in 0..(AddrSpace - 1)
  <2>1. WriteReg(r, reg, val) = [r EXCEPT !.dst = val]
    BY <1>2 DEF WriteReg
  <2> QED
    BY <1>2, <2>1 DEF ChannelOK, Register
<1>3. CASE reg = "size" /\ val \in Nat
  <2>1. WriteReg(r, reg, val) = [r EXCEPT !.size = val]
    BY <1>3 DEF WriteReg
  <2> QED
    BY <1>3, <2>1 DEF ChannelOK, Register
<1>4. CASE reg = "start"
  <2>1. WriteReg(r, reg, val) = Start(r)
    BY <1>4 DEF WriteReg
  <2>2. 0 \in 0..BurstSize /\ 0 % WordSize = 0
    BY DmaAssumption DEF DmaAssumption, WordSize
  <2>3. CASE r.size > 0 /\ r.src # 0 /\ r.dst # 0
    <3>1. Start(r) = [r EXCEPT !.state = "Bursting", !.burst = 0, !.status = {"busy"}]
      BY <2>3 DEF Start
    <3>2. [r EXCEPT !.state = "Bursting", !.burst = 0, !.status = {"busy"}] \in Register
      BY <2>2 DEF ChannelOK, Register
    <3> QED
      BY <2>1, <2>2, <3>1, <3>2 DEF ChannelOK, Register
  <2>4. CASE ~(r.size > 0 /\ r.src # 0 /\ r.dst # 0)
    BY <2>1, <2>4 DEF Start
  <2> QED
    BY <2>3, <2>4
<1>5. CASE reg = "abort"
  <2>1. WriteReg(r, reg, val) = Abort(r)
    BY <1>5 DEF WriteReg
  <2>2. Abort(r) \in Register
    BY DEF Abort, ChannelOK, Register
  <2>3. Abort(r).state = "Idle" /\ Abort(r).status = {} /\ Abort(r).burst = r.burst
    BY DEF Abort, ChannelOK, Register
  <2> QED
    BY <2>1, <2>2, <2>3 DEF ChannelOK
<1> QED
  BY <1>1, <1>2, <1>3, <1>4, <1>5

(* A tick keeps a channel consistent: completing, pausing or moving words. *)
LEMMA ServiceOK ==
  ASSUME NEW r, ChannelOK(r)
  PROVE  ChannelOK(Service(r))
<1>1. CASE r.state # "Bursting"
  BY <1>1 DEF Service
<1>2. CASE Completes(r)
  <2>1. Service(r) = [r EXCEPT !.state = "Done", !.status = {"done"}]
    BY <1>2 DEF Service, Completes
  <2>2. Service(r) \in Register
    BY <2>1 DEF ChannelOK, Register
  <2>3. Service(r).state = "Done" /\ Service(r).status = {"done"} /\ Service(r).burst = r.burst
    BY <2>1 DEF ChannelOK, Register
  <2> QED
    BY <2>2, <2>3 DEF ChannelOK
<1>3. CASE r.state = "Bursting" /\ ~Completes(r) /\ WordsNow(r) = 0
  <2>1. Service(r) = [r EXCEPT !.burst = 0]
    BY <1>3 DEF Service
  <2>2. 0 \in 0..BurstSize /\ 0 % WordSize = 0
    BY DmaAssumption DEF DmaAssumption, WordSize
  <2> QED
    BY <2>1, <2>2 DEF ChannelOK, Register
<1>4. CASE r.state = "Bursting" /\ ~Completes(r) /\ WordsNow(r) # 0
  <2> DEFINE n == WordsNow(r)
             s == (r.src + n) % AddrSpace
             d == (r.dst + n) % AddrSpace
             z == r.size - WordSize * n
             b == r.burst + WordSize * n
  <2>1. Service(r) = [r EXCEPT !.src = s, !.dst = d, !.size = z, !.burst = b]
    BY <1>4 DEF Service, Advance
  <2>2. n \in Nat /\ WordSize * n <= r.size /\ b \in 0..BurstSize /\ b % WordSize = 0
    BY WordsFit
  <2>3. s \in 0..(AddrSpace - 1) /\ d \in 0..(AddrSpace - 1)
    BY <2>2, DmaAssumption DEF DmaAssumption, ChannelOK, Register
  <2>4. z \in Nat
    BY <2>2 DEF ChannelOK, Register, WordSize
  <2>5. b <= BurstSize
    BY <2>2, DmaAssumption DEF DmaAssumption
  <2> HIDE DEF n, s, d, z, b
  <2> DEFINE t == [r EXCEPT !.src = s, !.dst = d, !.size = z, !.burst = b]
  <2>6. t \in Register
    BY <2>2, <2>3, <2>4 DEF ChannelOK, Register
  <2>7. t.state = r.state /\ t.status = r.status /\ t.burst = b
    BY DEF ChannelOK, Register
  <2> HIDE DEF t
  <2>8. Service(r) = t
    BY <2>1 DEF t
  <2> QED
    BY <2>2, <2>5, <2>6, <2>7, <2>8 DEF ChannelOK
<1> QED
  BY <1>1, <1>2, <1>3, <1>4
-----------------------------------------------------------------------------
\* The inductive invariant: every channel is consistent, every driver's
\* arguments are register values.
IInv ==
  /\ ch = [c \in Chan |-> ch[c]]
  /\ \A c \in Chan : ChannelOK(ch[c])
  /\ job \in [Drivers -> Argument]

(* Nobody who writes a register leaves a channel inconsistent. *)
LEMMA WriteOK ==
  ASSUME IInv, NEW c \in Chan, NEW reg, NEW val, Write(c, reg, val),
         \/ reg \in {"src", "dst"} /\ val \in 0..(AddrSpace - 1)
         \/ reg = "size" /\ val \in Nat
         \/ reg \in {"start", "abort"}
  PROVE  /\ ch' = [x \in Chan |-> ch'[x]]
         /\ \A x \in Chan : ChannelOK(ch'[x])
<1>1. ChannelOK(WriteReg(ch[c], reg, val))
  BY WriteRegOK DEF IInv
<1>2. ch' = [x \in Chan |-> IF x = c THEN WriteReg(ch[c], reg, val) ELSE ch[x]]
  BY DEF Write, IInv
<1> QED
  BY <1>1, <1>2 DEF IInv

LEMMA InitIInv == Init => IInv
<1> SUFFICES ASSUME Init PROVE IInv
  OBVIOUS
<1>1. ChannelOK(ChannelReset)
  BY DmaAssumption DEF DmaAssumption, ChannelOK, ChannelReset, Register, WordSize
<1>2. ch = [c \in Chan |-> ChannelReset]
  BY DEF Init, DmaInit
<1>3. job \in [Drivers -> Argument]
  BY DmaAssumption DEF DmaAssumption, Init, NoJob, Argument
<1> QED
  BY <1>1, <1>2, <1>3 DEF IInv

LEMMA NextIInv == IInv /\ [Next]_vars => IInv'
<1> SUFFICES ASSUME IInv, [Next]_vars PROVE IInv'
  OBVIOUS
<1> USE DmaCopyAssumption DEF DmaCopyAssumption
<1>1. ASSUME NEW d \in Drivers, Call(d) PROVE IInv'
  <2>1. PICK j \in Jobs[d] : job' = [job EXCEPT ![d] = j]
    BY <1>1 DEF Call
  <2>2. j \in Argument
    BY <2>1 DEF Argument
  <2> QED
    BY <1>1, <2>1, <2>2 DEF Call, dmaVars, IInv
<1>2. ASSUME NEW d \in Drivers, SetUp(d) PROVE IInv'
  <2>1. job[d] \in Argument /\ ChannelOf[d] \in Chan
    BY DEF IInv
  <2>2. Write(ChannelOf[d], pc[d], job[d][pc[d]]) /\ UNCHANGED job
    BY <1>2 DEF SetUp
  <2>3. \/ pc[d] \in {"src", "dst"} /\ job[d][pc[d]] \in 0..(AddrSpace - 1)
        \/ pc[d] = "size" /\ job[d][pc[d]] \in Nat
    BY <1>2, <2>1 DEF SetUp, Argument
  <2> QED
    BY <2>1, <2>2, <2>3, WriteOK DEF IInv
<1>3. ASSUME NEW d \in Drivers, Begin(d) PROVE IInv'
  <2>1. Write(ChannelOf[d], "start", 1) /\ UNCHANGED job /\ ChannelOf[d] \in Chan
    BY <1>3 DEF Begin
  <2> QED
    BY <2>1, WriteOK DEF IInv
<1>4. ASSUME NEW d \in Drivers, Return(d) PROVE IInv'
  BY <1>4 DEF Return, dmaVars, IInv
<1>5. ASSUME NEW c \in Chan, Poke(c) PROVE IInv'
  <2>1. PICK p \in Pokes : Write(c, p[1], p[2])
    BY <1>5 DEF Poke
  <2>2. UNCHANGED job
    BY <1>5 DEF Poke
  <2> QED
    BY <2>1, <2>2, WriteOK DEF IInv
<1>6. CASE Tick
  <2>1. ch' = [c \in Chan |-> Service(ch[c])] /\ UNCHANGED job
    BY <1>6 DEF Tick, DmaTick
  <2>2. \A c \in Chan : ChannelOK(Service(ch[c]))
    BY ServiceOK DEF IInv
  <2> QED
    BY <2>1, <2>2 DEF IInv
<1>7. CASE UNCHANGED vars
  BY <1>7 DEF vars, dmaVars, IInv
<1> QED
  BY <1>1, <1>2, <1>3, <1>4, <1>5, <1>6, <1>7 DEF Next

LEMMA IInvHolds == Spec => []IInv
  BY InitIInv, NextIInv, PTL DEF Spec

(* The registers keep their types: addresses wrap, sizes never underflow,  *)
(* a burst never exceeds its limit.                                        *)
THEOREM RegistersTyped == Spec => []RegistersOK
<1>1. IInv => RegistersOK
  BY DEF IInv, RegistersOK, ChannelOK
<1> QED
  BY <1>1, IInvHolds, PTL

(* The status bit that cd32_dma_copy spins on is the engine's state.       *)
THEOREM StatusTruthful == Spec => []StatusInv
<1>1. IInv => StatusInv
  BY DEF IInv, StatusInv, ChannelOK
<1> QED
  BY <1>1, IInvHolds, PTL
\* The line of a channel, as CompletionSignalled names it.
OwnLevel(c) == IF c = "Cdrom" THEN 2 ELSE 4

LEMMA DoneSourceLevel ==
  ASSUME NEW c \in Chan
  PROVE  LevelsOf(DoneSource(c)) = {OwnLevel(c)}
<1>1. ASSUME NEW s
      PROVE  \A l : l \in LevelsOf(s) <=> \E r \in Routing : r.source = s /\ r.level = l
  BY DEF LevelsOf
<1>2. \A r \in Routing : /\ r.source = "CdromData" => r.level = 2
                         /\ r.source = "DmaDone" => r.level = 4
  BY DEF Routing
<1>3. /\ \E r \in Routing : r.source = "CdromData" /\ r.level = 2
      /\ \E r \in Routing : r.source = "DmaDone" /\ r.level = 4
  <2> DEFINE cd == [source |-> "CdromData", target |-> "Ppc", level |-> 2, vector |-> 104]
             dma == [source |-> "DmaDone", target |-> "Ppc", level |-> 4, vector |-> 112]
  <2>1. cd \in Routing /\ dma \in Routing
    BY Zenon DEF Routing
  <2>2. cd.source = "CdromData" /\ cd.level = 2 /\ dma.source = "DmaDone" /\ dma.level = 4
    OBVIOUS
  <2> QED
    BY <2>1, <2>2
<1>4. LevelsOf("CdromData") = {2} /\ LevelsOf("DmaDone") = {4}
  BY <1>1, <1>2, <1>3
<1> QED
  BY <1>4 DEF DoneSource, OwnLevel

\* What CompletionSignalled asks of one step and one channel.
Signalled(c) ==
  LET completed(x) == ch[x].state = "Bursting" /\ ch'[x].state = "Done"
  IN  /\ completed(c) => OwnLevel(c) \in lines'
      /\ lines' \ lines \subseteq { OwnLevel(x) : x \in {y \in Chan : completed(y)} }

(* A register write completes nothing: only a tick does. *)
LEMMA WriteCompletesNothing ==
  ASSUME IInv, NEW w \in Chan, NEW reg, NEW val, Write(w, reg, val),
         reg \in {"src", "dst", "size", "start", "abort"},
         NEW c \in Chan, ch[c].state = "Bursting"
  PROVE  ch'[c].state # "Done"
<1>1. ch' = [x \in Chan |-> IF x = w THEN WriteReg(ch[w], reg, val) ELSE ch[x]]
  BY DEF Write, IInv
<1>2. ch[w] \in Register
  BY DEF IInv, ChannelOK
<1>3. ch[w].state = "Bursting" => WriteReg(ch[w], reg, val).state \in {"Bursting", "Idle"}
  BY <1>2 DEF WriteReg, Start, Abort, Register
<1> QED
  BY <1>1, <1>3

LEMMA TickSignals ==
  ASSUME IInv, DmaTick, NEW c \in Chan
  PROVE  Signalled(c)
<1>1. ASSUME NEW x \in Chan
      PROVE  ch[x].state = "Bursting" /\ ch'[x].state = "Done" <=> Completes(ch[x])
  <2>1. ch[x] \in Register /\ ch'[x] = Service(ch[x])
    BY DEF IInv, ChannelOK, DmaTick
  <2>2. CASE Completes(ch[x])
    <3>1. Service(ch[x]).state = "Done"
      BY <2>1, <2>2 DEF Service, Completes, Register
    <3> QED
      BY <2>1, <2>2, <3>1 DEF Completes
  <2>3. CASE ~Completes(ch[x]) /\ ch[x].state = "Bursting"
    <3>1. Service(ch[x]) \in {[ch[x] EXCEPT !.burst = 0], Advance(ch[x])}
      BY <2>3 DEF Service
    <3>2. Service(ch[x]).state = ch[x].state
      BY <2>1, <3>1 DEF Advance, Register
    <3> QED
      BY <2>1, <2>3, <3>2
  <2>4. CASE ch[x].state # "Bursting"
    BY <2>4 DEF Completes
  <2> QED
    BY <2>2, <2>3, <2>4
<1> DEFINE completing == {x \in Chan : Completes(ch[x])}
<1>2. DoneLines = { OwnLevel(x) : x \in completing }
  BY DoneSourceLevel DEF DoneLines
<1>3. completing = {y \in Chan : ch[y].state = "Bursting" /\ ch'[y].state = "Done"}
  BY <1>1
<1>4. lines' = lines \union DoneLines
  BY DEF DmaTick
<1> QED
  BY <1>2, <1>3, <1>4 DEF Signalled

(* Whoever waits for an interrupt instead of polling is not forgotten: a   *)
(* completion and its channel's line are one step, whatever the drivers    *)
(* and the meddler do, and no line rises without a completion.             *)
THEOREM CompletionSignalledHolds == Spec => CompletionSignalled
<1>1. IInv /\ [Next]_vars => [\A c \in Chan : Signalled(c)]_vars
  <2> SUFFICES ASSUME IInv, Next, NEW c \in Chan PROVE Signalled(c)
    BY DEF Signalled
  <2> USE DmaCopyAssumption DEF DmaCopyAssumption
  <2>1. ASSUME lines' = lines, ch[c].state = "Bursting" => ch'[c].state # "Done"
        PROVE  Signalled(c)
    BY <2>1 DEF Signalled
  <2>2. ASSUME NEW d \in Drivers, Call(d) \/ Return(d) PROVE Signalled(c)
    BY <2>1, <2>2 DEF Call, Return, dmaVars
  <2>3. ASSUME NEW d \in Drivers, SetUp(d) PROVE Signalled(c)
    <3>1. pc[d] \in {"src", "dst", "size"} /\ ChannelOf[d] \in Chan
          /\ Write(ChannelOf[d], pc[d], job[d][pc[d]]) /\ lines' = lines
      BY <2>3 DEF SetUp
    <3> QED
      BY <2>1, <3>1, WriteCompletesNothing
  <2>4. ASSUME NEW d \in Drivers, Begin(d) PROVE Signalled(c)
    <3>1. Write(ChannelOf[d], "start", 1) /\ lines' = lines /\ ChannelOf[d] \in Chan
      BY <2>4 DEF Begin
    <3> QED
      BY <2>1, <3>1, WriteCompletesNothing
  <2>5. ASSUME NEW x \in Chan, Poke(x) PROVE Signalled(c)
    <3>1. PICK p \in Pokes : Write(x, p[1], p[2])
      BY <2>5 DEF Poke
    <3>2. p[1] \in {"src", "dst", "size", "start", "abort"} /\ lines' = lines
      BY <2>5 DEF Poke
    <3> QED
      BY <2>1, <3>1, <3>2, WriteCompletesNothing
  <2>6. CASE Tick
    BY <2>6, TickSignals DEF Tick
  <2> QED
    BY <2>2, <2>3, <2>4, <2>5, <2>6 DEF Next
<1>2. [\A c \in Chan : Signalled(c)]_vars <=>
      [\A c \in Chan :
         LET completed(x) == ch[x].state = "Bursting" /\ ch'[x].state = "Done"
             own(x) == IF x = "Cdrom" THEN 2 ELSE 4
         IN  /\ completed(c) => own(c) \in lines'
             /\ lines' \ lines \subseteq { own(x) : x \in {y \in Chan : completed(y)} }]_vars
  BY DEF Signalled, OwnLevel
<1> QED
  BY <1>1, <1>2, IInvHolds, PTL DEF Spec, CompletionSignalled
-----------------------------------------------------------------------------
(* A set of numbers that holds 0, and n + 1 whenever it holds n, is all of *)
(* them: the induction that the facts about the copied words rest on.      *)
LEMMA SetInduction ==
  ASSUME NEW S, 0 \in S, \A n \in Nat : n \in S => n + 1 \in S
  PROVE  Nat \subseteq S
<1> DEFINE T == Nat \ S
           R == OpToRel(<, Nat)
<1>1. SUFFICES ASSUME T # {} PROVE FALSE
  OBVIOUS
<1>2. \E x \in T : \A y \in T : ~(<<y, x>> \in R)
  <2>1. IsWellFoundedOn(R, Nat)
    BY NatLessThanWellFounded
  <2> HIDE DEF R
  <2> QED
    BY <1>1, <2>1, WFMin
<1>3. PICK x \in T : \A y \in T : ~(<<y, x>> \in R)
  BY <1>2
<1>4. \A y \in T : ~(y < x)
  BY <1>3 DEF OpToRel
<1>5. x # 0 /\ x - 1 \in Nat /\ x - 1 < x
  OBVIOUS
<1>6. x - 1 \in S
  BY <1>4, <1>5
<1> QED
  BY <1>5, <1>6

(* Carrying out a list applies its entries one after the other.            *)
LEMMA MoveWordsSteps ==
  ASSUME NEW m, NEW list, Len(list) \in Nat
  PROVE  \E f : /\ f[0] = m
                /\ \A k \in 1..Len(list) : f[k] = ApplyCopy(f[k - 1], list[k])
                /\ MoveWords(m, list) = f[Len(list)]
<1> DEFINE Eq(f, n) ==
      f = [k \in 0..n |-> IF k = 0 THEN m ELSE ApplyCopy(f[k - 1], list[k])]
           S == { n \in Nat : \E f : Eq(f, n) }
           L == Len(list)
<1>1. 0 \in S
  <2> DEFINE g == [k \in 0..0 |-> m]
  <2>1. Eq(g, 0)
    OBVIOUS
  <2>2. \E h : Eq(h, 0)
    <3> HIDE DEF g
    <3> QED
      BY <2>1
  <2> QED
    BY <2>2
<1>2. ASSUME NEW n \in Nat, n \in S PROVE n + 1 \in S
  <2>1. PICK f : Eq(f, n)
    BY <1>2
  <2> DEFINE g == [k \in 0..(n + 1) |-> IF k <= n THEN f[k] ELSE ApplyCopy(f[n], list[n + 1])]
  <2>2. \A k \in 0..(n + 1) :
          g[k] = IF k = 0 THEN m ELSE ApplyCopy(g[k - 1], list[k])
    <3> SUFFICES ASSUME NEW k \in 0..(n + 1)
                 PROVE  g[k] = IF k = 0 THEN m ELSE ApplyCopy(g[k - 1], list[k])
      OBVIOUS
    <3>1. CASE k <= n
      <4>1. g[k] = f[k] /\ k \in 0..n
        BY <3>1
      <4>2. f[k] = IF k = 0 THEN m ELSE ApplyCopy(f[k - 1], list[k])
        BY <2>1, <4>1
      <4>3. k # 0 => g[k - 1] = f[k - 1]
        BY <4>1
      <4> QED
        BY <4>1, <4>2, <4>3
    <3>2. CASE k = n + 1
      <4>1. g[k] = ApplyCopy(f[n], list[k]) /\ g[k - 1] = f[n] /\ k # 0
        BY <3>2
      <4> QED
        BY <4>1
    <3> QED
      BY <3>1, <3>2
  <2>3. Eq(g, n + 1)
    <3>1. g = [k \in 0..(n + 1) |-> g[k]]
      OBVIOUS
    <3> HIDE DEF g
    <3>2. [k \in 0..(n + 1) |-> g[k]]
          = [k \in 0..(n + 1) |-> IF k = 0 THEN m ELSE ApplyCopy(g[k - 1], list[k])]
      BY <2>2, Zenon
    <3> QED
      BY <3>1, <3>2, Zenon
  <2>4. \E h : Eq(h, n + 1)
    <3> HIDE DEF g
    <3> QED
      BY <2>3
  <2> QED
    BY <2>4
<1>3. L \in S
  <2> HIDE DEF S
  <2> QED
    BY <1>1, <1>2, SetInduction
<1>4. \E f : Eq(f, L)
  BY <1>3
<1> DEFINE F == CHOOSE f : Eq(f, L)
<1>5. Eq(F, L)
  BY <1>4
<1>6. MoveWords(m, list) = F[L]
  BY DEF MoveWords
<1> HIDE DEF F
<1>7. F[0] = m /\ \A k \in 1..L : F[k] = ApplyCopy(F[k - 1], list[k])
  BY <1>5
<1> QED
  BY <1>6, <1>7

(* One entry changes its destination only, to the word at its source.      *)
LEMMA ApplyCopyEffect ==
  ASSUME NEW m, DOMAIN m = Ram \union Rom, NEW t
  PROVE  /\ DOMAIN ApplyCopy(m, t) = Ram \union Rom
         /\ \A b \in Ram \union Rom : b # t[2] => ApplyCopy(m, t)[b] = m[b]
         /\ t[1] \in Ram \union Rom /\ t[2] \in Ram => ApplyCopy(m, t)[t[2]] = m[t[1]]
<1>1. CASE t[1] \in Ram \union Rom /\ t[2] \in Ram
  <2> DEFINE v == m[t[1]]
             e == [m EXCEPT ![t[2]] = v]
  <2>1. ApplyCopy(m, t) = e
    BY <1>1 DEF ApplyCopy
  <2> HIDE DEF v
  <2>2. DOMAIN e = Ram \union Rom /\ e[t[2]] = v
    BY <1>1
  <2>3. \A b \in Ram \union Rom : b # t[2] => e[b] = m[b]
    OBVIOUS
  <2> QED
    BY <2>1, <2>2, <2>3 DEF v
<1>2. CASE ~(t[1] \in Ram \union Rom /\ t[2] \in Ram)
  BY <1>2 DEF ApplyCopy
<1> QED
  BY <1>1, <1>2

\* What carrying out a list makes of memory m depends on the entries that
\* write a word and not on their order: a word that none writes stays, and a
\* word that entries write is what they all read, when none of them writes that.
CarriedOut(m, list, after) ==
  /\ DOMAIN after = Ram \union Rom
  /\ \A b \in Ram \union Rom :
       (\A k \in 1..Len(list) : list[k][2] # b) => after[b] = m[b]
  /\ \A a \in Ram, b \in Ram \union Rom :
       (\A k \in 1..Len(list) : list[k][2] # b /\ (list[k][2] = a => list[k][1] = b))
       => after[a] = IF \E k \in 1..Len(list) : list[k][2] = a THEN m[b] ELSE m[a]

(* A list does to the memory what its set of entries says.                 *)
LEMMA MoveWordsEffect ==
  ASSUME NEW m, DOMAIN m = Ram \union Rom, NEW list, Len(list) \in Nat
  PROVE  CarriedOut(m, list, MoveWords(m, list))
<1>1. PICK f : /\ f[0] = m
               /\ \A k \in 1..Len(list) : f[k] = ApplyCopy(f[k - 1], list[k])
               /\ MoveWords(m, list) = f[Len(list)]
  BY MoveWordsSteps
<1> DEFINE Keeps(n) ==
      /\ DOMAIN f[n] = Ram \union Rom
      /\ \A b \in Ram \union Rom : (\A k \in 1..Len(list) : list[k][2] # b) => f[n][b] = m[b]
           Moves(n) ==
      \A a \in Ram, b \in Ram \union Rom :
        (\A k \in 1..Len(list) : list[k][2] # b /\ (list[k][2] = a => list[k][1] = b))
        => f[n][a] = IF \E k \in 1..n : list[k][2] = a THEN m[b] ELSE m[a]
           S == { n \in Nat : n <= Len(list) => Keeps(n) /\ Moves(n) }
<1>3. 0 \in S
  BY <1>1
<1>4. ASSUME NEW n \in Nat, n \in S PROVE n + 1 \in S
  <2>1. SUFFICES ASSUME n + 1 <= Len(list) PROVE Keeps(n + 1) /\ Moves(n + 1)
    OBVIOUS
  <2>2. Keeps(n) /\ Moves(n)
    BY <1>4, <2>1
  <2>3. n + 1 \in 1..Len(list)
    BY <2>1
  <2> DEFINE t == list[n + 1]
  <2>4. f[n + 1] = ApplyCopy(f[n], t)
    BY <1>1, <2>3
  <2>5. /\ DOMAIN f[n + 1] = Ram \union Rom
        /\ \A b \in Ram \union Rom : b # t[2] => f[n + 1][b] = f[n][b]
        /\ t[1] \in Ram \union Rom /\ t[2] \in Ram => f[n + 1][t[2]] = f[n][t[1]]
    <3>1. DOMAIN f[n] = Ram \union Rom
      BY <2>2
    <3> DEFINE g == f[n]
    <3> HIDE DEF t, Keeps, Moves, g
    <3>2. DOMAIN g = Ram \union Rom
      BY <3>1 DEF g
    <3>3. /\ DOMAIN ApplyCopy(g, t) = Ram \union Rom
          /\ \A b \in Ram \union Rom : b # t[2] => ApplyCopy(g, t)[b] = g[b]
          /\ t[1] \in Ram \union Rom /\ t[2] \in Ram => ApplyCopy(g, t)[t[2]] = g[t[1]]
      BY <3>2, ApplyCopyEffect
    <3> QED
      BY <2>4, <3>3 DEF g
  <2>6. Keeps(n + 1)
    BY <2>2, <2>3, <2>5
  <2>7. ASSUME NEW a \in Ram, NEW b \in Ram \union Rom,
               \A k \in 1..Len(list) : list[k][2] # b /\ (list[k][2] = a => list[k][1] = b)
        PROVE  f[n + 1][a] = IF \E k \in 1..(n + 1) : list[k][2] = a THEN m[b] ELSE m[a]
    <3>1. f[n][a] = IF \E k \in 1..n : list[k][2] = a THEN m[b] ELSE m[a]
      BY <2>2, <2>7
    <3>2. CASE t[2] = a
      <4>1. t[1] = b /\ f[n + 1][a] = f[n][b]
        BY <2>3, <2>5, <2>7, <3>2
      <4>2. f[n][b] = m[b]
        BY <2>2, <2>7
      <4>3. n + 1 \in 1..(n + 1)
        OBVIOUS
      <4> QED
        BY <3>2, <4>1, <4>2, <4>3
    <3>3. CASE t[2] # a
      <4>1. f[n + 1][a] = f[n][a]
        BY <2>5, <3>3
      <4>2. (\E k \in 1..(n + 1) : list[k][2] = a) <=> (\E k \in 1..n : list[k][2] = a)
        BY <3>3
      <4> QED
        BY <3>1, <4>1, <4>2
    <3> QED
      BY <3>2, <3>3
  <2> QED
    BY <2>6, <2>7
<1>5. Nat \subseteq S
  <2> HIDE DEF S
  <2> QED
    BY <1>3, <1>4, SetInduction
<1>6. Keeps(Len(list)) /\ Moves(Len(list))
  BY <1>5
<1> DEFINE M == MoveWords(m, list)
<1>7. M = f[Len(list)]
  BY <1>1
<1> HIDE DEF M
<1>8. DOMAIN M = Ram \union Rom
  BY <1>6, <1>7
<1>9. \A b \in Ram \union Rom : (\A k \in 1..Len(list) : list[k][2] # b) => M[b] = m[b]
  BY <1>6, <1>7
<1>10. \A a \in Ram, b \in Ram \union Rom :
         (\A k \in 1..Len(list) : list[k][2] # b /\ (list[k][2] = a => list[k][1] = b))
         => M[a] = IF \E k \in 1..Len(list) : list[k][2] = a THEN m[b] ELSE m[a]
  BY <1>6, <1>7
<1> QED
  BY <1>8, <1>9, <1>10, Zenon DEF M, CarriedOut

(* A tick carries out the list of one channel after the other.             *)
LEMMA MemAfterSteps ==
  ASSUME Len(Channels) \in Nat
  PROVE  \E f : /\ f[0] = mem
                /\ \A k \in 1..Len(Channels) : f[k] = MoveWords(f[k - 1], Copies(ch[Channels[k]]))
                /\ MemAfter = f[Len(Channels)]
<1> DEFINE Eq(f, n) ==
      f = [k \in 0..n |-> IF k = 0 THEN mem ELSE MoveWords(f[k - 1], Copies(ch[Channels[k]]))]
           S == { n \in Nat : \E f : Eq(f, n) }
           L == Len(Channels)
<1>1. 0 \in S
  <2> DEFINE g == [k \in 0..0 |-> mem]
  <2>1. Eq(g, 0)
    OBVIOUS
  <2>2. \E h : Eq(h, 0)
    <3> HIDE DEF g
    <3> QED
      BY <2>1
  <2> QED
    BY <2>2
<1>2. ASSUME NEW n \in Nat, n \in S PROVE n + 1 \in S
  <2>1. PICK f : Eq(f, n)
    BY <1>2
  <2> DEFINE g == [k \in 0..(n + 1) |->
                     IF k <= n THEN f[k] ELSE MoveWords(f[n], Copies(ch[Channels[n + 1]]))]
  <2>2. \A k \in 0..(n + 1) :
          g[k] = IF k = 0 THEN mem ELSE MoveWords(g[k - 1], Copies(ch[Channels[k]]))
    <3> SUFFICES ASSUME NEW k \in 0..(n + 1)
                 PROVE  g[k] = IF k = 0 THEN mem ELSE MoveWords(g[k - 1], Copies(ch[Channels[k]]))
      OBVIOUS
    <3>1. CASE k <= n
      <4>1. g[k] = f[k] /\ k \in 0..n
        BY <3>1
      <4>2. f[k] = IF k = 0 THEN mem ELSE MoveWords(f[k - 1], Copies(ch[Channels[k]]))
        BY <2>1, <4>1
      <4>3. k # 0 => g[k - 1] = f[k - 1]
        BY <4>1
      <4> QED
        BY <4>1, <4>2, <4>3
    <3>2. CASE k = n + 1
      <4>1. g[k] = MoveWords(f[n], Copies(ch[Channels[k]])) /\ g[k - 1] = f[n] /\ k # 0
        BY <3>2
      <4> QED
        BY <4>1
    <3> QED
      BY <3>1, <3>2
  <2>3. Eq(g, n + 1)
    <3>1. g = [k \in 0..(n + 1) |-> g[k]]
      OBVIOUS
    <3> HIDE DEF g
    <3>2. [k \in 0..(n + 1) |-> g[k]]
          = [k \in 0..(n + 1) |->
               IF k = 0 THEN mem ELSE MoveWords(g[k - 1], Copies(ch[Channels[k]]))]
      BY <2>2, Zenon
    <3> QED
      BY <3>1, <3>2, Zenon
  <2>4. \E h : Eq(h, n + 1)
    <3> HIDE DEF g
    <3> QED
      BY <2>3
  <2> QED
    BY <2>4
<1>3. L \in S
  <2> HIDE DEF S
  <2> QED
    BY <1>1, <1>2, SetInduction
<1>4. \E f : Eq(f, L)
  BY <1>3
<1> DEFINE F == CHOOSE f : Eq(f, L)
<1>5. Eq(F, L)
  BY <1>4
<1>6. MemAfter = F[L]
  BY DEF MemAfter
<1> HIDE DEF F
<1>7. F[0] = mem /\ \A k \in 1..L : F[k] = MoveWords(F[k - 1], Copies(ch[Channels[k]]))
  BY <1>5
<1> QED
  BY <1>6, <1>7

(* The entries of a channel: one per word it moves in this tick.           *)
LEMMA CopiesShape ==
  ASSUME NEW r, ChannelOK(r)
  PROVE  /\ Len(Copies(r)) \in Nat /\ DOMAIN Copies(r) = 1..Len(Copies(r))
         /\ Len(Copies(r)) = IF r.state = "Bursting" THEN WordsNow(r) ELSE 0
         /\ \A k \in 1..Len(Copies(r)) :
              Copies(r)[k] = <<(r.src + k - 1) % AddrSpace, (r.dst + k - 1) % AddrSpace>>
<1> DEFINE n == WordsNow(r)
           w == [k \in 1..n |-> <<(r.src + k - 1) % AddrSpace, (r.dst + k - 1) % AddrSpace>>]
<1>1. n \in Nat
  BY WordsFit
<1>2. CASE r.state # "Bursting" \/ Completes(r)
  <2>1. Copies(r) = <<>>
    BY <1>2 DEF Copies
  <2>2. r.state = "Bursting" => WordsNow(r) = 0
    BY <1>2 DEF Completes
  <2>3. Len(<<>>) = 0 /\ DOMAIN <<>> = 1..0
    OBVIOUS
  <2> QED
    BY <2>1, <2>2, <2>3
<1>3. CASE r.state = "Bursting" /\ ~Completes(r)
  <2>1. Copies(r) = w
    BY <1>3 DEF Copies
  <2> HIDE DEF n
  <2>2. Len(w) = n /\ DOMAIN w = 1..n
    BY <1>1
  <2> QED
    BY <1>1, <1>3, <2>1, <2>2 DEF n
<1> QED
  BY <1>2, <1>3

\* Whether every entry of channel c that writes word a reads word b, and
\* none writes b.
OnlyFrom(c, a, b) ==
  /\ b \notin Written(c)
  /\ \A t \in Range(Copies(ch[c])) : t[2] = a => t[1] = b

(* The same of a whole tick, whatever the priorities of the channels.      *)
LEMMA MemAfterEffect ==
  ASSUME DOMAIN mem = Ram \union Rom, \A c \in Chan : ChannelOK(ch[c])
  PROVE  /\ DOMAIN MemAfter = Ram \union Rom
         /\ \A b \in Ram \union Rom :
              (\A c \in Chan : b \notin Written(c)) => MemAfter[b] = mem[b]
         /\ \A a \in Ram, b \in Ram \union Rom : (\A c \in Chan : OnlyFrom(c, a, b)) =>
              MemAfter[a] = IF \E c \in Chan : a \in Written(c) THEN mem[b] ELSE mem[a]
<1> DEFINE N == Len(Channels)
           C(k) == Copies(ch[Channels[k]])
<1>1. N \in Nat /\ DOMAIN Channels = 1..N
  BY DmaAssumption DEF DmaAssumption
<1>2. PICK f : /\ f[0] = mem
               /\ \A k \in 1..N : f[k] = MoveWords(f[k - 1], C(k))
               /\ MemAfter = f[N]
  BY <1>1, MemAfterSteps
<1>3. Chan = { Channels[k] : k \in 1..N }
  BY <1>1 DEF Chan, ToSet
<1>4. ASSUME NEW k \in 1..N
      PROVE  /\ Len(C(k)) \in Nat
             /\ \A b : b \in Written(Channels[k]) <=> \E i \in 1..Len(C(k)) : C(k)[i][2] = b
             /\ \A a, b : OnlyFrom(Channels[k], a, b) <=>
                  \A i \in 1..Len(C(k)) : C(k)[i][2] # b /\ (C(k)[i][2] = a => C(k)[i][1] = b)
  <2>1. Len(C(k)) \in Nat /\ DOMAIN C(k) = 1..Len(C(k))
    <3>1. ChannelOK(ch[Channels[k]])
      BY <1>3
    <3> QED
      BY <3>1, CopiesShape
  <2> DEFINE L == C(k)
  <2>2. Written(Channels[k]) = { t[2] : t \in Range(L) }
    BY DEF Written
  <2>3. \A a, b : OnlyFrom(Channels[k], a, b) <=>
          b \notin Written(Channels[k]) /\ \A t \in Range(L) : t[2] = a => t[1] = b
    BY DEF OnlyFrom
  <2>4. Len(L) \in Nat /\ Range(L) = { L[i] : i \in 1..Len(L) }
    BY <2>1 DEF Range
  <2> HIDE DEF L
  <2>5. \A b : b \in Written(Channels[k]) <=> \E i \in 1..Len(L) : L[i][2] = b
    BY <2>2, <2>4
  <2>6. \A a, b : OnlyFrom(Channels[k], a, b) <=>
          \A i \in 1..Len(L) : L[i][2] # b /\ (L[i][2] = a => L[i][1] = b)
    BY <2>3, <2>4, <2>5
  <2> QED
    BY <2>4, <2>5, <2>6 DEF L
<1> HIDE DEF C, N
<1> DEFINE Keeps(n) ==
      /\ DOMAIN f[n] = Ram \union Rom
      /\ \A b \in Ram \union Rom :
           (\A c \in Chan : b \notin Written(c)) => f[n][b] = mem[b]
           Moves(n) ==
      \A a \in Ram, b \in Ram \union Rom : (\A c \in Chan : OnlyFrom(c, a, b)) =>
        f[n][a] = IF \E k \in 1..n : a \in Written(Channels[k]) THEN mem[b] ELSE mem[a]
           S == { n \in Nat : n <= N => Keeps(n) /\ Moves(n) }
<1>5. 0 \in S
  BY <1>2
<1>6. ASSUME NEW n \in Nat, n \in S PROVE n + 1 \in S
  <2>1. SUFFICES ASSUME n + 1 <= N PROVE Keeps(n + 1) /\ Moves(n + 1)
    OBVIOUS
  <2>2. Keeps(n) /\ Moves(n)
    BY <1>1, <1>6, <2>1
  <2>3. n + 1 \in 1..N /\ Channels[n + 1] \in Chan
    BY <1>1, <1>3, <2>1
  <2> DEFINE g == f[n]
             h == f[n + 1]
             list == C(n + 1)
             x == Channels[n + 1]
  <2>4. h = MoveWords(g, list)
    BY <1>2, <2>3
  <2>5. DOMAIN g = Ram \union Rom
    BY <2>2
  <2>6. /\ Len(list) \in Nat
        /\ \A b : b \in Written(x) <=> \E i \in 1..Len(list) : list[i][2] = b
        /\ \A a, b : OnlyFrom(x, a, b) <=>
             \A i \in 1..Len(list) : list[i][2] # b /\ (list[i][2] = a => list[i][1] = b)
    BY <1>4, <2>3
  <2> HIDE DEF g, h, list, x
  <2>7. CarriedOut(g, list, h)
    BY <2>4, <2>5, <2>6, MoveWordsEffect
  <2>8. /\ DOMAIN h = Ram \union Rom
        /\ \A b \in Ram \union Rom : b \notin Written(x) => h[b] = g[b]
        /\ \A a \in Ram, b \in Ram \union Rom : OnlyFrom(x, a, b) =>
             h[a] = IF a \in Written(x) THEN g[b] ELSE g[a]
    BY <2>6, <2>7 DEF CarriedOut
  <2>9. Keeps(n + 1)
    <3>1. DOMAIN f[n + 1] = Ram \union Rom
      BY <2>8 DEF h
    <3>2. ASSUME NEW b \in Ram \union Rom, \A c \in Chan : b \notin Written(c)
          PROVE  f[n + 1][b] = mem[b]
      <4>1. f[n][b] = mem[b]
        BY <2>2, <3>2
      <4>2. f[n + 1][b] = f[n][b]
        BY <2>3, <2>8, <3>2 DEF g, h, x
      <4> QED
        BY <4>1, <4>2
    <3> QED
      BY <3>1, <3>2
  <2>10. ASSUME NEW a \in Ram, NEW b \in Ram \union Rom,
                \A c \in Chan : OnlyFrom(c, a, b)
         PROVE  f[n + 1][a] = IF \E k \in 1..(n + 1) : a \in Written(Channels[k])
                              THEN mem[b] ELSE mem[a]
    <3>1. f[n][a] = IF \E k \in 1..n : a \in Written(Channels[k]) THEN mem[b] ELSE mem[a]
      BY <2>2, <2>10
    <3>2. f[n][b] = mem[b]
      BY <2>2, <2>10 DEF OnlyFrom
    <3>3. f[n + 1][a] = IF a \in Written(Channels[n + 1]) THEN f[n][b] ELSE f[n][a]
      BY <2>3, <2>8, <2>10 DEF g, h, x
    <3>4. (\E k \in 1..(n + 1) : a \in Written(Channels[k])) <=>
            (\E k \in 1..n : a \in Written(Channels[k])) \/ a \in Written(Channels[n + 1])
      OBVIOUS
    <3> QED
      BY <3>1, <3>2, <3>3, <3>4
  <2> QED
    BY <2>9, <2>10
<1>7. Nat \subseteq S
  <2> HIDE DEF S
  <2> QED
    BY <1>5, <1>6, SetInduction
<1>8. Keeps(N) /\ Moves(N)
  BY <1>1, <1>7
<1>9. \A a : (\E k \in 1..N : a \in Written(Channels[k])) <=> \E c \in Chan : a \in Written(c)
  BY <1>3
<1> DEFINE M == MemAfter
<1>10. M = f[N]
  BY <1>2
<1> HIDE DEF M
<1>11. DOMAIN M = Ram \union Rom
  BY <1>8, <1>10
<1>12. \A b \in Ram \union Rom : (\A c \in Chan : b \notin Written(c)) => M[b] = mem[b]
  BY <1>8, <1>10
<1>13. \A a \in Ram, b \in Ram \union Rom : (\A c \in Chan : OnlyFrom(c, a, b)) =>
         M[a] = IF \E c \in Chan : a \in Written(c) THEN mem[b] ELSE mem[a]
  BY <1>8, <1>9, <1>10
<1> QED
  BY <1>11, <1>12, <1>13, Zenon DEF M
-----------------------------------------------------------------------------
\* What is left of a promise e while the registers r carry it out on memory m:
\* a word has arrived, or it is still among those to move and its source still
\* holds it.
Owed(r, m, e) ==
  DOMAIN e # {} =>
    /\ DOMAIN e \subseteq Ram /\ DstRange(r) \subseteq DOMAIN e
    /\ SrcRange(r) \subseteq Ram \union Rom /\ SrcRange(r) \intersect DOMAIN e = {}
    /\ \A a \in DOMAIN e : a \notin DstRange(r) => m[a] = e[a]
    /\ \A a \in DstRange(r) : m[a - r.dst + r.src] = e[a]
    /\ r.state = "Bursting" \/ r.size = 0

CopyInv ==
  /\ DOMAIN mem = Ram \union Rom
  /\ expect = [c \in Chan |-> expect[c]]
  /\ \A c \in Chan : Owed(ch[c], mem, expect[c])

LEMMA NothingIsOwed ==
  ASSUME NEW r, NEW m
  PROVE  Owed(r, m, Nothing)
BY DEF Owed, Nothing

(* Writing a register withdraws the promise of that channel and touches no *)
(* other.                                                                  *)
LEMMA WriteWithdraws ==
  ASSUME IInv, CopyInv, NEW w \in Chan, NEW reg, NEW val, Write(w, reg, val),
         expect' = [expect EXCEPT ![w] = Nothing], mem' = mem
  PROVE  CopyInv'
<1>1. ASSUME NEW c \in Chan PROVE Owed(ch'[c], mem', expect'[c])
  <2>1. CASE c = w
    <3>1. expect'[c] = Nothing
      BY <2>1 DEF CopyInv
    <3> QED
      BY <3>1, NothingIsOwed
  <2>2. CASE c # w
    <3>1. ch'[c] = ch[c] /\ expect'[c] = expect[c]
      BY <2>2 DEF Write, IInv, CopyInv
    <3> QED
      BY <3>1 DEF CopyInv
  <2> QED
    BY <2>1, <2>2
<1> QED
  BY <1>1 DEF CopyInv

(* The start bit makes a promise that nothing of has been kept yet.        *)
LEMMA StartPromises ==
  ASSUME NEW r \in Register
  PROVE  Owed(WriteReg(r, "start", 1), mem, Promise(r))
<1>1. CASE Promise(r) = Nothing
  BY <1>1, NothingIsOwed
<1>2. CASE Promise(r) # Nothing
  <2>1. /\ r.size > 0 /\ r.src # 0 /\ r.dst # 0
        /\ SrcRange(r) \subseteq Ram \union Rom /\ DstRange(r) \subseteq Ram
        /\ SrcRange(r) \intersect DstRange(r) = {}
        /\ Promise(r) = [a \in DstRange(r) |-> mem[a - r.dst + r.src]]
    BY <1>2 DEF Promise
  <2> DEFINE s == [r EXCEPT !.state = "Bursting", !.burst = 0, !.status = {"busy"}]
  <2>2. WriteReg(r, "start", 1) = s
    BY <2>1 DEF WriteReg, Start
  <2>3. s.src = r.src /\ s.dst = r.dst /\ s.size = r.size /\ s.state = "Bursting"
    BY DEF Register
  <2> HIDE DEF s
  <2>4. SrcRange(s) = SrcRange(r) /\ DstRange(s) = DstRange(r)
    BY <2>3 DEF SrcRange, DstRange
  <2> QED
    BY <2>1, <2>2, <2>3, <2>4 DEF Owed
<1> QED
  BY <1>1, <1>2

(* A tick takes the words it moves off the transfer.                       *)
LEMMA ServiceMoves ==
  ASSUME NEW r, ChannelOK(r), r.state = "Bursting" \/ r.size = 0
  PROVE  /\ Len(Copies(r)) \in 0..(r.size \div 4)
         /\ Service(r).size \div 4 = (r.size \div 4) - Len(Copies(r))
         /\ Len(Copies(r)) # 0 => /\ Service(r).src = (r.src + Len(Copies(r))) % AddrSpace
                                  /\ Service(r).dst = (r.dst + Len(Copies(r))) % AddrSpace
         /\ Len(Copies(r)) = 0 => Service(r).src = r.src /\ Service(r).dst = r.dst
         /\ Service(r).state = "Bursting" \/ Service(r).size = 0
<1> DEFINE n == WordsNow(r)
           L == Len(Copies(r))
           q == Service(r)
<1>1. n \in Nat /\ 4 * n <= r.size /\ L = IF r.state = "Bursting" THEN n ELSE 0
  BY WordsFit, CopiesShape DEF WordSize
<1>2. r \in Register /\ r.size \in Nat
  BY DEF ChannelOK, Register
<1>3. CASE r.state # "Bursting"
  <2>1. q = r /\ L = 0
    BY <1>1, <1>3 DEF Service
  <2> QED
    BY <1>2, <1>3, <2>1
<1>4. CASE Completes(r)
  <2>1. q = [r EXCEPT !.state = "Done", !.status = {"done"}] /\ n = 0 /\ r.size = 0
    BY <1>4 DEF Service, Completes
  <2>2. q.src = r.src /\ q.dst = r.dst /\ q.size = r.size /\ L = 0
    BY <1>1, <1>2, <2>1 DEF Register
  <2> QED
    BY <1>2, <2>1, <2>2
<1>5. CASE r.state = "Bursting" /\ ~Completes(r) /\ n = 0
  <2>1. q = [r EXCEPT !.burst = 0]
    BY <1>5 DEF Service
  <2>2. q.src = r.src /\ q.dst = r.dst /\ q.size = r.size /\ q.state = r.state /\ L = 0
    BY <1>1, <1>2, <1>5, <2>1 DEF Register
  <2> QED
    BY <1>2, <1>5, <2>2
<1>6. CASE r.state = "Bursting" /\ ~Completes(r) /\ n # 0
  <2>1. q = Advance(r)
    BY <1>6 DEF Service
  <2>2. q.src = (r.src + n) % AddrSpace /\ q.dst = (r.dst + n) % AddrSpace
        /\ q.size = r.size - 4 * n /\ q.state = r.state /\ L = n
    BY <1>1, <1>2, <1>6, <2>1 DEF Advance, Register, WordSize
  <2>3. n \in 0..(r.size \div 4) /\ (r.size - 4 * n) \div 4 = (r.size \div 4) - n
    BY <1>1, <1>2
  <2> HIDE DEF n, L, q
  <2> QED
    BY <1>6, <2>2, <2>3 DEF L, q
<1> QED
  BY <1>3, <1>4, <1>5, <1>6

(* In a transfer between mapped words no address wraps: the words a tick   *)
(* moves are the first of the destination, each from the same place of the *)
(* source, and the rest of both is what the registers describe next.       *)
LEMMA TickSplits ==
  ASSUME NEW r, ChannelOK(r), r.state = "Bursting" \/ r.size = 0,
         SrcRange(r) \subseteq Ram \union Rom, DstRange(r) \subseteq Ram
  PROVE  LET n == Len(Copies(r))
             z == r.size \div 4
             q == Service(r)
         IN  /\ n \in 0..z
             /\ \A k \in 1..n : Copies(r)[k] = <<r.src + k - 1, r.dst + k - 1>>
             /\ SrcRange(q) = (r.src + n)..(r.src + z - 1)
             /\ DstRange(q) = (r.dst + n)..(r.dst + z - 1)
             /\ n < z => q.src = r.src + n /\ q.dst = r.dst + n
<1> DEFINE n == Len(Copies(r))
           z == r.size \div 4
           q == Service(r)
<1>1. /\ r.src \in 0..(AddrSpace - 1) /\ r.dst \in 0..(AddrSpace - 1) /\ z \in Nat
      /\ AddrSpace \in Nat \ {0}
  BY DmaAssumption DEF DmaAssumption, ChannelOK, Register
<1>2. /\ n \in 0..z /\ q.size \div 4 = z - n
      /\ n # 0 => q.src = (r.src + n) % AddrSpace /\ q.dst = (r.dst + n) % AddrSpace
      /\ n = 0 => q.src = r.src /\ q.dst = r.dst
  BY ServiceMoves
<1>3. q.src \in Int /\ q.dst \in Int
  <2>1. ChannelOK(q)
    BY ServiceOK
  <2> QED
    BY <2>1 DEF ChannelOK, Register
<1>4. \A k \in 1..n : Copies(r)[k] = <<(r.src + k - 1) % AddrSpace, (r.dst + k - 1) % AddrSpace>>
  BY CopiesShape
<1>5. /\ SrcRange(r) = r.src..(r.src + z - 1) /\ DstRange(r) = r.dst..(r.dst + z - 1)
      /\ SrcRange(q) = q.src..(q.src + (z - n) - 1) /\ DstRange(q) = q.dst..(q.dst + (z - n) - 1)
  BY <1>2 DEF SrcRange, DstRange, WordSize
<1> HIDE DEF n, z, q
<1>6. z > 0 => r.src + z - 1 < AddrSpace /\ r.dst + z - 1 < AddrSpace
  <2>1. z > 0 => r.src + z - 1 \in Ram \union Rom /\ r.dst + z - 1 \in Ram
    BY <1>1, <1>5
  <2>2. Ram \union Rom \subseteq 0..(AddrSpace - 1)
    BY DmaAssumption DEF DmaAssumption
  <2> QED
    BY <1>1, <2>1, <2>2
<1>7. \A k \in 1..n : Copies(r)[k] = <<r.src + k - 1, r.dst + k - 1>>
  <2> SUFFICES ASSUME NEW k \in 1..n
               PROVE  Copies(r)[k] = <<r.src + k - 1, r.dst + k - 1>>
    OBVIOUS
  <2> DEFINE s == r.src + k - 1
             d == r.dst + k - 1
  <2>1. s \in 0..(AddrSpace - 1) /\ d \in 0..(AddrSpace - 1)
    BY <1>1, <1>2, <1>6
  <2>2. Copies(r)[k] = <<s % AddrSpace, d % AddrSpace>>
    BY <1>4
  <2> HIDE DEF s, d
  <2>3. s % AddrSpace = s /\ d % AddrSpace = d
    BY <1>1, <2>1
  <2> QED
    BY <2>2, <2>3 DEF s, d
<1>8. n < z => q.src = r.src + n /\ q.dst = r.dst + n
  <2>1. n < z => (r.src + n) % AddrSpace = r.src + n /\ (r.dst + n) % AddrSpace = r.dst + n
    BY <1>1, <1>2, <1>6
  <2> QED
    BY <1>1, <1>2, <2>1
<1>9. SrcRange(q) = (r.src + n)..(r.src + z - 1) /\ DstRange(q) = (r.dst + n)..(r.dst + z - 1)
  <2>1. CASE n < z
    BY <1>1, <1>2, <1>5, <1>8, <2>1
  <2>2. CASE n = z
    <3>1. SrcRange(q) = {} /\ DstRange(q) = {}
      BY <1>1, <1>3, <1>5, <2>2
    <3>2. (r.src + n)..(r.src + z - 1) = {} /\ (r.dst + n)..(r.dst + z - 1) = {}
      BY <1>1, <2>2
    <3> QED
      BY <3>1, <3>2
  <2> QED
    BY <1>1, <1>2, <2>1, <2>2
<1> QED
  BY <1>2, <1>7, <1>8, <1>9 DEF n, z, q

(* A tick in which no other channel writes what channel c owes or still    *)
(* has to read keeps what is left of its promise, moved on or kept.        *)
LEMMA TickKeepsPromise ==
  ASSUME IInv, CopyInv, DmaTick, NEW c \in Chan, c \notin Disturbed
  PROVE  Owed(ch'[c], mem', expect[c])
<1> DEFINE r == ch[c]
           q == Service(r)
           e == expect[c]
           n == Len(Copies(r))
           z == r.size \div 4
<1>1. SUFFICES ASSUME DOMAIN e # {} PROVE Owed(q, mem', e)
  BY DEF Owed, DmaTick
<1>2. /\ DOMAIN e \subseteq Ram /\ DstRange(r) \subseteq DOMAIN e
      /\ SrcRange(r) \subseteq Ram \union Rom /\ SrcRange(r) \intersect DOMAIN e = {}
      /\ \A a \in DOMAIN e : a \notin DstRange(r) => mem[a] = e[a]
      /\ \A a \in DstRange(r) : mem[a - r.dst + r.src] = e[a]
      /\ r.state = "Bursting" \/ r.size = 0
  BY <1>1 DEF CopyInv, Owed
<1>3. ChannelOK(r) /\ r.src \in Nat /\ r.dst \in Nat /\ z \in Nat
  <2>1. ChannelOK(r)
    BY DEF IInv
  <2> QED
    BY <2>1, DmaAssumption DEF DmaAssumption, ChannelOK, Register
<1>4. /\ SrcRange(r) = r.src..(r.src + z - 1) /\ DstRange(r) = r.dst..(r.dst + z - 1)
  BY DEF SrcRange, DstRange, WordSize
<1>5. /\ n \in 0..z
      /\ \A k \in 1..n : Copies(r)[k] = <<r.src + k - 1, r.dst + k - 1>>
      /\ SrcRange(q) = (r.src + n)..(r.src + z - 1)
      /\ DstRange(q) = (r.dst + n)..(r.dst + z - 1)
      /\ n < z => q.src = r.src + n /\ q.dst = r.dst + n
  <2>1. DstRange(r) \subseteq Ram
    BY <1>2
  <2> QED
    BY <1>2, <1>3, <2>1, TickSplits
<1>6. q.state = "Bursting" \/ q.size = 0
  BY <1>2, <1>3, ServiceMoves
<1>7. Written(c) = r.dst..(r.dst + n - 1)
      /\ \A t \in Range(Copies(r)) : t[1] = t[2] - r.dst + r.src
  <2>1. DOMAIN Copies(r) = 1..n
    BY <1>3, CopiesShape
  <2>2. Range(Copies(r)) = { <<r.src + k - 1, r.dst + k - 1>> : k \in 1..n }
    BY <1>5, <2>1 DEF Range
  <2>3. \A a : a \in Written(c) <=> \E k \in 1..n : a = r.dst + k - 1
    <3>1. Written(c) = { t[2] : t \in Range(Copies(r)) }
      BY DEF Written
    <3>2. ASSUME NEW a \in Written(c) PROVE \E k \in 1..n : a = r.dst + k - 1
      <4>1. PICK t \in Range(Copies(r)) : a = t[2]
        BY <3>1, <3>2
      <4> QED
        BY <2>2, <4>1
    <3>3. ASSUME NEW k \in 1..n PROVE r.dst + k - 1 \in Written(c)
      <4> DEFINE t == <<r.src + k - 1, r.dst + k - 1>>
      <4>1. t \in Range(Copies(r)) /\ t[2] = r.dst + k - 1
        BY <2>2
      <4> HIDE DEF t
      <4>2. t[2] \in Written(c)
        BY <3>1, <4>1
      <4> QED
        BY <4>1, <4>2
    <3> QED
      BY <3>2, <3>3
  <2> HIDE DEF n, r, z, q
  <2>4. \A a : a \in Written(c) <=> a \in r.dst..(r.dst + n - 1)
    <3>1. ASSUME NEW a \in r.dst..(r.dst + n - 1) PROVE \E k \in 1..n : a = r.dst + k - 1
      <4>1. n \in Nat /\ r.dst \in Nat
        BY <1>3, <1>5
      <4> DEFINE k == a - r.dst + 1
      <4>2. k \in 1..n /\ a = r.dst + k - 1
        BY <4>1
      <4> QED
        BY <4>2
    <3>2. \A k \in 1..n : r.dst + k - 1 \in r.dst..(r.dst + n - 1)
      BY <1>3, <1>5
    <3> QED
      BY <2>3, <3>1, <3>2
  <2>5. \A t \in Range(Copies(r)) : t[1] = t[2] - r.dst + r.src
    BY <1>3, <1>5, <2>2
  <2> QED
    BY <2>4, <2>5
<1>8. \A x \in Chan \ {c} : /\ Written(x) \intersect SrcRange(r) = {}
                            /\ Written(x) \intersect DOMAIN e = {}
  BY DEF Disturbed
<1>9. /\ \A b \in Ram \union Rom : (\A x \in Chan : b \notin Written(x)) => mem'[b] = mem[b]
      /\ \A a \in Ram, b \in Ram \union Rom : (\A x \in Chan : OnlyFrom(x, a, b)) =>
           mem'[a] = IF \E x \in Chan : a \in Written(x) THEN mem[b] ELSE mem[a]
  BY MemAfterEffect DEF DmaTick, IInv, CopyInv
<1> HIDE DEF r, q, e, n, z
<1>10. Written(c) \subseteq DstRange(r)
  BY <1>3, <1>4, <1>5, <1>7
<1>11. \A b \in SrcRange(r) : mem'[b] = mem[b]
  <2> SUFFICES ASSUME NEW b \in SrcRange(r) PROVE mem'[b] = mem[b]
    OBVIOUS
  <2>1. \A x \in Chan : b \notin Written(x)
    BY <1>2, <1>8, <1>10
  <2> QED
    BY <1>2, <1>9, <2>1
<1>12. \A a \in DOMAIN e : a \notin DstRange(r) => mem'[a] = e[a]
  <2> SUFFICES ASSUME NEW a \in DOMAIN e, a \notin DstRange(r) PROVE mem'[a] = e[a]
    OBVIOUS
  <2>1. \A x \in Chan : a \notin Written(x)
    BY <1>8, <1>10
  <2> QED
    BY <1>2, <1>9, <2>1
<1>13. \A a \in Written(c) : mem'[a] = e[a]
  <2> SUFFICES ASSUME NEW a \in Written(c) PROVE mem'[a] = e[a]
    OBVIOUS
  <2> DEFINE b == a - r.dst + r.src
  <2>1. a \in DstRange(r) /\ a \in DOMAIN e /\ a \in Ram
    BY <1>2, <1>10
  <2>2. b \in SrcRange(r)
    BY <1>3, <1>4, <2>1
  <2>3. \A x \in Chan : OnlyFrom(x, a, b)
    <3> SUFFICES ASSUME NEW x \in Chan PROVE OnlyFrom(x, a, b)
      OBVIOUS
    <3>1. CASE x = c
      BY <1>2, <1>7, <1>10, <2>2, <3>1 DEF OnlyFrom, r
    <3>2. CASE x # c
      <4>1. b \notin Written(x) /\ a \notin Written(x)
        BY <1>8, <2>1, <2>2, <3>2
      <4> QED
        BY <4>1 DEF OnlyFrom, Written
    <3> QED
      BY <3>1, <3>2
  <2> HIDE DEF b
  <2>4. mem'[a] = mem[b]
    BY <1>2, <1>9, <2>1, <2>2, <2>3
  <2>5. mem[b] = e[a]
    BY <1>2, <2>1 DEF b
  <2> QED
    BY <2>4, <2>5
<1>14. DstRange(r) = DstRange(q) \union Written(c) /\ SrcRange(q) \subseteq SrcRange(r)
  BY <1>3, <1>4, <1>5, <1>7
<1>15. \A a \in DstRange(q) : mem'[a - q.dst + q.src] = e[a]
  <2> SUFFICES ASSUME NEW a \in DstRange(q) PROVE mem'[a - q.dst + q.src] = e[a]
    OBVIOUS
  <2>1. a \in DstRange(r) /\ n < z
    BY <1>3, <1>5, <1>14
  <2>2. a - q.dst + q.src = a - r.dst + r.src
    BY <1>3, <1>4, <1>5, <2>1
  <2>3. a - r.dst + r.src \in SrcRange(r)
    BY <1>3, <1>4, <2>1
  <2> QED
    BY <1>2, <1>11, <2>1, <2>2, <2>3
<1>16. \A a \in DOMAIN e : a \notin DstRange(q) => mem'[a] = e[a]
  BY <1>12, <1>13, <1>14
<1> QED
  BY <1>2, <1>6, <1>14, <1>15, <1>16 DEF Owed
-----------------------------------------------------------------------------
LEMMA InitCopyInv == Init => CopyInv
<1> SUFFICES ASSUME Init PROVE CopyInv
  OBVIOUS
<1>1. expect = [c \in Chan |-> Nothing] /\ mem = [a \in Ram \union Rom |-> a]
  BY DEF Init, DmaInit
<1> QED
  BY <1>1, NothingIsOwed DEF CopyInv

LEMMA NextCopyInv == IInv /\ CopyInv /\ [Next]_vars => CopyInv'
<1> SUFFICES ASSUME IInv, CopyInv, [Next]_vars PROVE CopyInv'
  OBVIOUS
<1> USE DmaCopyAssumption DEF DmaCopyAssumption
<1>1. ASSUME UNCHANGED <<ch, mem, expect>> PROVE CopyInv'
  BY <1>1 DEF CopyInv
<1>2. ASSUME NEW d \in Drivers, Call(d) \/ Return(d) PROVE CopyInv'
  BY <1>1, <1>2 DEF Call, Return, dmaVars
<1>3. ASSUME NEW d \in Drivers, SetUp(d) PROVE CopyInv'
  <2>1. ChannelOf[d] \in Chan
    OBVIOUS
  <2> QED
    BY <1>3, <2>1, WriteWithdraws DEF SetUp
<1>4. ASSUME NEW d \in Drivers, Begin(d) PROVE CopyInv'
  <2> DEFINE w == ChannelOf[d]
  <2>1. /\ w \in Chan /\ mem' = mem
        /\ ch' = [ch EXCEPT ![w] = WriteReg(ch[w], "start", 1)]
        /\ expect' = [expect EXCEPT ![w] = Promise(ch[w])]
    BY <1>4 DEF Begin, Write
  <2>2. ch[w] \in Register
    BY <2>1 DEF IInv, ChannelOK
  <2> HIDE DEF w
  <2>3. ASSUME NEW c \in Chan PROVE Owed(ch'[c], mem', expect'[c])
    <3>1. CASE c = w
      <4>1. ch'[c] = WriteReg(ch[w], "start", 1) /\ expect'[c] = Promise(ch[w])
        BY <2>1, <3>1 DEF IInv, CopyInv
      <4> QED
        BY <2>1, <2>2, <4>1, StartPromises
    <3>2. CASE c # w
      <4>1. ch'[c] = ch[c] /\ expect'[c] = expect[c]
        BY <2>1, <3>2 DEF IInv, CopyInv
      <4> QED
        BY <2>1, <4>1 DEF CopyInv
    <3> QED
      BY <3>1, <3>2
  <2> QED
    BY <2>1, <2>3 DEF CopyInv
<1>5. ASSUME NEW c \in Chan, Poke(c) PROVE CopyInv'
  <2>1. PICK p \in Pokes : Write(c, p[1], p[2])
    BY <1>5 DEF Poke
  <2> QED
    BY <1>5, <2>1, WriteWithdraws DEF Poke
<1>6. CASE Tick
  <2>1. /\ DmaTick
        /\ expect' = [c \in Chan |-> IF c \in Disturbed THEN Nothing ELSE expect[c]]
    BY <1>6 DEF Tick
  <2>2. ASSUME NEW c \in Chan PROVE Owed(ch'[c], mem', expect'[c])
    <3>1. CASE c \in Disturbed
      BY <2>1, <3>1, NothingIsOwed
    <3>2. CASE c \notin Disturbed
      <4>1. expect'[c] = expect[c]
        BY <2>1, <3>2
      <4> QED
        BY <2>1, <3>2, <4>1, TickKeepsPromise
    <3> QED
      BY <3>1, <3>2
  <2>3. DOMAIN mem' = Ram \union Rom
    BY <2>1, MemAfterEffect DEF DmaTick, IInv, CopyInv
  <2> QED
    BY <2>1, <2>2, <2>3 DEF CopyInv
<1>7. CASE UNCHANGED vars
  BY <1>1, <1>7 DEF vars, dmaVars
<1> QED
  BY <1>2, <1>3, <1>4, <1>5, <1>6, <1>7 DEF Next

LEMMA CopyInvHolds == Spec => [](IInv /\ CopyInv)
BY InitIInv, NextIInv, InitCopyInv, NextCopyInv, PTL DEF Spec

(* A done bit tells the truth about the data, for every size, burst size   *)
(* and priority of the channels: the destination holds what the source     *)
(* held when the transfer began, unless somebody interfered with it.       *)
THEOREM DoneMeansCopiedHolds == Spec => []DoneMeansCopied
<1>1. IInv /\ CopyInv => DoneMeansCopied
  <2> SUFFICES ASSUME IInv, CopyInv, NEW c \in Chan, "done" \in ch[c].status,
                      NEW a \in DOMAIN expect[c]
               PROVE  mem[a] = expect[c][a]
    BY DEF DoneMeansCopied
  <2>1. Owed(ch[c], mem, expect[c]) /\ ch[c].state # "Bursting"
    BY DEF IInv, ChannelOK, CopyInv
  <2>2. ch[c].size = 0 /\ ch[c].dst \in Nat
    BY <2>1, DmaAssumption DEF DmaAssumption, Owed, IInv, ChannelOK, Register
  <2>3. DstRange(ch[c]) = {}
    BY <2>2 DEF DstRange, WordSize
  <2> QED
    BY <2>1, <2>3 DEF Owed
<1> QED
  BY <1>1, CopyInvHolds, PTL

(* The rest of the state keeps its type: the memory map never changes, the *)
(* lines raised are levels of the controller, a driver is in one of the    *)
(* steps of cd32_dma_copy.                                                 *)
THEOREM TypeCorrect == Spec => []TypeOK
<1> DEFINE Rest == /\ lines \subseteq Levels
                   /\ pc \in [Drivers -> {"idle", "src", "dst", "size", "ctrl", "wait"}]
                   /\ pokes \in 0..MaxPokes
<1> USE DmaCopyAssumption DEF DmaCopyAssumption
<1>1. Init => Rest
  BY DEF Init, DmaInit
<1>2. Rest /\ [Next]_vars => Rest'
  <2> SUFFICES ASSUME Rest, [Next]_vars PROVE Rest'
    OBVIOUS
  <2>1. CASE \E d \in Drivers : Call(d) \/ SetUp(d) \/ Begin(d) \/ Return(d)
    BY <2>1 DEF Call, SetUp, Begin, Return, dmaVars
  <2>2. CASE \E c \in Chan : Poke(c)
    BY <2>2 DEF Poke
  <2>3. CASE Tick
    <3>1. DoneLines \subseteq Levels
      BY DEF DoneLines, LevelsOf, Levels, Routing
    <3> QED
      BY <2>3, <3>1 DEF Tick, DmaTick
  <2>4. CASE UNCHANGED vars
    BY <2>4 DEF vars, dmaVars
  <2> QED
    BY <2>1, <2>2, <2>3, <2>4 DEF Next
<1>3. IInv /\ CopyInv /\ Rest => TypeOK
  <2>1. IInv => RegistersOK
    BY DEF IInv, RegistersOK, ChannelOK
  <2> QED
    BY <2>1 DEF TypeOK, CopyInv
<1> QED
  BY <1>1, <1>2, <1>3, CopyInvHolds, PTL DEF Spec
=============================================================================
