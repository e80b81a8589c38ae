------------------------------- MODULE DmaCopy -------------------------------
(***************************************************************************)
(* cd32_dma_copy (src/kernel/dma.c) run by several drivers against the DMA *)
(* controller: a driver writes the four registers of its channel one by    *)
(* one, with ticks in between, and spins on the busy bit.  A meddler (an   *)
(* interrupt handler, the other CPU) may write a register of any channel.  *)
(***************************************************************************)
EXTENDS Dma

CONSTANTS
  Drivers,    (* programs that call cd32_dma_copy                          *)
  ChannelOf,  (* the channel each driver programs                          *)
  Jobs,       (* the calls a driver makes: [src, dst, size]                *)
  Pokes,      (* the writes of the meddler: <<register, value>>            *)
  MaxPokes    (* bound of the model: writes of the meddler                 *)

ASSUME DmaCopyAssumption ==
  /\ ChannelOf \in [Drivers -> Chan]
  /\ \A d \in Drivers : Jobs[d] \subseteq
       [src : 0..(AddrSpace - 1), dst : 0..(AddrSpace - 1), size : Nat]
  /\ \A p \in Pokes : \/ p[1] \in {"src", "dst"} /\ p[2] \in 0..(AddrSpace - 1)
                      \/ p[1] = "size" /\ p[2] \in Nat
                      \/ p[1] \in {"start", "abort"}
  /\ MaxPokes \in Nat

VARIABLES
  pc,      (* where each driver is in cd32_dma_copy                        *)
  job,     (* its arguments                                                *)
  expect,  (* history: per channel, what its destination must hold at the  *)
           (* end, and {} when somebody interfered with the transfer       *)
  pokes    (* writes of the meddler so far                                 *)

vars == <<dmaVars, pc, job, expect, pokes>>

NoJob == [src |-> 0, dst |-> 0, size |-> 0]
Nothing == <<>>

Init ==
  /\ DmaInit
  /\ pc = [d \in Drivers |-> "idle"]
  /\ job = [d \in Drivers |-> NoJob]
  /\ expect = [c \in Chan |-> Nothing]
  /\ pokes = 0

Write(c, reg, val) == ch' = [ch EXCEPT ![c] = WriteReg(@, reg, val)]

SrcRange(r) == r.src .. (r.src + (r.size \div WordSize) - 1)
DstRange(r) == r.dst .. (r.dst + (r.size \div WordSize) - 1)

\* What a transfer owes: a copy of its source as it was at the start, if the
\* source is mapped, the destination is RAM and the two do not overlap.
Promise(r) ==
  IF /\ r.size > 0 /\ r.src # 0 /\ r.dst # 0
     /\ SrcRange(r) \subseteq Ram \union Rom /\ DstRange(r) \subseteq Ram
     /\ SrcRange(r) \intersect DstRange(r) = {}
  THEN [a \in DstRange(r) |-> mem[a - r.dst + r.src]]
  ELSE Nothing
-----------------------------------------------------------------------------
Call(d) ==
  /\ pc[d] = "idle"
  /\ \E j \in Jobs[d] : job' = [job EXCEPT ![d] = j]
  /\ pc' = [pc EXCEPT ![d] = "src"]
  /\ UNCHANGED <<dmaVars, expect, pokes>>

\* ch[0] = src; ch[1] = dst; ch[2] = size;
SetUp(d) ==
  /\ pc[d] \in {"src", "dst", "size"}
  /\ Write(ChannelOf[d], pc[d], job[d][pc[d]])
  /\ pc' = [pc EXCEPT ![d] = CASE @ = "src" -> "dst" [] @ = "dst" -> "size"
                                [] @ = "size" -> "ctrl"]
  /\ expect' = [expect EXCEPT ![ChannelOf[d]] = Nothing]
  /\ UNCHANGED <<mem, lines, job, pokes>>

\* ch[3] = 1;
Begin(d) ==
  /\ pc[d] = "ctrl"
  /\ Write(ChannelOf[d], "start", 1)
  /\ pc' = [pc EXCEPT ![d] = "wait"]
  /\ expect' = [expect EXCEPT ![ChannelOf[d]] = Promise(ch[ChannelOf[d]])]
  /\ UNCHANGED <<mem, lines, job, pokes>>

\* while (ch[3] & 1) {}
Return(d) ==
  /\ pc[d] = "wait"
  /\ "busy" \notin ch[ChannelOf[d]].status
  /\ pc' = [pc EXCEPT ![d] = "idle"]
  /\ UNCHANGED <<dmaVars, job, expect, pokes>>

Poke(c) ==
  /\ pokes < MaxPokes
  /\ \E p \in Pokes : Write(c, p[1], p[2])
  /\ expect' = [expect EXCEPT ![c] = Nothing]
  /\ pokes' = pokes + 1
  /\ UNCHANGED <<mem, lines, pc, job>>

\* The destinations of the words that channel c moves in this tick.
Written(c) == { t[2] : t \in Range(Copies(ch[c])) }

\* Channels whose source or destination another channel writes in this tick.
Disturbed ==
  { c \in Chan : \E x \in Chan \ {c} :
      Written(x) \intersect (SrcRange(ch[c]) \union DOMAIN expect[c]) # {} }

Tick ==
  /\ DmaTick
  /\ expect' = [c \in Chan |-> IF c \in Disturbed THEN Nothing ELSE expect[c]]
  /\ UNCHANGED <<pc, job, pokes>>

Next ==
  \/ \E d \in Drivers : Call(d) \/ SetUp(d) \/ Begin(d) \/ Return(d)
  \/ \E c \in Chan : Poke(c)
  \/ Tick

\* run_cycles ticks for ever, and a driver is a program that keeps running.
Fairness ==
  /\ WF_vars(Tick)
  /\ \A d \in Drivers : WF_vars(SetUp(d) \/ Begin(d) \/ Return(d))

Spec == Init /\ [][Next]_vars

FairSpec == Spec /\ Fairness
-----------------------------------------------------------------------------
(* Type correctness of the registers. *)
Register ==
  [src : 0..(AddrSpace - 1), dst : 0..(AddrSpace - 1), size : Nat,
   status : SUBSET {"busy", "done", "error"}, state : {"Idle", "Bursting", "Done"},
   burst : 0..BurstSize]

Argument == [src : 0..(AddrSpace - 1), dst : 0..(AddrSpace - 1), size : Nat]

RegistersOK ==
  /\ ch \in [Chan -> Register]
  /\ job \in [Drivers -> Argument]

TypeOK ==
  /\ RegistersOK
  /\ DOMAIN mem = Ram \union Rom
  /\ lines \subseteq Levels
  /\ pc \in [Drivers -> {"idle", "src", "dst", "size", "ctrl", "wait"}]
  /\ pokes \in 0..MaxPokes

(* The status register a driver polls tells the truth about the engine:    *)
(* busy exactly while it bursts, never busy and done at once, and a burst  *)
(* never exceeds its size nor splits a word.                               *)
StatusInv ==
  \A c \in Chan :
    /\ ch[c].state = "Bursting" <=> "busy" \in ch[c].status
    /\ ch[c].state = "Bursting" => "done" \notin ch[c].status
    /\ ch[c].state = "Done" => ch[c].status = {"done"}
    /\ ch[c].burst <= BurstSize /\ ch[c].burst % WordSize = 0

(* When a channel reports done, every word has arrived: the destination is *)
(* the source as it was when the transfer began, however the bursts and    *)
(* pauses of the channels interleaved, unless another channel or a         *)
(* register write interfered with it.                                      *)
DoneMeansCopied ==
  \A c \in Chan : "done" \in ch[c].status =>
    \A a \in DOMAIN expect[c] : mem[a] = expect[c][a]

(* A completion raises its channel's own line in the same tick, and no     *)
(* line rises without one.                                                 *)
CompletionSignalled ==
  [][\A c \in Chan :
       LET completed(x) == ch[x].state = "Bursting" /\ ch'[x].state = "Done"
           own(x) == IF x = "Cdrom" THEN 2 ELSE 4
       IN  /\ completed(c) => own(c) \in lines'
           /\ lines' \ lines \subseteq { own(x) : x \in {y \in Chan : completed(y)} }]_vars

(* cd32_dma_copy returns: its busy bit clears, whatever the meddler wrote. *)
(* It does as long as every size is whole words; "DMA_SIZE - tamanho em    *)
(* bytes" (sdk/api.md) promises it for every size, and the engine pauses   *)
(* for ever over a tail of less than a word.                               *)
CopyReturns == \A d \in Drivers : pc[d] = "wait" ~> pc[d] = "idle"
=============================================================================
