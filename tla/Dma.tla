--------------------------------- MODULE Dma ---------------------------------
(***************************************************************************)
(* src/dma.rs, and the loop of run_cycles that carries out what it decides *)
(* (src/hardware.rs): channels move a burst per tick, pause a tick between *)
(* bursts and raise an interrupt a tick after their last word.             *)
(*                                                                         *)
(* Addresses are word addresses, 0 the null address; sizes are in bytes.   *)
(***************************************************************************)
EXTENDS InterruptController, SequencesExt

CONSTANTS
  Channels,   (* the channels, highest priority first                      *)
  BurstSize,  (* burst_size, in bytes (64)                                 *)
  AddrSpace,  (* addresses wrap here (2^30 words)                          *)
  Ram, Rom    (* the words that memory.rs maps: read-write and read-only   *)

WordSize == 4

Chan == ToSet(Channels)

ASSUME DmaAssumption ==
  /\ Channels \in Seq({"Cdrom", "Gpu", "Audio", "ColdFire"})
  /\ BurstSize \in Nat \ {0} /\ BurstSize % WordSize = 0
  /\ AddrSpace \in Nat \ {0}
  /\ Ram \subseteq 0..(AddrSpace - 1) /\ Rom \subseteq 0..(AddrSpace - 1)

VARIABLES
  ch,     (* per channel: src, dst, size (left), status bits, state, burst *)
  mem,    (* contents of the mapped words                                  *)
  lines   (* the interrupt controller                                      *)

dmaVars == <<ch, mem, lines>>

ChannelReset ==
  [src |-> 0, dst |-> 0, size |-> 0, status |-> {}, state |-> "Idle", burst |-> 0]

\* A word that was never written holds its own address.
DmaInit ==
  /\ ch = [c \in Chan |-> ChannelReset]
  /\ mem = [a \in Ram \union Rom |-> a]
  /\ lines = {}
-----------------------------------------------------------------------------
(* write_reg *)

\* DmaChannel::start: a null or empty transfer is ignored without a trace.
Start(r) ==
  IF r.size > 0 /\ r.src # 0 /\ r.dst # 0
  THEN [r EXCEPT !.state = "Bursting", !.burst = 0, !.status = {"busy"}]
  ELSE r

\* Mutant: the reset bit stops the engine and leaves the status register.
AbortKeepsStatus(r) == [r EXCEPT !.state = "Idle"]

\* Bit 1 of the control register.
Abort(r) == [r EXCEPT !.state = "Idle", !.status = {}]

WriteReg(r, reg, val) ==
  CASE reg = "src"   -> [r EXCEPT !.src = val]
    [] reg = "dst"   -> [r EXCEPT !.dst = val]
    [] reg = "size"  -> [r EXCEPT !.size = val]
    [] reg = "start" -> Start(r)
    [] reg = "abort" -> Abort(r)
-----------------------------------------------------------------------------
(* DmaController::tick *)

\* Mutant: the burst is not charged against the transfer.
WordsUncapped(r) == (BurstSize - r.burst) \div WordSize

\* words_in_burst
WordsNow(r) == Min({BurstSize - r.burst, r.size}) \div WordSize

Advance(r) ==
  [r EXCEPT !.src = (@ + WordsNow(r)) % AddrSpace,
            !.dst = (@ + WordsNow(r)) % AddrSpace,
            !.size = @ - WordSize * WordsNow(r),
            !.burst = @ + WordSize * WordsNow(r)]

\* Mutant: the channel completes with the burst that empties it in sight.
CompletesEarly(r) == r.state = "Bursting" /\ r.size <= BurstSize - r.burst

Completes(r) == r.state = "Bursting" /\ WordsNow(r) = 0 /\ r.size = 0

\* Mutant: a pause between bursts does not open the next one.
ServiceStuck(r) ==
  IF r.state # "Bursting" THEN r
  ELSE IF Completes(r) THEN [r EXCEPT !.state = "Done", !.status = {"done"}]
  ELSE Advance(r)

\* What a tick does to a channel: complete, pause or move words.
Service(r) ==
  IF r.state # "Bursting" THEN r
  ELSE IF Completes(r) THEN [r EXCEPT !.state = "Done", !.status = {"done"}]
  ELSE IF WordsNow(r) = 0 THEN [r EXCEPT !.burst = 0]
  ELSE Advance(r)

\* The Copy entries a channel adds to the list, each <<source, destination>>.
Copies(r) ==
  IF r.state # "Bursting" \/ Completes(r) THEN <<>>
  ELSE [k \in 1..WordsNow(r) |->
          <<(r.src + k - 1) % AddrSpace, (r.dst + k - 1) % AddrSpace>>]

\* One Copy entry: an unmapped source or destination loses the word silently.
ApplyCopy(m, t) ==
  IF t[1] \in Ram \union Rom /\ t[2] \in Ram THEN [m EXCEPT ![t[2]] = m[t[1]]] ELSE m

\* The list is carried out in order, the entries of the first channel first.
MoveWords(m, list) ==
  LET after[k \in 0..Len(list)] ==
        IF k = 0 THEN m ELSE ApplyCopy(after[k - 1], list[k])
  IN  after[Len(list)]

MemAfter ==
  LET after[k \in 0..Len(Channels)] ==
        IF k = 0 THEN mem ELSE MoveWords(after[k - 1], Copies(ch[Channels[k]]))
  IN  after[Len(Channels)]

DoneSource(c) == IF c = "Cdrom" THEN "CdromData" ELSE "DmaDone"

\* Mutant: a completed transfer is reported as every other channel's is.
RaisedLines == { 4 : c \in {x \in Chan : Completes(ch[x])} }

DoneLines == UNION { LevelsOf(DoneSource(c)) : c \in {x \in Chan : Completes(ch[x])} }

DmaTick ==
  /\ ch' = [c \in Chan |-> Service(ch[c])]
  /\ mem' = MemAfter
  /\ lines' = lines \union DoneLines
=============================================================================
