------------------------------ MODULE CallStack ------------------------------
(***************************************************************************)
(* What a program may rely on between calls, interrupts and pushes: each   *)
(* return goes back to where its own call or interrupt came from, with the *)
(* flags, the mask and the values that were put aside, whatever happened   *)
(* in between.  After the first fault nothing is promised.                 *)
(***************************************************************************)
EXTENDS Integers, SequencesExt

VARIABLES pc, mask, ccr, d, frames, down

cvars == <<pc, mask, ccr, d, frames, down>>

StackInit == frames = <<>> /\ down = FALSE

Frame(kind, ret, m, f, v) == [kind |-> kind, ret |-> ret, mask |-> m, ccr |-> f, d |-> v]

Top == Last(frames)

\* Where it leads is not said.
Call ==
  /\ \E n \in {2, 4} : frames' = Append(frames, Frame("call", pc + n, 0, {}, 0))
  /\ UNCHANGED <<mask, ccr, d, down>>

Return ==
  /\ frames # <<>> /\ Top.kind = "call"
  /\ pc' = Top.ret /\ frames' = Front(frames)
  /\ UNCHANGED <<mask, ccr, d, down>>

\* Only above the mask, which then stands at the level of the interrupt.
Interrupt ==
  /\ mask' > mask
  /\ frames' = Append(frames, Frame("irq", pc, mask, ccr, 0))
  /\ UNCHANGED <<ccr, d, down>>

ReturnFromException ==
  /\ frames # <<>> /\ Top.kind = "irq"
  /\ pc' = Top.ret /\ mask' = Top.mask /\ ccr' = Top.ccr /\ frames' = Front(frames)
  /\ UNCHANGED <<d, down>>

Push ==
  /\ pc' = pc + 2
  /\ frames' = Append(frames, Frame("data", 0, 0, {}, d))
  /\ UNCHANGED <<mask, d, down>>

Pop ==
  /\ frames # <<>> /\ Top.kind = "data"
  /\ pc' = pc + 2 /\ d' = Top.d /\ frames' = Front(frames)
  /\ UNCHANGED <<mask, down>>

\* Everything else leaves what was put aside alone.
Inner == UNCHANGED <<frames, down>>

Fault == down' = TRUE /\ pc' = 0 /\ mask' = 0 /\ ccr' = {} /\ d' = 0 /\ frames' = <<>>

StackNext == ~down /\ (Call \/ Return \/ Interrupt \/ ReturnFromException \/ Push \/ Pop \/ Inner \/ Fault)

StackSpec == StackInit /\ [][StackNext]_cvars
=============================================================================
