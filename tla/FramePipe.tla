------------------------------ MODULE FramePipe ------------------------------
(***************************************************************************)
(* What the GPU promises to whoever writes its registers: there is at most *)
(* one request, the last one made; a request is taken whole, drawn once,   *)
(* and ends in one frame, announced by the vertical blank.                 *)
(***************************************************************************)
EXTENDS Integers

CONSTANT Lists  (* the display lists a request may name *)

VARIABLES
  request,  (* the list asked for, "none" when nothing is *)
  current,  (* the list being shown, "none" between frames *)
  frames    (* frames completed *)

pipeVars == <<request, current, frames>>

PipeInit == request = "none" /\ current = "none" /\ frames = 0

\* Asking again replaces what was asked for and not yet taken.
Ask(l) == request' = l /\ UNCHANGED <<current, frames>>

\* A program may also take its request back.
Withdraw == Ask("none")

Take ==
  /\ request # "none" /\ current = "none"
  /\ current' = request
  /\ request' = "none"
  /\ UNCHANGED frames

Finish ==
  /\ current # "none"
  /\ current' = "none"
  /\ frames' = frames + 1
  /\ UNCHANGED request

PipeNext == (\E l \in Lists : Ask(l)) \/ Withdraw \/ Take \/ Finish

\* A request that stands is taken, and a frame ends.
PipeSpec == PipeInit /\ [][PipeNext]_pipeVars /\ WF_pipeVars(Take) /\ WF_pipeVars(Finish)
=============================================================================
