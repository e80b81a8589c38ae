--------------------------------- MODULE Gpu ---------------------------------
(***************************************************************************)
(* The state machine of src/gpu/tbdr.rs behind the register file, and how  *)
(* Bus::tick drives it.                                                    *)
(***************************************************************************)
EXTENDS Naturals

\* kick and blank are the low bits of registers 0 and 0x20.
GpuReset == [state |-> "Idle", kick |-> FALSE, list |-> "vram", reg4 |-> 0, blank |-> FALSE, frame |-> 0]

\* Gpu::write_reg: any register takes what is written, that of the interrupt
\* too.  frame is frame_count; its copy in register 0x10 is never read.
WriteGpuReg(g, reg, val) == [g EXCEPT ![reg] = val]

\* Mutant: the kick is only looked at, so one request is shown again and again.
GpuTickSticky(g) ==
  CASE g.state = "Idle" /\ g.kick -> [g EXCEPT !.state = "Presenting"]
    [] g.state = "Presenting"     -> [g EXCEPT !.state = "VerticalBlank"]
    [] g.state = "VerticalBlank"  -> [g EXCEPT !.state = "Idle", !.frame = @ + 1, !.blank = TRUE]
    [] OTHER                      -> g

\* Mutant: a frame under way is never finished.
GpuTickStuck(g) ==
  CASE g.state = "Idle" /\ g.kick -> [g EXCEPT !.state = "Presenting", !.kick = FALSE]
    [] g.state = "Presenting"     -> [g EXCEPT !.state = "VerticalBlank"]
    [] OTHER                      -> g

\* The status register passes through 2 and back to 0 within the last branch.
GpuTick(g) ==
  CASE g.state = "Idle" /\ g.kick -> [g EXCEPT !.state = "Presenting", !.kick = FALSE]
    [] g.state = "Presenting"     -> [g EXCEPT !.state = "VerticalBlank"]
    [] g.state = "VerticalBlank"  -> [g EXCEPT !.state = "Idle", !.frame = @ + 1, !.blank = TRUE]
    [] OTHER                      -> g

\* A list that is taken is drawn within the same tick, which also moves on
\* to the vertical blank: nobody sees Presenting.
Takes(g) == g.state = "Idle" /\ GpuTick(g).state = "Presenting"

\* Mutant: the second step of the GPU in the tick that takes a list is left out.
TickOnce(g) == [GpuTick(g) EXCEPT !.blank = FALSE]

Ticked(g) == IF Takes(g) THEN GpuTick(GpuTick(g)) ELSE GpuTick(g)

\* Bus::tick forwards the interrupt register, whoever set it, and clears it.
Blanks(g) == Ticked(g).blank
BusTick(g) == [Ticked(g) EXCEPT !.blank = FALSE]
=============================================================================
