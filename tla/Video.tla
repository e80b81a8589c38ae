-------------------------------- MODULE Video --------------------------------
(***************************************************************************)
(* The frame pipeline: Gpu::tick inside Bus::tick, the register file, and  *)
(* the program that drives it through kernel/video.c and kernel/gfx.c.     *)
(* The program and the ticks interleave at every register access; another  *)
(* program on the bus may write the same registers (Poke).                 *)
(***************************************************************************)
EXTENDS DisplayList, InterruptController, Gpu

CONSTANTS
  MaxPush,   (* bound: drawing commands the program pushes in all  *)
  MaxJobs,   (* bound: frames the program asks for in all          *)
  Pokes,     (* the <<register, value>> writes of another program  *)
  MaxPokes   (* bound on those                                     *)

Lists == {"vram", "ram", "unmapped"}
Jobs == {"init", "present", "submit"}

ASSUME VideoAssumption ==
  /\ MaxPush \in Nat /\ MaxJobs \in Nat /\ MaxPokes \in Nat
  /\ Pokes \subseteq ({"kick", "blank"} \X BOOLEAN) \union ({"list"} \X Lists) \union ({"reg4"} \X Nat)

VARIABLES
  gpu,    (* state, kick bit, list register, register 4, VBlank bit,    *)
          (* frame counter                                              *)
  lines,  (* the interrupt controller                                   *)
  ram,    (* the words at 0x100000                                      *)
  dl,     (* dl_instance                                                *)
  prog,   (* the program: where it is, its job, the frame it sampled,   *)
          (* and the words it has copied                                *)
  asked,  (* what the list under construction or last submitted draws   *)
  last,   (* the list the GPU took last, and what it drew for it        *)
  used    (* the bounds: pushes, jobs and pokes so far; history:        *)
          (* whether another program has written the VBlank bit         *)

vars == <<gpu, lines, ram, dl, prog, asked, last, used>>

Init ==
  /\ gpu = GpuReset
  /\ lines = {}
  /\ ram = Blank
  /\ dl = EmptyList
  /\ prog = [at |-> "list", job |-> "init", f |-> 0, i |-> 0]
  /\ asked = <<>>
  /\ last = [list |-> "none", items |-> <<>>]
  /\ used = [push |-> 0, jobs |-> 1, poke |-> 0, forged |-> FALSE]
-----------------------------------------------------------------------------
(* The program *)

Begin ==
  /\ prog.at = "free" /\ used.jobs < MaxJobs
  /\ dl' = GfxBegin(dl)
  /\ asked' = <<>>
  /\ prog' = [prog EXCEPT !.at = "build"]
  /\ UNCHANGED <<gpu, lines, ram, last, used>>

Push ==
  /\ prog.at = "build" /\ used.push < MaxPush /\ RoomForCommand(dl)
  /\ \/ dl' = GfxClear(dl, used.push) /\ asked' = Append(asked, <<"clear", used.push>>)
     \/ RoomForTriangle(dl) /\ dl' = GfxTri(dl, used.push) /\ asked' = Append(asked, <<"tri", used.push>>)
  /\ used' = [used EXCEPT !.push = @ + 1]
  /\ UNCHANGED <<gpu, lines, ram, prog, last>>

Submit ==
  /\ prog.at = "build" /\ RoomForCommand(dl)
  /\ dl' = DlPush(dl, "end", Zero)
  /\ prog' = [prog EXCEPT !.at = "copy", !.job = "submit", !.i = 0]
  /\ used' = [used EXCEPT !.jobs = @ + 1]
  /\ UNCHANGED <<gpu, lines, ram, asked, last>>

LastWord(i, n) == i + 1 = n

\* One store of the copy loop of cd32_gfx_submit.  From the second list on
\* the list register already names the words it overwrites.
CopyWord ==
  /\ prog.at = "copy"
  /\ ram' = [ram EXCEPT ![prog.i] = dl.buf[prog.i]]
  /\ prog' = [prog EXCEPT !.i = @ + 1, !.at = IF LastWord(prog.i, Copied(dl)) THEN "list" ELSE @]
  /\ UNCHANGED <<gpu, lines, dl, asked, last, used>>

\* cd32_gpu_present, whose cd32_video_kick is the two writes of every job.
Present ==
  /\ prog.at = "free" /\ used.jobs < MaxJobs
  /\ prog' = [prog EXCEPT !.at = "list", !.job = "present"]
  /\ used' = [used EXCEPT !.jobs = @ + 1]
  /\ UNCHANGED <<gpu, lines, ram, dl, asked, last>>

WriteList ==
  /\ prog.at = "list"
  /\ gpu' = WriteGpuReg(gpu, "list", IF prog.job = "submit" THEN "ram" ELSE "vram")
  /\ prog' = [prog EXCEPT !.at = "kick"]
  /\ UNCHANGED <<lines, ram, dl, asked, last, used>>

\* cd32_video_init only kicks; the others go on to cd32_video_wait_vblank.
WriteKick ==
  /\ prog.at = "kick"
  /\ gpu' = WriteGpuReg(gpu, "kick", TRUE)
  /\ prog' = [prog EXCEPT !.at = IF prog.job = "init" THEN "free" ELSE "sample"]
  /\ UNCHANGED <<lines, ram, dl, asked, last, used>>

\* CD32_GPU_FRAME is byte 0x10 of the register file: register 4.
GpuFrame == gpu.reg4

Sample ==
  /\ prog.at = "sample"
  /\ prog' = [prog EXCEPT !.at = "spin", !.f = GpuFrame]
  /\ UNCHANGED <<gpu, lines, ram, dl, asked, last, used>>

WaitReturn ==
  /\ prog.at = "spin" /\ GpuFrame # prog.f
  /\ prog' = [prog EXCEPT !.at = "free"]
  /\ UNCHANGED <<gpu, lines, ram, dl, asked, last, used>>

Program ==
  \/ Begin \/ Push \/ Submit \/ CopyWord \/ Present
  \/ WriteList \/ WriteKick \/ Sample \/ WaitReturn
-----------------------------------------------------------------------------
(* Another program on the bus *)

Poke ==
  /\ used.poke < MaxPokes
  /\ \E p \in Pokes :
       /\ gpu' = WriteGpuReg(gpu, p[1], p[2])
       /\ used' = [used EXCEPT !.poke = @ + 1, !.forged = @ \/ p[1] = "blank"]
  /\ UNCHANGED <<lines, ram, dl, prog, asked, last>>
-----------------------------------------------------------------------------
(* Gpu::tick and Bus::tick *)

\* What Bus::tick hands to exec_dl.  The framebuffer is a list like any other:
\* pixels whose upper half is a command's code are drawn, the rest is skipped;
\* a list behind the end of RAM is empty.
Fetched ==
  CASE gpu.list = "ram"  -> {Drawn(ram)}
    [] gpu.list = "vram" -> {<<>>, <<Junk>>}
    [] OTHER -> {<<>>}

\* Mutant: the interrupt status is never looked at.
NoBlank == {}

VBlank == IF Blanks(gpu) THEN LevelsOf("GpuVBlank") ELSE {}

Tick ==
  /\ gpu' = BusTick(gpu)
  /\ last' \in IF Takes(gpu) THEN [list : {gpu.list}, items : Fetched] ELSE {last}
  /\ lines' = lines \union VBlank
  /\ UNCHANGED <<ram, dl, prog, asked, used>>

Next == Program \/ Poke \/ Tick

Spec == Init /\ [][Next]_vars

\* run_cycles ticks the bus once a quantum (src/hardware.rs:110),
\* and the PowerPC is given its instructions: both go on for ever.
FairSpec ==
  Spec /\ WF_vars(Tick) /\ WF_vars(WriteList) /\ WF_vars(WriteKick) /\ WF_vars(Sample) /\ WF_vars(WaitReturn)
-----------------------------------------------------------------------------
(* Properties *)

\* Registers, program and buffers have their types; between ticks the GPU is
\* idle or in its vertical blank (src/gpu/tbdr.rs:161, src/bus.rs:157).
TypeOK ==
  /\ gpu \in [state : {"Idle", "VerticalBlank"}, kick : BOOLEAN, list : Lists, reg4 : Nat, blank : BOOLEAN, frame : Nat]
  /\ lines \subseteq LevelsOf("GpuVBlank")
  /\ dl.count \in 0..(BufWords \div 2) /\ dl.ptr \in VertexBase..BufWords
  /\ DOMAIN ram = 0..(BufWords - 1) /\ DOMAIN dl.buf = DOMAIN ram
  /\ prog \in [at : {"free", "build", "copy", "list", "kick", "sample", "spin"}, job : Jobs, f : Nat, i : 0..BufWords]

\* The commands end before the triangles begin, or there are no triangles and
\* END is still among the words copied.
Fits ==
  2 * dl.count <= VertexBase + (IF dl.ptr = VertexBase THEN 2 ELSE 0)

\* Whenever the GPU takes the submitted list, and commands and triangles did
\* not run into each other, it draws every command the program pushed, in
\* order, and nothing else: no word of an older list, no clobbered triangle
\* (kernel/gfx.c:39, src/gpu/tbdr.rs:56).  Not so while the program is still
\* copying: a kick that is pending then, or that another program makes then,
\* draws what has been copied so far over the rest of the list before.
DrawsWhatWasPushed ==
  [][gpu.state = "Idle" /\ gpu'.state # "Idle" /\ gpu.list = "ram" /\ prog.job = "submit"
     /\ prog.at \notin {"build", "copy"} /\ Fits
       => last'.items = asked]_vars

\* A program that submits a list that fits gets it drawn, whatever frame is
\* under way, unless another program writes the registers.
SubmitShown ==
  (prog.at = "sample" /\ prog.job = "submit" /\ Fits /\ used.poke = 0) ~> (last.items = asked \/ used.poke > 0)

\* A finished frame has its VBlank line up, whatever is written to the
\* registers in the meantime, the interrupt register included; and the line is
\* up without one only where somebody wrote that register (src/bus.rs:176).
BlankAnnounced ==
  /\ gpu.frame > 0 => lines # {}
  /\ lines # {} \/ gpu.blank => gpu.frame > 0 \/ used.forged

\* The GPU is a FramePipe: one request at a time, each taken one shown once,
\* a standing request taken, a started frame finished.
Pipe == INSTANCE FramePipe WITH
  request <- IF gpu.kick THEN gpu.list ELSE "none",
  current <- IF gpu.state = "Idle" THEN "none" ELSE last.list,
  frames <- gpu.frame
Presents == Pipe!PipeSpec

\* "spin until the next VBlank" (sdk/api.md:62): a wait ends.
WaitEnds == (prog.at = "spin") ~> (prog.at # "spin")
=============================================================================
