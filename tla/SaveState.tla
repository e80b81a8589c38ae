------------------------------ MODULE SaveState ------------------------------
(***************************************************************************)
(* Save states across sessions of the program (src/save.rs, src/main.rs):  *)
(* a session makes a new machine, loads a file into it if it is asked to,  *)
(* puts a disc in if it is given one, runs, and may save.  The machine is  *)
(* what a save can catch in the middle of something: a DMA channel with    *)
(* the memory it moves, a frame, a read of the drive, and the hand-off     *)
(* between the CPUs.  Programs are well behaved; files may be cut short.   *)
(***************************************************************************)
EXTENDS Dma, Gpu, SaveFile

CONSTANTS
  Local,        (* the words of Ram that are the ColdFire's local memory      *)
  Vram,         (* the words of Ram that are video memory too                 *)
  Stores,       (* the words the program stores to                            *)
  Jobs,         (* the copies it asks for: [src, dst, size]                   *)
  Media, PvdLba, Lbas, Counts, MaxSwaps, DriveCommands,   (* of the drive     *)
  Programs,     (* bound: the sets of parts of the machine one program uses   *)
  ForeignFiles, (* files that are not saves and may be there before           *)
  MaxSessions   (* bound                                                      *)

ASSUME SaveAssumption ==
  /\ Local \subseteq Ram /\ Vram \subseteq Ram \ Local /\ Stores \subseteq Ram
  /\ Programs \subseteq SUBSET {"Dma", "Gpu", "Drive", "Cpu"} /\ MaxSessions \in Nat
  /\ \A f \in ForeignFiles : Applied(f) = <<>>
  /\ Jobs \subseteq [src : 0..(AddrSpace - 1), dst : 0..(AddrSpace - 1), size : Nat]
  /\ Media \subseteq [id : STRING, size : Nat, iso : BOOLEAN]
  /\ Lbas \subseteq Nat /\ Counts \subseteq Nat

\* A copy of mapped words that stops short of the last address, writes no word
\* before it has read it, and none that the program stores to itself.
CopiesWell(j) ==
  LET n == j.size \div WordSize
  IN  /\ j.src # 0 /\ j.dst # 0
      /\ j.src + n <= AddrSpace /\ j.dst + n <= AddrSpace
      /\ \A k \in 1..n : j.src + k - 1 \in Ram \union Rom /\ j.dst + k - 1 \in Ram \ Stores
      /\ \A k, l \in 1..n : k < l => j.dst + k # j.src + l

\* The program copies with one channel, as kernel/dma.c does.
ASSUME CopyAssumption == Len(Channels) = 1 /\ \A j \in Jobs : CopiesWell(j)

VARIABLES
  gpu,     (* the GPU and its registers                                     *)
  state, flags, cmd, arg0, arg1, lba, remaining, buffer, disc, root, asked,
  listed, swaps,                                       (* the drive         *)
  cpus,    (* the halts, ppc_hold; history: no turn since the power came on *)
  file,    (* what is on disk                                               *)
  phase,   (* off, loaded (no disc yet) or on                               *)
  sessions,
  uses,    (* what the program of this behaviour works with                 *)
  origin,  (* history: the save each section of this machine is from        *)
  job,     (* history: the last copy started, its words and destinations    *)
  kicks    (* history: frames asked for                                     *)

Drive == INSTANCE Cdrom

driveVars == <<state, flags, cmd, arg0, arg1, lba, remaining, buffer, disc, root, asked, listed, swaps>>
machine == <<ch, mem, lines, gpu, driveVars, cpus>>
history == <<origin, job, kicks>>
vars == <<machine, file, phase, sessions, uses, history>>

NoJob == [from |-> {}, to |-> <<>>, data |-> <<>>]
NewMem == [a \in Ram \union Rom |-> IF a \in Rom THEN a ELSE 0]
NewCpus == [cf |-> FALSE, ppc |-> FALSE, hold |-> TRUE, first |-> TRUE]

Init ==
  /\ ch = [c \in Chan |-> ChannelReset] /\ mem = NewMem /\ lines = {}
  /\ gpu = GpuReset /\ cpus = NewCpus /\ Drive!Init
  /\ phase = "off" /\ sessions = 0
  /\ file \in ForeignFiles \union {NoFile}
  /\ uses \in Programs
  /\ origin = [s \in Sections |-> 0] /\ job = NoJob /\ kicks = 0
-----------------------------------------------------------------------------
(* save.rs: what a section holds.  Not in any of them: the interrupt lines, *)
(* ppc_hold, the ColdFire's local memory and where an engine is in its work.*)

\* A channel's registers are saved, its state and its burst are not.
Registers(r) == [src |-> r.src, dst |-> r.dst, size |-> r.size, status |-> r.status]

Words(S) == [a \in S |-> mem[a]]

\* The histories go with the section they are about.
Data(s) ==
  CASE s = "PPC"   -> [ppc |-> cpus.ppc]
    [] s = "CF"    -> [cf |-> cpus.cf]
    [] s = "RAM"   -> Words(Ram \ Local)
    [] s = "VRAM"  -> Words(Vram)
    [] s = "GPU"   -> [kick |-> gpu.kick, list |-> gpu.list, reg4 |-> gpu.reg4, blank |-> gpu.blank,
                       frame |-> gpu.frame, kicks |-> kicks]
    [] s = "CDROM" -> [state |-> state, flags |-> flags, cmd |-> cmd, arg0 |-> arg0, arg1 |-> arg1,
                       lba |-> lba, remaining |-> remaining, asked |-> asked]
    [] s = "DMA"   -> [ch |-> [c \in Chan |-> Registers(ch[c])], job |-> job]
    [] OTHER       -> <<>>

\* n: how many sections get written; all of them unless the save fails.
Save(n) ==
  /\ phase = "on"
  /\ file' = Written(file, [i \in 1..n |-> Section(SectionOrder[i], Data(SectionOrder[i]), sessions)])
  /\ phase' = "off"
  /\ UNCHANGED <<machine, sessions, uses, history>>

Quit == phase = "on" /\ phase' = "off" /\ UNCHANGED <<machine, file, sessions, uses, history>>
-----------------------------------------------------------------------------
(* main.rs *)

NewDrive == [state |-> "NoDisc", flags |-> {}, cmd |-> 0, arg0 |-> 0, arg1 |-> 0, lba |-> 0, remaining |-> 0,
             asked |-> [disc |-> "none", lba |-> 0, count |-> 0]]

\* Cd32Hardware::new, and load_state into it when f is a file: a failure is
\* logged and the machine goes on with what was loaded by then.
PowerOn(f) ==
  LET d == Restored(f, "CDROM", NewDrive)
      g == Restored(f, "GPU", Over([kicks |-> 0], GpuReset))
      m == Restored(f, "DMA", [ch |-> [c \in Chan |-> ChannelReset], job |-> NoJob])
  IN  /\ phase = "off" /\ sessions < MaxSessions
      /\ phase' = "loaded" /\ sessions' = sessions + 1
      /\ cpus' = Restored(f, "PPC", Restored(f, "CF", NewCpus))
      /\ mem' = Restored(f, "VRAM", Restored(f, "RAM", NewMem))
      /\ gpu' = [r \in DOMAIN GpuReset |-> g[r]] /\ kicks' = g.kicks
      /\ ch' = [c \in Chan |-> Over(m.ch[c], ChannelReset)] /\ job' = m.job
      /\ state' = d.state /\ flags' = d.flags /\ cmd' = d.cmd /\ arg0' = d.arg0 /\ arg1' = d.arg1
      /\ lba' = d.lba /\ remaining' = d.remaining /\ asked' = d.asked
      /\ buffer' = <<>> /\ disc' = Drive!NoMedium /\ root' = Drive!NoMedium /\ listed' = FALSE
      /\ lines' = {}
      /\ origin' = [s \in Sections |-> IF Has(f, s) THEN Got(f, s).of ELSE 0]
      /\ UNCHANGED <<file, uses, swaps>>

\* Mutant: the disc goes in before the state is loaded over it.
InsertedFirst(m) ==
  /\ disc' = m /\ swaps' = swaps + 1
  /\ state' = IF origin["CDROM"] # 0 THEN state ELSE "SpinningUp"
  /\ UNCHANGED <<flags, cmd, arg0, arg1, lba, remaining, asked, buffer, root, listed>>

Insert(m) == Drive!InsertDisc(m)

PutInDisc ==
  /\ phase = "loaded" /\ phase' = "on"
  /\ ("Drive" \in uses /\ \E m \in Media : Insert(m)) \/ UNCHANGED driveVars
  /\ UNCHANGED <<ch, mem, lines, gpu, cpus, file, sessions, uses, history>>
-----------------------------------------------------------------------------
(* The machine runs *)

\* A quantum ends: Bus::tick and the DMA.
Tick ==
  /\ phase = "on" /\ ~cpus.first
  /\ gpu' = BusTick(gpu)
  /\ Drive!Tick \/ (state \notin {"SpinningUp", "Reading"} /\ UNCHANGED driveVars)
  /\ ch' = [c \in Chan |-> Service(ch[c])]
  /\ mem' = MemAfter
  /\ lines' = lines \union DoneLines \union IF Blanks(gpu) THEN LevelsOf("GpuVBlank") ELSE {}
  /\ UNCHANGED <<cpus, file, phase, sessions, uses, history>>

\* Mutant: only a ColdFire that halts in this turn ends the hold.
HoldAfterStop(halts) == cpus.hold /\ ~(halts /\ ~cpus.cf)

\* Where run_cycles looks at the hold: after every turn of the ColdFire.
HoldAfter(halts) == cpus.hold /\ ~halts

\* The ColdFire halts, or goes on, or is woken by an interrupt; the first turn
\* after Cd32Hardware::new is its own.
CfTurn ==
  /\ phase = "on"
  /\ \E halts \in BOOLEAN :
       /\ "Cpu" \in uses \/ halts = cpus.cf
       /\ cpus.cf /\ ~CfIrqPending(lines) => halts
       /\ cpus' = [cpus EXCEPT !.cf = halts, !.hold = HoldAfter(halts), !.first = FALSE]
  /\ UNCHANGED <<ch, mem, lines, gpu, driveVars, file, phase, sessions, uses, history>>

PpcTurn ==
  /\ phase = "on" /\ "Cpu" \in uses /\ ~cpus.first /\ ~cpus.hold
  /\ \E halts \in BOOLEAN :
       /\ cpus.ppc /\ ~PpcIrqPending(lines) => halts
       /\ cpus' = [cpus EXCEPT !.ppc = halts]
  /\ UNCHANGED <<ch, mem, lines, gpu, driveVars, file, phase, sessions, uses, history>>

\* The program stores, and programs a channel, only while that is not busy.
StoreWord ==
  /\ phase = "on" /\ "Dma" \in uses /\ \A c \in Chan : "busy" \notin ch[c].status
  /\ \E a \in Stores : mem' = [mem EXCEPT ![a] = sessions]
  /\ UNCHANGED <<ch, lines, gpu, driveVars, cpus, file, phase, sessions, uses, history>>

JobOf(j) ==
  LET n == j.size \div WordSize
  IN  [from |-> { j.src + k - 1 : k \in 1..n }, to |-> [k \in 1..n |-> j.dst + k - 1],
       data |-> [k \in 1..n |-> mem[j.src + k - 1]]]

\* The four register writes of a copy are one step: the channel is idle, and
\* what ticks and saves make of an idle channel does not depend on them.
StartCopy ==
  /\ phase = "on" /\ "Dma" \in uses
  /\ \E c \in Chan, j \in Jobs :
       /\ "busy" \notin ch[c].status
       /\ ch' = [ch EXCEPT ![c] = Start(Over(j, @))]
       /\ job' = JobOf(j)
  /\ UNCHANGED <<mem, lines, gpu, driveVars, cpus, file, phase, sessions, uses, origin, kicks>>

\* A program that waits in vain for a channel starts it again, or gives up.
RestartDma ==
  /\ phase = "on" /\ "Dma" \in uses
  /\ \E c \in Chan, reg \in {"start", "abort"} :
       "busy" \in ch[c].status /\ ch' = [ch EXCEPT ![c] = WriteReg(@, reg, 0)]
  /\ UNCHANGED <<mem, lines, gpu, driveVars, cpus, file, phase, sessions, uses, history>>

Kick ==
  /\ phase = "on" /\ "Gpu" \in uses /\ kicks < MaxSessions
  /\ gpu' = WriteGpuReg(gpu, "kick", TRUE)
  /\ kicks' = IF gpu.kick THEN kicks ELSE kicks + 1
  /\ UNCHANGED <<ch, mem, lines, driveVars, cpus, file, phase, sessions, uses, origin, job>>

CommandDrive ==
  /\ phase = "on" /\ "Drive" \in uses
  /\ (\E c \in DriveCommands : Drive!WriteCommand(c)) \/ Drive!WriteArguments
  /\ UNCHANGED <<ch, mem, lines, gpu, cpus, file, phase, sessions, uses, history>>

Next ==
  \/ \E f \in {file, NoFile} : PowerOn(f)
  \/ PutInDisc
  \/ Tick \/ CfTurn \/ PpcTurn
  \/ StoreWord \/ StartCopy \/ RestartDma \/ Kick \/ CommandDrive
  \/ \E n \in 0..Len(SectionOrder) : Save(n)
  \/ Quit

Spec == Init /\ [][Next]_vars
-----------------------------------------------------------------------------
(* Properties *)

\* Types; and an engine and its registers can only disagree where a file said
\* so: a channel that is busy without its engine is from a file
\* (src/save.rs:242).
TypeOK ==
  /\ \A c \in Chan :
       /\ ch[c].status \in {{}, {"busy"}, {"done"}} /\ ch[c].state \in {"Idle", "Bursting", "Done"}
       /\ ch[c].state = "Bursting" => ch[c].status = {"busy"}
       /\ ch[c].status = {"busy"} /\ ch[c].state # "Bursting" => ch[c].state = "Idle" /\ origin["DMA"] # 0
  /\ gpu.state \in {"Idle", "VerticalBlank"} /\ cpus \in [{"cf", "ppc", "hold", "first"} -> BOOLEAN]
  /\ state \in {"NoDisc", "SpinningUp", "Ready", "Reading", "Paused"}
  /\ phase \in {"off", "loaded", "on"} /\ sessions \in 0..MaxSessions

\* Whatever was saved, cut short and written over before, a machine is made
\* of the first sections of one single save and of a new machine, never of
\* two saves, and never lacks the memory its devices were saved with
\* (src/save.rs:288, :321).
OneMachine ==
  \A i, j \in DOMAIN SectionOrder :
    i < j /\ origin[SectionOrder[j]] # 0 => origin[SectionOrder[i]] = origin[SectionOrder[j]]

\* A copy that a save cut in two, once started again, ends with every word in
\* its place, those moved before the save and those moved after the load: the
\* registers and the memory of a file are of one moment.  (Not for the
\* ColdFire's local memory, which no file holds; src/save.rs:225, :294.)
RestartedCopyIsWhole ==
  \A c \in Chan :
    ch[c].status = {"done"} /\ (job.from \union ToSet(job.to)) \intersect Local = {} =>
      \A k \in DOMAIN job.to : mem[job.to[k]] = job.data[k]

\* No load shows a frame twice, and each loses one frame at most, the one that
\* was under way (src/save.rs:164).
NoFrameTwice ==
  LET accounted == gpu.frame + (IF gpu.kick THEN 1 ELSE 0) + (IF gpu.state = "Idle" THEN 0 ELSE 1)
  IN  accounted <= kicks /\ kicks - accounted < Max({1, sessions})

\* Data ready is said over the whole answer to the read that was last
\* accepted, in this session or before a save, or over a listing; never over a
\* part of a read that a save cut short, or over two reads.  There is one
\* exception, and only a load makes it: the flag of a completed read is in the
\* file and its buffer is not (src/save.rs:194, :210), so the loaded drive says
\* data ready over no sector at all, until the next read.  No running machine
\* comes to say that, and a read that was under way does not go on over the
\* disc that main puts in after the load (src/main.rs:105).
NoStaleData ==
  [][("data" \in flags') =>
       \/ listed'
       \/ buffer' = Drive!Answer(asked.count)'
       \/ buffer' = <<>> /\ (phase = "off" \/ (buffer = <<>> /\ "data" \in flags))]_vars

\* The hold is in no file: every machine is made with it, and keeps it until
\* its ColdFire is seen halted, in a turn of this session or, at the first
\* turn, because it was halted when the machine was saved.  So no session gets
\* to a halted ColdFire with a held PowerPC, where nobody would go on
\* (src/hardware.rs:41, :84).
HandOffSurvives ==
  [][phase = "on" /\ ~cpus'.first =>
       (cpus'.hold <=> (cpus.first \/ cpus.hold) /\ ~cpus.cf /\ ~cpus'.cf)]_vars
=============================================================================
