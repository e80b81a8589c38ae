# A TLA+ verification of the CD³² emulator

The repository emulates a console: a PowerPC 603e and a ColdFire share a memory
bus with a GPU, a sample player, a CD-ROM drive, a DMA controller and an
interrupt controller (`src/src`, Rust). The programs that run on the machine are
a small kernel and its drivers (`src/kernel`, C). There is one thread; the
concurrency is the machine's: two CPUs whose instructions interleave with the
ticks of the devices, and programs that talk to the devices register by register.

Paths below are relative to the repository's root, which the manifest calls `src/`.

## The system

| part | state | operations | correct when |
| --- | --- | --- | --- |
| Scheduler (`src/hardware.rs`) | debt accumulator, clocks, `ppc_hold`, `boot_complete` | `run_cycles`, `reset` | clocks keep 266:140, the PowerPC starts after the bootstrap, halted CPUs wake for their own interrupts |
| Interrupt controller (`src/interrupt.rs`) | one line per level | assert, pending per CPU | a device's event reaches its CPU, and ends |
| ColdFire (`src/cpu/coldfire.rs`) | registers, mask and flags, halt; its stack in memory | `step`, interrupt entry | returns find their frames, comparisons decide rightly, failures spare the stack |
| PowerPC (`src/cpu/ppc603e.rs`) | registers, MSR, SRR0/SRR1, BATs, segments, page table in memory | `step`, interrupt entry, `translate` | translation is what the kernel set up, faults are precise, handlers return where they were entered |
| DMA (`src/dma.rs`, loop of `run_cycles`) | four channels | register writes, `tick` | done means copied and signalled; a started transfer ends |
| CD-ROM (`src/cdrom.rs`) | drive state, registers, buffer, disc, cached root | insert, eject, commands, `tick` | a read is the sectors it asked for, from one disc; it ends |
| GPU (`src/gpu/tbdr.rs`, `Bus::tick`) | pipeline state, registers, frame counter | register writes, `tick`, list execution | each request is a frame, each frame an interrupt, a waiter sees it |
| Bus and mailbox (`src/bus.rs`) | I/O registers, four mailbox registers | reads and writes in three sizes, service | an answer belongs to its request; bytes keep their order |
| Memory map (`src/memory.rs`) | RAM, local memory, ROM | read, write, region | every address has one owner; an access over an edge changes nothing |
| Display lists (`kernel/gfx.c`) | one buffer | begin, push, submit | what is pushed is drawn, in order, and nothing else |
| Save states (`src/save.rs`, `src/main.rs`) | a file of sections | save, load | a loaded machine is one machine and can go on |
| Kernel drivers (`kernel/*.c`) | registers they poll, a few globals | copy, init, present, poll | they return, with the right answer |
| Audio (`src/audio/dsp.rs`) | rings, clock | push, `tick` | nothing ever pushes a sample |
| ROM generator, frontend, disassembler, ABI headers, AROS board, demos | none of their own that lasts | | not candidates |

How they meet: `run_cycles` gives a turn to one CPU, and every 16 turns calls
`Bus::tick` (mailbox, GPU, audio, CD) and then the DMA controller; devices
assert interrupt lines, which the CPUs' `step` and the wake-up test of
`run_cycles` read; programs write device registers through `Bus` and poll them.

What is hard here: interleavings of two CPUs and the devices between any two
register or memory accesses; commands sent in any state of a device; polling against ticks;
transfers that pause; level-like interrupt lines that nobody takes back; errors
that share a path with normal events; state that a reset or a save file forgets.
`PROJECT.json` lists these hazards line by line, with the property that watches
each one.

## The modules

| module | models | kind |
| --- | --- | --- |
| `InterruptController` | routing, and what each CPU sees of the lines | operators |
| `Scheduler`, `SchedulerProofs` | `run_cycles` and `reset`, with the CPUs as sets of outcomes | state machine, proofs |
| `Dma` | channel registers, `tick`, the copying loop | operators and the tick |
| `DmaCopy`, `DmaProofs` | callers of `cd32_dma_copy`, and a third party writing registers, over `Dma` | state machine, proofs |
| `SectorReader` | what a drive promises | abstract specification |
| `Cdrom`, `CdromProofs` | the drive, a host and a program that writes any command at any time; implements `SectorReader` | state machine, proofs |
| `CdromInit` | `cd32_cdrom_init` over `Cdrom` | state machine |
| `Gpu` | the GPU's registers and state machine, and how `Bus::tick` drives it | operators |
| `DisplayList` | `kernel/gfx.c`'s buffer and `exec_dl`'s reading of it | operators |
| `FramePipe` | what the GPU promises to those who write its registers | abstract specification |
| `Video`, `VideoProofs` | a program that builds, submits and presents lists, another that writes registers, and the ticks; implements `FramePipe` | state machine, proofs |
| `Bus` | regions, byte lanes, the I/O registers and the mailbox service | operators |
| `Mailbox`, `MailboxProofs` | the clients of the mailbox, the host's joypad and stray stores over `Bus` | state machine, proofs |
| `CfAlu` | the ColdFire's arithmetic, flags and conditions | operators |
| `CallStack` | what a program may rely on across calls, interrupts and pushes | abstract specification |
| `CfCore`, `CfProofs` | the ColdFire core with its stack in memory; implements `CallStack` | state machine, proofs |
| `PpcMmu` | block and page translation | operators |
| `PpcCore`, `PpcProofs` | the PowerPC core under translation, and a kernel that sets the tables up | state machine, proofs |
| `SaveFile` | the file of sections, and what a load takes of it | operators |
| `SaveState`, `SaveProofs` | sessions that load, run and save; composes `Dma`, `Gpu`, `Cdrom` and the hand-off | state machine, proofs |
| `MC*` | constants for TLC | instances |

An operator whose comment begins with "Mutant:" is a plausible slip in the
definition below it. Nothing uses it; it documents what the property named in
the manifest would catch if it took that definition's place.

### Scheduler

`CfTurn`, `PpcTurn` and `HeldTurn` are the three branches of an iteration of
`run_cycles`; `EndOfCycle` is the tail all of them share, so the quantum and
`boot_complete` are part of each action. An instruction is one of the outcomes
that the scheduler or an interrupt entry can tell apart: nothing, halt, error, a
change of the interrupt mask, of MSR[EE] or of the EE bit saved in SRR1.
`heldCycles` and `cf.fault` are history: the code keeps neither.

`reset` is public and no part of the program calls it; the model includes it.
`deassert_irq` has no caller, and no device that this commit ships asserts the
timer, UART or `CdromDone` sources, so `RaisedSources` leaves them out.

- `ClockRatio`: the PowerPC's time, hold included, stays within one turn of
  266:140 of the ColdFire's.
- `HoldProtocol`: during the hold the PowerPC is as reset left it, the ColdFire
  is awake, and the machine does not count as booted. The ColdFire part is what
  keeps the hold from lasting for ever.
- `WokenByItsInterrupt`, `InterruptStorm`: what wakes a CPU, and what becomes of
  it when no line ever falls.
- `HeldUntilStop` (violated): see Findings.

### DMA

Addresses are word addresses and wrap at `AddrSpace`; sizes are bytes. A driver
is the four register writes and the wait of `cd32_dma_copy`, with ticks between
any two; the kernel's driver uses channel 0, and the model runs one driver per
channel because nothing in the engine ties the channels together but the memory.
`Poke` is any other program's write to any channel. `expect` is history: what a
transfer owes from the moment it starts, dropped as soon as somebody writes the
channel's registers or another channel writes its words. Transfers that overlap
themselves or touch unmapped words owe nothing.

- `StatusInv`, `DoneMeansCopied`, `CompletionSignalled`, `CopyReturns`.

### CD-ROM

Registers are named, not addressed: `flags` is register 0x04, `cmd` 0x10, `arg0`
0x14, `arg1` 0x18. The registers that display the current LBA and the remaining
count are left out, as is the spin-up time, which the code does not model
either. A sector is a pair of a disc and an LBA; a directory listing is one entry
naming the disc the root was cached from and the disc it was read from. The
program writes its arguments and commands in any order and any state, byte lanes
included; it does not write the status register. `main.rs` inserts one disc
before it runs the machine; the drive's public interface allows more, and the
model uses it. `asked` and `listed` are history.

- `ReadInOrder`, `DataReadyIsWhole`, `ReadEnds`.
- `ReadsSectors`: the drive implements `SectorReader`, with the request
  reconstructed from the drive's own state, without the history variables.

`CdromInit` runs the kernel's `cd32_cdrom_init` against the drive. The kernel's
byte offsets and the drive's register numbers meet only in register 0, so the
kernel's command is a write to the flags and its poll a read of a register that
stays zero.

### Video

The program's steps are the register accesses of `kernel/video.c`, the calls of
`kernel/gfx.c` that fill the buffer, and every store of the loop that copies it;
a tick may come between any two of them. `Poke` is any other program that writes
the GPU's registers: the kick, the list, the register the kernel polls, and the
one whose bit 0 `Bus::tick` forwards as a VBlank. The list buffer is the real
layout with fewer words: commands of two words from word 0, triangles from
`VertexBase` on, and the copy takes the words up to the last triangle and two
more. Words of the buffer are kept from one list to the next, as
the C code keeps them. `Drawn` is `exec_dl`'s walk: commands until END, each
triangle looked up in the buffer. What a framebuffer read as a list draws is
either nothing or junk; colours and coordinates are one number per command.

- `DrawsWhatWasPushed`: a list that fits and has been copied is drawn whole, in
  order, with no word of an older list. `Fits` names the lists that do not clobber
  themselves. The time of the copy itself is left out because nothing protects it:
  from the second list on the list register already names the words being
  overwritten, and a kick that is pending or comes from elsewhere draws the front
  of the new list and the rest of the old one.
- `SubmitShown`: and it is drawn at last, whatever frame is under way.
- `BlankAnnounced`: a finished frame has its interrupt, whatever is written to the
  registers; an interrupt without a frame needs a write to the register that
  `Bus::tick` forwards (`used.forged`).
- `Presents`: the GPU implements `FramePipe`, liveness included.
- `WaitEnds` (violated): see Findings.

### Bus and mailbox

`Bus` gives every access of one, two or four bytes its effect: the regions and
their edges, the lanes of the 32-bit registers, the mailbox whose service runs
within the store that asks for it. Memory is kept for the cells a run names.
`Mailbox` interleaves, access by access, `mailbox_io_read` of `kernel/input.c`
and another program that follows the same protocol; `Host` is the frontend's
`set_joypad`; `Stray` is any store by a program that does not follow it.

- `OwnAnswer`: an undisturbed call gets the answer to its own request;
  `seen[c].calm` says undisturbed, and is lost only to another request.
- `TruthfulPad`: the kernel's buttons are buttons that were held, until a guest
  store to the GPIO overwrites them for good.
- `BytesInOrder`: memory and I/O registers are bytes in address order at every
  size and across every edge; a store that begins where there is no memory
  changes none.
- `WedgedForEver`, `CallEnds`: a status that is neither 0 nor 1 stops every
  client for ever; nothing else does.

### ColdFire

An instruction is a choice of the environment; the interrupt level is another.
The stack is memory: half words that remember what was stored in them, so that a
load of a long may find two halves of different stores. `frames` is history, and
nothing the core does depends on it but which return a well-behaved program
executes. `FailWith` is `run_cycles` halting a core whose step failed, with the
registers as far as the instruction got. `CfAlu` has the three sizes with fewer
bits in each, quirks included: ADDQ and CLR read their size one bit too high,
byte additions look for their carry in the long, ASR brings in zeros, and only
CMP sets V. A long's sign decides N whatever the size.

- `EveryReturnIsItsOwn`: the core implements `CallStack`; the refinement reads
  the frames back from memory.
- `ComparisonsSurvive`: all ten conditions decide as the operands of the last
  comparison do, through interrupts whose handlers push, pop and set the flags
  to anything with MOVE to CCR or SR, and through instructions that set no flag.
  `DataDepth` confines arithmetic to the program below all frames.
- `FaultsSpareTheStack`: a step that fails anywhere leaves the data, everything on
  the stack, and every flag but Z, which BCHG, BCLR and BSET set before their store
  is refused (`src/cpu/coldfire.rs:624`); where no instruction was fetched, Z too.
  An interrupt entry that fails is tried again from the a7 it left.

### PowerPC

`PpcMmu` is `translate` with its geometry as constants: blocks first, then the
two groups of the hashed page table. `PpcCore` has two halves that do not mix in
one behaviour: a kernel that enters and removes pages, for which translation is
checked at every address and mode, and a program under block translation that
takes interrupts, faults, and changes its mode. A line that is up stays up.

- `TranslationTruthful`: pages go where the kernel put them, whole, through hash
  collisions; those with an even api are never found, because the code takes the
  lowest api bit for the valid bit.
- `ContextKept`: SRR0 and SRR1 last from the entry to the RFI.
- `FaultsArePrecise`: a failing step changes the pc and nothing else.

### Save states

A session makes a machine, loads a file into it if asked to, inserts a disc if
given one, runs and may save; the next session may load that file. The machine
is what a save can catch half-way: one DMA channel with its memory, the GPU, the
drive, and the CPUs' halts with the hold. A save may fail after any section and
leaves what it wrote. `Data` is what each section holds; the interrupt lines,
`ppc_hold`, the ColdFire's local memory and the position of an engine in its work
are in none. `Programs` says which parts of the machine one behaviour uses, which
keeps the state space small; the DMA and the CPUs meet, because a completion
wakes the ColdFire, and the other devices meet only in the file. `asked` (in the
drive), `job` and `kicks` are history, and go with the section they are about.

- `OneMachine`: a machine is made of the first sections of one save.
- `RestartedCopyIsWhole`: a copy that a save cut in two can be started again and
  ends with every word in place (not for the ColdFire's local memory).
- `NoFrameTwice`: a load loses the frame under way and repeats none.
- `NoStaleData`: data ready is said over the whole answer to the last accepted
  read or over a listing, with one exception, which only a load makes: it restores
  the flag of a completed read without its buffer, so the loaded drive says data
  ready over no sector at all until its next read. A read cut by a save does
  not go on after the load: without a disc it fails, and a disc that is put in spins
  up first. No running machine comes to say data ready over nothing anew.
- `HandOffSurvives`: a machine, new or loaded, has its PowerPC held exactly until
  its ColdFire has been halted, in this session or when it was saved. That does
  not make a PowerPC that ran before the save run after the load: if an interrupt
  had the ColdFire awake at the save, the PowerPC is held a second time.

## The runs

| run | bounds | states | what it shows |
| --- | --- | --- | --- |
| `scheduler` | 48 cycles (three quanta), one reset, masks 0 and 4, the real costs and quantum | 380,000 | the scheduler's invariants and action properties |
| `handoff` | 20 cycles | - | a bootstrap that dies releases the PowerPC |
| `dma_copy` | two channels, bursts of two words, ten words of memory, one foreign write, jobs that overlap each other, run off the RAM or are null | 87,000 | the DMA properties, with fairness |
| `dma_tail` | one driver, a copy of six bytes | - | it never returns |
| `cdrom` | discs of 3 and 2 sectors, one with a file system; LBAs 0-1, counts 0, 1 and 3; three disc changes | 161,000 | the drive's properties and the refinement |
| `cdrom_init` | one disc, five polls | - | init gives up on a ready drive |
| `video` | a buffer of 16 words, four pushes, three frames, two foreign writes out of seven | 463,000 | the list and frame properties, with fairness |
| `video_wait` | the same without foreign writes | - | the wait for a frame never ends |
| `mailbox` | two calls of the kernel, one of another program out of four requests, two pads, one stray store out of four | 198,000 | the mailbox and bus properties, with fairness |
| `cf_core` | a long of two bits, six half words of stack, two levels, one failing step and one interrupt entry that fails after it | 2,432,000 | the refinement, comparisons and failures |
| `ppc` | two segments of four pages, groups of one entry, two pages, four block set-ups, four modes | 180,000 | translation, faults and interrupt contexts |
| `save` | three sessions, a disc of two sectors put in three times, reads of two or no sectors, one copy of two words in bursts of one by a program that halts, two foreign files | 1,203,000 | the save-state properties |

Why the bounds are enough. 48 cycles reach the hand-off, a quantum before and
after it, interrupts taken in both CPUs and a reset at every point between; the
debt accumulator visits all its values of a turn of each CPU. Three-word
transfers over two-word bursts pause once and end in a short burst, and the two
channels' transfers overlap in both directions. A three-sector read spans a disc
change, a pause and an error at each of its sectors. In a buffer of 16 words a
list can end before the triangles, meet them and run into them, with one triangle
or two, and a second list is built over a first one that was longer or shorter,
while every word of its copy may have a tick before it. In the mailbox every
access of one call falls between every two of another, of the same request or of
a different one. Two bits are the fewest in which signed and unsigned order
differ, and six half words hold an interrupt within an interrupt, or a call and
two pushes, and leave the next one to fail at each of its stores; a retried
interrupt entry starts from where the first attempt left a7. Groups of one entry make the second page with the same hash overflow, and four block set-ups
cover fetches and data apart, an overlap, and the wrap at the last address.
Three sessions save a copy that has been saved and loaded once already, and a
machine that was woken, or held again, after a load. The copy of the run stays
out of the local memory, so the exception for it in `RestartedCopyIsWhole` is
met by the proof alone.

`scheduler`, `video` and `save` stop at their bounds, `cf_core` after its last
failing step, and the kernel in `cdrom_init` when it has its answer, so those runs
do not check for deadlock; the others do.

Fairness: `WF(Tick)` for DMA, the drive and the GPU, because `run_cycles` ticks
them at every quantum for as long as the machine runs, whatever the CPUs do;
weak fairness of each driver's or client's next step, because a CPU that is not
halted keeps getting turns. There is none on calls, pushes, register writes by
others, disc changes or the host.

## The proofs

TLC checks small instances; the following hold for every value of the
constants that satisfies the modules' named assumptions, without the bounds'
help (the `Max` constants are arbitrary). Every invariant and every safety
property that a passing run checks is a theorem of one of these modules.

- `SchedulerProofs`: `TypeCorrect`, `ClockRatioHolds`, `HoldRespected`,
  `WokenByItsInterruptHolds`, `InterruptStormHolds`. `ClockRatio` is not
  inductive: it says nothing of the accumulator that picks the next turn. The
  strengthening `DebtInv` says that the accumulator is the drift and that it lies
  between minus a PowerPC turn's price and a ColdFire turn's.
- `DmaProofs`: `TypeCorrect`, `StatusTruthful`, `RegistersTyped`,
  `CompletionSignalledHolds`, `DoneMeansCopiedHolds`. The inductive invariant
  `IInv` is `ChannelOK` for every channel; `WriteRegOK` and `ServiceOK` show that
  a register write and a tick keep it, and `WordsFit` is the arithmetic of a
  burst: the words of a tick fit in what is left of the burst and of the transfer.
  `DoneMeansCopied` speaks of transfers that are done; `CopyInv` says of one under
  way that what it owes is in place up to its registers, and still at its source
  from there on. `MoveWordsEffect` and `MemAfterEffect` say what carrying out the
  lists of all channels does to a word, whatever their order.
- `MailboxProofs`: `TypeCorrect`, `OwnAnswerHolds`, `WedgedHolds`,
  `PadIsTruthful`, `OrderHolds`. `OwnAnswer` speaks of idle clients only; the
  inductive `Kept` says of every place in an undisturbed call what it has in the
  registers: its argument, then its command, then an answer to its request.
  `Kick` is the lemma that the store of the status answers in the registers as
  they were, `WriteKeeps` that a store outside the mailbox leaves them alone.
  `PadInv` follows the buttons on their way: the GPIO shows those that are held,
  and the kernel's call carries a word that showed some that were. It rests on
  `Bits` being a sum of `Weight`s, so that different buttons make different words.
  `OrderHolds` is about any lawful store and any byte; the proof attempt showed
  that a store beginning where there is no memory lands nowhere, even if some of
  its bytes would, and `Lands` says so since.
- `CdromProofs`: `TypeCorrect`, `ReadInOrderHolds`, `DataReadyIsWholeHolds`, and
  `DriveReadsSectors`, the refinement of `SectorReader`. `DataReadyIsWhole` is
  not inductive: the last sector of a read raises the flag, so what the buffer
  holds before it matters. `IInv` adds `ReadInOrder`, the types (an entry of the
  buffer is a sector or a listing), and `NoDataYet`: while a read goes on neither
  data nor an error is reported. `NextSector` is the lemma that appending a
  sector to an answer gives the next answer; `OpenIsAsked` says that the request
  the refinement reconstructs from the position and the buffer is the one that
  was accepted, so that each sector read is a `Deliver`.
- `VideoProofs`: `TypeCorrect`, `BlankIsAnnounced`, `ListIsDrawn`, and
  `FramesAreAPipe`, the safety part of the refinement of `FramePipe`. `TickCases`
  says what a tick makes of the GPU; the inductive `GpuInv` adds that a frame
  under way is of a list that was taken. `PushType` bounds what a command and a
  triangle write. `DrawInv` says of a list under construction that its words are
  those of the commands pushed so far (`Holds`), of one that is being copied that
  the words copied so far are in place, and of a submitted one that all are
  where `exec_dl` looks for them, with its END behind; `DrawnIsHeld` is what
  the walk makes of such a buffer. It uses that the buffer is full before
  `dl_push` ignores commands (`BufWords <= 2 * MaxCount`: 2048 words against 2036
  commands), without which a list that fits could lose its END.
- `CfProofs`: `TypeCorrect`, `EveryReturn`, `ComparisonsHold`, `FaultsSpare`. The
  refinement needs the layout of the stack: the inductive `IInv` says (`Laid`)
  that until the first fault the frames lie one below the other from the top of
  the stack to a7, each with its halves in cells of its own and of the kind its
  return will look for. From it a store below a7 disturbs no frame and a return
  finds exactly what was pushed. `TInv` carries a comparison through interrupts:
  the flags speak for the last comparison now, and the flags saved in each frame
  for the comparison of the program it interrupted. The arithmetic of a
  comparison is done for every width of a long, from `Bits[4]` twice `Bits[2]`.
- `PpcProofs`: `TypeCorrect`, `FaultsPrecise`, `ContextIsKept`,
  `TranslationHolds`. `ContextKept` is inductive only with `Closed`: as long as a
  context is kept MSR[EE] is clear, so that the line that never falls cannot
  enter the handler a second time. `TranslationTruthful` follows from `MapInv`:
  every page the kernel entered is in the table where it put it (`AllKept`), once
  (`OneEntry`), and the table has no other valid entry (`NothingElse`).
  `TranslationAssumption` asks that blocks are whole pages that tile the address
  space (the code's are powers of two from 128 KB on) and that the hash tells the
  pages of a segment apart (it is an exclusive or with the page number).
- `SaveProofs`: `TypeCorrect`, `MachineIsOne`, `HandOffIsSaved`,
  `NoFrameIsShownTwice`, `ReadsAreOfThisMachine`, `RestartedCopyHolds`. The
  inductive invariant of the first says of the file what `OneMachine` says of the
  machine (`OneSave`: what a load takes is the first sections of one save, in
  their order); `FirstTurn` says that no line is up before the ColdFire's first
  turn, so a halted one stays halted in it and ends the hold, and that no halted
  one leaves the hold after it. `SaveInv` carries
  the types and the count of frames through the file: a section holds what a
  machine of an earlier session held (`FileOK`), and a drive that reads has no data
  ready, in the machine as in the file (`DriveOK`). `CopyInv` does the same for a
  copy: registers and memory agree on how many words are done, in the machine
  and, outside the local memory, in the memory a load would build from the file
  (`SavedMemory`, `SameCopy`). Its assumption, `CopyAssumption`, is what the
  history variable can follow: one channel, as `kernel/dma.c` uses, and copies of
  mapped words that read no word after writing it and that the program does not
  store over.

What a recursive function computes (`MoveWords`, `MemAfter`, `Power`, `Number`)
is proved by `SetInduction`: a set of naturals with 0 and the successor of each
of its members has them all, from the library's well-founded induction. The
library's induction theorems over operators are not usable, and an operator
declared RECURSIVE is not either; the proved modules have none.

TLC finds no violation of these inductive invariants on the instances of the
runs either (with the naturals cut to a small range where they quantify over
them; `OneSave` and `IsSeq`, which quantify over everything, are out of its reach).

Only model-checked: everything with fairness (`CopyReturns`, `ReadEnds`,
`SubmitShown`, `CallEnds`, and the fairness of `Presents`), because the prover
does neither liveness nor ENABLED; and the four violations below, which a proof
cannot show.

## Findings

- `handoff`: the PowerPC leaves reset when the ColdFire halts for any reason, an
  error included, against the comment of `ppc_hold` and the boot document.
- `dma_tail`: a DMA size that is not a multiple of four never completes,
  although the API documents sizes in bytes.
- `cdrom_init`: drive and kernel disagree on the registers' addresses, so the
  kernel never mounts a disc.
- `video_wait`: GPU and kernel disagree on the frame counter's address, so the
  first wait for a frame never ends.

What modelling showed besides, as the code has it (the models follow the code):

- `save.rs:1` speaks of the complete state of the emulator and leaves out
  `ppc_hold`, the drive's buffer, the ColdFire's local memory, the interrupt lines
  and the engines' positions. So a machine saved after its hand-off while an
  interrupt had its ColdFire awake (the completion of a DMA channel, which shares a
  level with a source of the ColdFire) is loaded with its PowerPC held, against the
  comment of `ppc_hold` (`src/hardware.rs:26`), and a drive saved after a completed
  read is loaded with data ready over an empty buffer.
- Any program can raise the VBlank line with a store to byte 0x80 of the GPU's
  registers; a kick during the copy of a list draws a mixture of two lists.
- A half-word read of the GPIO as `sdk/api.md:140` shows it gives the empty
  upper half; `kernel/input.c` goes through the mailbox and is right.
- ColdFire: JSR with extension words pushes an address inside itself; ADDQ and
  CLR work one size too small; many arms of `dispatch` can never match, because
  `op >> 8` with bits 15-12 already fixed cannot have those values; an interrupt
  entry that fails on its second store leaves a7 moved.
- PowerPC: pages with an even api cannot be mapped; SDR1's mask is ignored; BDNZ
  branches when it should fall through; `bin/gen_rom.rs:177` copies the lower half
  of the block it set up into DBAT0U, where `docs/aros/abi.md:17` has the identity
  mapping of the instruction block.

## Not modelled, and why

- `audio/dsp.rs` and `kernel/audio.c`: no program on this machine ever pushes a
  sample, so the rings stay empty; a model would be of a caller that is not there.
- `kernel/kernel.c` and the ELF loader behind `cd32_cdrom_init`: never reached
  (finding `cdrom_init`). The ISO 9660 helpers of the drive have no caller.
- ColdFire: LINK, UNLK, LEA, CMPM, address arithmetic, memory operands other
  than the stack. PowerPC: the values arithmetic computes, CR, CTR and XER.
- Rasterisation and fonts (arithmetic over pixels), the disassembler, the ABI
  header tools, the ROM generator (a list of bytes), window and command line, the
  AROS board files, the demos.
- One machine of all modules at once: the modules compose in pairs where code
  meets (`DmaCopy`, `CdromInit`, `Video`, `Mailbox`, `SaveState`); their product
  is out of TLC's reach.

Next: LINK/UNLK as frames of `CallStack`, the exit of a bounded read in
`kernel/cdrom.c` once its registers agree with the drive's.
