-------------------------------- MODULE Cdrom --------------------------------
(***************************************************************************)
(* src/cdrom.rs: the drive.  A host inserts and ejects discs, a program    *)
(* writes the command and argument registers at any moment, and a tick     *)
(* spins the disc up or reads one sector.  A sector is <<disc, lba>>; the  *)
(* buffer holds sectors, or one entry that stands for a directory listing. *)
(***************************************************************************)
EXTENDS Naturals, Sequences

CONSTANTS
  Media,    (* discs: [id, size (sectors), iso (sector 16 is a PVD)]       *)
  PvdLba,   (* PVD_LBA (16)                                                *)
  Lbas, Counts,  (* values the program writes to the argument registers    *)
  MaxSwaps  (* bound of the model: discs inserted or ejected               *)

NoMedium == [id |-> "none", size |-> 0, iso |-> FALSE]

ASSUME CdromAssumption ==
  /\ Media \subseteq [id : STRING \ {"none", "list"}, size : Nat, iso : BOOLEAN]
  /\ PvdLba \in Nat /\ MaxSwaps \in Nat
  /\ Lbas \subseteq Nat /\ 0 \in Lbas
  /\ Counts \subseteq Nat /\ 0 \in Counts

VARIABLES
  state,      (* CdromState                                                *)
  flags,      (* bits of regs[0x04]: ready (2), data (4), error (8)        *)
  cmd, arg0, arg1,  (* regs[0x10], regs[0x14] and regs[0x18]               *)
  lba, remaining,   (* next sector and sectors_remaining                   *)
  buffer,     (* data_buffer                                               *)
  disc,       (* virtual_disc and disc_inserted                            *)
  root,       (* fs_ready and root_lba: the disc whose root is cached      *)
  asked,      (* history: the read that was last accepted, and of which disc *)
  listed,     (* history: a listing replaced the buffer since              *)
  swaps

regs == <<cmd, arg0, arg1>>
reading == <<lba, remaining, asked>>
vars == <<state, flags, regs, reading, buffer, disc, root, listed, swaps>>

Init ==
  /\ state = "NoDisc" /\ flags = {}
  /\ cmd = 0 /\ arg0 = 0 /\ arg1 = 0
  /\ lba = 0 /\ remaining = 0 /\ buffer = <<>>
  /\ disc = NoMedium /\ root = NoMedium
  /\ asked = [disc |-> "none", lba |-> 0, count |-> 0] /\ listed = FALSE
  /\ swaps = 0
-----------------------------------------------------------------------------
(* The host *)

\* Mutant: a new disc is ready at once, and a read goes on with its sectors.
InsertSpun == IF state = "Reading" THEN state ELSE "SpinningUp"

\* A disc, whether new or not, spins up again; the flags and the buffer stay.
InsertState == "SpinningUp"

InsertDisc(m) ==
  /\ swaps < MaxSwaps
  /\ disc' = m /\ state' = InsertState /\ swaps' = swaps + 1
  /\ UNCHANGED <<flags, regs, reading, buffer, root, listed>>

EjectDisc ==
  /\ swaps < MaxSwaps
  /\ disc' = NoMedium /\ state' = "NoDisc" /\ swaps' = swaps + 1
  /\ UNCHANGED <<flags, regs, reading, buffer, root, listed>>
-----------------------------------------------------------------------------
(* handle_reg_write: the commands.  Each reads the argument registers as   *)
(* they are now.                                                           *)

\* Mutant: the flags of the last read survive the start of the next.
StartFlagsKept == flags

StartFlags == flags \ {"data", "error"}

\* start_read: ignored, without a trace, unless the drive is ready.
StartRead ==
  IF state = "Ready"
  THEN /\ lba' = arg0 /\ remaining' = arg1 /\ buffer' = <<>>
       /\ state' = "Reading" /\ flags' = StartFlags
       /\ asked' = [disc |-> disc.id, lba |-> arg0, count |-> arg1]
       /\ listed' = FALSE
       /\ UNCHANGED <<disc, root>>
  ELSE UNCHANGED <<state, flags, reading, buffer, disc, root, listed>>

\* "Pause" and "Resume" set the state whatever it was: a paused read is not
\* resumed, and an empty drive becomes ready.
SetState(s) ==
  /\ state' = s
  /\ UNCHANGED <<flags, reading, buffer, disc, root, listed>>

Mount ==
  /\ root' = IF disc.iso /\ PvdLba < disc.size THEN disc ELSE root
  /\ UNCHANGED <<state, flags, reading, buffer, disc, listed>>

\* list_root walks the disc that is in from the root that is cached.
Listing ==
  IF root = NoMedium \/ disc = NoMedium THEN <<>> ELSE <<<<"list", root.id, disc.id>>>>

List ==
  /\ buffer' = Listing
  /\ state' = "Ready" /\ listed' = TRUE
  /\ UNCHANGED <<flags, reading, disc, root>>

Execute(c) ==
  \/ c = 1  /\ StartRead
  \/ c = 2  /\ SetState("Paused")
  \/ c = 3  /\ SetState("Ready")
  \/ c = 16 /\ Mount
  \/ c = 17 /\ List

Commands == {1, 2, 3, 16, 17}

WriteCommand(c) ==
  /\ cmd' = c
  /\ Execute(c)
  /\ UNCHANGED <<arg0, arg1, swaps>>

\* A byte or half-word write to another lane of the register runs the command
\* that is still in its low byte.
WriteCommandLane ==
  /\ cmd \in Commands
  /\ Execute(cmd)
  /\ UNCHANGED <<regs, swaps>>

WriteArguments ==
  /\ \/ arg0' \in Lbas /\ UNCHANGED arg1
     \/ arg1' \in Counts /\ UNCHANGED arg0
  /\ UNCHANGED <<state, flags, cmd, reading, buffer, disc, root, listed, swaps>>
-----------------------------------------------------------------------------
(* tick: nothing happens in the states that are not below *)

Sector(m, l) == <<m.id, l>>

SpinUp ==
  /\ state = "SpinningUp"
  /\ state' = "Ready" /\ flags' = flags \union {"ready"}
  /\ UNCHANGED <<regs, reading, buffer, disc, root, listed, swaps>>

\* Mutant: the count is not looked at before a sector is read.
MoreAlways == TRUE

More == remaining > 0

\* Mutant: the data is reported when the last sector is about to be read.
LastEarly == remaining <= 2

Last == remaining = 1

ReadSector ==
  /\ state = "Reading" /\ More /\ lba < disc.size
  /\ buffer' = Append(buffer, Sector(disc, lba))
  /\ remaining' = remaining - 1 /\ lba' = lba + 1
  /\ IF Last
     THEN state' = "Ready" /\ flags' = flags \union {"data"}
     ELSE UNCHANGED <<state, flags>>
  /\ UNCHANGED <<regs, asked, disc, root, listed, swaps>>

\* Mutant: the bad sector is tried again for ever.
FailedRetry == "Reading"

Failed == "Paused"

ReadError ==
  /\ state = "Reading" /\ More /\ lba >= disc.size
  /\ state' = Failed /\ flags' = flags \union {"error"}
  /\ UNCHANGED <<regs, reading, buffer, disc, root, listed, swaps>>

\* A read of no sectors ends without reporting data.
ReadNothing ==
  /\ state = "Reading" /\ ~More
  /\ state' = "Ready"
  /\ UNCHANGED <<flags, regs, reading, buffer, disc, root, listed, swaps>>

Tick == SpinUp \/ ReadSector \/ ReadError \/ ReadNothing

Next ==
  \/ \E m \in Media : InsertDisc(m)
  \/ EjectDisc
  \/ \E c \in Commands : WriteCommand(c)
  \/ WriteCommandLane
  \/ WriteArguments
  \/ Tick

Spec == Init /\ [][Next]_vars

\* run_cycles ticks the drive at every quantum.
FairSpec == Spec /\ WF_vars(Tick)
-----------------------------------------------------------------------------
(* Type correctness; a buffer holds sectors or a listing. *)
TypeOK ==
  /\ state \in {"NoDisc", "SpinningUp", "Ready", "Reading", "Paused"}
  /\ flags \subseteq {"ready", "data", "error"}
  /\ cmd \in {0} \union Commands /\ arg0 \in Nat /\ arg1 \in Nat
  /\ lba \in Nat /\ remaining \in Nat
  /\ \A k \in DOMAIN buffer :
       \/ Len(buffer[k]) = 2 /\ buffer[k][1] \in { m.id : m \in Media } /\ buffer[k][2] \in Nat
       \/ Len(buffer[k]) = 3 /\ buffer[k][1] = "list"
  /\ disc \in Media \union {NoMedium} /\ root \in Media \union {NoMedium}
  /\ listed \in BOOLEAN /\ swaps \in 0..MaxSwaps

\* The sectors of the read that was last accepted.
Answer(n) == [k \in 1..n |-> <<asked.disc, asked.lba + k - 1>>]

(* A read in progress has exactly the sectors it should have by now, from  *)
(* the disc that was in the drive when it was accepted, and that disc is   *)
(* still there: commands, disc changes and argument writes in the middle   *)
(* either end the read or leave it alone.                                  *)
ReadInOrder ==
  state = "Reading" =>
    /\ disc.id = asked.disc
    /\ buffer = Answer(Len(buffer))
    /\ lba = asked.lba + Len(buffer)
    /\ Len(buffer) + remaining = asked.count

(* "data ready" is never reported for a part of a read, for sectors of two *)
(* discs, or after an error: as long as no listing has replaced it, the    *)
(* buffer is the whole answer, even after the disc has gone.               *)
DataReadyIsWhole ==
  "data" \in flags => /\ "error" \notin flags
                      /\ asked.count > 0
                      /\ ~listed => buffer = Answer(asked.count)

(* A read ends, whatever it asks for and whatever else happens.            *)
ReadEnds == state = "Reading" ~> state # "Reading"

(* The drive is a sector reader: no history variable is needed to see the  *)
(* request in its state.                                                   *)
Reader == INSTANCE SectorReader WITH
  medium <- disc,
  busy <- state = "Reading",
  request <- IF state = "Reading"
             THEN [lba |-> lba - Len(buffer), count |-> remaining + Len(buffer)]
             ELSE [lba |-> 0, count |-> 0],
  got <- buffer,
  complete <- "data" \in flags

ReadsSectors == Reader!Init /\ [][Reader!Next]_(Reader!vars)
=============================================================================
