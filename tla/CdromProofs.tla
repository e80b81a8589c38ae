----------------------------- MODULE CdromProofs -----------------------------
(***************************************************************************)
(* Theorems about Cdrom for every set of discs, every argument a program   *)
(* writes, and any number of disc changes.                                 *)
(***************************************************************************)
EXTENDS Cdrom, Integers, TLAPS

Names == { m.id : m \in Media } \union {"none", "list"}
Entry == (Names \X Nat) \union (Names \X Names \X Names)

Types ==
  /\ state \in {"NoDisc", "SpinningUp", "Ready", "Reading", "Paused"}
  /\ flags \in SUBSET {"ready", "data", "error"}
  /\ arg0 \in Nat /\ arg1 \in Nat /\ lba \in Nat /\ remaining \in Nat
  /\ buffer \in Seq(Entry)
  /\ disc \in Media \union {NoMedium} /\ root \in Media \union {NoMedium}
  /\ asked \in [disc : Names, lba : Nat, count : Nat]

\* While a read goes on its answer is incomplete, so nothing reports data.
NoDataYet == state = "Reading" => flags \intersect {"data", "error"} = {}

IInv == Types /\ ReadInOrder /\ NoDataYet /\ DataReadyIsWhole

LEMMA DiscTypes ==
  ASSUME NEW m \in Media \union {NoMedium}
  PROVE  m.id \in Names /\ m.size \in Nat
<1>1. CASE m \in Media
  <2>1. m \in [id : STRING, size : Nat, iso : BOOLEAN]
    BY <1>1, CdromAssumption DEF CdromAssumption
  <2> QED
    BY <1>1, <2>1 DEF Names
<1>2. CASE m = NoMedium
  BY <1>2 DEF NoMedium, Names
<1> QED
  BY <1>1, <1>2

(* The next sector of an answer continues it. *)
LEMMA NextSector ==
  ASSUME asked \in [disc : Names, lba : Nat, count : Nat], NEW n \in Nat
  PROVE  Append(Answer(n), <<asked.disc, asked.lba + n>>) = Answer(n + 1)
<1> DEFINE e == <<asked.disc, asked.lba + n>>
           s == Append(Answer(n), e)
           f(k) == <<asked.disc, asked.lba + k - 1>>
<1>1. Answer(n) \in Seq(Names \X Int) /\ Len(Answer(n)) = n
      /\ \A k \in 1..n : Answer(n)[k] = f(k)
  BY DEF Answer
<1>2. e \in Names \X Int
  OBVIOUS
<1>3. s \in Seq(Names \X Int) /\ Len(s) = n + 1 /\ s[n + 1] = e
      /\ \A k \in 1..n : s[k] = Answer(n)[k]
  BY <1>1, <1>2
<1>4. e = f(n + 1)
  BY SMT
<1>5. s = [k \in 1..(n + 1) |-> s[k]]
  BY <1>3
<1>6. \A k \in 1..(n + 1) : s[k] = f(k)
  BY <1>1, <1>3, <1>4
<1> QED
  BY <1>5, <1>6 DEF Answer

(* The answer of no sectors is empty. *)
LEMMA NoSector == Answer(0) = <<>>
  BY DEF Answer

(* Commands and disc changes start a read afresh, end it or leave it.      *)
LEMMA ExecuteKeeps ==
  ASSUME IInv, NEW c, Execute(c)
  PROVE  /\ state' \in {"NoDisc", "SpinningUp", "Ready", "Reading", "Paused"}
         /\ flags' \in SUBSET {"ready", "data", "error"}
         /\ lba' \in Nat /\ remaining' \in Nat /\ buffer' \in Seq(Entry)
         /\ root' \in Media \union {NoMedium} /\ UNCHANGED disc
         /\ asked' \in [disc : Names, lba : Nat, count : Nat]
         /\ ReadInOrder' /\ NoDataYet' /\ DataReadyIsWhole'
<1> USE DEF IInv, Types
<1>1. CASE c = 1 /\ StartRead /\ state = "Ready"
  <2>1. /\ lba' = arg0 /\ remaining' = arg1 /\ buffer' = <<>> /\ state' = "Reading"
        /\ flags' = flags \ {"data", "error"} /\ listed' = FALSE
        /\ asked' = [disc |-> disc.id, lba |-> arg0, count |-> arg1]
        /\ disc' = disc /\ root' = root
    BY <1>1 DEF StartRead, StartFlags
  <2>2. disc.id \in Names
    BY DiscTypes
  <2>3. asked' \in [disc : Names, lba : Nat, count : Nat]
        /\ asked'.disc = disc.id /\ asked'.lba = arg0 /\ asked'.count = arg1
    BY <2>1, <2>2
  <2>4. ReadInOrder'
    BY <2>1, <2>3 DEF ReadInOrder, Answer
  <2>5. NoDataYet' /\ DataReadyIsWhole'
    BY <2>1 DEF NoDataYet, DataReadyIsWhole
  <2>6. arg0 \in Nat /\ arg1 \in Nat /\ buffer' \in Seq(Entry)
    BY <2>1
  <2>7. flags' \in SUBSET {"ready", "data", "error"} /\ root' \in Media \union {NoMedium}
    BY <2>1
  <2> QED
    BY <2>1, <2>3, <2>4, <2>5, <2>6, <2>7
<1>2. CASE \/ c = 1 /\ StartRead /\ state # "Ready"
           \/ c = 16 /\ Mount
  <2>1. UNCHANGED <<state, flags, reading, buffer, disc, listed>>
        /\ root' \in Media \union {NoMedium}
    BY <1>2 DEF StartRead, Mount
  <2> QED
    BY <2>1 DEF reading, ReadInOrder, NoDataYet, DataReadyIsWhole, Answer
<1>3. CASE \E s \in {"Paused", "Ready"} : SetState(s)
  BY <1>3 DEF SetState, reading, ReadInOrder, NoDataYet, DataReadyIsWhole, Answer
<1>4. CASE c = 17 /\ List
  <2>1. Listing \in Seq(Entry)
    <3> DEFINE e == <<"list", root.id, disc.id>>
    <3>1. root.id \in Names /\ disc.id \in Names
      BY DiscTypes
    <3>2. "list" \in Names
      BY DEF Names
    <3>3. e \in Entry
      BY <3>1, <3>2 DEF Entry
    <3>4. Listing = <<>> \/ Listing = <<e>>
      BY DEF Listing
    <3> HIDE DEF e
    <3>5. <<>> \in Seq(Entry) /\ <<e>> \in Seq(Entry)
      BY <3>3
    <3> QED
      BY <3>4, <3>5
  <2> QED
    BY <1>4, <2>1 DEF List, reading, ReadInOrder, NoDataYet, DataReadyIsWhole
<1> QED
  BY <1>1, <1>2, <1>3, <1>4 DEF Execute

LEMMA NextKeeps == IInv /\ [Next]_vars => IInv'
<1> SUFFICES ASSUME IInv, [Next]_vars PROVE IInv'
  OBVIOUS
<1> USE DEF IInv, Types
<1>1. ASSUME NEW m \in Media, InsertDisc(m) PROVE IInv'
  BY <1>1 DEF InsertDisc, InsertState, regs, reading, ReadInOrder, NoDataYet, DataReadyIsWhole, Answer
<1>2. CASE EjectDisc
  BY <1>2 DEF EjectDisc, regs, reading, ReadInOrder, NoDataYet, DataReadyIsWhole, Answer
<1>3. ASSUME NEW c \in Commands, WriteCommand(c) PROVE IInv'
  <2>1. Execute(c) /\ UNCHANGED <<arg0, arg1>>
    BY <1>3 DEF WriteCommand
  <2> QED
    BY <2>1, ExecuteKeeps
<1>4. CASE WriteCommandLane
  <2>1. Execute(cmd) /\ UNCHANGED <<arg0, arg1>>
    BY <1>4 DEF WriteCommandLane, regs
  <2> QED
    BY <2>1, ExecuteKeeps
<1>5. CASE WriteArguments
  <2>1. arg0' \in Nat /\ arg1' \in Nat
    BY <1>5, CdromAssumption DEF WriteArguments, CdromAssumption
  <2> QED
    BY <1>5, <2>1 DEF WriteArguments, reading, ReadInOrder, NoDataYet, DataReadyIsWhole, Answer
<1>6. CASE SpinUp
  BY <1>6 DEF SpinUp, regs, reading, ReadInOrder, NoDataYet, DataReadyIsWhole, Answer
<1>7. CASE ReadSector
  <2> DEFINE e == Sector(disc, lba)
  <2>1. /\ buffer' = Append(buffer, e) /\ remaining' = remaining - 1 /\ lba' = lba + 1
        /\ state = "Reading" /\ remaining > 0
        /\ UNCHANGED <<arg0, arg1, asked, disc, root, listed>>
        /\ \/ remaining = 1 /\ state' = "Ready" /\ flags' = flags \union {"data"}
           \/ remaining # 1 /\ UNCHANGED <<state, flags>>
    BY <1>7 DEF ReadSector, More, Last, regs
  <2>2. disc.id = asked.disc /\ buffer = Answer(Len(buffer)) /\ lba = asked.lba + Len(buffer)
        /\ Len(buffer) + remaining = asked.count /\ Len(buffer) \in Nat
    BY <2>1 DEF ReadInOrder
  <2>3. e = <<asked.disc, asked.lba + Len(buffer)>>
    BY <2>2 DEF Sector
  <2>4. e \in Entry
    BY <2>3, <2>2, DiscTypes DEF Entry
  <2>5. buffer' \in Seq(Entry) /\ Len(buffer') = Len(buffer) + 1
    BY <2>1, <2>4
  <2>6. buffer' = Answer(Len(buffer) + 1)
    <3>1. Append(Answer(Len(buffer)), e) = Answer(Len(buffer) + 1)
      BY <2>2, <2>3, NextSector
    <3>2. buffer' = Append(Answer(Len(buffer)), e)
      BY <2>1, <2>2
    <3> QED
      BY <3>1, <3>2
  <2>7. \A n : Answer(n)' = Answer(n)
    BY <2>1 DEF Answer
  <2>8. ReadInOrder'
    BY <2>1, <2>2, <2>5, <2>6, <2>7 DEF ReadInOrder
  <2>9. "error" \notin flags /\ "data" \notin flags
    BY <2>1 DEF NoDataYet
  <2>10. NoDataYet'
    BY <2>1, <2>9 DEF NoDataYet
  <2>11. DataReadyIsWhole'
    <3>1. CASE remaining = 1
      <4>1. asked'.count = Len(buffer) + 1 /\ asked'.count > 0
        BY <2>1, <2>2, <3>1
      <4>2. "error" \notin flags'
        BY <2>1, <2>9, <3>1
      <4> QED
        BY <2>6, <2>7, <4>1, <4>2 DEF DataReadyIsWhole
    <3>2. CASE remaining # 1
      BY <2>1, <2>9, <3>2 DEF DataReadyIsWhole
    <3> QED
      BY <3>1, <3>2
  <2>12. Types'
    <3>1. lba' \in Nat /\ remaining' \in Nat
      BY <2>1
    <3>2. flags' \in SUBSET {"ready", "data", "error"}
      BY <2>1
    <3>3. state' \in {"NoDisc", "SpinningUp", "Ready", "Reading", "Paused"}
      BY <2>1
    <3> QED
      BY <2>1, <2>5, <3>1, <3>2, <3>3
  <2> QED
    BY <2>8, <2>10, <2>11, <2>12
<1>8. CASE ReadError
  BY <1>8 DEF ReadError, Failed, regs, reading, ReadInOrder, NoDataYet, DataReadyIsWhole, Answer
<1>9. CASE ReadNothing
  BY <1>9 DEF ReadNothing, regs, reading, ReadInOrder, NoDataYet, DataReadyIsWhole, Answer
<1>10. CASE UNCHANGED vars
  BY <1>10 DEF vars, regs, reading, ReadInOrder, NoDataYet, DataReadyIsWhole, Answer
<1> QED
  BY <1>1, <1>2, <1>3, <1>4, <1>5, <1>6, <1>7, <1>8, <1>9, <1>10 DEF Next, Tick

LEMMA InitIInv == Init => IInv
<1> SUFFICES ASSUME Init PROVE IInv
  OBVIOUS
<1>1. asked \in [disc : Names, lba : Nat, count : Nat]
  BY DEF Init, Names
<1>2. flags \in SUBSET {"ready", "data", "error"} /\ buffer \in Seq(Entry)
  BY DEF Init
<1>3. /\ state \in {"NoDisc", "SpinningUp", "Ready", "Reading", "Paused"}
      /\ arg0 \in Nat /\ arg1 \in Nat /\ lba \in Nat /\ remaining \in Nat
  BY DEF Init
<1>4. disc \in Media \union {NoMedium} /\ root \in Media \union {NoMedium}
  BY DEF Init
<1>5. ReadInOrder /\ NoDataYet /\ DataReadyIsWhole
  BY DEF Init, ReadInOrder, NoDataYet, DataReadyIsWhole
<1> QED
  BY <1>1, <1>2, <1>3, <1>4, <1>5 DEF IInv, Types

LEMMA IInvHolds == Spec => []IInv
  BY InitIInv, NextKeeps, PTL DEF Spec

(* A read in progress is exactly where it should be, whatever a program    *)
(* writes in the middle and whatever disc comes and goes.                  *)
THEOREM ReadInOrderHolds == Spec => []ReadInOrder
<1>1. IInv => ReadInOrder
  BY DEF IInv
<1> QED
  BY <1>1, IInvHolds, PTL

(* Data ready speaks of a whole answer, for every request and every disc.  *)
THEOREM DataReadyIsWholeHolds == Spec => []DataReadyIsWhole
<1>1. IInv => DataReadyIsWhole
  BY DEF IInv
<1> QED
  BY <1>1, IInvHolds, PTL
-----------------------------------------------------------------------------
(* The rest of the type invariant: a sector in the buffer is a disc's.     *)
EntryOK(e) ==
  \/ Len(e) = 2 /\ e[1] \in { m.id : m \in Media } /\ e[2] \in Nat
  \/ Len(e) = 3 /\ e[1] = "list"

Rest ==
  /\ cmd \in {0} \union Commands /\ listed \in BOOLEAN /\ swaps \in 0..MaxSwaps
  /\ \A k \in DOMAIN buffer : EntryOK(buffer[k])

LEMMA ExecuteTyped ==
  ASSUME Rest, NEW c, Execute(c)
  PROVE  listed' \in BOOLEAN /\ \A k \in DOMAIN buffer' : EntryOK(buffer'[k])
<1>1. buffer' = buffer \/ buffer' = <<>> \/ buffer' = <<<<"list", root.id, disc.id>>>>
  BY DEF Execute, StartRead, SetState, Mount, List, Listing
<1>2. listed' \in BOOLEAN
  BY DEF Rest, Execute, StartRead, SetState, Mount, List
<1>3. EntryOK(<<"list", root.id, disc.id>>)
  BY DEF EntryOK
<1> QED
  BY <1>1, <1>2, <1>3 DEF Rest

LEMMA RestKept == IInv /\ Rest /\ [Next]_vars => Rest'
<1> SUFFICES ASSUME IInv, Rest, [Next]_vars PROVE Rest'
  OBVIOUS
<1> USE DEF Rest
<1>1. CASE EjectDisc \/ \E m \in Media : InsertDisc(m)
  BY <1>1, CdromAssumption DEF EjectDisc, InsertDisc, regs, CdromAssumption
<1>2. CASE WriteCommandLane \/ \E c \in Commands : WriteCommand(c)
  BY <1>2, ExecuteTyped DEF WriteCommandLane, WriteCommand, regs
<1>3. CASE WriteArguments \/ SpinUp \/ ReadError \/ ReadNothing \/ UNCHANGED vars
  BY <1>3 DEF WriteArguments, SpinUp, ReadError, ReadNothing, regs, vars
<1>4. CASE ReadSector
  <2> DEFINE e == Sector(disc, lba)
  <2>1. buffer' = Append(buffer, e) /\ lba < disc.size /\ UNCHANGED <<cmd, listed, swaps>>
    BY <1>4 DEF ReadSector, regs
  <2>2. disc \in Media /\ lba \in Nat
    BY <2>1 DEF IInv, Types, NoMedium
  <2>3. EntryOK(e)
    BY <2>2 DEF EntryOK, Sector
  <2> HIDE DEF e
  <2>4. \A k \in DOMAIN buffer' : (k \in DOMAIN buffer /\ buffer'[k] = buffer[k]) \/ buffer'[k] = e
    <3>1. buffer \in Seq(Entry)
      BY DEF IInv, Types
    <3> QED
      BY <2>1, <3>1
  <2> QED
    BY <2>1, <2>3, <2>4
<1> QED
  BY <1>1, <1>2, <1>3, <1>4 DEF Next, Tick

(* Every field of the drive keeps its type, and the buffer holds sectors   *)
(* of discs that exist or a listing, for every set of discs.               *)
THEOREM TypeCorrect == Spec => []TypeOK
<1>1. Init => Rest
  <2> SUFFICES ASSUME Init PROVE Rest
    OBVIOUS
  <2>1. cmd \in {0} \union Commands /\ listed \in BOOLEAN
    BY DEF Init
  <2>2. swaps \in 0..MaxSwaps
    BY CdromAssumption DEF Init, CdromAssumption
  <2>3. \A k \in DOMAIN buffer : FALSE
    BY DEF Init
  <2> QED
    BY <2>1, <2>2, <2>3 DEF Rest
<1>2. IInv /\ Rest => TypeOK
  BY DEF IInv, Types, Rest, EntryOK, TypeOK
<1>3. Spec => []Rest
  BY <1>1, RestKept, IInvHolds, PTL DEF Spec
<1> QED
  BY <1>2, <1>3, IInvHolds, PTL
-----------------------------------------------------------------------------
(* The refinement.  Open is the request as SectorReader sees it.           *)
Open == IF state = "Reading"
        THEN [lba |-> lba - Len(buffer), count |-> remaining + Len(buffer)]
        ELSE [lba |-> 0, count |-> 0]

LEMMA OpenIsAsked ==
  ASSUME IInv, state = "Reading"
  PROVE  Open = [lba |-> asked.lba, count |-> asked.count]
<1>1. Len(buffer) \in Nat /\ asked.lba \in Nat /\ asked.count \in Nat /\ remaining \in Nat
  BY DEF IInv, Types
<1>2. lba = asked.lba + Len(buffer) /\ Len(buffer) + remaining = asked.count
  BY DEF IInv, ReadInOrder
<1>3. lba - Len(buffer) = asked.lba /\ remaining + Len(buffer) = asked.count
  BY <1>1, <1>2
<1> QED
  BY <1>3 DEF Open

(* A step that leaves no read open, and the disc, the buffer and "data" as *)
(* they were, drops a request or does nothing.                             *)
LEMMA EndsRead ==
  ASSUME state' # "Reading", UNCHANGED <<disc, buffer>>,
         ("data" \in flags') = ("data" \in flags)
  PROVE  Reader!Next \/ UNCHANGED Reader!vars
<1>1. CASE state = "Reading"
  <2>1. Reader!Drop
    BY <1>1 DEF Reader!Drop, Reader!Close, Reader!NoRequest
  <2> QED
    BY <2>1 DEF Reader!Next
<1>2. CASE state # "Reading"
  BY <1>2 DEF Reader!vars
<1> QED
  BY <1>1, <1>2

(* A step that touches nothing SectorReader sees is a stutter. *)
LEMMA Stutters ==
  ASSUME UNCHANGED <<state, flags, lba, remaining, buffer, disc>>
  PROVE  UNCHANGED Reader!vars
  BY DEF Reader!vars

LEMMA ExecuteRefines ==
  ASSUME IInv, NEW c, Execute(c)
  PROVE  Reader!Next \/ UNCHANGED Reader!vars
<1>1. CASE c = 1 /\ StartRead /\ state = "Ready"
  <2>1. /\ lba' = arg0 /\ remaining' = arg1 /\ buffer' = <<>> /\ state' = "Reading"
        /\ flags' = flags \ {"data", "error"} /\ disc' = disc
    BY <1>1 DEF StartRead, StartFlags
  <2>2. arg0 \in Nat /\ arg1 \in Nat
    BY DEF IInv, Types
  <2>3. lba' - Len(buffer') = arg0 /\ remaining' + Len(buffer') = arg1
    BY <2>1, <2>2
  <2>4. Open' = [lba |-> arg0, count |-> arg1]
    BY <2>1, <2>3 DEF Open
  <2>5. Open' \in [lba : Nat, count : Nat]
    BY <2>2, <2>4
  <2>6. Reader!Accept
    BY <1>1, <2>1, <2>5 DEF Reader!Accept, Open
  <2> QED
    BY <2>6 DEF Reader!Next
<1>2. CASE \/ c = 1 /\ StartRead /\ state # "Ready"
           \/ c = 16 /\ Mount
  BY <1>2, Stutters DEF StartRead, Mount, reading
<1>3. CASE \E s \in {"Paused", "Ready"} : SetState(s)
  BY <1>3, EndsRead DEF SetState
<1>4. CASE c = 17 /\ List
  <2>1. state' = "Ready" /\ disc' = disc /\ flags' = flags /\ buffer' = Listing
    BY <1>4 DEF List
  <2>2. Listing \in {<<>>} \union { <<<<"list", m.id, n.id>>>> : m, n \in Media }
    BY DEF Listing, IInv, Types
  <2>3. Reader!List
    BY <2>1, <2>2 DEF Reader!List, Reader!Close, Reader!NoRequest
  <2> QED
    BY <2>3 DEF Reader!Next
<1> QED
  BY <1>1, <1>2, <1>3, <1>4 DEF Execute

LEMMA ReadSectorRefines ==
  ASSUME IInv, ReadSector
  PROVE  Reader!Next
<1>1. /\ state = "Reading" /\ remaining > 0 /\ lba < disc.size
      /\ buffer' = Append(buffer, Sector(disc, lba)) /\ disc' = disc
      /\ remaining' = remaining - 1 /\ lba' = lba + 1 /\ asked' = asked
      /\ \/ remaining = 1 /\ state' = "Ready" /\ flags' = flags \union {"data"}
         \/ remaining # 1 /\ UNCHANGED <<state, flags>>
  BY DEF ReadSector, More, Last
<1>2. /\ Len(buffer) \in Nat /\ lba \in Nat /\ remaining \in Nat
      /\ lba = asked.lba + Len(buffer) /\ Len(buffer) + remaining = asked.count
      /\ asked.lba \in Nat /\ asked.count \in Nat
  BY <1>1 DEF IInv, Types, ReadInOrder
<1>3. Open = [lba |-> asked.lba, count |-> asked.count]
  BY <1>1, OpenIsAsked
<1>4. Open.lba + Len(buffer) = lba /\ Len(buffer) < Open.count
  BY <1>1, <1>2, <1>3
<1>5. Len(buffer') = Len(buffer) + 1
  BY <1>1 DEF IInv, Types
<1>6. CASE remaining = 1
  <2>1. Len(buffer') = Open.count
    BY <1>2, <1>3, <1>5, <1>6
  <2>2. state' = "Ready" /\ "data" \in flags'
    BY <1>1, <1>6
  <2> QED
    BY <1>1, <1>4, <2>1, <2>2
    DEF Open, Sector, Reader!Next, Reader!Deliver, Reader!Upcoming, Reader!Sector,
        Reader!Close, Reader!NoRequest
<1>7. CASE remaining # 1
  <2>1. Len(buffer') # Open.count /\ UNCHANGED <<state, flags>>
    BY <1>1, <1>2, <1>3, <1>5, <1>7
  <2>2. Open' = Open
    <3>1. IInv'
      BY NextKeeps DEF Next, Tick
    <3>2. lba' - Len(buffer') = asked.lba /\ remaining' + Len(buffer') = asked.count
      BY <1>1, <1>2, <1>5
    <3> QED
      BY <1>1, <1>3, <2>1, <3>2 DEF Open
  <2> QED
    BY <1>1, <1>4, <2>1, <2>2
    DEF Open, Sector, Reader!Next, Reader!Deliver, Reader!Upcoming, Reader!Sector
<1> QED
  BY <1>6, <1>7

LEMMA NextRefines ==
  ASSUME IInv, [Next]_vars
  PROVE  Reader!Next \/ UNCHANGED Reader!vars
<1>1. ASSUME NEW m \in Media, InsertDisc(m)
      PROVE  Reader!Next
  BY <1>1 DEF InsertDisc, InsertState, Reader!Next, Reader!Swap, Reader!Close, Reader!NoRequest
<1>2. CASE EjectDisc
  BY <1>2 DEF EjectDisc, Reader!Next, Reader!Swap, Reader!Close, Reader!NoRequest, NoMedium
<1>3. CASE WriteCommandLane \/ \E c \in Commands : WriteCommand(c)
  BY <1>3, ExecuteRefines DEF WriteCommandLane, WriteCommand
<1>4. CASE WriteArguments
  BY <1>4, Stutters DEF WriteArguments, reading
<1>5. CASE SpinUp
  BY <1>5, EndsRead DEF SpinUp
<1>6. CASE ReadSector
  BY <1>6, ReadSectorRefines
<1>7. CASE ReadError
  BY <1>7, EndsRead DEF ReadError, Failed
<1>8. CASE ReadNothing
  BY <1>8, EndsRead DEF ReadNothing
<1>9. CASE UNCHANGED vars
  BY <1>9, Stutters DEF vars, reading
<1> QED
  BY <1>1, <1>2, <1>3, <1>4, <1>5, <1>6, <1>7, <1>8, <1>9 DEF Next, Tick

(* The drive implements the reader a program may think of: whatever is     *)
(* commanded, swapped or rewritten, each step is one of SectorReader's or  *)
(* changes nothing that it sees.                                           *)
THEOREM DriveReadsSectors == Spec => ReadsSectors
<1>1. Init => Reader!Init
  BY DEF Init, Reader!Init, Reader!NoRequest
<1>2. IInv /\ [Next]_vars => [Reader!Next]_(Reader!vars)
  BY NextRefines
<1> QED
  BY <1>1, <1>2, IInvHolds, PTL DEF Spec, ReadsSectors
=============================================================================
