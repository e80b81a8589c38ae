------------------------------ MODULE SaveProofs ------------------------------
(***************************************************************************)
(* Theorems about SaveState for every machine, every program and every     *)
(* number of sessions, saves and saves that are cut short.                 *)
(***************************************************************************)
EXTENDS SaveState, SequenceTheorems, WellFoundedInduction, TLAPS

\* What a load takes of a file is the first sections of one save, in order.
OneSave(f) ==
  \E n \in 0..9 : \E k :
    /\ DOMAIN Applied(f) = 1..n
    /\ \A i \in 1..n : Applied(f)[i].id = SectionOrder[i] /\ Applied(f)[i].of = k

IInv == OneSave(file) /\ OneMachine

\* The lines are down, and the PowerPC is held, until the first turn of the
\* ColdFire: no tick comes before it.  After it no halted ColdFire leaves the
\* PowerPC held.
FirstTurn ==
  /\ {"cf", "ppc", "hold", "first"} \subseteq DOMAIN cpus
  /\ cpus.first => lines = {} /\ cpus.hold
  /\ ~cpus.first /\ cpus.cf => ~cpus.hold
-----------------------------------------------------------------------------
(* The nine sections have nine names. *)
LEMMA NineSections ==
  /\ Len(SectionOrder) = 9 /\ DOMAIN SectionOrder = 1..9
  /\ \A i, j \in 1..9 : SectionOrder[i] = SectionOrder[j] => i = j
  /\ \A i \in 1..9 : SectionOrder[i] \in Sections
<1>1. Len(SectionOrder) = 9 /\ DOMAIN SectionOrder = 1..9
  BY DEF SectionOrder
<1>2. \A i, j \in 1..9 : SectionOrder[i] = SectionOrder[j] => i = j
  BY DEF SectionOrder
<1>3. Sections = { SectionOrder[i] : i \in DOMAIN SectionOrder }
  BY DEF Sections, ToSet
<1> QED
  BY <1>1, <1>2, <1>3

(* A file of no sections is the beginning of any save. *)
LEMMA EmptyIsOneSave ==
  ASSUME NEW f, Applied(f) = <<>>
  PROVE  OneSave(f)
<1>1. DOMAIN Applied(f) = 1..0
  OBVIOUS
<1>2. 0 \in 0..9
  OBVIOUS
<1> QED
  BY <1>1, <1>2 DEF OneSave

\* The first n sections of save k, over the data g.
SectionsOf(n, g, k) == [i \in 1..n |-> Section(SectionOrder[i], g[i], k)]

\* A load takes those and nothing else of file f.
LoadsAs(f, n, g, k) ==
  /\ DOMAIN Applied(f) = 1..n
  /\ \A i \in 1..n : Applied(f)[i] = Section(SectionOrder[i], g[i], k)

(* A load takes everything of a file in which nothing is short. *)
LEMMA WrittenIsApplied ==
  ASSUME NEW n \in 0..9, NEW g, NEW k, NEW old
  PROVE  LoadsAs(Written(old, SectionsOf(n, g, k)), n, g, k)
<1> DEFINE secs == [i \in 1..n |-> Section(SectionOrder[i], g[i], k)]
           f == Written(old, secs)
           S == { Section(SectionOrder[i], g[i], k) : i \in 1..n }
<1>1. f.header = "good" /\ f.secs = secs
  BY DEF Written
<1>2. secs \in Seq(S) /\ Len(secs) = n /\ DOMAIN secs = 1..n
  OBVIOUS
<1>3. \A i \in 1..n : secs[i].short = FALSE /\ secs[i].id = SectionOrder[i] /\ secs[i].of = k
  BY DEF Section
<1> DEFINE refused == { i \in DOMAIN f.secs : f.secs[i].short /\ f.secs[i].id \in Checked }
<1>4. refused = {}
  BY <1>1, <1>2, <1>3
<1> HIDE DEF f, S
<1>5. Min(refused \union {Len(f.secs) + 1}) = n + 1
  <2>1. refused \union {Len(f.secs) + 1} = {n + 1}
    BY <1>1, <1>2, <1>4
  <2>2. \A x : x \in {n + 1} /\ (\A y \in {n + 1} : x <= y) => x = n + 1
    OBVIOUS
  <2>3. n + 1 \in {n + 1} /\ \A y \in {n + 1} : n + 1 <= y
    OBVIOUS
  <2> QED
    BY <2>1, <2>2, <2>3 DEF Min
<1>6. Applied(f) = SubSeq(f.secs, 1, Min(refused \union {Len(f.secs) + 1}) - 1)
  BY <1>1 DEF Applied
<1>7. Applied(f) = SubSeq(secs, 1, n)
  <2> DEFINE m == Min(refused \union {Len(f.secs) + 1}) - 1
  <2>1. m = n
    <3>1. \A x : x = n + 1 => x - 1 = n
      OBVIOUS
    <3> QED
      BY <1>5, <3>1
  <2>2. Applied(f) = SubSeq(f.secs, 1, m)
    BY <1>6
  <2> HIDE DEF m
  <2> QED
    BY <1>1, <2>1, <2>2
<1>8. /\ SubSeq(secs, 1, n) \in Seq(S) /\ Len(SubSeq(secs, 1, n)) = n
      /\ \A i \in 1..n : SubSeq(secs, 1, n)[i] = secs[i]
  <2>1. \A i \in 1..n : secs[i] \in S
    BY <1>2, LenProperties
  <2>2. /\ SubSeq(secs, 1, n) \in Seq(S)
        /\ Len(SubSeq(secs, 1, n)) = IF 1 <= n THEN n - 1 + 1 ELSE 0
        /\ \A i \in 1..(n - 1 + 1) : SubSeq(secs, 1, n)[i] = secs[1 + i - 1]
    BY <2>1, SubSeqProperties
  <2>3. n - 1 + 1 = n /\ (1 <= n \/ n = 0) /\ \A i \in 1..n : 1 + i - 1 = i
    OBVIOUS
  <2> QED
    BY <2>2, <2>3
<1>9. DOMAIN Applied(f) = 1..n /\ \A i \in 1..n : Applied(f)[i] = secs[i]
  BY <1>7, <1>8, LenProperties
<1>10. \A i \in 1..n : secs[i] = Section(SectionOrder[i], g[i], k)
  OBVIOUS
<1> QED
  BY <1>9, <1>10 DEF f, SectionsOf, LoadsAs

(* Such a file is of one save. *)
LEMMA WrittenIsOneSave ==
  ASSUME NEW n \in 0..9, NEW g, NEW k, NEW old
  PROVE  OneSave(Written(old, SectionsOf(n, g, k)))
<1> DEFINE f == Written(old, SectionsOf(n, g, k))
<1>1. LoadsAs(f, n, g, k)
  BY WrittenIsApplied
<1> HIDE DEF f
<1>2. DOMAIN Applied(f) = 1..n
      /\ \A i \in 1..n : Applied(f)[i].id = SectionOrder[i] /\ Applied(f)[i].of = k
  BY <1>1 DEF LoadsAs, Section
<1> QED
  BY <1>2 DEF f, OneSave

(* A machine made of such a file is one machine. *)
LEMMA LoadedIsOneMachine ==
  ASSUME NEW f, OneSave(f), NEW o,
         o = [s \in Sections |-> IF Has(f, s) THEN Got(f, s).of ELSE 0]
  PROVE  \A i, j \in 1..9 :
           i < j /\ o[SectionOrder[j]] # 0 => o[SectionOrder[i]] = o[SectionOrder[j]]
<1> PICK n \in 0..9 : \E k :
      /\ DOMAIN Applied(f) = 1..n
      /\ \A i \in 1..n : Applied(f)[i].id = SectionOrder[i] /\ Applied(f)[i].of = k
  BY DEF OneSave
<1> PICK k :
      /\ DOMAIN Applied(f) = 1..n
      /\ \A i \in 1..n : Applied(f)[i].id = SectionOrder[i] /\ Applied(f)[i].of = k
  OBVIOUS
<1> DEFINE at(j) == { i \in DOMAIN Applied(f) : Applied(f)[i].id = SectionOrder[j] }
<1>1. \A j \in 1..9 : j <= n => at(j) = {j}
  BY NineSections
<1>2. \A j \in 1..9 : j > n => at(j) = {}
  BY NineSections
<1>3. \A j \in 1..9 : Has(f, SectionOrder[j]) <=> at(j) # {}
  BY DEF Has
<1>4. \A j \in 1..9 : Got(f, SectionOrder[j]) = Applied(f)[Max(at(j))]
  BY DEF Got
<1> HIDE DEF at
<1>5. \A j \in 1..9 : j <= n => Max(at(j)) = j
  <2> TAKE j \in 1..9
  <2> HAVE j <= n
  <2>1. at(j) = {j}
    BY <1>1
  <2>2. \A x : x \in {j} /\ (\A y \in {j} : x >= y) => x = j
    OBVIOUS
  <2>3. j \in {j} /\ \A y \in {j} : j >= y
    OBVIOUS
  <2> QED
    BY <2>1, <2>2, <2>3 DEF Max
<1>6. \A j \in 1..9 : o[SectionOrder[j]] = IF j <= n THEN k ELSE 0
  <2> TAKE j \in 1..9
  <2>1. SectionOrder[j] \in Sections
    BY NineSections
  <2>2. CASE j <= n
    <3>1. at(j) = {j} /\ Max(at(j)) = j
      BY <1>1, <1>5, <2>2
    <3>2. j \in 1..n
      BY <2>2
    <3>3. Has(f, SectionOrder[j]) /\ Got(f, SectionOrder[j]) = Applied(f)[j]
      BY <1>3, <1>4, <3>1
    <3> QED
      BY <2>1, <2>2, <3>2, <3>3
  <2>3. CASE ~(j <= n)
    <3>1. at(j) = {}
      BY <1>2, <2>3
    <3> QED
      BY <1>3, <2>1, <2>3, <3>1
  <2> QED
    BY <2>2, <2>3
<1>7. ASSUME NEW i \in 1..9, NEW j \in 1..9, i < j, o[SectionOrder[j]] # 0
      PROVE  o[SectionOrder[i]] = o[SectionOrder[j]]
  <2>1. j <= n
    BY <1>6, <1>7
  <2>2. i <= n
    BY <1>7, <2>1
  <2> QED
    BY <1>6, <2>1, <2>2
<1> QED
  BY <1>7
-----------------------------------------------------------------------------
(* Whatever was saved, cut short and written over before, a machine is     *)
(* made of the first sections of one save and of a new machine.            *)
THEOREM MachineIsOne == Spec => []OneMachine
<1>0. DOMAIN SectionOrder = 1..9 /\ Len(SectionOrder) = 9
  BY NineSections
<1>1. ASSUME Init PROVE IInv
  <2>1. Applied(NoFile) = <<>>
    BY DEF NoFile, Applied
  <2>2. OneSave(file)
    BY <1>1, <2>1, EmptyIsOneSave, SaveAssumption DEF Init
  <2>3. \A j \in 1..9 : origin[SectionOrder[j]] = 0
    BY <1>1, NineSections DEF Init
  <2> QED
    BY <1>0, <2>2, <2>3 DEF IInv, OneMachine
<1>2. ASSUME IInv, [Next]_vars PROVE IInv'
  <2>0. OneSave(NoFile)
    <3>1. Applied(NoFile) = <<>>
      BY DEF NoFile, Applied
    <3> QED
      BY <3>1, EmptyIsOneSave
  <2>1. ASSUME file' = file, origin' = origin PROVE IInv'
    BY <1>2, <2>1 DEF IInv, OneMachine
  <2>2. ASSUME NEW n \in 0..Len(SectionOrder), Save(n) PROVE IInv'
    <3> DEFINE g == [i \in 1..n |-> Data(SectionOrder[i])]
               secs == [i \in 1..n |-> Section(SectionOrder[i], Data(SectionOrder[i]), sessions)]
    <3>1. file' = Written(file, secs) /\ origin' = origin
      BY <2>2 DEF Save, history
    <3>2. secs = SectionsOf(n, g, sessions)
      BY DEF SectionsOf
    <3> HIDE DEF g, secs
    <3>3. OneSave(file')
      BY <1>0, <3>1, <3>2, WrittenIsOneSave
    <3> QED
      BY <1>2, <3>1, <3>3 DEF IInv, OneMachine
  <2>3. ASSUME NEW f \in {file, NoFile}, PowerOn(f) PROVE IInv'
    <3>1. OneSave(f)
      BY <1>2, <2>0 DEF IInv
    <3>2. origin' = [s \in Sections |-> IF Has(f, s) THEN Got(f, s).of ELSE 0] /\ file' = file
      BY <2>3 DEF PowerOn
    <3>3. \A i, j \in 1..9 :
            i < j /\ origin'[SectionOrder[j]] # 0 => origin'[SectionOrder[i]] = origin'[SectionOrder[j]]
      BY <3>1, <3>2, LoadedIsOneMachine
    <3> QED
      BY <1>0, <1>2, <3>2, <3>3 DEF IInv, OneMachine
  <2>4. CASE PutInDisc \/ Quit \/ Tick \/ CfTurn \/ PpcTurn \/ StoreWord
    BY <2>1, <2>4 DEF PutInDisc, Quit, Tick, CfTurn, PpcTurn, StoreWord, history
  <2>5. CASE StartCopy \/ RestartDma \/ Kick \/ CommandDrive
    BY <2>1, <2>5 DEF StartCopy, RestartDma, Kick, CommandDrive, history
  <2>6. CASE UNCHANGED vars
    BY <2>1, <2>6 DEF vars, history
  <2> QED
    BY <1>2, <2>2, <2>3, <2>4, <2>5, <2>6 DEF Next
<1>3. IInv => OneMachine
  BY DEF IInv
<1> QED
  BY <1>1, <1>2, <1>3, PTL DEF Spec
-----------------------------------------------------------------------------
DriveStates == {"NoDisc", "SpinningUp", "Ready", "Reading", "Paused"}

IsSeq(s) == \E S : s \in Seq(S)

\* The frames a GPU with registers g has shown or will show, in state s.
Kept(g, s) == g.frame + (IF g.kick THEN 1 ELSE 0) + (IF s = "Idle" THEN 0 ELSE 1)

\* What a section of each name holds.
SectionOK(x) ==
  /\ x.id = "PPC" => DOMAIN x.data = {"ppc"} /\ x.data.ppc \in BOOLEAN
  /\ x.id = "CF" => DOMAIN x.data = {"cf"} /\ x.data.cf \in BOOLEAN
  /\ x.id = "GPU" =>
       /\ DOMAIN x.data = {"kick", "list", "reg4", "blank", "frame", "kicks"}
       /\ x.data.kick \in BOOLEAN /\ x.data.frame \in Nat /\ x.data.kicks \in Nat
       /\ Kept(x.data, "Idle") <= x.data.kicks
       /\ x.data.kicks - Kept(x.data, "Idle") <= x.of
  /\ x.id = "CDROM" =>
       /\ DOMAIN x.data = {"state", "flags", "cmd", "arg0", "arg1", "lba", "remaining", "asked"}
       /\ x.data.state \in DriveStates
       /\ \A n \in {"arg0", "arg1", "lba", "remaining"} : x.data[n] \in Nat
       /\ x.data.state = "Reading" => "data" \notin x.data.flags
  /\ x.id = "DMA" =>
       /\ DOMAIN x.data = {"ch", "job"} /\ DOMAIN x.data.ch = Chan
       /\ \A c \in Chan : /\ DOMAIN x.data.ch[c] = {"src", "dst", "size", "status"}
                          /\ x.data.ch[c].status \in {{}, {"busy"}, {"done"}}

\* The sections a load takes are as they should be, and of earlier sessions.
FileOK(f, s) ==
  \A i \in DOMAIN Applied(f) : Applied(f)[i].of \in 1..s /\ SectionOK(Applied(f)[i])

\* A channel whose status and engine agree, unless a file came between them.
ChannelOK(r, o) ==
  /\ DOMAIN r = {"src", "dst", "size", "status", "state", "burst"}
  /\ r.status \in {{}, {"busy"}, {"done"}} /\ r.state \in {"Idle", "Bursting", "Done"}
  /\ r.state = "Bursting" => r.status = {"busy"}
  /\ r.status = {"busy"} /\ r.state # "Bursting" => r.state = "Idle" /\ o # 0

ChannelsOK ==
  /\ ch = [c \in Chan |-> ch[c]]
  /\ \A c \in Chan : ChannelOK(ch[c], origin["DMA"])

FramesOK ==
  /\ DOMAIN gpu = {"state", "kick", "list", "reg4", "blank", "frame"}
  /\ gpu.state \in {"Idle", "VerticalBlank"} /\ gpu.kick \in BOOLEAN /\ gpu.frame \in Nat /\ kicks \in Nat
  /\ Kept(gpu, gpu.state) <= kicks
  /\ kicks - Kept(gpu, gpu.state) < IF sessions = 0 THEN 1 ELSE sessions

\* A read that goes on in a drive with a disc was accepted by this machine, and
\* has the sectors that it should have by now.  A buffer that is said to be
\* ready is whole, or has been left behind by a load.
DriveOK ==
  /\ state \in DriveStates
  /\ arg0 \in Nat /\ arg1 \in Nat /\ lba \in Nat /\ remaining \in Nat
  /\ disc.size \in Nat /\ IsSeq(buffer)
  /\ state = "Reading" /\ disc # Drive!NoMedium =>
       /\ disc.id = asked.disc /\ Len(buffer) + remaining = asked.count
       /\ asked.lba \in Nat /\ lba = asked.lba + Len(buffer)
       /\ buffer = Drive!Answer(Len(buffer))
  /\ state = "Reading" => "data" \notin flags
  /\ "data" \in flags => listed \/ buffer = <<>> \/ buffer = Drive!Answer(asked.count)

SaveInv ==
  /\ OneSave(file) /\ FileOK(file, sessions)
  /\ phase \in {"off", "loaded", "on"} /\ sessions \in 0..MaxSessions
  /\ phase # "off" => sessions > 0
  /\ cpus \in [{"cf", "ppc", "hold", "first"} -> BOOLEAN]
  /\ ChannelsOK /\ FramesOK /\ DriveOK

(* A section found in a file is one of those a load takes. *)
LEMMA RestoredFrom ==
  ASSUME NEW f, OneSave(f), NEW id
  PROVE  Has(f, id) => \E i \in DOMAIN Applied(f) :
                         Applied(f)[i].id = id /\ Got(f, id) = Applied(f)[i]
<1> SUFFICES ASSUME Has(f, id)
             PROVE  \E i \in DOMAIN Applied(f) : Applied(f)[i].id = id /\ Got(f, id) = Applied(f)[i]
  OBVIOUS
<1>1. PICK i \in DOMAIN Applied(f) : Applied(f)[i].id = id
  BY DEF Has
<1> DEFINE at == { x \in DOMAIN Applied(f) : Applied(f)[x].id = id }
<1>2. at = {i}
  BY <1>1, NineSections DEF OneSave
<1>3. Got(f, id) = Applied(f)[Max(at)]
  BY DEF Got
<1> HIDE DEF at
<1>4. Max(at) = i
  <2>1. i \in Int
    BY <1>1 DEF OneSave
  <2>2. \A x : x \in {i} /\ (\A y \in {i} : x >= y) => x = i
    OBVIOUS
  <2>3. i \in {i} /\ \A y \in {i} : i >= y
    BY <2>1
  <2> QED
    BY <1>2, <2>2, <2>3 DEF Max
<1> QED
  BY <1>1, <1>3, <1>4

(* What the sections of a save hold. *)
LEMMA DataOf ==
  /\ Data("PPC") = [ppc |-> cpus.ppc] /\ Data("CF") = [cf |-> cpus.cf]
  /\ Data("GPU") = [kick |-> gpu.kick, list |-> gpu.list, reg4 |-> gpu.reg4, blank |-> gpu.blank,
                    frame |-> gpu.frame, kicks |-> kicks]
  /\ Data("CDROM") = [state |-> state, flags |-> flags, cmd |-> cmd, arg0 |-> arg0, arg1 |-> arg1,
                      lba |-> lba, remaining |-> remaining, asked |-> asked]
  /\ Data("DMA") = [ch |-> [c \in Chan |-> Registers(ch[c])], job |-> job]
BY Zenon DEF Data

(* What a save writes of a sound machine is sound. *)
LEMMA SavedIsOK ==
  ASSUME SaveInv, sessions > 0, NEW s \in Sections, NEW x, x = Section(s, Data(s), sessions)
  PROVE  x.of \in 1..sessions /\ SectionOK(x)
<1>1. x.id = s /\ x.data = Data(s) /\ x.of = sessions
  BY DEF Section
<1>2. sessions \in Nat
  BY DEF SaveInv
<1>3. s = "PPC" => DOMAIN x.data = {"ppc"} /\ x.data.ppc \in BOOLEAN
  BY <1>1, DataOf DEF SaveInv
<1>4. s = "CF" => DOMAIN x.data = {"cf"} /\ x.data.cf \in BOOLEAN
  BY <1>1, DataOf DEF SaveInv
<1>5. s = "GPU" => SectionOK(x)
  <2> SUFFICES ASSUME s = "GPU" PROVE SectionOK(x)
    OBVIOUS
  <2>1. /\ DOMAIN x.data = {"kick", "list", "reg4", "blank", "frame", "kicks"}
        /\ x.data.kick = gpu.kick /\ x.data.frame = gpu.frame /\ x.data.kicks = kicks
    BY <1>1, DataOf
  <2>2. /\ gpu.kick \in BOOLEAN /\ gpu.frame \in Nat /\ kicks \in Nat
        /\ Kept(gpu, gpu.state) <= kicks /\ kicks - Kept(gpu, gpu.state) < sessions
    BY <1>2 DEF SaveInv, FramesOK
  <2>3. Kept(x.data, "Idle") <= kicks /\ kicks - Kept(x.data, "Idle") <= sessions
    BY <1>2, <2>1, <2>2 DEF Kept
  <2> QED
    BY <1>1, <2>1, <2>2, <2>3 DEF SectionOK
<1>6. s = "CDROM" =>
        /\ DOMAIN x.data = {"state", "flags", "cmd", "arg0", "arg1", "lba", "remaining", "asked"}
        /\ x.data.state \in DriveStates
        /\ \A n \in {"arg0", "arg1", "lba", "remaining"} : x.data[n] \in Nat
        /\ x.data.state = "Reading" => "data" \notin x.data.flags
  BY <1>1, DataOf DEF SaveInv, DriveOK
<1>7. s = "DMA" =>
        /\ DOMAIN x.data = {"ch", "job"} /\ DOMAIN x.data.ch = Chan
        /\ \A c \in Chan : /\ DOMAIN x.data.ch[c] = {"src", "dst", "size", "status"}
                           /\ x.data.ch[c].status \in {{}, {"busy"}, {"done"}}
  <2> SUFFICES ASSUME s = "DMA"
               PROVE  /\ DOMAIN x.data = {"ch", "job"} /\ DOMAIN x.data.ch = Chan
                      /\ \A c \in Chan : /\ DOMAIN x.data.ch[c] = {"src", "dst", "size", "status"}
                                         /\ x.data.ch[c].status \in {{}, {"busy"}, {"done"}}
    OBVIOUS
  <2>1. DOMAIN x.data = {"ch", "job"} /\ x.data.ch = [c \in Chan |-> Registers(ch[c])]
    BY <1>1, DataOf
  <2> QED
    BY <2>1 DEF Registers, SaveInv, ChannelsOK, ChannelOK
<1> QED
  BY <1>1, <1>2, <1>3, <1>4, <1>5, <1>6, <1>7 DEF SectionOK

LEMMA SaveKeeps ==
  ASSUME SaveInv, NEW n \in 0..Len(SectionOrder), Save(n)
  PROVE  SaveInv'
<1> DEFINE g == [i \in 1..n |-> Data(SectionOrder[i])]
           secs == [i \in 1..n |-> Section(SectionOrder[i], Data(SectionOrder[i]), sessions)]
<1>1. file' = Written(file, secs) /\ phase = "on" /\ phase' = "off"
  BY DEF Save
<1>2. secs = SectionsOf(n, g, sessions) /\ n \in 0..9
  BY NineSections DEF SectionsOf
<1>3. UNCHANGED <<ch, gpu, cpus, kicks, sessions, origin>>
      /\ UNCHANGED <<state, flags, arg0, arg1, lba, remaining, buffer, disc, asked, listed>>
  BY DEF Save, machine, driveVars, history
<1> HIDE DEF secs
<1>4. /\ DOMAIN Applied(file') = 1..n
      /\ \A i \in 1..n : Applied(file')[i] = Section(SectionOrder[i], g[i], sessions)
  <2>1. LoadsAs(file', n, g, sessions)
    BY <1>1, <1>2, WrittenIsApplied
  <2> QED
    BY <2>1 DEF LoadsAs
<1>5. FileOK(file', sessions)
  <2> SUFFICES ASSUME NEW i \in 1..n
               PROVE  /\ Applied(file')[i].of \in 1..sessions /\ SectionOK(Applied(file')[i])
    BY <1>4 DEF FileOK
  <2>1. SectionOrder[i] \in Sections /\ sessions > 0
    BY <1>1, <1>2, NineSections DEF SaveInv
  <2>2. Applied(file')[i] = Section(SectionOrder[i], Data(SectionOrder[i]), sessions)
    BY <1>4
  <2> QED
    BY <2>1, <2>2, SavedIsOK
<1>6. OneSave(file')
  BY <1>1, <1>2, WrittenIsOneSave
<1> QED
  BY <1>1, <1>3, <1>5, <1>6 DEF SaveInv, ChannelsOK, FramesOK, DriveOK, Kept, Drive!Answer

LEMMA LoadedSection ==
  ASSUME NEW f, OneSave(f), NEW s, FileOK(f, s), NEW id, Has(f, id)
  PROVE  Got(f, id).id = id /\ Got(f, id).of \in 1..s /\ SectionOK(Got(f, id))
<1>1. PICK i \in DOMAIN Applied(f) : Applied(f)[i].id = id /\ Got(f, id) = Applied(f)[i]
  BY RestoredFrom
<1> QED
  BY <1>1 DEF FileOK

(* Whichever of the two sections a file has, both CPUs are whole. *)
LEMMA LoadedCpus ==
  ASSUME NEW f, NEW s, OneSave(f), FileOK(f, s)
  PROVE  Restored(f, "PPC", Restored(f, "CF", NewCpus))
           \in [{"cf", "ppc", "hold", "first"} -> BOOLEAN]
         /\ Restored(f, "PPC", Restored(f, "CF", NewCpus)).hold
         /\ Restored(f, "PPC", Restored(f, "CF", NewCpus)).first
<1> DEFINE F == {"cf", "ppc", "hold", "first"}
           c == Restored(f, "CF", NewCpus)
           p == Restored(f, "PPC", c)
           d == Got(f, "CF").data
           e == Got(f, "PPC").data
<1>1. NewCpus \in [F -> BOOLEAN]
  <2>1. DOMAIN NewCpus = F /\ NewCpus = [x \in F |-> NewCpus[x]]
    BY DEF NewCpus
  <2>2. NewCpus.cf = FALSE /\ NewCpus.ppc = FALSE /\ NewCpus.hold = TRUE /\ NewCpus.first = TRUE
    BY DEF NewCpus
  <2>3. \A x \in F : NewCpus[x] \in BOOLEAN
    BY <2>2, Zenon
  <2> QED
    BY <2>1, <2>3
<1>2. Has(f, "CF") => DOMAIN d = {"cf"} /\ d.cf \in BOOLEAN
  <2>1. Has(f, "CF") => Got(f, "CF").id = "CF" /\ SectionOK(Got(f, "CF"))
    BY LoadedSection, Zenon
  <2> QED
    BY <2>1 DEF SectionOK
<1>3. Has(f, "PPC") => DOMAIN e = {"ppc"} /\ e.ppc \in BOOLEAN
  <2>1. Has(f, "PPC") => Got(f, "PPC").id = "PPC" /\ SectionOK(Got(f, "PPC"))
    BY LoadedSection, Zenon
  <2> QED
    BY <2>1 DEF SectionOK
<1>4. c \in [F -> BOOLEAN] /\ c.hold /\ c.first
  <2>0. NewCpus.hold /\ NewCpus.first
    BY DEF NewCpus
  <2>1. CASE ~Has(f, "CF")
    BY <1>1, <2>0, <2>1 DEF Restored
  <2>2. CASE Has(f, "CF")
    <3>1. c = Over(d, NewCpus)
      BY <2>2 DEF Restored
    <3> HIDE DEF d, c
    <3>2. c = [x \in F |-> IF x = "cf" THEN d[x] ELSE NewCpus[x]]
      BY <1>1, <1>2, <2>2, <3>1 DEF Over
    <3>3. c \in [F -> BOOLEAN]
      BY <1>1, <1>2, <2>2, <3>2
    <3>4. c.hold = NewCpus.hold /\ c.first = NewCpus.first
      BY <3>2
    <3> QED
      BY <2>0, <3>3, <3>4
  <2> QED
    BY <2>1, <2>2
<1> HIDE DEF c
<1>5. p \in [F -> BOOLEAN] /\ p.hold /\ p.first
  <2>1. CASE ~Has(f, "PPC")
    BY <1>4, <2>1 DEF Restored
  <2>2. CASE Has(f, "PPC")
    <3>1. p = Over(e, c)
      BY <2>2 DEF Restored
    <3> HIDE DEF e, p
    <3>2. p = [x \in F |-> IF x \in {"ppc"} THEN e[x] ELSE c[x]]
      BY <1>3, <1>4, <2>2, <3>1 DEF Over
    <3>3. p \in [F -> BOOLEAN]
      BY <1>3, <1>4, <2>2, <3>2
    <3>4. p.hold = c.hold /\ p.first = c.first
      BY <3>2
    <3> QED
      BY <1>4, <3>3, <3>4
  <2> QED
    BY <2>1, <2>2
<1> QED
  BY <1>5 DEF p, c

(* A loaded GPU has shown, or still owes, what the file says of it. *)
LEMMA LoadedFrames ==
  ASSUME NEW f, NEW s \in Nat, OneSave(f), FileOK(f, s), NEW g, NEW h,
         g = Restored(f, "GPU", Over([kicks |-> 0], GpuReset)),
         h = [r \in DOMAIN GpuReset |-> g[r]]
  PROVE  /\ DOMAIN h = {"state", "kick", "list", "reg4", "blank", "frame"}
         /\ h.state = "Idle" /\ h.kick \in BOOLEAN /\ h.frame \in Nat /\ g.kicks \in Nat
         /\ Kept(h, "Idle") <= g.kicks /\ g.kicks - Kept(h, "Idle") <= s
<1> DEFINE new == Over([kicks |-> 0], GpuReset)
           d == Got(f, "GPU").data
           D == {"state", "kick", "list", "reg4", "blank", "frame"}
<1>1. new = [x \in D \union {"kicks"} |-> IF x \in D THEN GpuReset[x] ELSE 0]
  BY DEF GpuReset, Over
<1>2. new.state = "Idle" /\ new.kick = FALSE /\ new.frame = 0 /\ new.kicks = 0
  BY <1>1 DEF GpuReset
<1>3. DOMAIN h = D /\ h.state = g.state /\ h.kick = g.kick /\ h.frame = g.frame
  BY DEF GpuReset
<1> HIDE DEF new
<1>4. CASE ~Has(f, "GPU")
  <2>1. g = new
    BY <1>4 DEF new, Restored
  <2>2. h.state = "Idle" /\ h.kick = FALSE /\ h.frame = 0 /\ g.kicks = 0
    BY <1>2, <1>3, <2>1
  <2>3. Kept(h, "Idle") = 0
    BY <2>2 DEF Kept
  <2>4. h.kick \in BOOLEAN
    BY <2>2, Zenon
  <2> QED
    BY <1>3, <2>2, <2>3, <2>4
<1>5. CASE Has(f, "GPU")
  <2>1. g = Over(d, new)
    BY <1>5 DEF new, Restored
  <2>2. /\ DOMAIN d = {"kick", "list", "reg4", "blank", "frame", "kicks"}
        /\ d.kick \in BOOLEAN /\ d.frame \in Nat /\ d.kicks \in Nat
        /\ Kept(d, "Idle") <= d.kicks /\ d.kicks - Kept(d, "Idle") <= s
    <3>1. Got(f, "GPU").id = "GPU" /\ Got(f, "GPU").of \in 1..s /\ SectionOK(Got(f, "GPU"))
      BY <1>5, LoadedSection
    <3> QED
      BY <3>1 DEF SectionOK, Kept
  <2> HIDE DEF d
  <2>3. DOMAIN new = D \union {"kicks"}
    BY <1>1
  <2>4. g.state = "Idle" /\ g.kick = d.kick /\ g.frame = d.frame /\ g.kicks = d.kicks
    BY <1>2, <2>1, <2>2, <2>3 DEF Over
  <2> QED
    BY <1>3, <2>2, <2>4 DEF Kept
<1> QED
  BY <1>4, <1>5

(* A loaded drive has a state and numbers in its registers, and data ready *)
(* only if it does not read.                                               *)
LEMMA LoadedDrive ==
  ASSUME NEW f, NEW s, OneSave(f), FileOK(f, s), NEW d, d = Restored(f, "CDROM", NewDrive)
  PROVE  /\ d.state \in DriveStates
         /\ d.arg0 \in Nat /\ d.arg1 \in Nat /\ d.lba \in Nat /\ d.remaining \in Nat
         /\ d.state = "Reading" => "data" \notin d.flags
<1> DEFINE e == Got(f, "CDROM").data
<1>1. CASE ~Has(f, "CDROM")
  BY <1>1 DEF Restored, NewDrive, DriveStates
<1>2. CASE Has(f, "CDROM")
  <2>1. /\ DOMAIN e = {"state", "flags", "cmd", "arg0", "arg1", "lba", "remaining", "asked"}
        /\ e.state \in DriveStates
        /\ \A n \in {"arg0", "arg1", "lba", "remaining"} : e[n] \in Nat
        /\ e.state = "Reading" => "data" \notin e.flags
    BY <1>2, LoadedSection DEF SectionOK
  <2>2. d = Over(e, NewDrive)
    BY <1>2 DEF Restored
  <2> HIDE DEF e
  <2> QED
    BY <2>1, <2>2 DEF Over
<1> QED
  BY <1>1, <1>2

(* A loaded channel is idle, whatever its status register says. *)
LEMMA LoadedChannels ==
  ASSUME NEW f, NEW s, OneSave(f), FileOK(f, s), NEW m,
         m = Restored(f, "DMA", [ch |-> [c \in Chan |-> ChannelReset], job |-> NoJob]),
         NEW c \in Chan
  PROVE  ChannelOK(Over(m.ch[c], ChannelReset), IF Has(f, "DMA") THEN Got(f, "DMA").of ELSE 0)
<1> DEFINE new == [ch |-> [x \in Chan |-> ChannelReset], job |-> NoJob]
           d == Got(f, "DMA").data
           r == Over(m.ch[c], ChannelReset)
<1>1. CASE ~Has(f, "DMA")
  <2>1. m.ch[c] = ChannelReset
    <3>1. m = new
      BY <1>1 DEF Restored
    <3>2. new.ch = [x \in Chan |-> ChannelReset]
      OBVIOUS
    <3> HIDE DEF new
    <3> QED
      BY <3>1, <3>2
  <2>2. r = Over(ChannelReset, ChannelReset)
    BY <2>1
  <2> HIDE DEF r
  <2>3. r.status = {} /\ r.state = "Idle"
        /\ DOMAIN r = {"src", "dst", "size", "status", "state", "burst"}
    BY <2>2 DEF Over, ChannelReset
  <2> QED
    BY <1>1, <2>3 DEF ChannelOK, r
<1>2. CASE Has(f, "DMA")
  <2>1. Got(f, "DMA").id = "DMA" /\ Got(f, "DMA").of \in 1..s /\ SectionOK(Got(f, "DMA"))
    BY <1>2, LoadedSection, Zenon
  <2>2. /\ DOMAIN d = {"ch", "job"}
        /\ DOMAIN d.ch[c] = {"src", "dst", "size", "status"}
        /\ d.ch[c].status \in {{}, {"busy"}, {"done"}}
    BY <2>1 DEF SectionOK
  <2>3. m = Over(d, new)
    BY <1>2 DEF Restored
  <2> HIDE DEF d, new
  <2>4. m.ch = d.ch
    BY <2>2, <2>3 DEF Over
  <2> DEFINE e == d.ch[c]
  <2>5. r = Over(e, ChannelReset)
    BY <2>4
  <2> HIDE DEF e, r
  <2>6. /\ r.status = e.status /\ r.state = "Idle"
        /\ DOMAIN r = {"src", "dst", "size", "status", "state", "burst"}
    BY <2>2, <2>5 DEF Over, ChannelReset, e
  <2>7. Got(f, "DMA").of # 0
    BY <2>1
  <2> QED
    BY <1>2, <2>2, <2>6, <2>7 DEF ChannelOK, e, r
<1> QED
  BY <1>1, <1>2

LEMMA LoadKeeps ==
  ASSUME SaveInv, NEW f \in {file, NoFile}, PowerOn(f)
  PROVE  SaveInv'
<1> DEFINE d == Restored(f, "CDROM", NewDrive)
           g == Restored(f, "GPU", Over([kicks |-> 0], GpuReset))
           m == Restored(f, "DMA", [ch |-> [c \in Chan |-> ChannelReset], job |-> NoJob])
<1>1. OneSave(f) /\ FileOK(f, sessions) /\ sessions \in Nat
  <2>1. Applied(NoFile) = <<>>
    BY DEF NoFile, Applied
  <2>2. OneSave(NoFile)
    BY <2>1, EmptyIsOneSave
  <2>3. FileOK(NoFile, sessions)
    BY <2>1 DEF FileOK
  <2> QED
    BY <2>2, <2>3 DEF SaveInv
<1>2. OneSave(file') /\ FileOK(file', sessions')
  <2>1. file' = file /\ sessions' = sessions + 1
    BY DEF PowerOn
  <2> QED
    BY <1>1, <2>1 DEF SaveInv, FileOK
<1>3. phase' = "loaded" /\ sessions' \in 0..MaxSessions /\ sessions' > 0
  BY <1>1, SaveAssumption DEF PowerOn, SaveInv, SaveAssumption
<1>4. cpus' \in [{"cf", "ppc", "hold", "first"} -> BOOLEAN]
  <2>1. cpus' = Restored(f, "PPC", Restored(f, "CF", NewCpus))
    BY DEF PowerOn
  <2> QED
    BY <1>1, <2>1, LoadedCpus
<1>5. ChannelsOK'
  <2>1. ch' = [c \in Chan |-> Over(m.ch[c], ChannelReset)]
    BY DEF PowerOn
  <2>2. origin'["DMA"] = IF Has(f, "DMA") THEN Got(f, "DMA").of ELSE 0
    <3>1. "DMA" \in Sections
      BY NineSections DEF SectionOrder
    <3> QED
      BY <3>1 DEF PowerOn
  <2> HIDE DEF m
  <2>3. \A c \in Chan : ChannelOK(ch'[c], origin'["DMA"])
    BY <1>1, <2>1, <2>2, LoadedChannels DEF m
  <2> QED
    BY <2>1, <2>3 DEF ChannelsOK
<1>6. FramesOK'
  <2>1. gpu' = [r \in DOMAIN GpuReset |-> g[r]] /\ kicks' = g.kicks /\ sessions' = sessions + 1
    BY DEF PowerOn
  <2> HIDE DEF g
  <2>2. /\ DOMAIN gpu' = {"state", "kick", "list", "reg4", "blank", "frame"}
        /\ gpu'.state = "Idle" /\ gpu'.kick \in BOOLEAN /\ gpu'.frame \in Nat /\ kicks' \in Nat
        /\ Kept(gpu', "Idle") <= kicks' /\ kicks' - Kept(gpu', "Idle") <= sessions
    BY <1>1, <2>1, LoadedFrames DEF g
  <2>3. kicks' - Kept(gpu', "Idle") < sessions'
    <3>1. Kept(gpu', "Idle") \in Int
      BY <2>2 DEF Kept
    <3> QED
      BY <1>1, <2>1, <2>2, <3>1
  <2> QED
    BY <1>1, <2>1, <2>2, <2>3 DEF FramesOK
<1>7. DriveOK'
  <2>1. /\ state' = d.state /\ arg0' = d.arg0 /\ arg1' = d.arg1 /\ lba' = d.lba
        /\ remaining' = d.remaining /\ buffer' = <<>> /\ disc' = Drive!NoMedium
        /\ flags' = d.flags
    BY DEF PowerOn
  <2> HIDE DEF d
  <2>2. /\ d.state \in DriveStates
        /\ d.arg0 \in Nat /\ d.arg1 \in Nat /\ d.lba \in Nat /\ d.remaining \in Nat
        /\ d.state = "Reading" => "data" \notin d.flags
    BY <1>1, LoadedDrive DEF d
  <2>3. Drive!NoMedium.size \in Nat
    BY DEF Drive!NoMedium
  <2>4. IsSeq(<<>>)
    BY DEF IsSeq
  <2> QED
    BY <2>1, <2>2, <2>3, <2>4 DEF DriveOK
<1> QED
  BY <1>2, <1>3, <1>4, <1>5, <1>6, <1>7 DEF SaveInv

(* A tick of the GPU loses no frame and shows none twice. *)
LEMMA FrameTick ==
  ASSUME FramesOK, gpu' = BusTick(gpu), UNCHANGED <<kicks, sessions>>
  PROVE  FramesOK'
<1>0. /\ DOMAIN gpu = {"state", "kick", "list", "reg4", "blank", "frame"}
      /\ gpu.state \in {"Idle", "VerticalBlank"} /\ gpu.kick \in BOOLEAN /\ gpu.frame \in Nat
  BY DEF FramesOK
<1>1. CASE gpu.state = "Idle" /\ gpu.kick
  <2> DEFINE p == [gpu EXCEPT !.state = "Presenting", !.kick = FALSE]
             q == [p EXCEPT !.state = "VerticalBlank"]
             b == [q EXCEPT !.blank = FALSE]
  <2>1. GpuTick(gpu) = p
    BY <1>1 DEF GpuTick
  <2>2. p.state = "Presenting"
    BY <1>0
  <2> HIDE DEF p
  <2>3. GpuTick(p) = q
    BY <2>2 DEF GpuTick
  <2>4. gpu' = b
    BY <1>1, <2>1, <2>2, <2>3 DEF BusTick, Ticked, Takes
  <2>5. /\ DOMAIN b = {"state", "kick", "list", "reg4", "blank", "frame"}
        /\ b.state = "VerticalBlank" /\ b.kick = FALSE /\ b.frame = gpu.frame
    BY <1>0 DEF p
  <2> HIDE DEF b
  <2>6. Kept(b, b.state) = gpu.frame + 1 /\ Kept(gpu, gpu.state) = gpu.frame + 1
    BY <1>0, <1>1, <2>5 DEF Kept
  <2>7. b.kick \in BOOLEAN
    BY <2>5, Zenon
  <2> QED
    BY <1>0, <2>4, <2>5, <2>6, <2>7 DEF FramesOK
<1>2. CASE gpu.state = "VerticalBlank"
  <2> DEFINE q == [gpu EXCEPT !.state = "Idle", !.frame = @ + 1, !.blank = TRUE]
             b == [q EXCEPT !.blank = FALSE]
  <2>1. GpuTick(gpu) = q
    BY <1>2 DEF GpuTick
  <2>2. /\ DOMAIN b = {"state", "kick", "list", "reg4", "blank", "frame"}
        /\ b.state = "Idle" /\ b.kick = gpu.kick /\ b.frame = gpu.frame + 1
    BY <1>0
  <2>3. gpu' = b
    BY <1>2, <2>1 DEF BusTick, Ticked, Takes
  <2> HIDE DEF b
  <2>4. Kept(b, b.state) = Kept(gpu, gpu.state)
    BY <1>0, <1>2, <2>2 DEF Kept
  <2> QED
    BY <1>0, <2>2, <2>3, <2>4 DEF FramesOK
<1>3. CASE gpu.state = "Idle" /\ ~gpu.kick
  <2> DEFINE b == [gpu EXCEPT !.blank = FALSE]
  <2>1. GpuTick(gpu) = gpu
    BY <1>3 DEF GpuTick
  <2>2. gpu' = b
    BY <1>3, <2>1 DEF BusTick, Ticked, Takes
  <2>3. /\ DOMAIN b = {"state", "kick", "list", "reg4", "blank", "frame"}
        /\ b.state = gpu.state /\ b.kick = gpu.kick /\ b.frame = gpu.frame
    BY <1>0
  <2> HIDE DEF b
  <2>4. Kept(b, b.state) = Kept(gpu, gpu.state)
    BY <2>3 DEF Kept
  <2> QED
    BY <1>0, <2>2, <2>3, <2>4 DEF FramesOK
<1> QED
  BY <1>0, <1>1, <1>2, <1>3

(* A kick asks for one frame, and for none when one is asked for already. *)
LEMMA FrameKick ==
  ASSUME FramesOK, Kick
  PROVE  FramesOK'
<1> DEFINE g == [gpu EXCEPT !["kick"] = TRUE]
<1>0. /\ DOMAIN gpu = {"state", "kick", "list", "reg4", "blank", "frame"} /\ kicks \in Nat
      /\ gpu.state \in {"Idle", "VerticalBlank"} /\ gpu.kick \in BOOLEAN /\ gpu.frame \in Nat
  BY DEF FramesOK
<1>1. gpu' = g /\ kicks' = (IF gpu.kick THEN kicks ELSE kicks + 1) /\ sessions' = sessions
  BY DEF Kick, WriteGpuReg
<1>2. DOMAIN g = DOMAIN gpu /\ g.state = gpu.state /\ g.kick = TRUE /\ g.frame = gpu.frame
  BY <1>0
<1> HIDE DEF g
<1>3. g.kick \in BOOLEAN
  BY <1>2, Zenon
<1>4. CASE gpu.kick
  <2>1. Kept(g, g.state) = Kept(gpu, gpu.state) /\ kicks' = kicks
    BY <1>1, <1>2, <1>4 DEF Kept
  <2> QED
    BY <1>0, <1>1, <1>2, <1>3, <2>1 DEF FramesOK
<1>5. CASE ~gpu.kick
  <2>1. Kept(g, g.state) = Kept(gpu, gpu.state) + 1 /\ kicks' = kicks + 1
        /\ Kept(gpu, gpu.state) \in Nat
    BY <1>0, <1>1, <1>2, <1>5 DEF Kept
  <2>2. /\ Kept(gpu, gpu.state) <= kicks
        /\ kicks - Kept(gpu, gpu.state) < IF sessions = 0 THEN 1 ELSE sessions
    BY DEF FramesOK
  <2>3. /\ Kept(g, g.state) <= kicks'
        /\ kicks' - Kept(g, g.state) = kicks - Kept(gpu, gpu.state)
    BY <1>0, <2>1, <2>2
  <2> QED
    BY <1>0, <1>1, <1>2, <1>3, <2>1, <2>2, <2>3 DEF FramesOK
<1> QED
  BY <1>4, <1>5

\* What NoStaleData asks of a step of a machine that is on.
NotStale ==
  ("data" \in flags') => \/ listed'
                         \/ buffer' = Drive!Answer(asked.count)'
                         \/ buffer' = <<>> /\ buffer = <<>> /\ "data" \in flags

(* The answer to a request for no sectors is empty.                        *)
LEMMA NoSector == Drive!Answer(0) = <<>>
  BY DEF Drive!Answer

(* A sector more is the answer to a request for one more.                  *)
LEMMA NextSector ==
  ASSUME NEW n \in Nat, asked.lba \in Nat
  PROVE  Append(Drive!Answer(n), <<asked.disc, asked.lba + n>>) = Drive!Answer(n + 1)
<1> DEFINE Names == {asked.disc}
           f(k) == <<asked.disc, asked.lba + k - 1>>
           e == <<asked.disc, asked.lba + n>>
           s == Append(Drive!Answer(n), e)
<1>1. Drive!Answer(n) \in Seq(Names \X Int) /\ Len(Drive!Answer(n)) = n
      /\ \A k \in 1..n : Drive!Answer(n)[k] = f(k)
  BY DEF Drive!Answer
<1>2. e \in Names \X Int
  OBVIOUS
<1>3. /\ s \in Seq(Names \X Int) /\ Len(s) = n + 1 /\ s[n + 1] = e
      /\ \A k \in 1..n : s[k] = Drive!Answer(n)[k]
  BY <1>1, <1>2
<1>4. e = f(n + 1)
  BY SMT
<1>5. s = [k \in 1..(n + 1) |-> s[k]]
  BY <1>3
<1>6. \A k \in 1..(n + 1) : s[k] = f(k)
  BY <1>1, <1>3, <1>4
<1> QED
  BY <1>5, <1>6 DEF Drive!Answer

(* Whatever the drive does, what it reports is the whole answer to a read, *)
(* a listing, or nothing as before.                                        *)
LEMMA DriveKeeps ==
  ASSUME DriveOK,
         \/ \E m \in Media : Drive!InsertDisc(m)
         \/ \E c \in DriveCommands : Drive!WriteCommand(c)
         \/ Drive!WriteArguments
         \/ Drive!Tick
         \/ UNCHANGED driveVars
  PROVE  DriveOK' /\ NotStale
<1> USE DEF DriveOK, DriveStates, NotStale
<1>0. UNCHANGED <<asked, buffer>> =>
        /\ Drive!Answer(asked.count)' = Drive!Answer(asked.count)
        /\ Drive!Answer(Len(buffer))' = Drive!Answer(Len(buffer))
  BY DEF Drive!Answer
<1>1. ASSUME NEW m \in Media, Drive!InsertDisc(m) PROVE DriveOK' /\ NotStale
  <2>1. m.size \in Nat
    BY SaveAssumption DEF SaveAssumption
  <2> QED
    BY <1>0, <1>1, <2>1 DEF Drive!InsertDisc, Drive!InsertState, Drive!regs, Drive!reading
<1>2. ASSUME NEW c \in DriveCommands, Drive!WriteCommand(c) PROVE DriveOK' /\ NotStale
  <2>1. Drive!Execute(c) /\ UNCHANGED <<arg0, arg1>>
    BY <1>2 DEF Drive!WriteCommand
  <2>2. CASE Drive!StartRead /\ state = "Ready"
    <3>1. /\ lba' = arg0 /\ remaining' = arg1 /\ buffer' = <<>> /\ state' = "Reading"
          /\ flags' = flags \ {"data", "error"} /\ disc' = disc
          /\ asked' = [disc |-> disc.id, lba |-> arg0, count |-> arg1]
      BY <2>2 DEF Drive!StartRead, Drive!StartFlags
    <3>2. asked'.disc = disc.id /\ asked'.count = arg1 /\ asked'.lba = arg0 /\ Len(<<>>) = 0
      BY <3>1
    <3>3. IsSeq(<<>>)
      BY DEF IsSeq
    <3>4. Drive!Answer(0)' = <<>>
      BY DEF Drive!Answer
    <3>5. /\ Len(buffer') = 0 /\ buffer' = Drive!Answer(Len(buffer))'
          /\ lba' = asked'.lba + Len(buffer') /\ Len(buffer') + remaining' = asked'.count
      BY <3>1, <3>2, <3>4
    <3> QED
      BY <2>1, <3>1, <3>2, <3>3, <3>5
  <2>3. CASE Drive!StartRead /\ state # "Ready"
    BY <1>0, <2>1, <2>3 DEF Drive!StartRead, Drive!reading
  <2>4. CASE Drive!SetState("Paused") \/ Drive!SetState("Ready")
    BY <1>0, <2>1, <2>4 DEF Drive!SetState, Drive!reading
  <2>5. CASE Drive!Mount
    BY <1>0, <2>1, <2>5 DEF Drive!Mount, Drive!reading
  <2>6. CASE Drive!List
    <3>1. IsSeq(buffer')
      <4> DEFINE e == <<"list", root.id, disc.id>>
      <4>1. buffer' = <<>> \/ buffer' = <<e>>
        BY <2>6 DEF Drive!List, Drive!Listing
      <4> HIDE DEF e
      <4>2. <<>> \in Seq({e}) /\ <<e>> \in Seq({e})
        OBVIOUS
      <4> QED
        BY <4>1, <4>2 DEF IsSeq
    <3> QED
      BY <2>1, <2>6, <3>1 DEF Drive!List, Drive!reading
  <2> QED
    BY <2>1, <2>2, <2>3, <2>4, <2>5, <2>6 DEF Drive!Execute
<1>3. CASE Drive!WriteArguments
  <2>1. arg0' \in Nat /\ arg1' \in Nat
    BY <1>3, SaveAssumption DEF SaveAssumption, Drive!WriteArguments
  <2> QED
    BY <1>0, <1>3, <2>1 DEF Drive!WriteArguments, Drive!reading
<1>4. CASE Drive!SpinUp
  BY <1>0, <1>4 DEF Drive!SpinUp, Drive!regs, Drive!reading
<1>5. CASE Drive!ReadError
  BY <1>0, <1>5 DEF Drive!ReadError, Drive!Failed, Drive!regs, Drive!reading
<1>6. CASE Drive!ReadNothing
  BY <1>0, <1>6 DEF Drive!ReadNothing, Drive!regs, Drive!reading
<1>7. CASE Drive!ReadSector
  <2>1. /\ state = "Reading" /\ remaining > 0 /\ lba < disc.size
        /\ buffer' = Append(buffer, Drive!Sector(disc, lba))
        /\ remaining' = remaining - 1 /\ lba' = lba + 1
        /\ UNCHANGED <<arg0, arg1, asked, disc>>
        /\ IF remaining = 1 THEN state' = "Ready" /\ flags' = flags \union {"data"}
           ELSE UNCHANGED <<state, flags>>
    BY <1>7 DEF Drive!ReadSector, Drive!More, Drive!Last, Drive!regs
  <2>2. disc # Drive!NoMedium
    <3>1. Drive!NoMedium.size = 0
      BY DEF Drive!NoMedium
    <3> QED
      BY <2>1, <3>1
  <2>3. /\ disc.id = asked.disc /\ Len(buffer) + remaining = asked.count
        /\ asked.lba \in Nat /\ lba = asked.lba + Len(buffer) /\ buffer = Drive!Answer(Len(buffer))
    BY <2>1, <2>2
  <2>4. IsSeq(buffer') /\ Len(buffer') = Len(buffer) + 1 /\ Len(buffer) \in Nat
    <3> DEFINE e == Drive!Sector(disc, lba)
    <3>1. PICK S : buffer \in Seq(S)
      BY DEF IsSeq
    <3>2. buffer' = Append(buffer, e)
      BY <2>1
    <3> HIDE DEF e
    <3> DEFINE T == S \union {e}
    <3>3. buffer \in Seq(T) /\ e \in T
      BY <3>1
    <3> HIDE DEF T
    <3>4. buffer' \in Seq(T) /\ Len(buffer') = Len(buffer) + 1 /\ Len(buffer) \in Nat
      BY <3>2, <3>3
    <3> QED
      BY <3>4 DEF IsSeq
  <2>5. Len(buffer') + remaining' = asked.count /\ remaining' \in Nat
    BY <2>1, <2>3, <2>4
  <2>9. buffer' = Drive!Answer(Len(buffer'))
    <3>1. Drive!Sector(disc, lba) = <<asked.disc, asked.lba + Len(buffer)>>
      BY <2>3 DEF Drive!Sector
    <3>2. PICK n \in Nat : n = Len(buffer)
      BY <2>4
    <3>3. buffer = Drive!Answer(n) /\ buffer' = Append(buffer, <<asked.disc, asked.lba + n>>)
          /\ Len(buffer') = n + 1
      BY <2>1, <2>3, <2>4, <3>1, <3>2
    <3>4. Append(Drive!Answer(n), <<asked.disc, asked.lba + n>>) = Drive!Answer(n + 1)
      BY <2>3, NextSector
    <3> QED
      BY <3>3, <3>4
  <2>10. \A n : Drive!Answer(n)' = Drive!Answer(n)
    BY <2>1 DEF Drive!Answer
  <2>11. lba' = asked.lba + Len(buffer')
    BY <2>1, <2>3, <2>4
  <2>6. remaining = 1 => buffer' = Drive!Answer(asked.count)
    <3>1. remaining = 1 => Len(buffer') = asked.count
      BY <2>1, <2>5
    <3> QED
      BY <2>9, <3>1
  <2>7. "data" \in flags' => remaining = 1
    BY <2>1
  <2>17. Drive!Answer(asked.count)' = Drive!Answer(asked.count)
    BY <2>1 DEF Drive!Answer
  <2>18. ("data" \in flags') => buffer' = Drive!Answer(asked.count)'
    BY ONLY <2>6, <2>7, <2>17
  <2>8. state' \in DriveStates
    BY <2>1
  <2>12. buffer' = Drive!Answer(Len(buffer))'
    BY <2>9, <2>10
  <2>13. IF remaining = 1 THEN state' = "Ready" ELSE state' = state
    BY <2>1
  <2>14. /\ arg0' \in Nat /\ arg1' \in Nat /\ lba' \in Nat /\ remaining' \in Nat
         /\ disc'.size \in Nat
    BY <2>1, <2>5
  <2>15. /\ disc'.id = asked'.disc /\ Len(buffer') + remaining' = asked'.count
         /\ asked'.lba \in Nat /\ lba' = asked'.lba + Len(buffer')
    BY <2>1, <2>3, <2>5, <2>11
  <2>19. state' = "Reading" => "data" \notin flags'
    BY <2>1, <2>7
  <2>16. DriveOK'
    BY ONLY <2>4, <2>8, <2>12, <2>14, <2>15, <2>18, <2>19 DEF DriveOK
  <2> QED
    BY <2>16, <2>18
<1>8. CASE UNCHANGED driveVars
  BY <1>0, <1>8 DEF driveVars
<1>9. CASE Drive!Tick
  BY <1>4, <1>5, <1>6, <1>7, <1>9, Zenon DEF Drive!Tick
<1> QED
  BY <1>1, <1>2, <1>3, <1>8, <1>9, Zenon

(* Ticks, starts and resets keep a channel's status and engine together. *)
LEMMA ServiceKeeps ==
  ASSUME NEW r, NEW o, ChannelOK(r, o)
  PROVE  ChannelOK(Service(r), o)
<1> USE DEF ChannelOK
<1>1. CASE r.state # "Bursting"
  BY <1>1 DEF Service
<1>2. CASE r.state = "Bursting" /\ Completes(r)
  BY <1>2 DEF Service
<1>3. CASE r.state = "Bursting" /\ ~Completes(r)
  <2>1. Service(r) \in {[r EXCEPT !.burst = 0], Advance(r)}
    BY <1>3 DEF Service
  <2>2. CASE Service(r) = [r EXCEPT !.burst = 0]
    BY <2>2
  <2>3. CASE Service(r) = Advance(r)
    <3> DEFINE a == (r.src + WordsNow(r)) % AddrSpace
               b == (r.dst + WordsNow(r)) % AddrSpace
               z == r.size - WordSize * WordsNow(r)
               u == r.burst + WordSize * WordsNow(r)
    <3>1. Service(r) = [r EXCEPT !.src = a, !.dst = b, !.size = z, !.burst = u]
      BY <2>3 DEF Advance
    <3> HIDE DEF a, b, z, u
    <3> QED
      BY <3>1
  <2> QED
    BY <2>1, <2>2, <2>3
<1> QED
  BY <1>1, <1>2, <1>3

LEMMA StartKeeps ==
  ASSUME NEW r, NEW o, ChannelOK(r, o)
  PROVE  ChannelOK(Start(r), o) /\ ChannelOK(Abort(r), o)
<1> USE DEF ChannelOK
<1>1. CASE r.size > 0 /\ r.src # 0 /\ r.dst # 0
  BY <1>1 DEF Start, Abort
<1>2. CASE ~(r.size > 0 /\ r.src # 0 /\ r.dst # 0)
  BY <1>2 DEF Start, Abort
<1> QED
  BY <1>1, <1>2

(* Programming a channel changes registers only. *)
LEMMA JobKeeps ==
  ASSUME NEW r, NEW o, ChannelOK(r, o), NEW j \in Jobs
  PROVE  ChannelOK(Over(j, r), o)
<1>1. DOMAIN j = {"src", "dst", "size"}
  BY SaveAssumption DEF SaveAssumption
<1>2. DOMAIN Over(j, r) = DOMAIN r /\ Over(j, r).status = r.status /\ Over(j, r).state = r.state
  BY <1>1 DEF Over, ChannelOK
<1> QED
  BY <1>2 DEF ChannelOK

LEMMA ChannelsKeep ==
  ASSUME ChannelsOK, UNCHANGED origin,
         \/ ch' = [c \in Chan |-> Service(ch[c])]
         \/ StartCopy
         \/ RestartDma
         \/ UNCHANGED ch
  PROVE  ChannelsOK'
<1> USE DEF ChannelsOK
<1>1. ASSUME NEW c \in Chan, NEW v, ChannelOK(v, origin["DMA"]), ch' = [ch EXCEPT ![c] = v]
      PROVE  ChannelsOK'
  <2>1. \A x \in Chan : ch'[x] = IF x = c THEN v ELSE ch[x]
    BY <1>1
  <2>2. ch' = [x \in Chan |-> ch'[x]]
    BY <1>1
  <2> QED
    BY <1>1, <2>1, <2>2
<1>2. CASE ch' = [c \in Chan |-> Service(ch[c])]
  BY <1>2, ServiceKeeps
<1>3. CASE StartCopy
  <2>1. PICK c \in Chan, j \in Jobs : ch' = [ch EXCEPT ![c] = Start(Over(j, ch[c]))]
    BY <1>3 DEF StartCopy
  <2>2. ChannelOK(Start(Over(j, ch[c])), origin["DMA"])
    BY JobKeeps, StartKeeps
  <2> QED
    BY <1>1, <2>1, <2>2
<1>4. CASE RestartDma
  <2>1. PICK c \in Chan, reg \in {"start", "abort"} :
          ch' = [ch EXCEPT ![c] = WriteReg(ch[c], reg, 0)]
    BY <1>4 DEF RestartDma
  <2>2. WriteReg(ch[c], reg, 0) = Start(ch[c]) \/ WriteReg(ch[c], reg, 0) = Abort(ch[c])
    BY DEF WriteReg
  <2>3. ChannelOK(WriteReg(ch[c], reg, 0), origin["DMA"])
    BY <2>2, StartKeeps
  <2> QED
    BY <1>1, <2>1, <2>3
<1> QED
  BY <1>2, <1>3, <1>4
-----------------------------------------------------------------------------
LEMMA SaveInit == Init => SaveInv
<1> SUFFICES ASSUME Init PROVE SaveInv
  OBVIOUS
<1>1. Applied(file) = <<>>
  <2>1. Applied(NoFile) = <<>>
    BY DEF NoFile, Applied
  <2> QED
    BY <2>1, SaveAssumption DEF Init, SaveAssumption
<1>2. OneSave(file) /\ FileOK(file, sessions)
  BY <1>1, EmptyIsOneSave DEF FileOK
<1>3. phase = "off" /\ sessions = 0 /\ 0 \in 0..MaxSessions
  BY SaveAssumption DEF Init, SaveAssumption
<1>4. cpus \in [{"cf", "ppc", "hold", "first"} -> BOOLEAN]
  <2>1. Restored(NoFile, "PPC", Restored(NoFile, "CF", NewCpus)) = NewCpus
    BY DEF Restored, Has, Applied, NoFile
  <2>2. OneSave(NoFile) /\ FileOK(NoFile, 0)
    <3>1. Applied(NoFile) = <<>>
      BY DEF NoFile, Applied
    <3> QED
      BY <3>1, EmptyIsOneSave DEF FileOK
  <2> QED
    BY <2>1, <2>2, LoadedCpus DEF Init
<1>5. ChannelsOK
  <2>1. ChannelOK(ChannelReset, 0) /\ \A o : ChannelOK(ChannelReset, o)
    BY DEF ChannelOK, ChannelReset
  <2> QED
    BY <2>1 DEF Init, ChannelsOK
<1>6. FramesOK
  <2>1. gpu = GpuReset /\ kicks = 0 /\ sessions = 0
    BY DEF Init
  <2>2. /\ DOMAIN GpuReset = {"state", "kick", "list", "reg4", "blank", "frame"}
        /\ GpuReset.state = "Idle" /\ GpuReset.kick = FALSE /\ GpuReset.frame = 0
    BY DEF GpuReset
  <2>3. GpuReset.kick \in BOOLEAN
    BY <2>2, Zenon
  <2>4. Kept(GpuReset, GpuReset.state) = 0
    BY <2>2 DEF Kept
  <2> QED
    BY <2>1, <2>2, <2>3, <2>4 DEF FramesOK
<1>7. DriveOK
  <2>1. /\ state = "NoDisc" /\ arg0 = 0 /\ arg1 = 0 /\ lba = 0 /\ remaining = 0
        /\ buffer = <<>> /\ disc = Drive!NoMedium /\ flags = {}
    BY DEF Init, Drive!Init
  <2>2. Drive!NoMedium.size \in Nat /\ IsSeq(<<>>)
    BY DEF Drive!NoMedium, IsSeq
  <2> QED
    BY <2>1, <2>2 DEF DriveOK, DriveStates
<1> QED
  BY <1>2, <1>3, <1>4, <1>5, <1>6, <1>7 DEF SaveInv
-----------------------------------------------------------------------------
(* A turn of a CPU leaves its halts and the hold what they are. *)
LEMMA TurnKeeps ==
  ASSUME cpus \in [{"cf", "ppc", "hold", "first"} -> BOOLEAN], CfTurn \/ PpcTurn
  PROVE  cpus' \in [{"cf", "ppc", "hold", "first"} -> BOOLEAN]
<1>1. ASSUME NEW r, r \in [{"cf", "ppc", "hold", "first"} -> BOOLEAN],
             NEW x \in {"cf", "ppc", "hold", "first"}, NEW b \in BOOLEAN
      PROVE  [r EXCEPT ![x] = b] \in [{"cf", "ppc", "hold", "first"} -> BOOLEAN]
  BY <1>1
<1>2. CASE CfTurn
  <2>1. PICK halts \in BOOLEAN :
          cpus' = [cpus EXCEPT !.cf = halts, !.hold = HoldAfter(halts), !.first = FALSE]
    BY <1>2 DEF CfTurn
  <2>2. HoldAfter(halts) \in BOOLEAN
    BY Zenon DEF HoldAfter
  <2> DEFINE h == HoldAfter(halts)
             p == [cpus EXCEPT !["cf"] = halts]
             q == [p EXCEPT !["hold"] = h]
             r == [q EXCEPT !["first"] = FALSE]
  <2>3. cpus' = r
    <3>1. cpus' = [cpus EXCEPT !.cf = halts, !.hold = h, !.first = FALSE]
      BY <2>1
    <3> HIDE DEF h
    <3> QED
      BY <3>1
  <2> HIDE DEF h
  <2>4. p \in [{"cf", "ppc", "hold", "first"} -> BOOLEAN]
    BY <1>1
  <2> HIDE DEF p
  <2>5. q \in [{"cf", "ppc", "hold", "first"} -> BOOLEAN]
    <3>1. h \in BOOLEAN
      BY <2>2 DEF h
    <3> QED
      BY <1>1, <2>4, <3>1
  <2> HIDE DEF q
  <2>6. r \in [{"cf", "ppc", "hold", "first"} -> BOOLEAN]
    BY <1>1, <2>5
  <2> QED
    BY <2>3, <2>6
<1>3. CASE PpcTurn
  <2>1. PICK halts \in BOOLEAN : cpus' = [cpus EXCEPT !.ppc = halts]
    BY <1>3 DEF PpcTurn
  <2> QED
    BY <1>1, <2>1
<1> QED
  BY <1>2, <1>3

LEMMA SaveNext ==
  ASSUME SaveInv, [Next]_vars
  PROVE  SaveInv' /\ (NotStale \/ (phase = "off" /\ buffer' = <<>>))
<1> DEFINE Channel == UNCHANGED ch \/ StartCopy \/ RestartDma \/ ch' = [c \in Chan |-> Service(ch[c])]
           Frames == UNCHANGED <<gpu, kicks>> \/ Kick \/ (gpu' = BusTick(gpu) /\ UNCHANGED kicks)
           Reads == \/ \E m \in Media : Drive!InsertDisc(m)
                    \/ \E c \in DriveCommands : Drive!WriteCommand(c)
                    \/ Drive!WriteArguments
                    \/ Drive!Tick
                    \/ UNCHANGED driveVars
           Turns == UNCHANGED cpus \/ CfTurn \/ PpcTurn
           Phases == UNCHANGED phase \/ (phase' = "on" /\ phase # "off") \/ phase' = "off"
\* What every action but Save and PowerOn does.
<1>1. ASSUME UNCHANGED <<file, sessions, origin>>, Phases, Turns, Channel, Frames, Reads
      PROVE  SaveInv' /\ NotStale
  <2>1. /\ OneSave(file) /\ FileOK(file, sessions) /\ sessions \in 0..MaxSessions
        /\ phase \in {"off", "loaded", "on"} /\ (phase # "off" => sessions > 0)
        /\ cpus \in [{"cf", "ppc", "hold", "first"} -> BOOLEAN]
        /\ ChannelsOK /\ FramesOK /\ DriveOK
    BY DEF SaveInv
  <2>2. DriveOK' /\ NotStale
    BY <1>1, <2>1, DriveKeeps
  <2>3. FramesOK'
    <3>1. CASE UNCHANGED <<gpu, kicks>>
      BY <1>1, <2>1, <3>1 DEF FramesOK
    <3> QED
      BY <1>1, <2>1, <3>1, FrameTick, FrameKick
  <2>4. ChannelsOK'
    BY <1>1, <2>1, ChannelsKeep
  <2>5. cpus' \in [{"cf", "ppc", "hold", "first"} -> BOOLEAN]
    BY <1>1, <2>1, TurnKeeps
  <2>6. /\ OneSave(file') /\ FileOK(file', sessions') /\ sessions' \in 0..MaxSessions
        /\ phase' \in {"off", "loaded", "on"} /\ (phase' # "off" => sessions' > 0)
    BY <1>1, <2>1
  <2> QED
    BY <2>2, <2>3, <2>4, <2>5, <2>6 DEF SaveInv
<1>2. ASSUME NEW n \in 0..Len(SectionOrder), Save(n) PROVE SaveInv' /\ NotStale
  <2>1. SaveInv'
    BY <1>2, SaveKeeps
  <2>2. UNCHANGED driveVars
    BY <1>2 DEF Save, machine
  <2>3. NotStale
    BY <2>2, DriveKeeps DEF SaveInv
  <2> QED
    BY <2>1, <2>3
<1>3. ASSUME NEW f \in {file, NoFile}, PowerOn(f) PROVE SaveInv' /\ phase = "off" /\ buffer' = <<>>
  <2>1. phase = "off" /\ buffer' = <<>>
    BY <1>3 DEF PowerOn
  <2> QED
    BY <1>3, <2>1, LoadKeeps
<1>4. CASE PutInDisc
  <2>1. Reads
    BY <1>4 DEF PutInDisc, Insert
  <2> QED
    BY <1>1, <1>4, <2>1 DEF PutInDisc, history
<1>5. CASE Tick
  <2>1. Reads
    BY <1>5 DEF Tick
  <2>2. UNCHANGED <<file, sessions, origin>> /\ Phases /\ Turns /\ Channel /\ Frames
    BY <1>5 DEF Tick, history
  <2> QED
    BY <1>1, <2>1, <2>2
<1>6. CASE CfTurn
  BY <1>1, <1>6 DEF CfTurn, history
<1>7. CASE PpcTurn
  BY <1>1, <1>7 DEF PpcTurn, history
<1>8. CASE StoreWord
  BY <1>1, <1>8 DEF StoreWord, history
<1>9. CASE StartCopy
  BY <1>1, <1>9 DEF StartCopy
<1>10. CASE RestartDma
  BY <1>1, <1>10 DEF RestartDma, history
<1>11. CASE Kick
  BY <1>1, <1>11 DEF Kick
<1>12. CASE CommandDrive
  <2>1. Reads
    BY <1>12 DEF CommandDrive
  <2> QED
    BY <1>1, <1>12, <2>1 DEF CommandDrive, history
<1>13. CASE Quit
  BY <1>1, <1>13 DEF Quit, machine, history
<1>14. CASE UNCHANGED vars
  BY <1>1, <1>14 DEF vars, machine, history
<1> HIDE DEF Channel, Frames, Reads, Turns, Phases
<1>15. CASE Next
  BY <1>2, <1>3, <1>4, <1>5, <1>6, <1>7, <1>8, <1>9, <1>10, <1>11, <1>12, <1>13, <1>15 DEF Next
<1> QED
  BY <1>14, <1>15

(* A channel that is busy without its engine is from a file; everything    *)
(* else of a machine is as a machine that was never saved has it.          *)
THEOREM TypeCorrect == Spec => []TypeOK
<1>1. SaveInv => TypeOK
  BY DEF SaveInv, TypeOK, ChannelsOK, ChannelOK, FramesOK, DriveOK, DriveStates
<1>2. SaveInv /\ [Next]_vars => SaveInv'
  BY SaveNext
<1> QED
  BY SaveInit, <1>1, <1>2, PTL DEF Spec

(* However often a machine is saved and loaded, no frame is shown twice,   *)
(* and each load loses one at most.                                        *)
THEOREM NoFrameIsShownTwice == Spec => []NoFrameTwice
<1>1. ASSUME SaveInv PROVE NoFrameTwice
  <2>1. sessions \in Nat /\ FramesOK
    BY <1>1, SaveAssumption DEF SaveInv, SaveAssumption
  <2> DEFINE most == IF sessions = 0 THEN 1 ELSE sessions
  <2>2. Max({1, sessions}) = most
    <3>1. most \in {1, sessions} /\ \A y \in {1, sessions} : most >= y
      BY <2>1
    <3>2. \A x : x \in {1, sessions} /\ (\A y \in {1, sessions} : x >= y) => x = most
      BY <2>1
    <3> HIDE DEF most
    <3> QED
      BY <3>1, <3>2 DEF Max
  <2>3. Kept(gpu, gpu.state) <= kicks /\ kicks - Kept(gpu, gpu.state) < Max({1, sessions})
    BY <2>1, <2>2 DEF FramesOK
  <2> QED
    BY <2>3 DEF NoFrameTwice, Kept
<1>2. SaveInv /\ [Next]_vars => SaveInv'
  BY SaveNext
<1> QED
  BY SaveInit, <1>1, <1>2, PTL DEF Spec

(* Whatever was saved and loaded, data ready is said over the whole answer *)
(* to the read that was last accepted, in order, over a listing, or, from  *)
(* a load that restored the flag of a completed read without its buffer    *)
(* until the next read, over no sector at all: never over a part of a      *)
(* read, or over two, and no running machine comes to say it over nothing. *)
THEOREM ReadsAreOfThisMachine == Spec => NoStaleData
<1> DEFINE Fresh == NotStale \/ (phase = "off" /\ buffer' = <<>>)
<1>1. SaveInv /\ [Next]_vars => SaveInv' /\ [Fresh]_vars
  BY SaveNext
<1>2. [Fresh]_vars
      => [("data" \in flags') =>
            \/ listed'
            \/ buffer' = Drive!Answer(asked.count)'
            \/ buffer' = <<>> /\ (phase = "off" \/ (buffer = <<>> /\ "data" \in flags))]_vars
  BY DEF NotStale
<1> QED
  BY SaveInit, <1>1, <1>2, PTL DEF Spec, NoStaleData
-----------------------------------------------------------------------------
(* With no line up the ColdFire has no interrupt. *)
LEMMA NothingPending == ~CfIrqPending({})
<1>1. CfIrqLevel({}) = Max({0})
  BY DEF CfIrqLevel
<1>2. \A x : x \in {0} /\ (\A y \in {0} : x >= y) => x = 0
  OBVIOUS
<1>3. 0 \in {0} /\ \A y \in {0} : 0 >= y
  OBVIOUS
<1>4. Max({0}) = 0
  BY <1>2, <1>3 DEF Max
<1> QED
  BY <1>1, <1>4 DEF CfIrqPending

(* A machine, new or loaded, keeps the hold it is made with exactly until   *)
(* its ColdFire has been halted, in this session or when it was saved: one  *)
(* that was saved with its ColdFire awake has its PowerPC held again.       *)
THEOREM HandOffIsSaved == Spec => HandOffSurvives
<1> DEFINE Fields == {"cf", "ppc", "hold", "first"}
           Handed == phase = "on" /\ ~cpus'.first =>
                       (cpus'.hold <=> (cpus.first \/ cpus.hold) /\ ~cpus.cf /\ ~cpus'.cf)
<1>1. Init => FirstTurn
  BY DEF Init, NewCpus, FirstTurn
<1>2. ASSUME SaveInv, FirstTurn, [Next]_vars PROVE FirstTurn' /\ (phase = "on" => Handed)
  <2>1. ASSUME cpus' = cpus, lines' = lines \/ ~cpus.first PROVE FirstTurn' /\ Handed
    <3>1. FirstTurn'
      BY <1>2, <2>1 DEF FirstTurn
    <3>2. ~cpus.first /\ cpus.cf => ~cpus.hold
      BY <1>2 DEF FirstTurn
    <3> QED
      BY <2>1, <3>1, <3>2
  <2>2. ASSUME NEW f \in {file, NoFile}, PowerOn(f) PROVE FirstTurn' /\ (phase = "on" => Handed)
    <3>1. OneSave(f) /\ FileOK(f, sessions)
      <4>1. Applied(NoFile) = <<>>
        BY DEF NoFile, Applied
      <4> QED
        BY <1>2, <4>1, EmptyIsOneSave DEF SaveInv, FileOK
    <3>2. cpus' = Restored(f, "PPC", Restored(f, "CF", NewCpus)) /\ lines' = {} /\ phase = "off"
      BY <2>2 DEF PowerOn
    <3>3. cpus' \in [Fields -> BOOLEAN] /\ cpus'.hold /\ cpus'.first
      BY <3>1, <3>2, LoadedCpus
    <3> QED
      BY <3>2, <3>3 DEF FirstTurn
  <2>3. CASE CfTurn
    <3> PICK halts \in BOOLEAN :
          /\ cpus.cf /\ ~CfIrqPending(lines) => halts
          /\ cpus' = [cpus EXCEPT !.cf = halts, !.hold = HoldAfter(halts), !.first = FALSE]
      BY <2>3 DEF CfTurn
    <3>1. lines = {} => ~CfIrqPending(lines)
      BY NothingPending
    <3>2. /\ DOMAIN cpus' = DOMAIN cpus /\ cpus'.first = FALSE /\ cpus'.cf = halts
          /\ cpus'.hold = HoldAfter(halts)
      <4> DEFINE h == HoldAfter(halts)
      <4>1. cpus' = [cpus EXCEPT !.cf = halts, !.hold = h, !.first = FALSE]
        OBVIOUS
      <4> HIDE DEF h
      <4>2. /\ DOMAIN cpus' = DOMAIN cpus /\ cpus'.first = FALSE /\ cpus'.cf = halts /\ cpus'.hold = h
        BY <1>2, <4>1 DEF FirstTurn
      <4> QED
        BY <4>2 DEF h
    <3>3. HoldAfter(halts) <=> cpus.hold /\ ~halts
      BY DEF HoldAfter
    <3>4. FirstTurn'
      BY <1>2, <3>2, <3>3 DEF FirstTurn
    <3>5. cpus.cf /\ cpus.first => halts
      BY <1>2, <3>1 DEF FirstTurn
    <3>6. /\ ~cpus.first /\ cpus.cf => ~cpus.hold
          /\ cpus.first => cpus.hold
      BY <1>2 DEF FirstTurn
    <3>7. cpus'.hold <=> cpus.hold /\ ~halts
      BY <3>2, <3>3
    <3>8. cpus'.cf <=> halts
      BY <3>2
    <3> QED
      BY <3>4, <3>5, <3>6, <3>7, <3>8
  <2>4. CASE PpcTurn
    <3>1. ~cpus.first /\ lines' = lines /\ \E halts \in BOOLEAN : cpus' = [cpus EXCEPT !.ppc = halts]
      BY <2>4 DEF PpcTurn
    <3>2. /\ DOMAIN cpus' = DOMAIN cpus /\ cpus'.first = cpus.first
          /\ cpus'.hold = cpus.hold /\ cpus'.cf = cpus.cf
      BY <1>2, <3>1 DEF FirstTurn
    <3>3. FirstTurn'
      BY <1>2, <3>1, <3>2 DEF FirstTurn
    <3>4. ~cpus.first /\ cpus.cf => ~cpus.hold
      BY <1>2 DEF FirstTurn
    <3> QED
      BY <3>1, <3>2, <3>3, <3>4
  <2>5. CASE Tick
    BY <2>1, <2>5 DEF Tick
  <2>6. CASE PutInDisc \/ Quit \/ StoreWord \/ (\E n \in 0..Len(SectionOrder) : Save(n))
    BY <2>1, <2>6 DEF PutInDisc, Quit, StoreWord, Save, machine
  <2>7. CASE StartCopy \/ RestartDma \/ Kick \/ CommandDrive
    BY <2>1, <2>7 DEF StartCopy, RestartDma, Kick, CommandDrive
  <2>8. CASE UNCHANGED vars
    BY <2>1, <2>8 DEF vars, machine
  <2> QED
    BY <1>2, <2>2, <2>3, <2>4, <2>5, <2>6, <2>7, <2>8 DEF Next
<1>3. SaveInv /\ FirstTurn /\ [Next]_vars => SaveInv' /\ FirstTurn' /\ [Handed]_vars
  BY <1>2, SaveNext
<1> QED
  BY SaveInit, <1>1, <1>3, PTL DEF Spec, HandOffSurvives
-----------------------------------------------------------------------------
(* The lesser of two numbers. *)
LEMMA MinOfTwo ==
  ASSUME NEW a \in Int, NEW b \in Int
  PROVE  Min({a, b}) = IF a <= b THEN a ELSE b
<1> DEFINE m == IF a <= b THEN a ELSE b
<1>1. m \in {a, b} /\ \A y \in {a, b} : m <= y
  OBVIOUS
<1>2. \A x \in {a, b} : (\A y \in {a, b} : x <= y) => x = m
  BY <1>1
<1> QED
  BY <1>1, <1>2 DEF Min

(* A set of numbers that holds 0, and n + 1 whenever it holds n, is all of *)
(* them: the induction that the facts about the copied words rest on.      *)
LEMMA SetInduction ==
  ASSUME NEW S, 0 \in S, \A n \in Nat : n \in S => n + 1 \in S
  PROVE  Nat \subseteq S
<1> DEFINE T == Nat \ S
           R == OpToRel(<, Nat)
<1>1. SUFFICES ASSUME T # {} PROVE FALSE
  OBVIOUS
<1>2. \E x \in T : \A y \in T : ~(<<y, x>> \in R)
  <2>1. IsWellFoundedOn(R, Nat)
    BY NatLessThanWellFounded
  <2> HIDE DEF R
  <2> QED
    BY <1>1, <2>1, WFMin
<1>3. PICK x \in T : \A y \in T : ~(<<y, x>> \in R)
  BY <1>2
<1>4. \A y \in T : ~(y < x)
  BY <1>3 DEF OpToRel
<1>5. x # 0 /\ x - 1 \in Nat /\ x - 1 < x
  OBVIOUS
<1>6. x - 1 \in S
  BY <1>4, <1>5
<1> QED
  BY <1>5, <1>6

(* Carrying out a list applies its entries one after the other.            *)
LEMMA MoveWordsSteps ==
  ASSUME NEW m, NEW list, Len(list) \in Nat
  PROVE  \E f : /\ f[0] = m
                /\ \A k \in 1..Len(list) : f[k] = ApplyCopy(f[k - 1], list[k])
                /\ MoveWords(m, list) = f[Len(list)]
<1> DEFINE Eq(f, n) ==
      f = [k \in 0..n |-> IF k = 0 THEN m ELSE ApplyCopy(f[k - 1], list[k])]
           S == { n \in Nat : \E f : Eq(f, n) }
           L == Len(list)
<1>1. 0 \in S
  <2> DEFINE g == [k \in 0..0 |-> m]
  <2>1. Eq(g, 0)
    OBVIOUS
  <2>2. \E h : Eq(h, 0)
    <3> HIDE DEF g
    <3> QED
      BY <2>1
  <2> QED
    BY <2>2
<1>2. ASSUME NEW n \in Nat, n \in S PROVE n + 1 \in S
  <2>1. PICK f : Eq(f, n)
    BY <1>2
  <2> DEFINE g == [k \in 0..(n + 1) |-> IF k <= n THEN f[k] ELSE ApplyCopy(f[n], list[n + 1])]
  <2>2. \A k \in 0..(n + 1) :
          g[k] = IF k = 0 THEN m ELSE ApplyCopy(g[k - 1], list[k])
    <3> SUFFICES ASSUME NEW k \in 0..(n + 1)
                 PROVE  g[k] = IF k = 0 THEN m ELSE ApplyCopy(g[k - 1], list[k])
      OBVIOUS
    <3>1. CASE k <= n
      <4>1. g[k] = f[k] /\ k \in 0..n
        BY <3>1
      <4>2. f[k] = IF k = 0 THEN m ELSE ApplyCopy(f[k - 1], list[k])
        BY <2>1, <4>1
      <4>3. k # 0 => g[k - 1] = f[k - 1]
        BY <4>1
      <4> QED
        BY <4>1, <4>2, <4>3
    <3>2. CASE k = n + 1
      <4>1. g[k] = ApplyCopy(f[n], list[k]) /\ g[k - 1] = f[n] /\ k # 0
        BY <3>2
      <4> QED
        BY <4>1
    <3> QED
      BY <3>1, <3>2
  <2>3. Eq(g, n + 1)
    <3>1. g = [k \in 0..(n + 1) |-> g[k]]
      OBVIOUS
    <3> HIDE DEF g
    <3>2. [k \in 0..(n + 1) |-> g[k]]
          = [k \in 0..(n + 1) |-> IF k = 0 THEN m ELSE ApplyCopy(g[k - 1], list[k])]
      BY <2>2, Zenon
    <3> QED
      BY <3>1, <3>2, Zenon
  <2>4. \E h : Eq(h, n + 1)
    <3> HIDE DEF g
    <3> QED
      BY <2>3
  <2> QED
    BY <2>4
<1>3. L \in S
  <2> HIDE DEF S
  <2> QED
    BY <1>1, <1>2, SetInduction
<1>4. \E f : Eq(f, L)
  BY <1>3
<1> DEFINE F == CHOOSE f : Eq(f, L)
<1>5. Eq(F, L)
  BY <1>4
<1>6. MoveWords(m, list) = F[L]
  BY DEF MoveWords
<1> HIDE DEF F
<1>7. F[0] = m /\ \A k \in 1..L : F[k] = ApplyCopy(F[k - 1], list[k])
  BY <1>5
<1> QED
  BY <1>6, <1>7

(* One entry changes its destination only, to the word at its source.      *)
LEMMA ApplyCopyEffect ==
  ASSUME NEW m, DOMAIN m = Ram \union Rom, NEW t
  PROVE  /\ DOMAIN ApplyCopy(m, t) = Ram \union Rom
         /\ \A b \in Ram \union Rom : b # t[2] => ApplyCopy(m, t)[b] = m[b]
         /\ t[1] \in Ram \union Rom /\ t[2] \in Ram => ApplyCopy(m, t)[t[2]] = m[t[1]]
<1>1. CASE t[1] \in Ram \union Rom /\ t[2] \in Ram
  <2> DEFINE v == m[t[1]]
             e == [m EXCEPT ![t[2]] = v]
  <2>1. ApplyCopy(m, t) = e
    BY <1>1 DEF ApplyCopy
  <2> HIDE DEF v
  <2>2. DOMAIN e = Ram \union Rom /\ e[t[2]] = v
    BY <1>1
  <2>3. \A b \in Ram \union Rom : b # t[2] => e[b] = m[b]
    OBVIOUS
  <2> QED
    BY <2>1, <2>2, <2>3 DEF v
<1>2. CASE ~(t[1] \in Ram \union Rom /\ t[2] \in Ram)
  BY <1>2 DEF ApplyCopy
<1> QED
  BY <1>1, <1>2

-----------------------------------------------------------------------------
\* Every mapped word has a value, and read-only memory is as it was built.
MemOK(m) == DOMAIN m = Ram \union Rom /\ \A a \in Rom \ Ram : m[a] = a

\* A copy of n words from s to d that CopiesWell.
Apart(s, d, n) ==
  /\ s + n <= AddrSpace /\ d + n <= AddrSpace
  /\ \A k \in 1..n : s + k - 1 \in Ram \union Rom /\ d + k - 1 \in Ram \ Stores
  /\ \A k, l \in 1..n : k < l => d + k # s + l

\* The first t words are at their destinations, the rest still at its sources.
InPlace(m, data, s, d, n, t) ==
  /\ \A k \in 1..t : m[d + k - 1] = data[k]
  /\ \A k \in (t + 1)..n : m[s + k - 1] = data[k]

\* What the registers r of a channel say of a copy of which t words are done.
Halfway(r, m, j, s, d, n, t) ==
  /\ Apart(s, d, n)
  /\ j.from = { s + k - 1 : k \in 1..n } /\ j.to = [k \in 1..n |-> d + k - 1]
  /\ r.status # {} =>
       /\ r.size \in Nat /\ r.size \div WordSize = n - t
       /\ r.status = {"done"} => r.size = 0
       /\ t < n => r.src = s + t /\ r.dst = d + t
       /\ (j.from \union ToSet(j.to)) \intersect Local = {} => InPlace(m, j.data, s, d, n, t)

CopyOK(r, m, j) == \E s, d, n \in Nat : \E t \in 0..n : Halfway(r, m, j, s, d, n, t)

\* The memory of a machine that loads f.
LoadedMem(f) == Restored(f, "VRAM", Restored(f, "RAM", NewMem))

FileCopyOK(f) ==
  /\ MemOK(LoadedMem(f))
  /\ Has(f, "DMA") =>
       \A c \in Chan : CopyOK(Got(f, "DMA").data.ch[c], LoadedMem(f), Got(f, "DMA").data.job)

BurstOK(r) == r.state = "Bursting" => r.burst \in 0..BurstSize

CopyInv ==
  /\ MemOK(mem) /\ FileCopyOK(file)
  /\ \A c \in Chan : CopyOK(ch[c], mem, job) /\ BurstOK(ch[c])

(* With one channel a tick carries out the list of that channel.           *)
LEMMA OneList ==
  ASSUME Len(Channels) = 1, Channels \in Seq({"Cdrom", "Gpu", "Audio", "ColdFire"})
  PROVE  Chan = {Channels[1]} /\ MemAfter = MoveWords(mem, Copies(ch[Channels[1]]))
<1>1. Chan = {Channels[1]}
  <2>1. Chan = { Channels[i] : i \in 1..1 }
    BY DEF Chan, ToSet
  <2> QED
    BY <2>1
<1> DEFINE Eq(f) ==
      f = [k \in 0..1 |-> IF k = 0 THEN mem ELSE MoveWords(f[k - 1], Copies(ch[Channels[k]]))]
           g == [k \in 0..1 |-> IF k = 0 THEN mem ELSE MoveWords(mem, Copies(ch[Channels[k]]))]
           F == CHOOSE f : Eq(f)
<1>2. \E f : Eq(f)
  <2>1. g[0] = mem /\ g[1] = MoveWords(mem, Copies(ch[Channels[1]]))
    OBVIOUS
  <2>2. \A k \in 0..1 : g[k] = IF k = 0 THEN mem ELSE MoveWords(g[k - 1], Copies(ch[Channels[k]]))
    <3> SUFFICES ASSUME NEW k \in 0..1
                 PROVE  g[k] = IF k = 0 THEN mem ELSE MoveWords(g[k - 1], Copies(ch[Channels[k]]))
      OBVIOUS
    <3>1. CASE k = 0
      BY <2>1, <3>1
    <3>2. CASE k = 1
      BY <2>1, <3>2
    <3> QED
      BY <3>1, <3>2
  <2>3. Eq(g)
    <3>1. g = [k \in 0..1 |-> g[k]]
      OBVIOUS
    <3> HIDE DEF g
    <3>2. [k \in 0..1 |-> g[k]]
          = [k \in 0..1 |-> IF k = 0 THEN mem ELSE MoveWords(g[k - 1], Copies(ch[Channels[k]]))]
      BY <2>2, Zenon
    <3> QED
      BY <3>1, <3>2, Zenon
  <2> HIDE DEF g
  <2> QED
    BY <2>3
<1>3. Eq(F)
  BY <1>2
<1>4. MemAfter = F[Len(Channels)]
  BY DEF MemAfter
<1> HIDE DEF F
<1>5. F[0] = mem /\ F[1] = MoveWords(F[0], Copies(ch[Channels[1]]))
  BY <1>3
<1> QED
  BY <1>1, <1>4, <1>5

(* The next words of a copy that runs forward, moved one after the other.  *)
LEMMA MoveForward ==
  ASSUME NEW m, MemOK(m), NEW s \in Nat, NEW d \in Nat, NEW n \in Nat, Apart(s, d, n),
         NEW t \in 0..n, NEW w \in 0..(n - t), NEW list, Len(list) = w,
         \A k \in 1..w : list[k] = <<s + t + k - 1, d + t + k - 1>>, NEW data
  PROVE  /\ MemOK(MoveWords(m, list))
         /\ InPlace(m, data, s, d, n, t) => InPlace(MoveWords(m, list), data, s, d, n, t + w)
<1>1. Len(list) \in Nat
  OBVIOUS
<1> PICK f : /\ f[0] = m
             /\ \A k \in 1..Len(list) : f[k] = ApplyCopy(f[k - 1], list[k])
             /\ MoveWords(m, list) = f[Len(list)]
  BY ONLY <1>1, MoveWordsSteps
<1>2. /\ \A k \in 1..w : f[k] = ApplyCopy(f[k - 1], list[k])
      /\ MoveWords(m, list) = f[w]
  OBVIOUS
<1> DEFINE Good(k) == /\ MemOK(f[k])
                      /\ InPlace(m, data, s, d, n, t) => InPlace(f[k], data, s, d, n, t + k)
           S == { k \in Nat : k <= w => Good(k) }
<1>3. 0 \in S
  <2>1. t + 0 = t
    OBVIOUS
  <2> QED
    BY <2>1
<1>4. ASSUME NEW k \in Nat, k \in S PROVE k + 1 \in S
  <2> SUFFICES ASSUME k + 1 <= w PROVE Good(k + 1)
    OBVIOUS
  <2> DEFINE a == s + t + k
             b == d + t + k
             i == t + k + 1
  <2>1. Good(k)
    BY <1>4
  <2>2. i \in 1..n /\ a = s + i - 1 /\ b = d + i - 1 /\ a \in Int /\ b \in Int
    OBVIOUS
  <2>3. f[k + 1] = ApplyCopy(f[k], <<a, b>>)
    <3>1. k + 1 \in 1..w /\ (k + 1) - 1 = k
      OBVIOUS
    <3>2. list[k + 1] = <<a, b>>
      <4>1. s + t + (k + 1) - 1 = a /\ d + t + (k + 1) - 1 = b
        OBVIOUS
      <4>2. list[k + 1] = <<s + t + (k + 1) - 1, d + t + (k + 1) - 1>>
        BY <3>1
      <4> HIDE DEF a, b
      <4> QED
        BY <4>1, <4>2
    <3> QED
      BY <1>2, <3>1, <3>2
  <2>4. a \in Ram \union Rom /\ b \in Ram
    BY <2>2 DEF Apart
  <2> HIDE DEF a, b
  <2>5. /\ DOMAIN f[k + 1] = Ram \union Rom
        /\ \A x \in Ram \union Rom : x # b => f[k + 1][x] = f[k][x]
        /\ f[k + 1][b] = f[k][a]
    <3>1. DOMAIN f[k] = Ram \union Rom
      BY <2>1 DEF MemOK
    <3> DEFINE e == <<a, b>>
    <3>2. e[1] = a /\ e[2] = b
      OBVIOUS
    <3> HIDE DEF e
    <3>3. /\ DOMAIN ApplyCopy(f[k], e) = Ram \union Rom
          /\ \A x \in Ram \union Rom : x # e[2] => ApplyCopy(f[k], e)[x] = f[k][x]
          /\ e[1] \in Ram \union Rom /\ e[2] \in Ram => ApplyCopy(f[k], e)[e[2]] = f[k][e[1]]
      BY <3>1, ApplyCopyEffect
    <3>4. f[k + 1] = ApplyCopy(f[k], e)
      BY <2>3 DEF e
    <3> QED
      BY <2>4, <3>2, <3>3, <3>4
  <2>6. MemOK(f[k + 1])
    BY <2>1, <2>4, <2>5 DEF MemOK
  <2>7. ASSUME InPlace(m, data, s, d, n, t) PROVE InPlace(f[k + 1], data, s, d, n, t + (k + 1))
    <3>1. InPlace(f[k], data, s, d, n, t + k)
      BY <2>1, <2>7
    <3>2. ASSUME NEW x \in 1..(t + (k + 1)) PROVE f[k + 1][d + x - 1] = data[x]
      <4>1. CASE x = i
        <5>1. i \in ((t + k) + 1)..n
          BY <2>2
        <5>2. f[k][s + i - 1] = data[i]
          BY <3>1, <5>1 DEF InPlace
        <5> QED
          BY <2>2, <2>5, <4>1, <5>2
      <4>2. CASE x # i
        <5>1. x \in 1..(t + k) /\ x \in 1..n /\ d + x - 1 # b
          BY <2>2, <3>2, <4>2
        <5>2. f[k][d + x - 1] = data[x]
          BY <3>1, <5>1 DEF InPlace
        <5>3. d + x - 1 \in Ram \union Rom
          BY <5>1 DEF Apart
        <5> QED
          BY <2>5, <5>1, <5>2, <5>3
      <4> QED
        BY <4>1, <4>2
    <3>3. ASSUME NEW x \in ((t + (k + 1)) + 1)..n PROVE f[k + 1][s + x - 1] = data[x]
      <4>0. x \in Int /\ t + (k + 1) + 1 <= x /\ x <= n
        BY <3>3
      <4>1. x \in ((t + k) + 1)..n /\ x \in 1..n /\ i < x
        BY <4>0
      <4>2. s + x - 1 # b
        <5>1. d + i # s + x
          BY <2>2, <4>1 DEF Apart
        <5> QED
          BY <2>2, <4>1, <5>1
      <4>3. f[k][s + x - 1] = data[x]
        BY <3>1, <4>1 DEF InPlace
      <4>4. s + x - 1 \in Ram \union Rom
        BY <4>1 DEF Apart
      <4> QED
        BY <2>5, <4>2, <4>3, <4>4
    <3> QED
      BY <3>2, <3>3 DEF InPlace
  <2> QED
    BY <2>6, <2>7
<1>5. w \in S
  <2> HIDE DEF S
  <2> QED
    BY <1>3, <1>4, SetInduction
<1> QED
  BY <1>2, <1>5

(* Nothing on the list, nothing moved.                                     *)
LEMMA NothingMoves ==
  ASSUME NEW m
  PROVE  MoveWords(m, <<>>) = m
<1>1. Len(<<>>) = 0
  OBVIOUS
<1>2. Len(<<>>) \in Nat
  BY <1>1
<1>3. PICK f : f[0] = m /\ MoveWords(m, <<>>) = f[Len(<<>>)]
  BY ONLY <1>2, MoveWordsSteps
<1> QED
  BY <1>1, <1>3

(* A burst moves whole words, no more than it or the copy has left.        *)
LEMMA WordsOfBurst ==
  ASSUME NEW r, r.size \in Nat, r.burst \in 0..BurstSize
  PROVE  /\ WordsNow(r) \in 0..(r.size \div WordSize)
         /\ r.size - WordSize * WordsNow(r) \in Nat
         /\ (r.size - WordSize * WordsNow(r)) \div WordSize = (r.size \div WordSize) - WordsNow(r)
         /\ r.burst + WordSize * WordsNow(r) \in 0..BurstSize
<1> DEFINE left == BurstSize - r.burst
           w == WordsNow(r)
<1>1. BurstSize \in Nat /\ r.burst \in Nat /\ left \in Nat
  BY DmaAssumption DEF DmaAssumption
<1>2. w = (IF left <= r.size THEN left ELSE r.size) \div 4
  BY <1>1, MinOfTwo DEF WordsNow, WordSize
<1> HIDE DEF w
<1>3. PICK z \in Nat : z = r.size
  OBVIOUS
<1>4. PICK y \in Nat : y = left
  BY <1>1
<1>5. w \in Nat /\ 4 * w <= z /\ 4 * w <= y
  BY <1>2, <1>3, <1>4
<1>6. w <= z \div 4 /\ (z - 4 * w) \div 4 = (z \div 4) - w
  BY <1>5
<1>7. r.burst + 4 * w \in 0..BurstSize
  BY <1>1, <1>4, <1>5
<1> QED
  BY <1>3, <1>5, <1>6, <1>7 DEF WordSize, w

(* A tick takes a copy further by the words it moves.                      *)
LEMMA TickKeepsCopy ==
  ASSUME NEW r, NEW o, ChannelOK(r, o), BurstOK(r), NEW m, MemOK(m), NEW j, CopyOK(r, m, j)
  PROVE  /\ MemOK(MoveWords(m, Copies(r)))
         /\ CopyOK(Service(r), MoveWords(m, Copies(r)), j)
         /\ BurstOK(Service(r))
<1> DEFINE list == Copies(r)
           w == WordsNow(r)
           q == Service(r)
<1>1. PICK s \in Nat, d \in Nat, n \in Nat : \E t \in 0..n : Halfway(r, m, j, s, d, n, t)
  BY DEF CopyOK
<1>2. PICK t \in 0..n : Halfway(r, m, j, s, d, n, t)
  BY <1>1
<1>3. DOMAIN r = {"src", "dst", "size", "status", "state", "burst"}
  BY DEF ChannelOK
<1>4. CASE r.state # "Bursting"
  <2>1. q = r /\ list = <<>>
    BY <1>4 DEF Service, Copies
  <2> QED
    BY <2>1, NothingMoves
<1>5. CASE Completes(r)
  <2>1. q = [r EXCEPT !.state = "Done", !.status = {"done"}] /\ list = <<>> /\ r.size = 0
        /\ r.state = "Bursting"
    BY <1>5 DEF Service, Copies, Completes
  <2>2. r.status # {}
    BY <2>1 DEF ChannelOK
  <2>3. q.size = 0 /\ q.src = r.src /\ q.dst = r.dst /\ q.state = "Done"
    BY <1>3, <2>1
  <2> HIDE DEF q
  <2>4. Halfway(q, m, j, s, d, n, t)
    BY <1>2, <2>1, <2>2, <2>3 DEF Halfway
  <2> QED
    BY <2>1, <2>3, <2>4, NothingMoves DEF CopyOK, BurstOK, q
<1>6. CASE r.state = "Bursting" /\ ~Completes(r)
  <2>1. r.burst \in 0..BurstSize /\ r.status = {"busy"}
    BY <1>6 DEF BurstOK, ChannelOK
  <2>2. r.status # {} /\ ~(r.status = {"done"})
    BY <2>1
  <2>3. r.size \in Nat /\ r.size \div WordSize = n - t /\ (t < n => r.src = s + t /\ r.dst = d + t)
        /\ Apart(s, d, n)
    BY <1>2, <2>2 DEF Halfway
  <2>4. /\ w \in 0..(n - t) /\ r.size - WordSize * w \in Nat
        /\ (r.size - WordSize * w) \div WordSize = (n - t) - w
        /\ r.burst + WordSize * w \in 0..BurstSize
    BY <2>1, <2>3, WordsOfBurst
  <2>5. list = [k \in 1..w |-> <<(r.src + k - 1) % AddrSpace, (r.dst + k - 1) % AddrSpace>>]
    BY <1>6 DEF Copies
  <2>6. AddrSpace \in Nat /\ AddrSpace > 0
    BY DmaAssumption DEF DmaAssumption
  <2>7. \A a \in Nat : a < AddrSpace => a % AddrSpace = a
    BY <2>6
  <2>8. /\ q.status = {"busy"} /\ q.size = r.size - WordSize * w /\ q.state = "Bursting"
        /\ q.burst \in 0..BurstSize
        /\ t + w < n => q.src = s + (t + w) /\ q.dst = d + (t + w)
    <3>1. CASE w = 0
      <4>1. q = [r EXCEPT !.burst = 0]
        BY <1>6, <3>1 DEF Service
      <4>2. q.status = r.status /\ q.size = r.size /\ q.state = r.state /\ q.burst = 0
            /\ q.src = r.src /\ q.dst = r.dst
        BY <1>3, <4>1
      <4>3. 0 \in 0..BurstSize /\ r.size - WordSize * 0 = r.size /\ t + 0 = t
        BY <2>3, DmaAssumption DEF DmaAssumption, WordSize
      <4> QED
        BY <1>6, <2>1, <2>3, <3>1, <4>2, <4>3
    <3>2. CASE w # 0
      <4>1. q = Advance(r)
        BY <1>6, <3>2 DEF Service
      <4> DEFINE x == (r.src + w) % AddrSpace
                 y == (r.dst + w) % AddrSpace
                 z == r.size - WordSize * w
                 u == r.burst + WordSize * w
      <4>2. q = [r EXCEPT !.src = x, !.dst = y, !.size = z, !.burst = u]
        BY <4>1 DEF Advance
      <4>3. t + w < n => x = s + (t + w) /\ y = d + (t + w)
        <5> SUFFICES ASSUME t + w < n PROVE x = s + (t + w) /\ y = d + (t + w)
          OBVIOUS
        <5>1. s + n <= AddrSpace /\ d + n <= AddrSpace /\ r.src = s + t /\ r.dst = d + t
          BY <2>3, <2>4 DEF Apart
        <5>2. PICK v \in Nat : v = w
          BY <2>4
        <5>3. s + (t + v) \in Nat /\ s + (t + v) < AddrSpace /\ (s + t) + v = s + (t + v)
              /\ d + (t + v) \in Nat /\ d + (t + v) < AddrSpace /\ (d + t) + v = d + (t + v)
          BY <2>6, <5>1, <5>2
        <5> QED
          BY <2>7, <5>1, <5>2, <5>3
      <4> HIDE DEF x, y, z, u, w, q
      <4>4. q.src = x /\ q.dst = y /\ q.size = z /\ q.burst = u /\ q.status = r.status /\ q.state = r.state
        BY <1>3, <4>2
      <4> QED
        BY <1>6, <2>1, <2>4, <4>3, <4>4 DEF z, u
    <3> QED
      BY <3>1, <3>2
  <2> HIDE DEF q, w
  <2>9. Len(list) = w /\ \A k \in 1..w : list[k] = <<s + t + k - 1, d + t + k - 1>>
    <3>1. Len(list) = w
      BY <2>4, <2>5
    <3> SUFFICES ASSUME NEW k \in 1..w PROVE list[k] = <<s + t + k - 1, d + t + k - 1>>
      BY <3>1
    <3>2. t < n /\ s + n <= AddrSpace /\ d + n <= AddrSpace /\ k <= n - t /\ k \in Nat /\ k >= 1
      BY <2>3, <2>4 DEF Apart
    <3>3. r.src = s + t /\ r.dst = d + t
      BY <2>3, <3>2
    <3>4. s + t + k - 1 \in Nat /\ s + t + k - 1 < AddrSpace
          /\ d + t + k - 1 \in Nat /\ d + t + k - 1 < AddrSpace
      BY <2>6, <3>2
    <3>5. list[k] = <<(s + t + k - 1) % AddrSpace, (d + t + k - 1) % AddrSpace>>
      BY <2>5, <3>3
    <3> HIDE DEF list
    <3> QED
      BY <2>7, <3>4, <3>5
  <2> HIDE DEF list
  <2> DEFINE after == MoveWords(m, list)
  <2>10. /\ MemOK(after)
         /\ InPlace(m, j.data, s, d, n, t) => InPlace(after, j.data, s, d, n, t + w)
    <3>1. Apart(s, d, n) /\ w \in 0..(n - t)
      BY <2>3, <2>4
    <3>2. Len(list) = w /\ \A k \in 1..w : list[k] = <<s + t + k - 1, d + t + k - 1>>
      BY <2>9
    <3> QED
      BY <3>1, <3>2, MoveForward, Zenon DEF after
  <2> HIDE DEF after
  <2>11. Halfway(q, after, j, s, d, n, t + w)
    <3>1. n - (t + w) = (n - t) - w
      BY <2>4
    <3> QED
      BY <1>2, <2>2, <2>4, <2>8, <2>10, <3>1 DEF Halfway
  <2>12. t + w \in 0..n
    BY <2>4
  <2> QED
    BY <2>8, <2>10, <2>11, <2>12 DEF CopyOK, BurstOK, after, list, q
<1> QED
  BY <1>4, <1>5, <1>6 DEF Completes

(* Neither a second start nor a reset loses what a copy has done.          *)
LEMMA RestartKeepsCopy ==
  ASSUME NEW r, NEW o, ChannelOK(r, o), BurstOK(r), r.status = {"busy"},
         NEW m, NEW j, CopyOK(r, m, j), NEW q, q = Start(r) \/ q = Abort(r)
  PROVE  CopyOK(q, m, j) /\ BurstOK(q)
<1>1. PICK s \in Nat, d \in Nat, n \in Nat : \E t \in 0..n : Halfway(r, m, j, s, d, n, t)
  BY DEF CopyOK
<1>2. PICK t \in 0..n : Halfway(r, m, j, s, d, n, t)
  BY <1>1
<1>3. DOMAIN r = {"src", "dst", "size", "status", "state", "burst"}
  BY DEF ChannelOK
<1>4. BurstSize \in Nat
  BY DmaAssumption DEF DmaAssumption
<1>5. CASE q = r
  BY <1>5
<1>6. CASE q = [r EXCEPT !.state = "Bursting", !.burst = 0, !.status = {"busy"}]
  <2>1. q.size = r.size /\ q.src = r.src /\ q.dst = r.dst /\ q.burst = 0 /\ q.status = r.status
    BY <1>3, <1>6
  <2>2. Halfway(q, m, j, s, d, n, t)
    BY <1>2, <2>1 DEF Halfway
  <2> QED
    BY <1>4, <2>1, <2>2 DEF CopyOK, BurstOK
<1>7. CASE q = Abort(r)
  <2>1. q.status = {} /\ q.state = "Idle"
    BY <1>3, <1>7 DEF Abort
  <2>2. Halfway(q, m, j, s, d, n, t)
    BY <1>2, <2>1 DEF Halfway
  <2> QED
    BY <2>1, <2>2 DEF CopyOK, BurstOK
<1> QED
  BY <1>5, <1>6, <1>7 DEF Start

(* A job that is started has all its words at their sources.               *)
LEMMA JobStarts ==
  ASSUME NEW r, NEW o, ChannelOK(r, o), "busy" \notin r.status, NEW j \in Jobs,
         NEW q, q = Start(Over(j, r))
  PROVE  CopyOK(q, mem, JobOf(j)) /\ BurstOK(q)
<1> DEFINE x == Over(j, r)
           n == j.size \div WordSize
           J == JobOf(j)
<1>1. /\ DOMAIN j = {"src", "dst", "size"} /\ j.src \in Nat /\ j.dst \in Nat /\ j.size \in Nat
      /\ CopiesWell(j)
  BY SaveAssumption, CopyAssumption DEF SaveAssumption
<1>2. /\ DOMAIN x = {"src", "dst", "size", "status", "state", "burst"}
      /\ x.src = j.src /\ x.dst = j.dst /\ x.size = j.size /\ x.status = r.status /\ x.state = r.state
  BY <1>1 DEF Over, ChannelOK
<1>3. n \in Nat /\ 0 \in 0..n
  BY <1>1 DEF WordSize
<1>4. Apart(j.src, j.dst, n) /\ j.src # 0 /\ j.dst # 0
  BY <1>1 DEF CopiesWell, Apart
<1>5. /\ J.from = { j.src + k - 1 : k \in 1..n } /\ J.to = [k \in 1..n |-> j.dst + k - 1]
      /\ J.data = [k \in 1..n |-> mem[j.src + k - 1]]
  BY DEF JobOf
<1>6. InPlace(mem, J.data, j.src, j.dst, n, 0)
  BY <1>3, <1>5 DEF InPlace
<1> HIDE DEF x, J
<1>7. q.size = j.size /\ q.src = j.src /\ q.dst = j.dst /\ BurstOK(q) /\ (q.status = {"done"} => j.size = 0)
  <2>1. CASE j.size > 0
    <3>1. q = [x EXCEPT !.state = "Bursting", !.burst = 0, !.status = {"busy"}]
      BY <1>2, <1>4, <2>1 DEF Start, x
    <3>2. /\ q.size = x.size /\ q.src = x.src /\ q.dst = x.dst /\ q.status = {"busy"}
          /\ q.burst = 0
      BY <1>2, <3>1
    <3>3. 0 \in 0..BurstSize /\ {"busy"} # {"done"}
      BY DmaAssumption DEF DmaAssumption
    <3> QED
      BY <1>2, <3>2, <3>3 DEF BurstOK
  <2>2. CASE j.size = 0
    <3>1. q = x
      BY <1>2, <2>2 DEF Start, x
    <3>2. r.state # "Bursting"
      BY DEF ChannelOK
    <3> QED
      BY <1>2, <2>2, <3>1, <3>2 DEF BurstOK
  <2> QED
    BY <1>1, <2>1, <2>2
<1> HIDE DEF n
<1>8. Halfway(q, mem, J, j.src, j.dst, n, 0)
  <2>1. j.size \div WordSize = n - 0 /\ j.src + 0 = j.src /\ j.dst + 0 = j.dst
    BY <1>1, <1>3 DEF n
  <2> QED
    BY <1>1, <1>4, <1>5, <1>6, <1>7, <2>1 DEF Halfway
<1> QED
  BY <1>1, <1>3, <1>7, <1>8 DEF CopyOK, J

(* The program stores to no word that it copies to.                        *)
LEMMA StoreKeepsCopy ==
  ASSUME NEW r, NEW o, ChannelOK(r, o), "busy" \notin r.status, NEW m, MemOK(m),
         NEW j, CopyOK(r, m, j), NEW a \in Stores, NEW v
  PROVE  CopyOK(r, [m EXCEPT ![a] = v], j) /\ MemOK([m EXCEPT ![a] = v])
<1> DEFINE after == [m EXCEPT ![a] = v]
<1>1. PICK s \in Nat, d \in Nat, n \in Nat : \E t \in 0..n : Halfway(r, m, j, s, d, n, t)
  BY DEF CopyOK
<1>2. PICK t \in 0..n : Halfway(r, m, j, s, d, n, t)
  BY <1>1
<1>3. a \in Ram
  BY SaveAssumption DEF SaveAssumption
<1>4. MemOK(after) /\ \A b \in (Ram \union Rom) \ {a} : after[b] = m[b]
  BY <1>3 DEF MemOK
<1> HIDE DEF after
<1>5. Halfway(r, after, j, s, d, n, t)
  <2>1. CASE r.status = {}
    BY <1>2, <2>1 DEF Halfway
  <2>2. CASE r.status # {}
    <3>1. r.status = {"done"}
      BY <2>2 DEF ChannelOK
    <3>2. Apart(s, d, n) /\ r.size = 0 /\ r.size \div WordSize = n - t
      BY <1>2, <2>2, <3>1 DEF Halfway
    <3>3. t = n
      BY <3>2 DEF WordSize
    <3>4. ASSUME InPlace(m, j.data, s, d, n, t) PROVE InPlace(after, j.data, s, d, n, t)
      <4>1. ASSUME NEW k \in 1..t PROVE after[d + k - 1] = j.data[k]
        <5>1. d + k - 1 \in Ram \ Stores
          BY <3>2, <3>3 DEF Apart
        <5>2. m[d + k - 1] = j.data[k]
          BY <3>4 DEF InPlace
        <5> QED
          BY <1>4, <5>1, <5>2
      <4>2. (t + 1)..n = {}
        BY <3>3
      <4> QED
        BY <4>1, <4>2 DEF InPlace
    <3> QED
      BY <1>2, <3>4 DEF Halfway
  <2> QED
    BY <2>1, <2>2
<1> QED
  BY <1>4, <1>5 DEF CopyOK, after

(* A copy is where it was under the same registers and the same memory,    *)
(* the ColdFire's local memory apart.                                      *)
LEMMA SameCopy ==
  ASSUME NEW r, NEW q, r.src = q.src, r.dst = q.dst, r.size = q.size, r.status = q.status,
         NEW m, NEW after, \A a \in (Ram \union Rom) \ Local : after[a] = m[a],
         NEW j, CopyOK(r, m, j)
  PROVE  CopyOK(q, after, j)
<1>1. PICK s \in Nat, d \in Nat, n \in Nat : \E t \in 0..n : Halfway(r, m, j, s, d, n, t)
  BY DEF CopyOK
<1>2. PICK t \in 0..n : Halfway(r, m, j, s, d, n, t)
  BY <1>1
<1>3. /\ Apart(s, d, n)
      /\ j.from = { s + k - 1 : k \in 1..n } /\ j.to = [k \in 1..n |-> d + k - 1]
  BY <1>2 DEF Halfway
<1>4. ASSUME (j.from \union ToSet(j.to)) \intersect Local = {}, InPlace(m, j.data, s, d, n, t)
      PROVE  InPlace(after, j.data, s, d, n, t)
  <2>1. ASSUME NEW k \in 1..n PROVE /\ s + k - 1 \in (Ram \union Rom) \ Local
                                    /\ d + k - 1 \in (Ram \union Rom) \ Local
    <3>1. s + k - 1 \in j.from
      BY <1>3
    <3>2. d + k - 1 \in ToSet(j.to)
      BY <1>3 DEF ToSet
    <3>3. s + k - 1 \in Ram \union Rom /\ d + k - 1 \in Ram
      BY <1>3 DEF Apart
    <3> QED
      BY <1>4, <3>1, <3>2, <3>3
  <2>2. ASSUME NEW k \in 1..t PROVE after[d + k - 1] = j.data[k]
    <3>1. k \in 1..n
      OBVIOUS
    <3>2. m[d + k - 1] = j.data[k]
      BY <1>4 DEF InPlace
    <3> QED
      BY <2>1, <3>1, <3>2
  <2>3. ASSUME NEW k \in (t + 1)..n PROVE after[s + k - 1] = j.data[k]
    <3>1. k \in 1..n
      OBVIOUS
    <3>2. m[s + k - 1] = j.data[k]
      BY <1>4 DEF InPlace
    <3> QED
      BY <2>1, <3>1, <3>2
  <2> QED
    BY <2>2, <2>3 DEF InPlace
<1>5. Halfway(q, after, j, s, d, n, t)
  BY <1>2, <1>4 DEF Halfway
<1> QED
  BY <1>5 DEF CopyOK

(* Nothing has been copied under registers that say nothing.               *)
LEMMA NoCopy ==
  ASSUME NEW r, r.status = {}, NEW m
  PROVE  CopyOK(r, m, NoJob)
<1>1. Apart(0, 0, 0)
  BY DmaAssumption DEF DmaAssumption, Apart
<1>2. NoJob.from = { 0 + k - 1 : k \in 1..0 } /\ NoJob.to = [k \in 1..0 |-> 0 + k - 1]
  BY DEF NoJob
<1>3. 0 \in Nat /\ 0 \in 0..0
  OBVIOUS
<1>4. Halfway(r, m, NoJob, 0, 0, 0, 0)
  BY <1>1, <1>2 DEF Halfway
<1> QED
  BY <1>3, <1>4 DEF CopyOK

(* What a file has of a machine's memory is what the machine had; with the *)
(* DMA section comes the memory, as it is earlier in the file.             *)
LEMMA SavedMemory ==
  ASSUME MemOK(mem), NEW f, OneSave(f),
         \A i \in DOMAIN Applied(f) : Applied(f)[i].data = Data(Applied(f)[i].id)
  PROVE  /\ MemOK(LoadedMem(f))
         /\ Has(f, "DMA") => \A a \in (Ram \union Rom) \ Local : LoadedMem(f)[a] = mem[a]
<1> DEFINE m1 == Restored(f, "RAM", NewMem)
           m2 == LoadedMem(f)
<1>1. DOMAIN NewMem = Ram \union Rom /\ \A a \in Rom : NewMem[a] = a
  BY DEF NewMem
<1>2. Local \subseteq Ram /\ Vram \subseteq Ram \ Local
  BY SaveAssumption DEF SaveAssumption
<1>3. Data("RAM") = Words(Ram \ Local) /\ Data("VRAM") = Words(Vram)
  BY Zenon DEF Data
<1>4. Has(f, "RAM") => Got(f, "RAM").data = [a \in Ram \ Local |-> mem[a]]
  BY <1>3, RestoredFrom DEF Words
<1>5. Has(f, "VRAM") => Got(f, "VRAM").data = [a \in Vram |-> mem[a]]
  BY <1>3, RestoredFrom DEF Words
<1>6. /\ DOMAIN m1 = Ram \union Rom /\ \A a \in Rom \ Ram : m1[a] = a
      /\ Has(f, "RAM") => \A a \in Ram \ Local : m1[a] = mem[a]
  <2>1. CASE ~Has(f, "RAM")
    BY <1>1, <2>1 DEF Restored
  <2>2. CASE Has(f, "RAM")
    <3> DEFINE w == [a \in Ram \ Local |-> mem[a]]
    <3>1. m1 = Over(w, NewMem)
      BY <1>4, <2>2 DEF Restored
    <3> HIDE DEF m1
    <3>2. /\ DOMAIN m1 = Ram \union Rom
          /\ \A a \in Ram \union Rom : m1[a] = IF a \in Ram \ Local THEN mem[a] ELSE NewMem[a]
      BY <1>1, <3>1 DEF Over
    <3> QED
      BY <1>1, <3>2
  <2> QED
    BY <2>1, <2>2
<1>7. m2 = Restored(f, "VRAM", m1)
  BY DEF LoadedMem
<1> HIDE DEF m1, m2
<1>8. /\ DOMAIN m2 = Ram \union Rom
      /\ \A a \in Ram \union Rom : m2[a] = m1[a] \/ (a \in Vram /\ m2[a] = mem[a])
  <2>1. CASE ~Has(f, "VRAM")
    BY <1>6, <1>7, <2>1 DEF Restored
  <2>2. CASE Has(f, "VRAM")
    <3> DEFINE w == [a \in Vram |-> mem[a]]
    <3>1. m2 = Over(w, m1)
      BY <1>5, <1>7, <2>2 DEF Restored
    <3>2. /\ DOMAIN m2 = Ram \union Rom
          /\ \A a \in Ram \union Rom : m2[a] = IF a \in Vram THEN mem[a] ELSE m1[a]
      BY <1>2, <1>6, <3>1 DEF Over
    <3> QED
      BY <3>2
  <2> QED
    BY <2>1, <2>2
<1>9. MemOK(m2)
  BY <1>2, <1>6, <1>8 DEF MemOK
<1>10. Has(f, "DMA") => Has(f, "RAM")
  <2> SUFFICES ASSUME Has(f, "DMA") PROVE Has(f, "RAM")
    OBVIOUS
  <2>1. PICK n \in 0..9 : /\ DOMAIN Applied(f) = 1..n
                          /\ \A i \in 1..n : Applied(f)[i].id = SectionOrder[i]
    BY DEF OneSave
  <2>2. PICK i \in 1..n : SectionOrder[i] = "DMA"
    BY <2>1 DEF Has
  <2>3. SectionOrder[8] = "DMA" /\ SectionOrder[3] = "RAM"
    BY DEF SectionOrder
  <2>4. i = 8
    BY <2>2, <2>3, NineSections
  <2>5. 3 \in 1..n
    BY <2>4
  <2> QED
    BY <2>1, <2>3, <2>5 DEF Has
<1>11. ASSUME Has(f, "RAM"), NEW a \in (Ram \union Rom) \ Local PROVE m2[a] = mem[a]
  <2>1. m1[a] = mem[a]
    BY <1>6, <1>11 DEF MemOK
  <2> QED
    BY <1>8, <2>1
<1> QED
  BY <1>9, <1>10, <1>11 DEF m2

(* A save writes the registers of a copy and the memory of one moment.     *)
LEMMA SaveKeepsCopy ==
  ASSUME CopyInv, NEW n \in 0..Len(SectionOrder), Save(n)
  PROVE  CopyInv'
<1> DEFINE g == [i \in 1..n |-> Data(SectionOrder[i])]
           secs == [i \in 1..n |-> Section(SectionOrder[i], Data(SectionOrder[i]), sessions)]
<1>1. file' = Written(file, secs) /\ UNCHANGED <<ch, mem, job>>
  BY DEF Save, machine, history
<1>2. secs = SectionsOf(n, g, sessions) /\ n \in 0..9
  BY NineSections DEF SectionsOf
<1> HIDE DEF secs
<1>3. /\ DOMAIN Applied(file') = 1..n
      /\ \A i \in 1..n : Applied(file')[i] = Section(SectionOrder[i], g[i], sessions)
  <2>1. LoadsAs(file', n, g, sessions)
    BY <1>1, <1>2, WrittenIsApplied
  <2> QED
    BY <2>1 DEF LoadsAs
<1>4. \A i \in DOMAIN Applied(file') : Applied(file')[i].data = Data(Applied(file')[i].id)
  BY <1>3 DEF Section
<1>5. OneSave(file')
  BY <1>1, <1>2, WrittenIsOneSave
<1>6. PICK f : f = file'
  OBVIOUS
<1>7. FileCopyOK(f)
  <2>1. MemOK(mem)
    BY DEF CopyInv
  <2>2. /\ MemOK(LoadedMem(f))
        /\ Has(f, "DMA") => \A a \in (Ram \union Rom) \ Local : LoadedMem(f)[a] = mem[a]
    BY <1>4, <1>5, <1>6, <2>1, SavedMemory
  <2> SUFFICES ASSUME Has(f, "DMA"), NEW c \in Chan
               PROVE  CopyOK(Got(f, "DMA").data.ch[c], LoadedMem(f), Got(f, "DMA").data.job)
    BY <2>2 DEF FileCopyOK
  <2>3. Got(f, "DMA").data = Data("DMA")
    BY <1>4, <1>5, <1>6, RestoredFrom
  <2>4. /\ Got(f, "DMA").data.ch = [x \in Chan |-> Registers(ch[x])]
        /\ Got(f, "DMA").data.job = job
    BY <2>3, DataOf
  <2>5. Got(f, "DMA").data.ch[c] = Registers(ch[c])
    BY <2>4
  <2> DEFINE q == Registers(ch[c])
  <2>6. q.src = ch[c].src /\ q.dst = ch[c].dst /\ q.size = ch[c].size /\ q.status = ch[c].status
    BY DEF Registers
  <2> HIDE DEF q
  <2>7. CopyOK(q, LoadedMem(f), job)
    <3>1. CopyOK(ch[c], mem, job)
      BY DEF CopyInv
    <3> QED
      BY <2>2, <2>6, <3>1, SameCopy
  <2> QED
    BY <2>4, <2>5, <2>7 DEF q
<1> QED
  BY <1>1, <1>6, <1>7 DEF CopyInv

(* A file of no sections leaves the new machine as it is.                  *)
LEMMA EmptyFileCopy ==
  ASSUME NEW f, Applied(f) = <<>>
  PROVE  FileCopyOK(f) /\ LoadedMem(f) = NewMem
<1>1. \A id : ~Has(f, id)
  BY DEF Has
<1>2. LoadedMem(f) = NewMem
  BY <1>1 DEF LoadedMem, Restored
<1>3. MemOK(NewMem)
  BY DEF MemOK, NewMem
<1> QED
  BY <1>1, <1>2, <1>3 DEF FileCopyOK

(* A loaded channel is where the saved one was, over the memory saved with *)
(* it.                                                                     *)
LEMMA LoadKeepsCopy ==
  ASSUME SaveInv, CopyInv, NEW f \in {file, NoFile}, PowerOn(f)
  PROVE  CopyInv'
<1> DEFINE new == [ch |-> [c \in Chan |-> ChannelReset], job |-> NoJob]
           m == Restored(f, "DMA", new)
           D == Got(f, "DMA").data
<1>1. OneSave(f) /\ FileOK(f, sessions) /\ FileCopyOK(f)
  <2>1. Applied(NoFile) = <<>>
    BY DEF NoFile, Applied
  <2>2. OneSave(NoFile) /\ FileOK(NoFile, sessions) /\ FileCopyOK(NoFile)
    BY <2>1, EmptyIsOneSave, EmptyFileCopy DEF FileOK
  <2> QED
    BY <2>2 DEF SaveInv, CopyInv
<1>2. /\ file' = file /\ mem' = LoadedMem(f) /\ job' = m.job
      /\ ch' = [c \in Chan |-> Over(m.ch[c], ChannelReset)]
  BY DEF PowerOn, LoadedMem
<1>3. ASSUME NEW c \in Chan PROVE CopyOK(ch'[c], mem', job') /\ BurstOK(ch'[c])
  <2> DEFINE q == ch'[c]
  <2>1. CASE ~Has(f, "DMA")
    <3>1. m = new
      BY <2>1 DEF Restored
    <3>2. new.ch = [x \in Chan |-> ChannelReset] /\ new.job = NoJob
      OBVIOUS
    <3> HIDE DEF new, m
    <3>3. m.ch[c] = ChannelReset /\ job' = NoJob
      BY <1>2, <3>1, <3>2
    <3>4. q = Over(ChannelReset, ChannelReset)
      BY <1>2, <3>3
    <3> HIDE DEF q
    <3>5. q.status = {} /\ q.state = "Idle"
      BY <3>4 DEF Over, ChannelReset
    <3>6. CopyOK(q, mem', NoJob)
      BY <3>5, NoCopy
    <3> QED
      BY <3>3, <3>5, <3>6 DEF BurstOK, q
  <2>2. CASE Has(f, "DMA")
    <3>1. Got(f, "DMA").id = "DMA" /\ SectionOK(Got(f, "DMA"))
      BY <1>1, <2>2, LoadedSection, Zenon
    <3>2. DOMAIN D = {"ch", "job"} /\ DOMAIN D.ch[c] = {"src", "dst", "size", "status"}
      BY <3>1 DEF SectionOK
    <3>3. m = Over(D, new)
      BY <2>2 DEF Restored
    <3>4. CopyOK(D.ch[c], LoadedMem(f), D.job)
      BY <1>1, <2>2 DEF FileCopyOK
    <3> HIDE DEF D, new
    <3>5. m.ch = D.ch /\ m.job = D.job
      BY <3>2, <3>3 DEF Over
    <3> DEFINE r == D.ch[c]
    <3> HIDE DEF m
    <3>6. q = Over(r, ChannelReset) /\ job' = D.job
      BY <1>2, <3>5
    <3> HIDE DEF r, q
    <3>7. /\ r.src = q.src /\ r.dst = q.dst /\ r.size = q.size /\ r.status = q.status
          /\ q.state = "Idle"
      BY <3>2, <3>6 DEF Over, ChannelReset, r
    <3>8. CopyOK(q, LoadedMem(f), D.job)
      BY <3>4, <3>7, SameCopy DEF r
    <3> QED
      BY <1>2, <3>6, <3>7, <3>8 DEF BurstOK, q
  <2> QED
    BY <2>1, <2>2
<1>4. FileCopyOK(file') /\ MemOK(mem')
  BY <1>1, <1>2 DEF CopyInv, FileCopyOK
<1> HIDE DEF m
<1> QED
  BY <1>3, <1>4 DEF CopyInv

LEMMA CopyInit == Init => CopyInv
<1> SUFFICES ASSUME Init PROVE CopyInv
  OBVIOUS
<1>1. FileCopyOK(file)
  <2>1. Applied(NoFile) = <<>>
    BY DEF NoFile, Applied
  <2>2. Applied(file) = <<>>
    BY <2>1, SaveAssumption DEF Init, SaveAssumption
  <2> QED
    BY <2>2, EmptyFileCopy
<1>2. MemOK(mem)
  BY DEF Init, MemOK, NewMem
<1>3. \A c \in Chan : ch[c] = ChannelReset
  BY DEF Init
<1>4. ChannelReset.status = {} /\ ChannelReset.state = "Idle" /\ job = NoJob
  BY DEF ChannelReset, Init
<1>5. CopyOK(ChannelReset, mem, NoJob)
  BY <1>4, NoCopy
<1>6. BurstOK(ChannelReset)
  BY <1>4 DEF BurstOK
<1> QED
  BY <1>1, <1>2, <1>3, <1>4, <1>5, <1>6 DEF CopyInv

(* A tick moves the words of the one channel there is.                     *)
LEMMA TickKeepsCopies ==
  ASSUME SaveInv, CopyInv, Tick
  PROVE  CopyInv'
<1>1. /\ ch' = [c \in Chan |-> Service(ch[c])] /\ mem' = MemAfter
      /\ UNCHANGED <<file, job>>
  BY DEF Tick, history
<1>2. Chan = {Channels[1]} /\ MemAfter = MoveWords(mem, Copies(ch[Channels[1]]))
  BY OneList, CopyAssumption, DmaAssumption DEF DmaAssumption
<1>3. ASSUME NEW c \in Chan
      PROVE  MemOK(mem') /\ CopyOK(ch'[c], mem', job') /\ BurstOK(ch'[c])
  <2>1. ChannelOK(ch[c], origin["DMA"]) /\ BurstOK(ch[c]) /\ MemOK(mem) /\ CopyOK(ch[c], mem, job)
    BY DEF SaveInv, ChannelsOK, CopyInv
  <2>2. /\ MemOK(MoveWords(mem, Copies(ch[c])))
        /\ CopyOK(Service(ch[c]), MoveWords(mem, Copies(ch[c])), job)
        /\ BurstOK(Service(ch[c]))
    BY <2>1, TickKeepsCopy
  <2>3. ch'[c] = Service(ch[c]) /\ mem' = MoveWords(mem, Copies(ch[c])) /\ job' = job
    BY <1>1, <1>2
  <2> QED
    BY <2>2, <2>3
<1>4. MemOK(mem')
  BY <1>2, <1>3
<1>5. FileCopyOK(file')
  BY <1>1 DEF CopyInv, FileCopyOK
<1> QED
  BY <1>3, <1>4, <1>5 DEF CopyInv

(* The program's stores, starts and restarts are of an idle channel or keep *)
(* what it has done.                                                       *)
LEMMA ProgramKeepsCopies ==
  ASSUME SaveInv, CopyInv, StoreWord \/ StartCopy \/ RestartDma
  PROVE  CopyInv'
<1>1. Chan = {Channels[1]} /\ MemOK(mem) /\ FileCopyOK(file)
  BY OneList, CopyAssumption, DmaAssumption DEF DmaAssumption, CopyInv
<1>2. \A c \in Chan : ChannelOK(ch[c], origin["DMA"]) /\ BurstOK(ch[c]) /\ CopyOK(ch[c], mem, job)
  BY DEF SaveInv, ChannelsOK, CopyInv
<1>3. file' = file
  BY DEF StoreWord, StartCopy, RestartDma
<1>4. CASE StoreWord
  <2>1. PICK a \in Stores : mem' = [mem EXCEPT ![a] = sessions]
    BY <1>4 DEF StoreWord
  <2>2. UNCHANGED <<ch, job>> /\ \A c \in Chan : "busy" \notin ch[c].status
    BY <1>4 DEF StoreWord, history
  <2>3. \A c \in Chan : CopyOK(ch[c], mem', job) /\ MemOK(mem')
    BY <1>1, <1>2, <2>1, <2>2, StoreKeepsCopy
  <2> QED
    BY <1>1, <1>2, <1>3, <2>2, <2>3 DEF CopyInv
<1>5. CASE StartCopy
  <2>1. PICK c \in Chan, j \in Jobs :
          /\ "busy" \notin ch[c].status
          /\ ch' = [ch EXCEPT ![c] = Start(Over(j, ch[c]))]
          /\ job' = JobOf(j)
    BY <1>5 DEF StartCopy
  <2>2. mem' = mem
    BY <1>5 DEF StartCopy
  <2> DEFINE q == Start(Over(j, ch[c]))
  <2>3. CopyOK(q, mem, JobOf(j)) /\ BurstOK(q)
    BY <1>2, <2>1, JobStarts
  <2>4. \A x \in Chan : ch'[x] = q
    BY <1>1, <2>1 DEF SaveInv, ChannelsOK
  <2> HIDE DEF q
  <2> QED
    BY <1>1, <1>3, <2>1, <2>2, <2>3, <2>4 DEF CopyInv
<1>6. CASE RestartDma
  <2>1. PICK c \in Chan, reg \in {"start", "abort"} :
          "busy" \in ch[c].status /\ ch' = [ch EXCEPT ![c] = WriteReg(ch[c], reg, 0)]
    BY <1>6 DEF RestartDma
  <2>2. UNCHANGED <<mem, job>>
    BY <1>6 DEF RestartDma, history
  <2> DEFINE q == WriteReg(ch[c], reg, 0)
  <2>3. q = Start(ch[c]) \/ q = Abort(ch[c])
    BY DEF WriteReg
  <2>4. \A x \in Chan : ch'[x] = q
    BY <1>1, <2>1 DEF SaveInv, ChannelsOK
  <2> HIDE DEF q
  <2>5. ch[c].status = {"busy"}
    BY <1>2, <2>1 DEF ChannelOK
  <2>6. CopyOK(q, mem, job) /\ BurstOK(q)
    BY <1>2, <2>3, <2>5, RestartKeepsCopy
  <2> QED
    BY <1>1, <1>3, <2>2, <2>4, <2>6 DEF CopyInv
<1> QED
  BY <1>4, <1>5, <1>6

LEMMA CopyNext == SaveInv /\ CopyInv /\ [Next]_vars => CopyInv'
<1> SUFFICES ASSUME SaveInv, CopyInv, [Next]_vars PROVE CopyInv'
  OBVIOUS
<1>1. CASE UNCHANGED <<ch, mem, job, file>>
  BY <1>1 DEF CopyInv
<1>2. ASSUME \/ PutInDisc \/ CfTurn \/ PpcTurn \/ Kick \/ CommandDrive \/ Quit \/ UNCHANGED vars
      PROVE  UNCHANGED <<ch, mem, job, file>>
  BY <1>2 DEF PutInDisc, CfTurn, PpcTurn, Kick, CommandDrive, Quit, vars, machine, history
<1> QED
  BY <1>1, <1>2, SaveKeepsCopy, LoadKeepsCopy, TickKeepsCopies, ProgramKeepsCopies DEF Next

(* A copy that a save cut in two, once started again, ends with every word *)
(* in its place: for every memory, every burst size, every copy of the one *)
(* channel that CopiesWell and stays out of the local memory, however often *)
(* the machine is saved and loaded, and whatever of the saves succeeds.    *)
THEOREM RestartedCopyHolds == Spec => []RestartedCopyIsWhole
<1>1. ASSUME SaveInv, CopyInv PROVE RestartedCopyIsWhole
  <2> SUFFICES ASSUME NEW c \in Chan, ch[c].status = {"done"},
                      (job.from \union ToSet(job.to)) \intersect Local = {},
                      NEW k \in DOMAIN job.to
               PROVE  mem[job.to[k]] = job.data[k]
    BY DEF RestartedCopyIsWhole
  <2>1. PICK s \in Nat, d \in Nat, n \in Nat : \E t \in 0..n : Halfway(ch[c], mem, job, s, d, n, t)
    BY <1>1 DEF CopyInv, CopyOK
  <2>2. PICK t \in 0..n : Halfway(ch[c], mem, job, s, d, n, t)
    BY <2>1
  <2>3. /\ job.to = [i \in 1..n |-> d + i - 1] /\ ch[c].size = 0 /\ ch[c].size \div WordSize = n - t
        /\ InPlace(mem, job.data, s, d, n, t)
    BY <2>2 DEF Halfway
  <2>4. k \in 1..t /\ job.to[k] = d + k - 1
    BY <2>3 DEF WordSize
  <2> QED
    BY <2>3, <2>4 DEF InPlace
<1>2. SaveInv /\ CopyInv /\ [Next]_vars => SaveInv' /\ CopyInv'
  BY SaveNext, CopyNext
<1> QED
  BY SaveInit, CopyInit, <1>1, <1>2, PTL DEF Spec
=============================================================================
