----------------------------- MODULE VideoProofs -----------------------------
(***************************************************************************)
(* Theorems about Video for every buffer, every program and every way      *)
(* another program may write the registers.                                *)
(***************************************************************************)
EXTENDS Video, SequenceTheorems, WellFoundedInduction, TLAPS

Gpus == [state : {"Idle", "VerticalBlank"}, kick : BOOLEAN, list : Lists, reg4 : Nat, blank : BOOLEAN, frame : Nat]

\* A list that is being shown is one a request may name.
Shown == gpu.state # "Idle" => last.list \in Lists

GpuInv == gpu \in Gpus /\ Shown

Uses == [push : Nat, jobs : Nat, poke : Nat, forged : BOOLEAN]
-----------------------------------------------------------------------------
(* What one tick of the bus makes of the GPU: it takes a request and is in *)
(* the vertical blank at once, or it ends a frame, or it rests; and it     *)
(* forwards the interrupt register, which the end of a frame sets.         *)
LEMMA TickCases ==
  ASSUME NEW g \in Gpus
  PROVE  /\ (g.state = "Idle" /\ g.kick) =>
               /\ Takes(g) /\ Blanks(g) = g.blank
               /\ BusTick(g) = [g EXCEPT !.state = "VerticalBlank", !.kick = FALSE, !.blank = FALSE]
         /\ g.state = "VerticalBlank" =>
               /\ ~Takes(g) /\ Blanks(g)
               /\ BusTick(g) = [g EXCEPT !.state = "Idle", !.frame = @ + 1, !.blank = FALSE]
         /\ (g.state = "Idle" /\ ~g.kick) =>
               ~Takes(g) /\ Blanks(g) = g.blank /\ BusTick(g) = [g EXCEPT !.blank = FALSE]
<1>1. CASE g.state = "Idle" /\ g.kick
  <2> DEFINE p == [g EXCEPT !.state = "Presenting", !.kick = FALSE]
             q == [g EXCEPT !.state = "VerticalBlank", !.kick = FALSE]
  <2>1. GpuTick(g) = p
    BY <1>1 DEF GpuTick
  <2>2. p.state = "Presenting"
    BY DEF Gpus
  <2>3. GpuTick(p) = [p EXCEPT !.state = "VerticalBlank"]
    BY <2>2 DEF GpuTick
  <2>4. [p EXCEPT !.state = "VerticalBlank"] = q
    BY DEF Gpus
  <2>5. Takes(g)
    BY <1>1, <2>1, <2>2 DEF Takes
  <2>6. q.blank = g.blank /\ [q EXCEPT !.blank = FALSE]
          = [g EXCEPT !.state = "VerticalBlank", !.kick = FALSE, !.blank = FALSE]
    BY DEF Gpus
  <2> HIDE DEF p, q
  <2>7. Ticked(g) = q
    BY <2>1, <2>3, <2>4, <2>5 DEF Ticked
  <2> QED
    BY <1>1, <2>5, <2>6, <2>7 DEF BusTick, Blanks
<1>2. CASE g.state = "VerticalBlank"
  <2> DEFINE p == [g EXCEPT !.state = "Idle", !.frame = @ + 1, !.blank = TRUE]
  <2>1. GpuTick(g) = p
    BY <1>2 DEF GpuTick
  <2>2. p.blank /\ [p EXCEPT !.blank = FALSE] = [g EXCEPT !.state = "Idle", !.frame = @ + 1, !.blank = FALSE]
    BY DEF Gpus
  <2>3. ~Takes(g)
    BY <1>2 DEF Takes
  <2> HIDE DEF p
  <2>4. Ticked(g) = p
    BY <2>1, <2>3 DEF Ticked
  <2> QED
    BY <1>2, <2>2, <2>3, <2>4 DEF BusTick, Blanks
<1>3. CASE g.state = "Idle" /\ ~g.kick
  <2>1. GpuTick(g) = g
    BY <1>3 DEF GpuTick
  <2>2. ~Takes(g)
    BY <1>3, <2>1 DEF Takes
  <2>3. Ticked(g) = g
    BY <2>1, <2>2 DEF Ticked
  <2> QED
    BY <1>3, <2>2, <2>3 DEF BusTick, Blanks
<1> QED
  BY <1>1, <1>2, <1>3 DEF Gpus

(* A write of a register changes that register only. *)
LEMMA WriteType ==
  ASSUME NEW g \in Gpus, NEW reg, NEW val,
         \/ reg \in {"kick", "blank"} /\ val \in BOOLEAN
         \/ reg = "list" /\ val \in Lists
         \/ reg = "reg4" /\ val \in Nat
  PROVE  /\ WriteGpuReg(g, reg, val) \in Gpus
         /\ WriteGpuReg(g, reg, val).state = g.state
         /\ WriteGpuReg(g, reg, val).frame = g.frame
         /\ WriteGpuReg(g, reg, val).list = IF reg = "list" THEN val ELSE g.list
         /\ WriteGpuReg(g, reg, val).kick = IF reg = "kick" THEN val ELSE g.kick
         /\ WriteGpuReg(g, reg, val).blank = IF reg = "blank" THEN val ELSE g.blank
<1>1. CASE reg = "kick" /\ val \in BOOLEAN
  BY <1>1 DEF WriteGpuReg, Gpus
<1>4. CASE reg = "blank" /\ val \in BOOLEAN
  BY <1>4 DEF WriteGpuReg, Gpus
<1>2. CASE reg = "list" /\ val \in Lists
  BY <1>2 DEF WriteGpuReg, Gpus
<1>3. CASE reg = "reg4" /\ val \in Nat
  BY <1>3 DEF WriteGpuReg, Gpus
<1> QED
  BY <1>1, <1>2, <1>3, <1>4

(* Every step that is not a tick of the GPU leaves it alone, or writes one *)
(* of its registers; the list it shows and the lines are not touched, and  *)
(* the interrupt register is written by others only.                       *)
LEMMA ProgramSteps ==
  ASSUME GpuInv, used \in Uses, Program \/ Poke \/ UNCHANGED vars
  PROVE  /\ UNCHANGED <<lines, last>>
         /\ used.forged => used'.forged
         /\ \/ gpu' = gpu
            \/ \E reg, val :
                 /\ gpu' = WriteGpuReg(gpu, reg, val)
                 /\ reg = "blank" => used'.forged
                 /\ \/ reg \in {"kick", "blank"} /\ val \in BOOLEAN
                    \/ reg = "list" /\ val \in Lists
                    \/ reg = "reg4" /\ val \in Nat
<1>1. CASE Begin \/ Push \/ Submit \/ CopyWord \/ Present \/ Sample \/ WaitReturn \/ UNCHANGED vars
  <2>1. UNCHANGED <<gpu, lines, last>>
    BY <1>1 DEF Begin, Push, Submit, CopyWord, Present, Sample, WaitReturn, vars
  <2>2. \/ used' = used \/ used' = [used EXCEPT !.push = @ + 1] \/ used' = [used EXCEPT !.jobs = @ + 1]
    BY <1>1 DEF Begin, Push, Submit, CopyWord, Present, Sample, WaitReturn, vars
  <2>3. used'.forged = used.forged
    BY <2>2 DEF Uses
  <2> QED
    BY <2>1, <2>3
<1>2. CASE WriteList
  <2>1. (IF prog.job = "submit" THEN "ram" ELSE "vram") \in Lists
    BY DEF Lists
  <2> QED
    BY <1>2, <2>1 DEF WriteList
<1>3. CASE WriteKick
  BY <1>3 DEF WriteKick
<1>4. CASE Poke
  <2> PICK p \in Pokes : /\ gpu' = WriteGpuReg(gpu, p[1], p[2])
                         /\ used' = [used EXCEPT !.poke = @ + 1, !.forged = @ \/ p[1] = "blank"]
    BY <1>4 DEF Poke
  <2>1. \/ p[1] \in {"kick", "blank"} /\ p[2] \in BOOLEAN
        \/ p[1] = "list" /\ p[2] \in Lists
        \/ p[1] = "reg4" /\ p[2] \in Nat
    BY VideoAssumption
  <2>2. used'.forged = (used.forged \/ p[1] = "blank")
    BY DEF Uses
  <2> QED
    BY <1>4, <2>1, <2>2 DEF Poke
<1> QED
  BY <1>1, <1>2, <1>3, <1>4 DEF Program

(* A tick takes, ends a frame or rests, and the list shown is the one asked *)
(* for; the interrupt register is clear behind it.                          *)
LEMMA TickSteps ==
  ASSUME GpuInv, Tick
  PROVE  \/ /\ gpu.state = "Idle" /\ gpu.kick /\ Blanks(gpu) = gpu.blank
            /\ gpu' = [gpu EXCEPT !.state = "VerticalBlank", !.kick = FALSE, !.blank = FALSE]
            /\ last'.list = gpu.list
         \/ /\ gpu.state = "VerticalBlank" /\ Blanks(gpu)
            /\ gpu' = [gpu EXCEPT !.state = "Idle", !.frame = @ + 1, !.blank = FALSE]
            /\ last' = last
         \/ gpu' = [gpu EXCEPT !.blank = FALSE] /\ last' = last /\ Blanks(gpu) = gpu.blank
<1>1. gpu \in Gpus
  BY DEF GpuInv
<1>2. Takes(gpu) => last'.list = gpu.list
  BY DEF Tick
<1>3. ~Takes(gpu) => last' = last
  BY DEF Tick
<1>4. gpu' = BusTick(gpu)
  BY DEF Tick
<1>5. gpu.state = "Idle" \/ gpu.state = "VerticalBlank"
  BY <1>1 DEF Gpus
<1> QED
  BY <1>1, <1>2, <1>3, <1>4, <1>5, TickCases

(* The GPU keeps its type, and shows only lists that were asked for. *)
LEMMA GpuStep ==
  ASSUME GpuInv, used \in Uses, [Next]_vars
  PROVE  GpuInv'
<1>0. gpu \in Gpus
  BY DEF GpuInv
<1>1. CASE Program \/ Poke \/ UNCHANGED vars
  BY <1>0, <1>1, ProgramSteps, WriteType DEF GpuInv, Shown
<1>2. CASE Tick
  <2>1. CASE /\ gpu.state = "Idle" /\ gpu.kick
             /\ gpu' = [gpu EXCEPT !.state = "VerticalBlank", !.kick = FALSE, !.blank = FALSE]
             /\ last'.list = gpu.list
    <3>1. gpu' \in Gpus /\ gpu.list \in Lists
      BY <1>0, <2>1 DEF Gpus
    <3> QED
      BY <2>1, <3>1 DEF GpuInv, Shown
  <2>2. CASE gpu' = [gpu EXCEPT !.state = "Idle", !.frame = @ + 1, !.blank = FALSE]
    <3>1. gpu' \in Gpus /\ gpu'.state = "Idle"
      <4>1. gpu.frame + 1 \in Nat
        BY <1>0 DEF Gpus
      <4> QED
        BY <1>0, <2>2, <4>1 DEF Gpus
    <3> QED
      BY <3>1 DEF GpuInv, Shown
  <2>3. CASE gpu' = [gpu EXCEPT !.blank = FALSE] /\ last' = last
    <3>1. gpu' \in Gpus /\ gpu'.state = gpu.state
      BY <1>0, <2>3 DEF Gpus
    <3> QED
      BY <2>3, <3>1 DEF GpuInv, Shown
  <2> QED
    BY <1>2, <2>1, <2>2, <2>3, TickSteps
<1> QED
  BY <1>1, <1>2 DEF Next

LEMMA GpuInit == Init => GpuInv
<1> SUFFICES ASSUME Init PROVE GpuInv
  OBVIOUS
<1>1. gpu = GpuReset
  BY DEF Init
<1>2. GpuReset \in Gpus /\ GpuReset.state = "Idle"
  BY DEF GpuReset, Gpus, Lists
<1> QED
  BY <1>1, <1>2 DEF GpuInv, Shown
-----------------------------------------------------------------------------
ListWords == {"zero", "clear", "tri", "end", "colour", "vertex", "at"} \X Nat

Buffers == [0..(BufWords - 1) -> ListWords]

\* The display list, within its buffer.
ListTyped(l) ==
  /\ l \in [buf : Buffers, count : Nat, ptr : Nat]
  /\ l.count <= BufWords \div 2 /\ VertexBase <= l.ptr /\ l.ptr <= BufWords

Progs == [at : {"free", "build", "copy", "list", "kick", "sample", "spin"}, job : Jobs, f : Nat, i : 0..BufWords]

Typed ==
  /\ GpuInv
  /\ lines \subseteq LevelsOf("GpuVBlank")
  /\ ListTyped(dl) /\ DOMAIN ram = 0..(BufWords - 1)
  /\ prog \in Progs /\ used \in Uses
  /\ prog.at = "copy" => prog.i < Copied(dl)

(* A command with its data stays within the buffer, and leaves the         *)
(* triangles where they are.                                               *)
LEMMA PushType ==
  ASSUME NEW l, ListTyped(l), 2 * l.count + 2 <= BufWords,
         NEW op, <<op, 0>> \in ListWords, NEW data \in ListWords
  PROVE  ListTyped(DlPush(l, op, data))
<1> DEFINE b == [[l.buf EXCEPT ![2 * l.count] = <<op, 0>>] EXCEPT ![2 * l.count + 1] = data]
           n == [buf |-> b, count |-> l.count + 1, ptr |-> l.ptr]
<1>1. l \in [buf : Buffers, count : Nat, ptr : Nat]
  BY DEF ListTyped
<1>2. b \in Buffers
  BY <1>1 DEF Buffers
<1>3. BufWords \in Nat /\ VertexBase \in Nat
  BY ListAssumption
<1>4. l.count + 1 \in Nat /\ l.count + 1 <= BufWords \div 2
  BY <1>1, <1>3
<1>5. DlPush(l, op, data) = l \/ DlPush(l, op, data) = n
  BY <1>1 DEF DlPush
<1> HIDE DEF b
<1>6. ListTyped(n)
  BY <1>1, <1>2, <1>4 DEF ListTyped
<1> HIDE DEF n
<1> QED
  BY <1>5, <1>6

(* A triangle stays within the buffer. *)
LEMMA VerticesType ==
  ASSUME NEW l, ListTyped(l), l.ptr + 4 <= BufWords, NEW n \in Nat
  PROVE  ListTyped(Vertices(l, n)) /\ Vertices(l, n).count = l.count
<1> DEFINE b == [w \in DOMAIN l.buf |->
                   CASE w \in l.ptr..(l.ptr + 2) -> <<"vertex", n>>
                     [] w = l.ptr + 3 -> <<"colour", n>>
                     [] OTHER -> l.buf[w]]
           v == [buf |-> b, count |-> l.count, ptr |-> l.ptr + 4]
<1>1. l \in [buf : Buffers, count : Nat, ptr : Nat]
  BY DEF ListTyped
<1>2. <<"vertex", n>> \in ListWords /\ <<"colour", n>> \in ListWords
  BY DEF ListWords
<1>3. b \in Buffers
  BY <1>1, <1>2 DEF Buffers
<1>4. Vertices(l, n) = [l EXCEPT !.buf = b, !.ptr = @ + 4]
  BY DEF Vertices
<1> HIDE DEF b
<1>5. Vertices(l, n) = v
  BY <1>1, <1>4
<1>6. ListTyped(v)
  BY <1>1, <1>3, ListAssumption DEF ListTyped
<1> QED
  BY <1>5, <1>6

(* The words of a list that are copied: its commands and triangles among  *)
(* them, and no word behind the buffer.                                    *)
LEMMA CopiedRange ==
  ASSUME NEW l, ListTyped(l)
  PROVE  Copied(l) \in 1..BufWords /\ (Copied(l) = l.ptr + 2 \/ Copied(l) = BufWords)
<1> DEFINE S == {l.ptr + 2, BufWords}
<1>1. l.ptr \in Nat /\ l.ptr <= BufWords /\ BufWords \in Nat /\ BufWords >= 2
  BY ListAssumption DEF ListTyped
<1>2. \E x \in S : \A y \in S : x <= y
  <2>1. CASE l.ptr + 2 <= BufWords
    BY <1>1, <2>1
  <2>2. CASE ~(l.ptr + 2 <= BufWords)
    BY <1>1, <2>2
  <2> QED
    BY <2>1, <2>2
<1>3. Copied(l) = Min(S)
  BY DEF Copied
<1>4. l.ptr + 2 \in S /\ BufWords \in S /\ \A x \in S : x = l.ptr + 2 \/ x = BufWords
  OBVIOUS
<1> HIDE DEF S
<1>5. Min(S) \in S /\ \A y \in S : Min(S) <= y
  BY <1>2 DEF Min
<1>6. PICK m : m = Min(S)
  OBVIOUS
<1>7. (m = l.ptr + 2 \/ m = BufWords) /\ m <= BufWords
  BY <1>4, <1>5, <1>6
<1>8. Copied(l) = m
  BY <1>3, <1>6
<1> QED
  BY <1>1, <1>7, <1>8

(* What the program puts into its list. *)
LEMMA ListSteps ==
  ASSUME ListTyped(dl), used.push \in Nat, RoomForCommand(dl)
  PROVE  /\ ListTyped(GfxClear(dl, used.push))
         /\ RoomForTriangle(dl) => ListTyped(GfxTri(dl, used.push))
         /\ ListTyped(DlPush(dl, "end", Zero))
<1>1. dl \in [buf : Buffers, count : Nat, ptr : Nat]
  BY DEF ListTyped
<1>2. 2 * dl.count + 2 <= BufWords
  BY DEF RoomForCommand
<1>3. /\ <<"colour", used.push>> \in ListWords /\ <<"at", dl.ptr>> \in ListWords /\ Zero \in ListWords
      /\ <<"clear", 0>> \in ListWords /\ <<"tri", 0>> \in ListWords /\ <<"end", 0>> \in ListWords
  BY <1>1 DEF ListWords, Zero
<1>4. RoomForTriangle(dl) =>
        ListTyped(Vertices(dl, used.push)) /\ Vertices(dl, used.push).count = dl.count
  BY <1>2, VerticesType DEF RoomForTriangle
<1> QED
  BY <1>2, <1>3, <1>4, PushType DEF GfxClear, GfxTri

(* Every step keeps the types. *)
LEMMA TypedStep ==
  ASSUME Typed, [Next]_vars
  PROVE  Typed'
<1>0. GpuInv /\ GpuInv' /\ gpu \in Gpus
  BY GpuStep DEF Typed, GpuInv
<1>1. ListTyped(dl) /\ prog \in Progs /\ used \in Uses /\ used.push \in Nat
  BY DEF Typed, Uses
<1>2. \A x \in {"free", "build", "list", "kick", "sample", "spin"} :
        [prog EXCEPT !.at = x] \in Progs /\ [prog EXCEPT !.at = x].at # "copy"
  BY <1>1 DEF Progs
<1>3. [prog EXCEPT !.at = "list", !.job = "present"] \in Progs
      /\ [prog EXCEPT !.at = "list", !.job = "present"].at # "copy"
  BY <1>1 DEF Progs, Jobs
<1>4. /\ [used EXCEPT !.push = @ + 1] \in Uses /\ [used EXCEPT !.jobs = @ + 1] \in Uses
      /\ \A b \in BOOLEAN : [used EXCEPT !.poke = @ + 1, !.forged = b] \in Uses
  <2>1. used.push + 1 \in Nat /\ used.jobs + 1 \in Nat /\ used.poke + 1 \in Nat
    BY <1>1 DEF Uses
  <2>2. [used EXCEPT !.push = used.push + 1] \in Uses
    BY <1>1, <2>1 DEF Uses
  <2>3. [used EXCEPT !.jobs = used.jobs + 1] \in Uses
    BY <1>1, <2>1 DEF Uses
  <2>4. ASSUME NEW b \in BOOLEAN PROVE [used EXCEPT !.poke = used.poke + 1, !.forged = b] \in Uses
    BY <1>1, <2>1, Zenon DEF Uses
  <2> QED
    BY <2>2, <2>3, <2>4
<1>5. ASSUME lines' = lines, DOMAIN ram' = DOMAIN ram, ListTyped(dl)', prog' \in Progs, used' \in Uses,
             prog'.at = "copy" => prog'.i < Copied(dl')
      PROVE  Typed'
  BY <1>0, <1>5 DEF Typed
<1>6. CASE Begin
  <2>1. ListTyped(GfxBegin(dl))
    <3>1. dl \in [buf : Buffers, count : Nat, ptr : Nat]
      BY <1>1 DEF ListTyped
    <3>2. VertexBase \in Nat /\ VertexBase <= BufWords /\ 0 <= BufWords \div 2
      BY ListAssumption
    <3>3. GfxBegin(dl) \in [buf : Buffers, count : Nat, ptr : Nat]
      BY <3>1, <3>2 DEF GfxBegin
    <3>4. GfxBegin(dl).count = 0 /\ GfxBegin(dl).ptr = VertexBase
      BY <3>1 DEF GfxBegin
    <3> QED
      BY <3>2, <3>3, <3>4 DEF ListTyped
  <2> QED
    BY <1>1, <1>2, <1>5, <1>6, <2>1 DEF Begin
<1>7. CASE Push
  <2>1. ListTyped(dl')
    BY <1>1, <1>7, ListSteps DEF Push
  <2>2. prog' = prog /\ prog.at = "build"
    BY <1>7 DEF Push
  <2> QED
    BY <1>1, <1>4, <1>5, <1>7, <2>1, <2>2 DEF Push
<1>8. CASE Submit
  <2>1. dl' = DlPush(dl, "end", Zero) /\ ram' = ram /\ RoomForCommand(dl)
    BY <1>8 DEF Submit
  <2>2. ListTyped(dl')
    BY <1>1, <2>1, ListSteps
  <2>3. prog' \in Progs /\ prog'.i = 0
    <3>1. prog' = [prog EXCEPT !.at = "copy", !.job = "submit", !.i = 0] /\ 0 \in 0..BufWords
      BY <1>8, ListAssumption DEF Submit
    <3> QED
      BY <1>1, <3>1 DEF Progs, Jobs
  <2>4. 0 < Copied(dl')
    BY <2>2, CopiedRange
  <2>5. used' \in Uses /\ lines' = lines
    BY <1>4, <1>8 DEF Submit
  <2> QED
    BY <1>5, <2>1, <2>2, <2>3, <2>4, <2>5
<1>17. CASE CopyWord
  <2>1. /\ prog.at = "copy" /\ prog.i < Copied(dl) /\ prog.i \in Nat
        /\ dl' = dl /\ used' = used /\ lines' = lines
    BY <1>1, <1>17, ListAssumption DEF CopyWord, Typed, Progs
  <2>2. Copied(dl) \in 1..BufWords
    BY <1>1, CopiedRange
  <2>3. DOMAIN ram' = DOMAIN ram
    BY <1>17 DEF CopyWord
  <2>4. /\ prog' \in Progs /\ prog'.i = prog.i + 1
        /\ prog'.at = IF prog.i + 1 = Copied(dl) THEN "list" ELSE "copy"
    <3>1. prog' = [prog EXCEPT !.i = @ + 1, !.at = IF prog.i + 1 = Copied(dl) THEN "list" ELSE @]
      BY <1>17 DEF CopyWord, LastWord
    <3>2. prog.i + 1 \in 0..BufWords
      BY <2>1, <2>2, ListAssumption
    <3> QED
      BY <1>1, <2>1, <3>1, <3>2 DEF Progs
  <2>5. prog'.at = "copy" => prog'.i < Copied(dl')
    BY <2>1, <2>2, <2>4
  <2> QED
    BY <1>1, <1>5, <2>1, <2>3, <2>4, <2>5
<1>9. CASE Present
  BY <1>1, <1>3, <1>4, <1>5, <1>9 DEF Present
<1>10. CASE WriteList
  BY <1>1, <1>2, <1>5, <1>10 DEF WriteList
<1>11. CASE WriteKick
  BY <1>1, <1>2, <1>5, <1>11 DEF WriteKick
<1>12. CASE Sample
  <2>1. gpu.reg4 \in Nat
    BY <1>0 DEF Gpus
  <2>2. [[prog EXCEPT !.at = "spin"] EXCEPT !.f = gpu.reg4] \in Progs
    BY <1>1, <2>1 DEF Progs
  <2>3. prog' = [[prog EXCEPT !.at = "spin"] EXCEPT !.f = gpu.reg4]
    BY <1>12 DEF Sample, GpuFrame
  <2>4. prog'.at = "spin"
    BY <1>1, <2>3 DEF Progs
  <2> QED
    BY <1>1, <1>5, <1>12, <2>2, <2>3, <2>4 DEF Sample
<1>13. CASE WaitReturn
  BY <1>1, <1>2, <1>5, <1>13 DEF WaitReturn
<1>14. CASE Poke
  BY <1>1, <1>4, <1>5, <1>14 DEF Poke, Typed
<1>15. CASE Tick
  <2>1. lines' \subseteq LevelsOf("GpuVBlank")
    BY <1>15 DEF Tick, VBlank, Typed
  <2> QED
    BY <1>0, <1>15, <2>1 DEF Tick, Typed
<1>16. CASE UNCHANGED vars
  BY <1>1, <1>5, <1>16 DEF vars, Typed
<1> QED
  BY <1>6, <1>7, <1>8, <1>9, <1>10, <1>11, <1>12, <1>13, <1>14, <1>15, <1>16, <1>17 DEF Next, Program

LEMMA TypedInit == Init => Typed
<1> SUFFICES ASSUME Init PROVE Typed
  OBVIOUS
<1>1. BufWords \in Nat /\ VertexBase \in Nat /\ VertexBase <= BufWords
  BY ListAssumption
<1>2. Blank \in Buffers
  BY DEF Blank, Buffers, Zero, ListWords
<1>3. 0 <= BufWords \div 2
  BY <1>1
<1>4. ListTyped(EmptyList)
  <2> HIDE DEF Buffers
  <2>1. EmptyList \in [buf : Buffers, count : Nat, ptr : Nat]
    BY <1>1, <1>2 DEF EmptyList
  <2>2. EmptyList.count = 0 /\ EmptyList.ptr = VertexBase
    BY DEF EmptyList
  <2> QED
    BY <1>1, <1>3, <2>1, <2>2 DEF ListTyped
<1>5. DOMAIN ram = 0..(BufWords - 1) /\ lines = {}
  BY DEF Init, Blank
<1>6. prog \in Progs /\ prog.at = "list" /\ used \in Uses
  BY <1>1 DEF Init, Progs, Jobs, Uses
<1> QED
  BY <1>4, <1>5, <1>6, GpuInit DEF Init, Typed

(* Between ticks the GPU is idle or in its vertical blank, and the list    *)
(* under construction stays within its buffer.                             *)
THEOREM TypeCorrect == Spec => []TypeOK
<1>1. Typed => TypeOK
  <2> SUFFICES ASSUME Typed PROVE TypeOK
    OBVIOUS
  <2>1. gpu \in Gpus
    BY DEF Typed, GpuInv
  <2>2. dl.buf \in Buffers /\ dl.count \in Nat /\ dl.ptr \in Nat
    BY DEF Typed, ListTyped
  <2>3. dl.count \in 0..(BufWords \div 2) /\ dl.ptr \in VertexBase..BufWords
    BY <2>2, ListAssumption DEF Typed, ListTyped
  <2>4. DOMAIN ram = 0..(BufWords - 1) /\ DOMAIN dl.buf = DOMAIN ram
    BY <2>2 DEF Typed, Buffers
  <2>5. prog \in Progs /\ lines \subseteq LevelsOf("GpuVBlank")
    BY DEF Typed
  <2> QED
    BY <2>1, <2>3, <2>4, <2>5 DEF TypeOK, Gpus, Progs
<1> QED
  BY <1>1, TypedInit, TypedStep, PTL DEF Spec
-----------------------------------------------------------------------------
(* A finished frame has its VBlank line up, and the line is up without one *)
(* only where somebody wrote the interrupt register, whatever else is      *)
(* written to any register, and when.                                      *)
THEOREM BlankIsAnnounced == Spec => []BlankAnnounced
<1>1. LevelsOf("GpuVBlank") # {}
  <2> DEFINE r == [source |-> "GpuVBlank", target |-> "Ppc", level |-> 1, vector |-> 100]
  <2>1. r \in Routing /\ r.source = "GpuVBlank"
    BY DEF Routing
  <2> QED
    BY <2>1 DEF LevelsOf
<1>2. Init => BlankAnnounced
  BY DEF Init, GpuReset, BlankAnnounced
<1>3. ASSUME Typed, BlankAnnounced, [Next]_vars PROVE BlankAnnounced'
  <2>0. GpuInv /\ gpu \in Gpus /\ used \in Uses
    BY <1>3 DEF Typed, GpuInv
  <2>1. CASE Program \/ Poke \/ UNCHANGED vars
    <3>1. lines' = lines /\ (used.forged => used'.forged)
      BY <2>0, <2>1, ProgramSteps
    <3>2. gpu'.frame = gpu.frame /\ (gpu'.blank => gpu.blank \/ used'.forged)
      BY <2>0, <2>1, ProgramSteps, WriteType
    <3> QED
      BY <1>3, <3>1, <3>2 DEF BlankAnnounced
  <2>2. CASE Tick
    <3>1. used' = used /\ lines' = lines \union (IF Blanks(gpu) THEN LevelsOf("GpuVBlank") ELSE {})
      BY <2>2 DEF Tick, VBlank
    <3>2. CASE gpu' = [gpu EXCEPT !.state = "Idle", !.frame = @ + 1, !.blank = FALSE] /\ Blanks(gpu)
      <4>1. lines' # {}
        BY <1>1, <3>1, <3>2
      <4>2. gpu'.frame > 0
        BY <2>0, <3>2 DEF Gpus
      <4> QED
        BY <4>1, <4>2 DEF BlankAnnounced
    <3>3. ASSUME Blanks(gpu) = gpu.blank, gpu'.frame = gpu.frame, ~gpu'.blank PROVE BlankAnnounced'
      BY <1>3, <3>1, <3>3 DEF BlankAnnounced
    <3>4. CASE /\ Blanks(gpu) = gpu.blank
               /\ \/ gpu' = [gpu EXCEPT !.state = "VerticalBlank", !.kick = FALSE, !.blank = FALSE]
                  \/ gpu' = [gpu EXCEPT !.blank = FALSE]
      <4>1. gpu'.frame = gpu.frame /\ ~gpu'.blank
        BY <2>0, <3>4 DEF Gpus
      <4> QED
        BY <3>3, <3>4, <4>1
    <3> QED
      BY <2>0, <2>2, <3>2, <3>4, TickSteps
  <2> QED
    BY <1>3, <2>1, <2>2 DEF Next
<1> QED
  BY <1>2, <1>3, TypedInit, TypedStep, PTL DEF Spec
-----------------------------------------------------------------------------
(* Every step of the machine is a step of the FramePipe or none: one       *)
(* request at a time, taken whole, shown once (the safety part of          *)
(* Presents).                                                              *)
THEOREM FramesAreAPipe == Spec => Pipe!PipeInit /\ [][Pipe!PipeNext]_(Pipe!pipeVars)
<1> USE DEF Pipe!pipeVars
<1>1. Init => Pipe!PipeInit
  BY DEF Init, GpuReset, Pipe!PipeInit
<1>2. ASSUME Typed, [Next]_vars PROVE [Pipe!PipeNext]_(Pipe!pipeVars)
  <2>0. GpuInv /\ gpu \in Gpus /\ used \in Uses
    BY <1>2 DEF Typed, GpuInv
  <2> DEFINE Request(g) == IF g.kick THEN g.list ELSE "none"
             Current(g, l) == IF g.state = "Idle" THEN "none" ELSE l.list
  <2>1. CASE Program \/ Poke \/ UNCHANGED vars
    <3>1. CASE gpu' = gpu
      BY <2>0, <2>1, <3>1, ProgramSteps
    <3>2. ASSUME NEW reg, NEW val, gpu' = WriteGpuReg(gpu, reg, val),
                 \/ reg \in {"kick", "blank"} /\ val \in BOOLEAN
                 \/ reg = "list" /\ val \in Lists
                 \/ reg = "reg4" /\ val \in Nat
          PROVE  [Pipe!PipeNext]_(Pipe!pipeVars)
      <4>1. gpu' \in Gpus /\ gpu'.state = gpu.state /\ gpu'.frame = gpu.frame
        BY <2>0, <3>2, WriteType
      <4>2. last' = last
        BY <2>0, <2>1, ProgramSteps
      <4>3. CASE gpu'.kick
        <5>1. gpu'.list \in Lists
          BY <4>1 DEF Gpus
        <5>2. Pipe!Ask(gpu'.list)
          BY <4>1, <4>2, <4>3 DEF Pipe!Ask
        <5> QED
          BY <5>1, <5>2 DEF Pipe!PipeNext
      <4>4. CASE ~gpu'.kick
        <5>1. Pipe!Withdraw
          BY <4>1, <4>2, <4>4 DEF Pipe!Withdraw, Pipe!Ask
        <5> QED
          BY <5>1 DEF Pipe!PipeNext
      <4> QED
        BY <4>3, <4>4
    <3> QED
      BY <2>0, <2>1, <3>1, <3>2, ProgramSteps
  <2>2. CASE Tick
    <3>1. CASE /\ gpu.state = "Idle" /\ gpu.kick
               /\ gpu' = [gpu EXCEPT !.state = "VerticalBlank", !.kick = FALSE, !.blank = FALSE]
               /\ last'.list = gpu.list
      <4>1. gpu'.state # "Idle" /\ ~gpu'.kick /\ gpu'.frame = gpu.frame
        BY <2>0, <3>1 DEF Gpus
      <4>2. gpu.list # "none"
        BY <2>0 DEF Gpus, Lists
      <4>3. Pipe!Take
        BY <3>1, <4>1, <4>2 DEF Pipe!Take
      <4> QED
        BY <4>3 DEF Pipe!PipeNext
    <3>2. CASE /\ gpu.state = "VerticalBlank"
               /\ gpu' = [gpu EXCEPT !.state = "Idle", !.frame = @ + 1, !.blank = FALSE]
               /\ last' = last
      <4>1. gpu'.state = "Idle" /\ gpu'.kick = gpu.kick /\ gpu'.list = gpu.list /\ gpu'.frame = gpu.frame + 1
        BY <2>0, <3>2 DEF Gpus
      <4>2. last.list # "none"
        BY <2>0, <3>2 DEF GpuInv, Shown, Lists
      <4>3. Pipe!Finish
        BY <3>2, <4>1, <4>2 DEF Pipe!Finish
      <4> QED
        BY <4>3 DEF Pipe!PipeNext
    <3>3. CASE gpu' = [gpu EXCEPT !.blank = FALSE] /\ last' = last
      <4>1. gpu'.state = gpu.state /\ gpu'.kick = gpu.kick /\ gpu'.list = gpu.list /\ gpu'.frame = gpu.frame
        BY <2>0, <3>3 DEF Gpus
      <4> QED
        BY <3>3, <4>1
    <3> QED
      BY <2>0, <2>2, <3>1, <3>2, <3>3, TickSteps
  <2> QED
    BY <1>2, <2>1, <2>2 DEF Next
<1> QED
  BY <1>1, <1>2, TypedInit, TypedStep, PTL DEF Spec
-----------------------------------------------------------------------------
(* What a list draws *)

(* A set of numbers that holds 0, and n + 1 whenever it holds n, is all of *)
(* them: the induction that the facts about a walk of the list rest on.    *)
LEMMA SetInduction ==
  ASSUME NEW S, 0 \in S, \A n \in Nat : n \in S => n + 1 \in S
  PROVE  Nat \subseteq S
<1> DEFINE T == Nat \ S
           R == OpToRel(<, Nat)
<1>1. SUFFICES ASSUME T # {} PROVE FALSE
  OBVIOUS
<1>2. \E x \in T : \A y \in T : ~(<<y, x>> \in R)
  <2>1. IsWellFoundedOn(R, Nat)
    BY NatLessThanWellFounded
  <2> HIDE DEF R
  <2> QED
    BY <1>1, <2>1, WFMin
<1>3. PICK x \in T : \A y \in T : ~(<<y, x>> \in R)
  BY <1>2
<1>4. \A y \in T : ~(y < x)
  BY <1>3 DEF OpToRel
<1>5. x # 0 /\ x - 1 \in Nat /\ x - 1 < x
  OBVIOUS
<1>6. x - 1 \in S
  BY <1>4, <1>5
<1> QED
  BY <1>5, <1>6

(* One element after the other gives the whole sequence. *)
LEMMA OneByOne ==
  ASSUME NEW S, NEW items \in Seq(S), NEW f, NEW n \in Nat, n = Len(items), n # 0,
         f[1] = <<items[1]>>,
         \A i \in 2..n : f[i] = f[i - 1] \o <<items[i]>>
  PROVE  f[n] = items
<1> DEFINE T == { i \in Nat : i + 1 <= n => f[i + 1] = SubSeq(items, 1, i + 1) }
<1>1. 0 \in T
  <2>1. SubSeq(items, 1, 1) = SubSeq(items, 1, 0) \o <<items[1]>>
    <3>1. 1 \in 1..Len(items) /\ 1 - 1 = 0
      OBVIOUS
    <3> QED
      BY <3>1, SubSeqRecursiveSecond
  <2>2. SubSeq(items, 1, 0) = <<>>
    BY SubSeqEmpty
  <2>3. items[1] \in S
    BY ElementOfSeq
  <2>4. <<>> \o <<items[1]>> = <<items[1]>>
    BY <2>3, ConcatEmptySeq
  <2>5. f[0 + 1] = SubSeq(items, 1, 0 + 1)
    BY <2>1, <2>2, <2>4
  <2> QED
    BY <2>5
<1>2. ASSUME NEW i \in Nat, i \in T PROVE i + 1 \in T
  <2> SUFFICES ASSUME i + 2 <= n PROVE f[i + 2] = SubSeq(items, 1, i + 2)
    <3>1. i + 1 + 1 = i + 2 /\ i + 1 \in Nat
      OBVIOUS
    <3> QED
      BY <3>1
  <2>1. f[i + 1] = SubSeq(items, 1, i + 1)
    BY <1>2
  <2>2. i + 2 \in 2..n /\ (i + 2) - 1 = i + 1
    OBVIOUS
  <2>3. f[i + 2] = f[i + 1] \o <<items[i + 2]>>
    BY <2>2
  <2>4. SubSeq(items, 1, i + 2) = SubSeq(items, 1, i + 1) \o <<items[i + 2]>>
    <3>1. 1 \in 1..Len(items) /\ i + 2 \in 1..Len(items)
      OBVIOUS
    <3> QED
      BY <2>2, <3>1, SubSeqRecursiveSecond
  <2> QED
    BY <2>1, <2>3, <2>4
<1>3. n - 1 \in T
  <2> HIDE DEF T
  <2> QED
    BY <1>1, <1>2, SetInduction
<1>4. f[n] = SubSeq(items, 1, n)
  <2>1. (n - 1) + 1 = n
    OBVIOUS
  <2> QED
    BY <1>3, <2>1
<1> QED
  BY <1>4, SubSeqFull

(* Flattening a sequence of single elements gives the elements. *)
LEMMA FlattenOnes ==
  ASSUME NEW S, NEW items \in Seq(S)
  PROVE  FlattenSeq([i \in 1..Len(items) |-> <<items[i]>>]) = items
<1> DEFINE n == Len(items)
           seqs == [i \in 1..n |-> <<items[i]>>]
           T == Seq(S)
           Eq(f) == f = [i \in 1..Len(seqs) |-> IF i = 1 THEN seqs[i] ELSE f[i - 1] \o seqs[i]]
<1>1. n \in Nat
  BY LenProperties
<1>2. Len(seqs) = n
  BY <1>1
<1>3. CASE n = 0
  <2>1. items = <<>>
    BY <1>3, EmptySeq
  <2>2. seqs = <<>>
    BY <1>3
  <2> QED
    BY <1>2, <1>3, <2>1, <2>2 DEF FlattenSeq
<1>4. CASE n # 0
  <2> DEFINE g == [i \in 1..n |-> SubSeq(items, 1, i)]
  <2>1. \A i \in 1..n : seqs[i] = <<items[i]>>
    OBVIOUS
  <2>2. ASSUME NEW i \in 1..n
        PROVE  SubSeq(items, 1, i) = IF i = 1 THEN seqs[i] ELSE g[i - 1] \o seqs[i]
    <3>1. SubSeq(items, 1, i) = SubSeq(items, 1, i - 1) \o <<items[i]>>
      <4>1. 1 \in 1..Len(items) /\ i \in 1..Len(items)
        BY <1>1
      <4> QED
        BY <4>1, SubSeqRecursiveSecond
    <3>2. CASE i = 1
      <4>1. SubSeq(items, 1, i - 1) = <<>>
        BY <3>2, SubSeqEmpty
      <4>2. items[i] \in S
        BY ElementOfSeq
      <4>3. <<>> \o <<items[i]>> = <<items[i]>>
        BY <4>2, ConcatEmptySeq
      <4> QED
        BY <2>1, <3>1, <3>2, <4>1, <4>3
    <3>3. CASE i # 1
      <4>1. i - 1 \in 1..n
        BY <1>1, <3>3
      <4>2. g[i - 1] = SubSeq(items, 1, i - 1)
        BY <4>1
      <4> QED
        BY <2>1, <3>1, <3>3, <4>2
    <3> QED
      BY <3>2, <3>3
  <2> HIDE DEF seqs
  <2>3. Eq(g)
    <3>1. [i \in 1..n |-> SubSeq(items, 1, i)]
          = [i \in 1..n |-> IF i = 1 THEN seqs[i] ELSE g[i - 1] \o seqs[i]]
      BY <2>2, Zenon
    <3> QED
      BY <1>2, <3>1
  <2>4. \E f : Eq(f)
    <3> HIDE DEF g
    <3> QED
      BY <2>3
  <2> DEFINE F == CHOOSE f : Eq(f)
  <2>5. Eq(F)
    BY <2>4
  <2>6. FlattenSeq(seqs) = F[n]
    BY <1>2, <1>4 DEF FlattenSeq
  <2> HIDE DEF F
  <2>7. F[1] = <<items[1]>>
    <3>1. 1 \in 1..n
      BY <1>1, <1>4
    <3> QED
      BY <1>2, <2>1, <2>5, <3>1
  <2>8. \A i \in 2..n : F[i] = F[i - 1] \o <<items[i]>>
    <3> SUFFICES ASSUME NEW i \in 2..n PROVE F[i] = F[i - 1] \o <<items[i]>>
      OBVIOUS
    <3>1. i \in 1..n /\ i # 1
      BY <1>1
    <3> QED
      BY <1>2, <2>1, <2>5, <3>1
  <2>9. F[n] = items
    BY <1>1, <1>4, <2>7, <2>8, OneByOne
  <2> QED
    BY <2>6, <2>9 DEF seqs
<1> QED
  BY <1>3, <1>4

Items == {"clear", "tri"} \X Nat

\* The i-th command of a buffer, with the triangle it points to, draws x.
ClearAt(b, i, n) == b[2 * i] = <<"clear", 0>> /\ b[2 * i + 1] = <<"colour", n>>
TriAt(b, i, n, p) ==
  /\ b[2 * i] = <<"tri", 0>> /\ b[2 * i + 1] = <<"at", p>>
  /\ b[p] = <<"vertex", n>> /\ b[p + 1] = <<"vertex", n>> /\ b[p + 2] = <<"vertex", n>>
  /\ b[p + 3] = <<"colour", n>>
ItemAt(b, i, x, ptr) ==
  \/ \E n \in Nat : x = <<"clear", n>> /\ ClearAt(b, i, n)
  \/ \E n \in Nat, p \in VertexBase..(ptr - 4) : x = <<"tri", n>> /\ TriAt(b, i, n, p)

\* The first k commands of a buffer draw these items, and its triangles end at ptr.
Holds(b, k, items, ptr) ==
  items \in Seq(Items) /\ Len(items) = k /\ \A i \in 0..(k - 1) : ItemAt(b, i, items[i + 1], ptr)

\* Commands and triangles keep apart: Fits, of any list.
Apart(count, ptr) == 2 * count <= VertexBase + (IF ptr = VertexBase THEN 2 ELSE 0)

\* A buffer holds the whole list that is to be drawn, with its END.
Whole(b) ==
  /\ dl.count > 0 /\ 2 * dl.count <= BufWords
  /\ Holds(b, dl.count - 1, asked, dl.ptr) /\ b[2 * (dl.count - 1)][1] = "end"

\* The list under construction draws what was asked for so far; the one that is
\* being copied is whole in its buffer, its first words in memory; the submitted
\* one is whole in memory.
DrawInv ==
  /\ prog.at = "build" /\ Fits => Holds(dl.buf, dl.count, asked, dl.ptr)
  /\ prog.at = "copy" => /\ Fits => Whole(dl.buf)
                         /\ \A w \in 0..(prog.i - 1) : ram[w] = dl.buf[w]
  /\ prog.at \notin {"build", "copy"} /\ prog.job = "submit" /\ Fits => Whole(ram)

(* What draws goes on drawing where its words are. *)
LEMMA HoldsElsewhere ==
  ASSUME NEW b, NEW c, NEW k \in Nat, NEW items, NEW ptr \in Nat, NEW up \in Nat, ptr <= up,
         Holds(b, k, items, ptr),
         \A w \in 0..(2 * k - 1) \union VertexBase..(ptr - 1) : c[w] = b[w]
  PROVE  Holds(c, k, items, up)
<1>1. ASSUME NEW i \in 0..(k - 1) PROVE ItemAt(c, i, items[i + 1], up)
  <2>1. ItemAt(b, i, items[i + 1], ptr)
    BY DEF Holds
  <2>2. c[2 * i] = b[2 * i] /\ c[2 * i + 1] = b[2 * i + 1]
    <3>1. 2 * i \in 0..(2 * k - 1) /\ 2 * i + 1 \in 0..(2 * k - 1)
      OBVIOUS
    <3> QED
      BY <3>1
  <2>3. CASE \E n \in Nat : items[i + 1] = <<"clear", n>> /\ ClearAt(b, i, n)
    BY <2>2, <2>3 DEF ItemAt, ClearAt
  <2>4. CASE \E n \in Nat, p \in VertexBase..(ptr - 4) : items[i + 1] = <<"tri", n>> /\ TriAt(b, i, n, p)
    <3> PICK n \in Nat, p \in VertexBase..(ptr - 4) : items[i + 1] = <<"tri", n>> /\ TriAt(b, i, n, p)
      BY <2>4
    <3>1. VertexBase \in Nat
      BY ListAssumption
    <3>2. /\ p \in VertexBase..(ptr - 1) /\ p + 1 \in VertexBase..(ptr - 1)
          /\ p + 2 \in VertexBase..(ptr - 1) /\ p + 3 \in VertexBase..(ptr - 1)
          /\ p \in VertexBase..(up - 4)
      BY <3>1
    <3>3. c[p] = b[p] /\ c[p + 1] = b[p + 1] /\ c[p + 2] = b[p + 2] /\ c[p + 3] = b[p + 3]
      BY <3>2
    <3>4. TriAt(c, i, n, p)
      BY <2>2, <3>3 DEF TriAt
    <3> QED
      BY <3>2, <3>4 DEF ItemAt
  <2> QED
    BY <2>1, <2>3, <2>4 DEF ItemAt
<1> QED
  BY <1>1 DEF Holds

(* Another command that draws, and the list draws one item more. *)
LEMMA HoldsMore ==
  ASSUME NEW b, NEW k \in Nat, NEW items, NEW ptr, NEW x \in Items,
         Holds(b, k, items, ptr), ItemAt(b, k, x, ptr)
  PROVE  Holds(b, k + 1, Append(items, x), ptr)
<1>1. items \in Seq(Items) /\ Len(items) = k
  BY DEF Holds
<1>2. /\ Append(items, x) \in Seq(Items) /\ Len(Append(items, x)) = k + 1
      /\ \A i \in 1..k : Append(items, x)[i] = items[i]
      /\ Append(items, x)[k + 1] = x
  BY <1>1, AppendProperties
<1>3. ASSUME NEW i \in 0..k PROVE ItemAt(b, i, Append(items, x)[i + 1], ptr)
  <2>1. CASE i = k
    BY <1>2, <2>1
  <2>2. CASE i # k
    <3>1. i \in 0..(k - 1) /\ i + 1 \in 1..k
      BY <2>2
    <3>2. Append(items, x)[i + 1] = items[i + 1]
      BY <1>2, <3>1
    <3> QED
      BY <3>1, <3>2 DEF Holds
  <2> QED
    BY <2>1, <2>2
<1>4. (k + 1) - 1 = k
  OBVIOUS
<1> QED
  BY <1>2, <1>3, <1>4 DEF Holds

(* A command that is pushed is the next one, and all there is to it. *)
LEMMA PushEffect ==
  ASSUME NEW l, ListTyped(l), 2 * l.count + 2 <= BufWords, NEW op, NEW data
  PROVE  LET n == DlPush(l, op, data) IN
         /\ n.count = l.count + 1 /\ n.ptr = l.ptr
         /\ n.buf[2 * l.count] = <<op, 0>> /\ n.buf[2 * l.count + 1] = data
         /\ \A w \in 0..(BufWords - 1) \ {2 * l.count, 2 * l.count + 1} : n.buf[w] = l.buf[w]
<1> DEFINE c == l.count
           b == [[l.buf EXCEPT ![2 * c] = <<op, 0>>] EXCEPT ![2 * c + 1] = data]
           n == [buf |-> b, count |-> c + 1, ptr |-> l.ptr]
<1>1. l \in [buf : Buffers, count : Nat, ptr : Nat] /\ c \in Nat
  BY DEF ListTyped
<1>2. BufWords \in Nat /\ MaxCount \in Nat /\ c < MaxCount
  <2>1. BufWords \in Nat /\ MaxCount \in Nat /\ BufWords <= 2 * MaxCount
    BY ListAssumption
  <2>2. 2 * c + 2 <= BufWords
    OBVIOUS
  <2> HIDE DEF c
  <2> QED
    BY <1>1, <2>1, <2>2
<1>3. DlPush(l, op, data) = n
  <2>1. ~(l.count >= MaxCount)
    BY <1>1, <1>2
  <2>2. DlPush(l, op, data) =
          [l EXCEPT !.buf[2 * l.count] = <<op, 0>>, !.buf[2 * l.count + 1] = data, !.count = @ + 1]
    BY <2>1 DEF DlPush
  <2> QED
    BY <1>1, <2>2
<1>4. DOMAIN l.buf = 0..(BufWords - 1)
  BY <1>1 DEF Buffers
<1> HIDE DEF c
<1>5. 2 * c \in 0..(BufWords - 1) /\ 2 * c + 1 \in 0..(BufWords - 1) /\ 2 * c # 2 * c + 1
  BY <1>1, <1>2 DEF c
<1>6. /\ b[2 * c] = <<op, 0>> /\ b[2 * c + 1] = data
      /\ \A w \in 0..(BufWords - 1) \ {2 * c, 2 * c + 1} : b[w] = l.buf[w]
  BY <1>4, <1>5
<1> HIDE DEF b
<1> QED
  BY <1>3, <1>6 DEF c

(* A triangle's words are the next ones, and all there is to it. *)
LEMMA VerticesEffect ==
  ASSUME NEW l, ListTyped(l), l.ptr + 4 <= BufWords, NEW n \in Nat
  PROVE  LET v == Vertices(l, n) IN
         /\ v.count = l.count /\ v.ptr = l.ptr + 4
         /\ v.buf[l.ptr] = <<"vertex", n>> /\ v.buf[l.ptr + 1] = <<"vertex", n>>
         /\ v.buf[l.ptr + 2] = <<"vertex", n>> /\ v.buf[l.ptr + 3] = <<"colour", n>>
         /\ \A w \in 0..(BufWords - 1) \ l.ptr..(l.ptr + 3) : v.buf[w] = l.buf[w]
<1> DEFINE p == l.ptr
           b == [w \in DOMAIN l.buf |->
                   CASE w \in p..(p + 2) -> <<"vertex", n>>
                     [] w = p + 3 -> <<"colour", n>>
                     [] OTHER -> l.buf[w]]
           v == [buf |-> b, count |-> l.count, ptr |-> p + 4]
<1>1. l \in [buf : Buffers, count : Nat, ptr : Nat] /\ p \in Nat
  BY DEF ListTyped
<1>2. BufWords \in Nat
  BY ListAssumption
<1>3. DOMAIN l.buf = 0..(BufWords - 1)
  BY <1>1 DEF Buffers
<1>4. Vertices(l, n) = [l EXCEPT !.buf = b, !.ptr = @ + 4]
  BY DEF Vertices
<1> HIDE DEF p
<1>5. \A w \in 0..(BufWords - 1) :
        b[w] = IF w \in p..(p + 2) THEN <<"vertex", n>>
               ELSE IF w = p + 3 THEN <<"colour", n>> ELSE l.buf[w]
  BY <1>1, <1>3
<1> HIDE DEF b
<1>6. Vertices(l, n) = v
  BY <1>1, <1>4 DEF p
<1>7. /\ p \in 0..(BufWords - 1) /\ p + 1 \in 0..(BufWords - 1) /\ p + 2 \in 0..(BufWords - 1)
      /\ p + 3 \in 0..(BufWords - 1)
  BY <1>1, <1>2 DEF p
<1>8. b[p] = <<"vertex", n>> /\ b[p + 1] = <<"vertex", n>> /\ b[p + 2] = <<"vertex", n>>
  BY <1>1, <1>5, <1>7
<1>9. b[p + 3] = <<"colour", n>>
  BY <1>1, <1>5, <1>7
<1>10. \A w \in 0..(BufWords - 1) \ p..(p + 3) : b[w] = l.buf[w]
  BY <1>1, <1>2, <1>5
<1> QED
  BY <1>6, <1>8, <1>9, <1>10 DEF p

(* Where commands and triangles keep apart, a command that is pushed is    *)
(* clear of all that is there.                                             *)
LEMMA PushKeepsClear ==
  ASSUME NEW l, ListTyped(l), 2 * l.count + 2 <= BufWords, l.ptr <= BufWords,
         Apart(l.count + 1, l.ptr), NEW op, NEW data
  PROVE  \A w \in 0..(2 * l.count - 1) \union VertexBase..(l.ptr - 1) :
           DlPush(l, op, data).buf[w] = l.buf[w]
<1> DEFINE c == l.count  p == l.ptr
<1>1. c \in Nat /\ p \in Nat /\ BufWords \in Nat /\ VertexBase \in Nat
  BY ListAssumption DEF ListTyped
<1>2. 2 * c + 2 <= BufWords /\ p <= BufWords /\ VertexBase <= p
  BY DEF ListTyped
<1>3. 2 * (c + 1) <= VertexBase + (IF p = VertexBase THEN 2 ELSE 0)
  BY DEF Apart
<1> HIDE DEF c, p
<1>4. \A w \in 0..(2 * c - 1) \union VertexBase..(p - 1) :
        w \in 0..(BufWords - 1) \ {2 * c, 2 * c + 1}
  BY <1>1, <1>2, <1>3
<1>5. \A w \in 0..(BufWords - 1) \ {2 * c, 2 * c + 1} : DlPush(l, op, data).buf[w] = l.buf[w]
  BY PushEffect DEF c
<1> QED
  BY <1>4, <1>5 DEF c, p

(* A clear adds itself to what the list draws. *)
LEMMA ClearHolds ==
  ASSUME NEW l, ListTyped(l), RoomForCommand(l), NEW n \in Nat, NEW items,
         Apart(l.count + 1, l.ptr), Holds(l.buf, l.count, items, l.ptr)
  PROVE  LET m == GfxClear(l, n) IN
         /\ m.count = l.count + 1 /\ m.ptr = l.ptr
         /\ Holds(m.buf, m.count, Append(items, <<"clear", n>>), m.ptr)
<1> DEFINE m == DlPush(l, "clear", <<"colour", n>>)
<1>1. 2 * l.count + 2 <= BufWords /\ l.ptr <= BufWords /\ l.count \in Nat /\ l.ptr \in Nat
  BY DEF ListTyped, RoomForCommand
<1>2. /\ m.count = l.count + 1 /\ m.ptr = l.ptr
      /\ m.buf[2 * l.count] = <<"clear", 0>> /\ m.buf[2 * l.count + 1] = <<"colour", n>>
  BY <1>1, PushEffect
<1>3. \A w \in 0..(2 * l.count - 1) \union VertexBase..(l.ptr - 1) : m.buf[w] = l.buf[w]
  BY <1>1, PushKeepsClear
<1> HIDE DEF m
<1>4. Holds(m.buf, l.count, items, l.ptr)
  BY <1>1, <1>3, HoldsElsewhere
<1>5. ItemAt(m.buf, l.count, <<"clear", n>>, l.ptr)
  BY <1>2 DEF ItemAt, ClearAt
<1>6. Holds(m.buf, l.count + 1, Append(items, <<"clear", n>>), l.ptr)
  BY <1>1, <1>4, <1>5, HoldsMore DEF Items
<1> QED
  BY <1>2, <1>6 DEF m, GfxClear

(* So does a triangle. *)
LEMMA TriHolds ==
  ASSUME NEW l, ListTyped(l), RoomForCommand(l), RoomForTriangle(l), NEW n \in Nat, NEW items,
         Apart(l.count + 1, l.ptr + 4), Holds(l.buf, l.count, items, l.ptr)
  PROVE  LET m == GfxTri(l, n) IN
         /\ m.count = l.count + 1 /\ m.ptr = l.ptr + 4
         /\ Holds(m.buf, m.count, Append(items, <<"tri", n>>), m.ptr)
<1> DEFINE v == Vertices(l, n)  m == DlPush(v, "tri", <<"at", l.ptr>>)
           c == l.count  p == l.ptr
<1>1. /\ 2 * c + 2 <= BufWords /\ p + 4 <= BufWords /\ c \in Nat /\ p \in Nat
      /\ VertexBase <= p /\ VertexBase \in Nat /\ BufWords \in Nat
  BY ListAssumption DEF ListTyped, RoomForCommand, RoomForTriangle
<1>2. /\ v.count = c /\ v.ptr = p + 4
      /\ v.buf[p] = <<"vertex", n>> /\ v.buf[p + 1] = <<"vertex", n>>
      /\ v.buf[p + 2] = <<"vertex", n>> /\ v.buf[p + 3] = <<"colour", n>>
      /\ \A w \in 0..(BufWords - 1) \ p..(p + 3) : v.buf[w] = l.buf[w]
  BY <1>1, VerticesEffect
<1>3. ListTyped(v)
  BY <1>1, VerticesType
<1>4. Apart(c + 1, p + 4) /\ 2 * (c + 1) <= VertexBase
  BY <1>1 DEF Apart
<1> HIDE DEF v, c, p
<1>5. /\ m.count = c + 1 /\ m.ptr = p + 4
      /\ m.buf[2 * c] = <<"tri", 0>> /\ m.buf[2 * c + 1] = <<"at", p>>
  BY <1>1, <1>2, <1>3, PushEffect DEF p
<1>6. \A w \in 0..(2 * c - 1) \union VertexBase..(p + 4 - 1) : m.buf[w] = v.buf[w]
  BY <1>1, <1>2, <1>3, <1>4, PushKeepsClear DEF p
<1> HIDE DEF m
<1>7. Holds(m.buf, c, items, p + 4)
  <2>1. \A w \in 0..(2 * c - 1) \union VertexBase..(p - 1) : m.buf[w] = l.buf[w]
    <3> SUFFICES ASSUME NEW w \in 0..(2 * c - 1) \union VertexBase..(p - 1)
                 PROVE  m.buf[w] = l.buf[w]
      OBVIOUS
    <3>1. w \in 0..(BufWords - 1) \ p..(p + 3)
      BY <1>1, <1>4
    <3>2. w \in 0..(2 * c - 1) \union VertexBase..(p + 4 - 1)
      BY <1>1
    <3> QED
      BY <1>2, <1>6, <3>1, <3>2
  <2>2. Holds(l.buf, c, items, p)
    BY DEF c, p
  <2>3. p + 4 \in Nat /\ p <= p + 4
    BY <1>1
  <2> QED
    BY <1>1, <2>1, <2>2, <2>3, HoldsElsewhere
<1>8. ItemAt(m.buf, c, <<"tri", n>>, p + 4)
  <2>1. /\ p \in VertexBase..(p + 4 - 1) /\ p + 1 \in VertexBase..(p + 4 - 1)
        /\ p + 2 \in VertexBase..(p + 4 - 1) /\ p + 3 \in VertexBase..(p + 4 - 1)
        /\ p \in VertexBase..((p + 4) - 4)
    BY <1>1
  <2>2. TriAt(m.buf, c, n, p)
    BY <1>2, <1>5, <1>6, <2>1 DEF TriAt
  <2> QED
    BY <2>1, <2>2 DEF ItemAt
<1>9. Holds(m.buf, c + 1, Append(items, <<"tri", n>>), p + 4)
  BY <1>1, <1>7, <1>8, HoldsMore DEF Items
<1> QED
  BY <1>5, <1>9 DEF m, v, c, p, GfxTri

(* The END of a list comes behind its commands, clear of the triangles. *)
LEMMA SubmitHolds ==
  ASSUME NEW l, ListTyped(l), RoomForCommand(l), NEW items,
         Apart(l.count + 1, l.ptr), Holds(l.buf, l.count, items, l.ptr)
  PROVE  LET m == DlPush(l, "end", Zero) IN
         /\ m.count = l.count + 1 /\ m.ptr = l.ptr /\ 2 * m.count <= BufWords
         /\ Holds(m.buf, l.count, items, l.ptr) /\ m.buf[2 * l.count][1] = "end"
<1> DEFINE m == DlPush(l, "end", Zero)
           c == l.count  p == l.ptr
<1>1. /\ 2 * c + 2 <= BufWords /\ p <= BufWords /\ c \in Nat /\ p \in Nat
      /\ BufWords \in Nat
  BY ListAssumption DEF ListTyped, RoomForCommand
<1>2. /\ m.count = c + 1 /\ m.ptr = p /\ m.buf[2 * c] = <<"end", 0>>
  BY <1>1, PushEffect
<1>3. \A w \in 0..(2 * c - 1) \union VertexBase..(p - 1) : m.buf[w] = l.buf[w]
  BY <1>1, PushKeepsClear
<1> HIDE DEF m, c, p
<1>4. Holds(m.buf, c, items, p)
  <2>1. Holds(l.buf, c, items, p)
    BY DEF c, p
  <2> QED
    BY <1>1, <1>3, <2>1, HoldsElsewhere
<1> QED
  BY <1>1, <1>2, <1>4 DEF m, c, p

(* The words that are copied are the commands, their END and the triangles. *)
LEMMA CopyHolds ==
  ASSUME Typed, Fits, Whole(dl.buf), NEW q, \A w \in 0..(Copied(dl) - 1) : q[w] = dl.buf[w]
  PROVE  Whole(q)
<1> DEFINE c == dl.count - 1  p == dl.ptr  n == Copied(dl)
<1>1. /\ c \in Nat /\ p \in Nat /\ 2 * c + 2 <= BufWords /\ p <= BufWords
      /\ VertexBase <= p /\ VertexBase \in Nat /\ BufWords \in Nat
  <2>1. dl.count \in Nat /\ dl.ptr \in Nat /\ VertexBase <= dl.ptr /\ dl.ptr <= BufWords
    BY DEF Typed, ListTyped
  <2>2. dl.count > 0 /\ 2 * dl.count <= BufWords
    BY DEF Whole
  <2> QED
    BY <2>1, <2>2, ListAssumption
<1>2. 2 * (c + 1) <= VertexBase + (IF p = VertexBase THEN 2 ELSE 0)
  <2>1. dl.count \in Nat /\ (c + 1 = dl.count)
    BY DEF Typed, ListTyped
  <2> QED
    BY <2>1 DEF Fits
<1>3. n = p + 2 \/ n = BufWords
  BY CopiedRange DEF Typed
<1>4. Holds(dl.buf, c, asked, p) /\ dl.buf[2 * c][1] = "end"
  BY DEF Whole
<1>5. \A w \in 0..(n - 1) : q[w] = dl.buf[w]
  OBVIOUS
<1> HIDE DEF c, p, n
<1>6. \A w \in 0..(2 * c + 1) \union VertexBase..(p - 1) : w \in 0..(n - 1)
  BY <1>1, <1>2, <1>3
<1>7. Holds(q, c, asked, p)
  <2>1. \A w \in 0..(2 * c - 1) \union VertexBase..(p - 1) : q[w] = dl.buf[w]
    <3>1. \A w \in 0..(2 * c - 1) \union VertexBase..(p - 1) :
            w \in 0..(2 * c + 1) \union VertexBase..(p - 1)
      BY <1>1
    <3> QED
      BY <1>5, <1>6, <3>1
  <2> QED
    BY <1>1, <1>4, <2>1, HoldsElsewhere
<1>8. q[2 * c][1] = "end"
  <2>1. 2 * c \in 0..(2 * c + 1) \union VertexBase..(p - 1)
    BY <1>1
  <2> QED
    BY <1>4, <1>5, <1>6, <2>1
<1> QED
  BY <1>7, <1>8 DEF Whole, c, p

(* A command that draws something is drawn as that. *)
LEMMA CommandDraws ==
  ASSUME NEW b, NEW i, NEW x, NEW ptr, ItemAt(b, i, x, ptr)
  PROVE  Command(b, i) = <<x>> /\ b[2 * i][1] # "end"
<1>1. CASE \E n \in Nat : x = <<"clear", n>> /\ ClearAt(b, i, n)
  <2> PICK n \in Nat : x = <<"clear", n>> /\ ClearAt(b, i, n)
    BY <1>1
  <2>1. b[2 * i][1] = "clear" /\ b[2 * i + 1][1] = "colour" /\ b[2 * i + 1][2] = n
    BY DEF ClearAt
  <2>2. Command(b, i) = <<IF b[2 * i + 1][1] = "colour" THEN <<"clear", b[2 * i + 1][2]>> ELSE Junk>>
    BY <2>1 DEF Command
  <2> QED
    BY <2>1, <2>2
<1>2. CASE \E n \in Nat, p \in VertexBase..(ptr - 4) : x = <<"tri", n>> /\ TriAt(b, i, n, p)
  <2> PICK n \in Nat, p \in VertexBase..(ptr - 4) : x = <<"tri", n>> /\ TriAt(b, i, n, p)
    BY <1>2
  <2>1. b[2 * i][1] = "tri" /\ b[2 * i + 1][1] = "at" /\ b[2 * i + 1][2] = p
    BY DEF TriAt
  <2>2. Command(b, i) = <<IF b[2 * i + 1][1] = "at" THEN Triangle(b, b[2 * i + 1][2]) ELSE Junk>>
    BY <2>1 DEF Command
  <2>3. Triangle(b, p) = <<"tri", n>>
    BY DEF Triangle, TriAt
  <2> QED
    BY <2>1, <2>2, <2>3
<1> QED
  BY <1>1, <1>2 DEF ItemAt

(* A buffer that holds a list with its END is drawn as that list. *)
LEMMA DrawnIsHeld ==
  ASSUME NEW b, NEW k \in Nat, NEW items, NEW ptr, 2 * (k + 1) <= BufWords,
         Holds(b, k, items, ptr), b[2 * k][1] = "end"
  PROVE  Drawn(b) = items
<1> DEFINE half == BufWords \div 2
           ends == { i \in 0..(half - 1) : b[2 * i][1] = "end" }
           S == ends \union {half}
           stop == Min(S)
<1>1. BufWords \in Nat /\ half \in Nat /\ k <= half - 1
  BY ListAssumption
<1>2. items \in Seq(Items) /\ Len(items) = k
  BY DEF Holds
<1>3. \A i \in 0..(k - 1) : Command(b, i) = <<items[i + 1]>> /\ b[2 * i][1] # "end"
  BY CommandDraws DEF Holds
<1>4. Drawn(b) = FlattenSeq([i \in 1..stop |-> Command(b, i - 1)])
  BY DEF Drawn
<1> HIDE DEF half
<1>5. k \in S /\ \A y \in S : k <= y
  <2>1. k \in S
    BY <1>1
  <2>2. ASSUME NEW y \in S, y < k PROVE FALSE
    <3>1. y \in 0..(k - 1) /\ y \in ends
      BY <1>1, <2>2
    <3> QED
      BY <1>3, <3>1
  <2>3. S \subseteq Nat
    BY <1>1
  <2> HIDE DEF S
  <2> QED
    BY <2>1, <2>2, <2>3
<1>6. S \subseteq Nat
  BY <1>1
<1> HIDE DEF S
<1>7. stop = k
  <2>1. stop \in S /\ \A y \in S : stop <= y
    BY <1>5 DEF Min
  <2> HIDE DEF stop
  <2>2. stop \in Nat
    BY <1>6, <2>1
  <2>3. stop <= k
    BY <1>5, <2>1
  <2>4. k <= stop
    BY <1>5, <2>1
  <2> QED
    BY <2>2, <2>3, <2>4
<1> HIDE DEF stop
<1>8. \A i \in 1..k : Command(b, i - 1) = <<items[i]>>
  <2> SUFFICES ASSUME NEW i \in 1..k PROVE Command(b, i - 1) = <<items[i]>>
    OBVIOUS
  <2>1. i - 1 \in 0..(k - 1) /\ (i - 1) + 1 = i
    OBVIOUS
  <2> QED
    BY <1>3, <2>1
<1>9. [i \in 1..stop |-> Command(b, i - 1)] = [i \in 1..Len(items) |-> <<items[i]>>]
  BY <1>2, <1>7, <1>8
<1> QED
  BY <1>2, <1>4, <1>9, FlattenOnes

(* Nothing is submitted at first, and the list is empty. *)
LEMMA DrawInit == Init => DrawInv
  BY DEF Init, DrawInv

(* Every step keeps the list, what is copied of it, and what is in memory. *)
LEMMA DrawStep ==
  ASSUME Typed, DrawInv, [Next]_vars
  PROVE  DrawInv'
<1>1. /\ ListTyped(dl) /\ prog \in Progs /\ used.push \in Nat /\ DOMAIN ram = 0..(BufWords - 1)
      /\ dl.count \in Nat /\ dl.ptr \in Nat /\ VertexBase <= dl.ptr /\ VertexBase \in Nat
  BY ListAssumption DEF Typed, ListTyped, Uses
<1>2. ASSUME dl' = dl, ram' = ram, asked' = asked,
             \/ prog' = prog
             \/ /\ prog.at \notin {"build", "copy"} /\ prog'.at \notin {"build", "copy"}
                /\ prog'.job = prog.job \/ prog'.job # "submit"
      PROVE  DrawInv'
  BY <1>2 DEF DrawInv, Whole, Fits
<1>3. CASE Begin
  <2>1. dl' = GfxBegin(dl) /\ asked' = <<>> /\ prog'.at = "build"
    BY <1>1, <1>3 DEF Begin, Progs
  <2>2. dl'.count = 0
    BY <1>1, <2>1 DEF GfxBegin, ListTyped
  <2>3. Holds(dl'.buf, dl'.count, asked', dl'.ptr)
    <3>1. <<>> \in Seq(Items) /\ Len(<<>>) = 0
      OBVIOUS
    <3>2. \A i \in 0..(0 - 1) : FALSE
      OBVIOUS
    <3> QED
      BY <2>1, <2>2, <3>1, <3>2 DEF Holds
  <2> QED
    BY <2>1, <2>3 DEF DrawInv
<1>4. CASE Push
  <2>0. prog' = prog /\ prog.at = "build" /\ RoomForCommand(dl)
    BY <1>4 DEF Push
  <2>1. ASSUME Fits' PROVE Holds(dl'.buf, dl'.count, asked', dl'.ptr)
    <3>1. CASE dl' = GfxClear(dl, used.push) /\ asked' = Append(asked, <<"clear", used.push>>)
      <4>1. dl'.count = dl.count + 1 /\ dl'.ptr = dl.ptr
        BY <1>1, <2>0, <3>1, PushEffect DEF GfxClear, RoomForCommand
      <4>2. Apart(dl.count + 1, dl.ptr)
        BY <2>1, <4>1 DEF Fits, Apart
      <4>3. Fits
        BY <1>1, <4>2 DEF Fits, Apart
      <4>4. Holds(dl.buf, dl.count, asked, dl.ptr)
        BY <2>0, <4>3 DEF DrawInv
      <4> QED
        BY <1>1, <2>0, <3>1, <4>2, <4>4, ClearHolds
    <3>2. CASE RoomForTriangle(dl) /\ dl' = GfxTri(dl, used.push) /\ asked' = Append(asked, <<"tri", used.push>>)
      <4>1. dl'.count = dl.count + 1 /\ dl'.ptr = dl.ptr + 4
        <5> DEFINE v == Vertices(dl, used.push)
        <5>1. ListTyped(v) /\ v.count = dl.count /\ v.ptr = dl.ptr + 4
          BY <1>1, <3>2, VerticesType, VerticesEffect DEF RoomForTriangle
        <5>2. dl' = DlPush(v, "tri", <<"at", dl.ptr>>) /\ 2 * v.count + 2 <= BufWords
          BY <2>0, <3>2, <5>1 DEF GfxTri, RoomForCommand
        <5> HIDE DEF v
        <5> QED
          BY <5>1, <5>2, PushEffect
      <4>2. Apart(dl.count + 1, dl.ptr + 4)
        BY <2>1, <4>1 DEF Fits, Apart
      <4>3. Fits
        BY <1>1, <4>2 DEF Fits, Apart
      <4>4. Holds(dl.buf, dl.count, asked, dl.ptr)
        BY <2>0, <4>3 DEF DrawInv
      <4> QED
        BY <1>1, <2>0, <3>2, <4>2, <4>4, TriHolds
    <3> QED
      BY <1>4, <3>1, <3>2 DEF Push
  <2> QED
    BY <2>0, <2>1 DEF DrawInv
<1>5. CASE Submit
  <2>1. /\ prog.at = "build" /\ RoomForCommand(dl) /\ dl' = DlPush(dl, "end", Zero) /\ asked' = asked
    BY <1>5 DEF Submit
  <2>2. prog'.at = "copy" /\ prog'.i = 0
    <3>1. prog' = [prog EXCEPT !.at = "copy", !.job = "submit", !.i = 0]
      BY <1>5 DEF Submit
    <3> QED
      BY <1>1, <3>1 DEF Progs
  <2>3. ASSUME Fits' PROVE Whole(dl.buf)'
    <3>1. dl'.count = dl.count + 1 /\ dl'.ptr = dl.ptr
      BY <1>1, <2>1, PushEffect DEF RoomForCommand
    <3>2. Apart(dl.count + 1, dl.ptr)
      BY <2>3, <3>1 DEF Fits, Apart
    <3>3. Fits
      BY <1>1, <3>2 DEF Fits, Apart
    <3>4. Holds(dl.buf, dl.count, asked, dl.ptr)
      BY <2>1, <3>3 DEF DrawInv
    <3>5. /\ 2 * dl'.count <= BufWords /\ Holds(dl'.buf, dl.count, asked, dl.ptr)
          /\ dl'.buf[2 * dl.count][1] = "end"
      BY <1>1, <2>1, <3>2, <3>4, SubmitHolds
    <3>6. dl'.count - 1 = dl.count /\ dl'.count > 0
      BY <1>1, <3>1
    <3> QED
      BY <2>1, <3>1, <3>5, <3>6 DEF Whole
  <2>4. \A w \in 0..(0 - 1) : FALSE
    OBVIOUS
  <2> QED
    BY <2>2, <2>3, <2>4 DEF DrawInv
<1>6. CASE CopyWord
  <2>1. /\ prog.at = "copy" /\ dl' = dl /\ asked' = asked
        /\ prog.i \in Nat /\ prog.i < Copied(dl) /\ Copied(dl) \in 1..BufWords
        /\ ram' = [ram EXCEPT ![prog.i] = dl.buf[prog.i]]
    <3>1. prog.i \in 0..BufWords /\ BufWords \in Nat
      BY <1>1, ListAssumption DEF Progs
    <3> QED
      BY <1>1, <1>6, <3>1, CopiedRange DEF CopyWord, Typed
  <2>2. /\ prog'.i = prog.i + 1
        /\ prog'.at = IF prog.i + 1 = Copied(dl) THEN "list" ELSE "copy"
    <3>1. prog' = [prog EXCEPT !.i = @ + 1, !.at = IF prog.i + 1 = Copied(dl) THEN "list" ELSE @]
      BY <1>6 DEF CopyWord, LastWord
    <3> QED
      BY <1>1, <2>1, <3>1 DEF Progs
  <2>3. \A w \in 0..prog.i : ram'[w] = dl.buf[w]
    <3>1. \A w \in 0..(prog.i - 1) : ram[w] = dl.buf[w]
      BY <2>1 DEF DrawInv
    <3>2. \A w \in 0..prog.i : w \in DOMAIN ram /\ (w = prog.i \/ w \in 0..(prog.i - 1))
      BY <1>1, <2>1, ListAssumption
    <3> QED
      BY <2>1, <3>1, <3>2
  <2>4. Fits => Whole(dl.buf)
    BY <2>1 DEF DrawInv
  <2>5. ASSUME Fits, prog.i + 1 = Copied(dl) PROVE Whole(ram')
    <3>1. \A w \in 0..(Copied(dl) - 1) : ram'[w] = dl.buf[w]
      <4>1. Copied(dl) - 1 = prog.i
        BY <2>1, <2>5
      <4> QED
        BY <2>3, <4>1
    <3> QED
      BY <2>4, <2>5, <3>1, CopyHolds
  <2>6. prog'.i - 1 = prog.i
    BY <2>1, <2>2
  <2>7. Fits' <=> Fits
    BY <2>1 DEF Fits
  <2>8. Whole(dl.buf) => Whole(dl.buf)'
    BY <2>1 DEF Whole
  <2>9. Whole(ram') => Whole(ram)'
    BY <2>1 DEF Whole
  <2>10. CASE prog.i + 1 = Copied(dl)
    BY <2>2, <2>5, <2>7, <2>9, <2>10 DEF DrawInv
  <2>11. CASE prog.i + 1 # Copied(dl)
    BY <2>1, <2>2, <2>3, <2>4, <2>6, <2>7, <2>8, <2>11 DEF DrawInv
  <2> QED
    BY <2>10, <2>11
<1>7. CASE Present
  <2>1. prog.at = "free" /\ prog'.at = "list" /\ prog'.job = "present"
    BY <1>1, <1>7 DEF Present, Progs
  <2> QED
    BY <1>2, <1>7, <2>1 DEF Present
<1>8. CASE WriteList \/ WriteKick \/ Sample \/ WaitReturn
  <2>1. prog.at \notin {"build", "copy"} /\ prog'.at \notin {"build", "copy"} /\ prog'.job = prog.job
    BY <1>1, <1>8 DEF WriteList, WriteKick, Sample, WaitReturn, Progs
  <2> QED
    BY <1>2, <1>8, <2>1 DEF WriteList, WriteKick, Sample, WaitReturn
<1>9. CASE Poke \/ Tick \/ UNCHANGED vars
  BY <1>2, <1>9 DEF Poke, Tick, vars
<1> QED
  BY <1>3, <1>4, <1>5, <1>6, <1>7, <1>8, <1>9 DEF Next, Program

(* The GPU leaves its idle state only in a tick that takes a request. *)
LEMMA StartsInTick ==
  ASSUME Typed, [Next]_vars, gpu.state = "Idle", gpu'.state # "Idle"
  PROVE  Tick /\ Takes(gpu)
<1>1. gpu \in Gpus
  BY DEF Typed, GpuInv
<1>2. ASSUME ~Tick PROVE gpu'.state = gpu.state
  BY <1>1, <1>2, VideoAssumption DEF Next, Program, Begin, Push, Submit, CopyWord, Present, WriteList, WriteKick,
     Sample, WaitReturn, Poke, vars, WriteGpuReg, Gpus
<1>3. Tick
  BY <1>2
<1>4. Takes(gpu)
  <2>1. gpu' = BusTick(gpu)
    BY <1>3 DEF Tick
  <2>2. CASE gpu.kick
    BY <1>1, <2>2, TickCases
  <2>3. CASE ~gpu.kick
    <3>1. gpu' = [gpu EXCEPT !.blank = FALSE]
      BY <1>1, <2>1, <2>3, TickCases
    <3>2. gpu'.state = gpu.state
      BY <1>1, <3>1 DEF Gpus
    <3> QED
      BY <3>2
  <2> QED
    BY <2>2, <2>3
<1> QED
  BY <1>3, <1>4

(* A submitted list that fits, once it is copied, is drawn as it was       *)
(* pushed: every command, in order, with no word of an older list.         *)
THEOREM ListIsDrawn == Spec => DrawsWhatWasPushed
<1> DEFINE Drawing ==
      gpu.state = "Idle" /\ gpu'.state # "Idle" /\ gpu.list = "ram" /\ prog.job = "submit"
      /\ prog.at \notin {"build", "copy"} /\ Fits
        => last'.items = asked
<1>1. ASSUME Typed, DrawInv, [Next]_vars PROVE Drawing
  <2> SUFFICES ASSUME gpu.state = "Idle", gpu'.state # "Idle", gpu.list = "ram",
                      prog.job = "submit", prog.at \notin {"build", "copy"}, Fits
               PROVE  last'.items = asked
    OBVIOUS
  <2>1. Tick /\ Takes(gpu)
    BY <1>1, StartsInTick
  <2>2. last'.items = Drawn(ram)
    <3>1. last' \in [list : {gpu.list}, items : Fetched] /\ Fetched = {Drawn(ram)}
      BY <2>1 DEF Tick, Fetched
    <3> QED
      BY <3>1
  <2>3. /\ dl.count > 0 /\ 2 * dl.count <= BufWords
        /\ Holds(ram, dl.count - 1, asked, dl.ptr) /\ ram[2 * (dl.count - 1)][1] = "end"
    BY <1>1 DEF DrawInv, Whole
  <2>4. dl.count - 1 \in Nat /\ 2 * ((dl.count - 1) + 1) <= BufWords
    <3>1. dl.count \in Nat
      BY <1>1 DEF Typed, ListTyped
    <3> QED
      BY <2>3, <3>1
  <2> QED
    BY <2>2, <2>3, <2>4, DrawnIsHeld
<1>2. Typed /\ DrawInv /\ [Next]_vars => [Drawing]_vars
  BY <1>1
<1> QED
  BY <1>2, TypedInit, TypedStep, DrawInit, DrawStep, PTL DEF Spec, DrawsWhatWasPushed
=============================================================================
