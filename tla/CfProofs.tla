------------------------------- MODULE CfProofs -------------------------------
(***************************************************************************)
(* Theorems about CfCore for every program, every depth of calls and       *)
(* interrupts and every size and place of the stack.  IInv is about the    *)
(* shape of the stack, TInv about the types of what it holds and the flags *)
(* put aside with a comparison; between them, what the ALU computes.       *)
(***************************************************************************)
EXTENDS CfCore, SequenceTheorems, WellFoundedInduction, TLAPS

IsCpu(c) == DOMAIN c = {"d", "a7", "pc", "mask", "ccr", "halt"} /\ c.a7 \in Int

IsMem(m) == DOMAIN m = Cells

IsSeq(s) == Len(s) \in Nat /\ s = [i \in 1..Len(s) |-> s[i]]

\* What a frame has put on the stack is there.
Stored(m, f) ==
  /\ StorableLong(f.at) /\ m[f.at + 2] = m[f.at]
  /\ m[f.at].kind = IF f.kind = "data" THEN "data" ELSE "pc"
  /\ f.kind = "irq" => f.at + 4 \in Cells /\ m[f.at + 4].kind = "sr"

Above(fr, i) == IF i = 1 THEN StackTop ELSE fr[i - 1].at

\* The frames lie one below the other, with nothing in between, down to the
\* stack pointer, and each is stored.
Laid(fr, m, a7) ==
  /\ IsSeq(fr)
  /\ \A i \in 1..Len(fr) :
       /\ fr[i].kind \in {"call", "irq", "data"} /\ fr[i].at \in Int
       /\ fr[i].at + SizeOf(fr[i]) = Above(fr, i)
       /\ fr[i].at >= a7
       /\ Stored(m, fr[i])
  /\ \A i, j \in 1..Len(fr) : i < j => fr[j].at < fr[i].at
  /\ a7 = Above(fr, Len(fr) + 1)

IInv ==
  /\ IsCpu(cpu) /\ IsMem(mem) /\ faults \in Nat
  /\ faults = 0 => Laid(frames, mem, cpu.a7)

\* The frames as the CallStack sees them.
Saved(m, f) ==
  [kind |-> f.kind,
   ret  |-> IF f.kind = "data" THEN 0 ELSE m[f.at].v,
   mask |-> IF f.kind = "irq" THEN m[f.at + 4].v[1] ELSE 0,
   ccr  |-> IF f.kind = "irq" THEN m[f.at + 4].v[2] ELSE {},
   d    |-> IF f.kind = "data" THEN m[f.at].v ELSE 0]

Abs(fr, m) == [i \in DOMAIN fr |-> Saved(m, fr[i])]
-----------------------------------------------------------------------------
(* Sequences whose elements have no common type. *)
LEMMA TypedIsSeq ==
  ASSUME NEW S, NEW s \in Seq(S)
  PROVE  IsSeq(s)
<1>1. Len(s) \in Nat /\ s \in [1..Len(s) -> S]
  BY LenProperties
<1> QED
  BY <1>1 DEF IsSeq

(* A sequence stays one when something is appended, *)
LEMMA AppendIsSeq ==
  ASSUME NEW s, IsSeq(s), NEW e
  PROVE  /\ IsSeq(Append(s, e)) /\ Len(Append(s, e)) = Len(s) + 1
         /\ Append(s, e)[Len(s) + 1] = e
         /\ \A i \in 1..Len(s) : Append(s, e)[i] = s[i]
<1> DEFINE S == { s[i] : i \in 1..Len(s) } \union {e}
<1>1. s \in Seq(S)
  BY DEF IsSeq
<1>2. e \in S
  OBVIOUS
<1> HIDE DEF S
<1>3. Append(s, e) \in Seq(S) /\ Len(Append(s, e)) = Len(s) + 1
  BY <1>1, <1>2, AppendProperties
<1>4. IsSeq(Append(s, e))
  BY <1>3, TypedIsSeq
<1> QED
  BY <1>1, <1>2, <1>3, <1>4, AppendProperties

(* and when its last is taken. *)
LEMMA FrontIsSeq ==
  ASSUME NEW s, IsSeq(s), Len(s) > 0
  PROVE  /\ IsSeq(Front(s)) /\ Len(Front(s)) = Len(s) - 1
         /\ \A i \in 1..(Len(s) - 1) : Front(s)[i] = s[i]
         /\ Last(s) = s[Len(s)]
<1> DEFINE S == { s[i] : i \in 1..Len(s) }
<1>1. s \in Seq(S)
  BY DEF IsSeq
<1> HIDE DEF S
<1>2. Front(s) = SubSeq(s, 1, Len(s) - 1)
  BY DEF Front
<1>3. Len(s) \in Nat /\ Len(s) - 1 \in Int /\ \A i \in 1..(Len(s) - 1) : s[i] \in S
  BY <1>1, LenProperties DEF IsSeq
<1>4. /\ Front(s) \in Seq(S) /\ Len(Front(s)) = Len(s) - 1
      /\ \A i \in 1..(Len(s) - 1) : Front(s)[i] = s[i]
  <2>1. /\ SubSeq(s, 1, Len(s) - 1) \in Seq(S)
        /\ Len(SubSeq(s, 1, Len(s) - 1)) = IF 1 <= Len(s) - 1 THEN (Len(s) - 1) - 1 + 1 ELSE 0
        /\ \A i \in 1..((Len(s) - 1) - 1 + 1) : SubSeq(s, 1, Len(s) - 1)[i] = s[1 + i - 1]
    BY <1>3, SubSeqProperties
  <2>2. \A k \in Nat : k > 0 => (k - 1) - 1 + 1 = k - 1 /\ (1 <= k - 1 \/ k - 1 = 0)
    OBVIOUS
  <2>3. \A i \in 1..(Len(s) - 1) : 1 + i - 1 = i
    OBVIOUS
  <2> QED
    BY <1>2, <1>3, <2>1, <2>2, <2>3
<1>5. IsSeq(Front(s))
  BY <1>4, TypedIsSeq
<1> QED
  BY <1>4, <1>5 DEF Last

(* The frames as the CallStack sees them are a sequence of the same length. *)
LEMMA AbsIsSeq ==
  ASSUME NEW fr, IsSeq(fr), NEW m
  PROVE  /\ IsSeq(Abs(fr, m)) /\ Len(Abs(fr, m)) = Len(fr)
         /\ \A i \in 1..Len(fr) : Abs(fr, m)[i] = Saved(m, fr[i])
<1>1. DOMAIN fr = 1..Len(fr) /\ Len(fr) \in Nat
  BY DEF IsSeq
<1>2. Abs(fr, m) \in Seq({ Saved(m, fr[i]) : i \in 1..Len(fr) })
  BY <1>1 DEF Abs
<1>3. Len(Abs(fr, m)) = Len(fr)
  BY <1>1, <1>2 DEF Abs
<1> QED
  BY <1>1, <1>3 DEF Abs, IsSeq
-----------------------------------------------------------------------------
(* A frame put below the others leaves them as they are. *)
LEMMA LaidPush ==
  ASSUME NEW fr, NEW m, NEW a7 \in Int, Laid(fr, m, a7),
         NEW f, f.kind \in {"call", "irq", "data"}, f.at \in Int, f.at + SizeOf(f) = a7,
         NEW n, Stored(n, f), \A a \in Cells : a >= a7 => n[a] = m[a]
  PROVE  /\ Laid(Append(fr, f), n, f.at)
         /\ Abs(Append(fr, f), n) = Append(Abs(fr, m), Saved(n, f))
<1> DEFINE t == Append(fr, f)
<1>1. IsSeq(fr)
  BY DEF Laid
<1>2. /\ IsSeq(t) /\ Len(t) = Len(fr) + 1 /\ t[Len(fr) + 1] = f
      /\ \A i \in 1..Len(fr) : t[i] = fr[i]
  BY <1>1, AppendIsSeq
<1>3. Len(fr) \in Nat
  BY <1>1 DEF IsSeq
<1> HIDE DEF t
<1>4. f.at < a7
  BY DEF SizeOf
<1>5. \A i \in 1..Len(fr) : Stored(n, fr[i]) /\ Saved(n, fr[i]) = Saved(m, fr[i])
  <2> TAKE i \in 1..Len(fr)
  <2>1. /\ fr[i].at \in Int /\ fr[i].at >= a7 /\ Stored(m, fr[i])
        /\ fr[i].kind \in {"call", "irq", "data"}
    BY DEF Laid
  <2>2. fr[i].at \in Cells /\ fr[i].at + 2 \in Cells
    BY <2>1 DEF Stored, StorableLong
  <2>3. n[fr[i].at] = m[fr[i].at] /\ n[fr[i].at + 2] = m[fr[i].at + 2]
    BY <2>1, <2>2
  <2>4. fr[i].kind = "irq" => fr[i].at + 4 \in Cells /\ n[fr[i].at + 4] = m[fr[i].at + 4]
    BY <2>1 DEF Stored
  <2> QED
    BY <2>1, <2>3, <2>4 DEF Stored, Saved
<1>6. \A i \in 1..Len(t) :
       /\ t[i].kind \in {"call", "irq", "data"} /\ t[i].at \in Int
       /\ t[i].at >= f.at
       /\ Stored(n, t[i])
  <2> TAKE i \in 1..Len(t)
  <2>1. CASE i = Len(fr) + 1
    BY <1>2, <2>1
  <2>2. CASE i \in 1..Len(fr)
    <3>1. fr[i].kind \in {"call", "irq", "data"} /\ fr[i].at \in Int /\ fr[i].at >= a7
      BY <2>2 DEF Laid
    <3> QED
      BY <1>2, <1>4, <1>5, <2>2, <3>1
  <2> QED
    BY <1>2, <1>3, <2>1, <2>2
<1>7. \A i \in 1..Len(t) : t[i].at + SizeOf(t[i]) = Above(t, i)
  <2> TAKE i \in 1..Len(t)
  <2>1. CASE i = Len(fr) + 1
    <3>1. Above(t, i) = Above(fr, Len(fr) + 1)
      BY <1>2, <1>3, <2>1 DEF Above
    <3> QED
      BY <1>2, <2>1, <3>1 DEF Laid
  <2>2. CASE i \in 1..Len(fr)
    <3>1. Above(t, i) = Above(fr, i)
      BY <1>2, <1>3, <2>2 DEF Above
    <3> QED
      BY <1>2, <2>2, <3>1 DEF Laid
  <2> QED
    BY <1>2, <1>3, <2>1, <2>2
<1>8. \A i, j \in 1..Len(t) : i < j => t[j].at < t[i].at
  <2> TAKE i, j \in 1..Len(t)
  <2> HAVE i < j
  <2>1. i \in 1..Len(fr) /\ t[i] = fr[i] /\ fr[i].at \in Int /\ fr[i].at >= a7
    BY <1>2, <1>3 DEF Laid
  <2>2. CASE j = Len(fr) + 1
    BY <1>2, <1>4, <2>1, <2>2
  <2>3. CASE j \in 1..Len(fr)
    BY <1>2, <2>1, <2>3 DEF Laid
  <2> QED
    BY <1>2, <1>3, <2>2, <2>3
<1>9. f.at = Above(t, Len(t) + 1)
  BY <1>2, <1>3 DEF Above
<1>10. Laid(t, n, f.at)
  BY <1>2, <1>6, <1>7, <1>8, <1>9 DEF Laid
<1>11. Abs(t, n) = Append(Abs(fr, m), Saved(n, f))
  <2> DEFINE b == Abs(fr, m)
             c == Append(b, Saved(n, f))
  <2>1. IsSeq(b) /\ Len(b) = Len(fr) /\ \A i \in 1..Len(fr) : b[i] = Saved(m, fr[i])
    BY <1>1, AbsIsSeq
  <2> HIDE DEF b
  <2>2. /\ IsSeq(c) /\ Len(c) = Len(fr) + 1 /\ c[Len(fr) + 1] = Saved(n, f)
        /\ \A i \in 1..Len(fr) : c[i] = b[i]
    BY <2>1, AppendIsSeq
  <2> HIDE DEF c
  <2>3. \A i \in 1..(Len(fr) + 1) : c[i] = Saved(n, t[i])
    <3> TAKE i \in 1..(Len(fr) + 1)
    <3>1. i = Len(fr) + 1 \/ i \in 1..Len(fr)
      BY <1>3
    <3> QED
      BY <1>2, <1>5, <2>1, <2>2, <3>1
  <2>4. DOMAIN t = 1..(Len(fr) + 1)
    BY <1>2 DEF IsSeq
  <2>5. c = [i \in 1..(Len(fr) + 1) |-> c[i]]
    BY <2>2 DEF IsSeq
  <2>6. c = Abs(t, n)
    BY <2>3, <2>4, <2>5 DEF Abs
  <2> QED
    BY <2>6 DEF b, c
<1> QED
  BY <1>10, <1>11 DEF t

(* The lowest frame is at the stack pointer, and without it the others are *)
(* as they were.                                                           *)
LEMMA LaidPop ==
  ASSUME NEW fr, NEW m, NEW a7 \in Int, Laid(fr, m, a7), fr # <<>>,
         NEW n, \A a \in Cells : a >= a7 + SizeOf(Last(fr)) => n[a] = m[a]
  PROVE  /\ Last(fr).at = a7 /\ Stored(m, Last(fr))
         /\ Laid(Front(fr), n, a7 + SizeOf(Last(fr)))
         /\ Abs(fr, m) # <<>> /\ Last(Abs(fr, m)) = Saved(m, Last(fr))
         /\ Abs(Front(fr), n) = Front(Abs(fr, m))
<1> DEFINE t == Front(fr)
           k == Len(fr)
<1>1. IsSeq(fr) /\ k \in Nat
  BY DEF Laid, IsSeq
<1>2. k > 0
  <2> SUFFICES ASSUME k = 0 PROVE FALSE
    BY <1>1
  <2>1. fr = [i \in 1..0 |-> fr[i]]
    BY <1>1 DEF IsSeq
  <2>2. fr = <<>>
    BY <2>1
  <2> QED
    BY <2>2
<1>3. /\ IsSeq(t) /\ Len(t) = k - 1 /\ Last(fr) = fr[k]
      /\ \A i \in 1..(k - 1) : t[i] = fr[i]
  BY <1>1, <1>2, FrontIsSeq
<1> DEFINE f == fr[k]
<1>4. /\ f.at \in Int /\ f.kind \in {"call", "irq", "data"} /\ f.at = a7 /\ Stored(m, f)
      /\ f.at + SizeOf(f) = Above(fr, k)
  <2>1. Above(fr, k + 1) = fr[k].at
    BY <1>1, <1>2 DEF Above
  <2> QED
    BY <1>1, <1>2, <2>1 DEF Laid
<1> HIDE DEF t, k, f
<1>5. \A i \in 1..(k - 1) : fr[i].at \in Int /\ fr[i].at >= Above(fr, k) /\ fr[i].at >= a7
  <2> TAKE i \in 1..(k - 1)
  <2>1. Above(fr, k) = fr[k - 1].at
    BY <1>1, <1>2 DEF Above
  <2>2. i \in 1..k /\ k - 1 \in 1..k /\ fr[i].at \in Int /\ fr[k - 1].at \in Int /\ fr[i].at >= a7
    BY <1>1, <1>2 DEF Laid, k
  <2>3. i = k - 1 \/ i < k - 1
    BY <1>1, <1>2
  <2> QED
    BY <2>1, <2>2, <2>3 DEF Laid, k
<1>6. \A i \in 1..(k - 1) : Stored(n, fr[i]) /\ Saved(n, fr[i]) = Saved(m, fr[i])
  <2> TAKE i \in 1..(k - 1)
  <2>1. /\ fr[i].at \in Int /\ Stored(m, fr[i])
        /\ fr[i].kind \in {"call", "irq", "data"}
    BY <1>1 DEF Laid, k
  <2>2. fr[i].at \in Cells /\ fr[i].at + 2 \in Cells
    BY <2>1 DEF Stored, StorableLong
  <2>3. fr[i].at >= a7 + SizeOf(Last(fr))
    BY <1>3, <1>4, <1>5 DEF f
  <2>4. a7 + SizeOf(Last(fr)) \in Int
    BY DEF SizeOf
  <2> HIDE DEF SizeOf
  <2>5. n[fr[i].at] = m[fr[i].at] /\ n[fr[i].at + 2] = m[fr[i].at + 2]
    BY <2>1, <2>2, <2>3, <2>4
  <2>6. fr[i].kind = "irq" => fr[i].at + 4 \in Cells /\ n[fr[i].at + 4] = m[fr[i].at + 4]
    BY <2>1, <2>3, <2>4 DEF Stored
  <2> QED
    BY <2>1, <2>5, <2>6 DEF Stored, Saved
<1>7. \A i \in 1..(k - 1) : Above(t, i) = Above(fr, i)
  BY <1>1, <1>3 DEF Above
<1>8. Above(t, k) = Above(fr, k)
  BY <1>1, <1>2, <1>3 DEF Above
<1>9. a7 + SizeOf(Last(fr)) = Above(fr, k)
  BY <1>3, <1>4 DEF f
<1>10. Laid(t, n, a7 + SizeOf(Last(fr)))
  <2>1. \A i \in 1..(k - 1) :
          /\ t[i] = fr[i] /\ i \in 1..Len(fr)
          /\ fr[i].kind \in {"call", "irq", "data"} /\ fr[i].at \in Int
          /\ fr[i].at + SizeOf(fr[i]) = Above(fr, i)
    <3>1. \A i \in 1..(k - 1) : t[i] = fr[i] /\ i \in 1..Len(fr)
      BY <1>1, <1>3 DEF k
    <3>2. \A i \in 1..Len(fr) :
            /\ fr[i].kind \in {"call", "irq", "data"} /\ fr[i].at \in Int
            /\ fr[i].at + SizeOf(fr[i]) = Above(fr, i)
      BY DEF Laid
    <3> QED
      BY ONLY <3>1, <3>2
  <2>2. \A i, j \in 1..(k - 1) : i < j => t[j].at < t[i].at
    BY <2>1 DEF Laid
  <2>3. (k - 1) + 1 = k
    BY <1>1
  <2> QED
    BY <1>3, <1>5, <1>6, <1>7, <1>8, <1>9, <2>1, <2>2, <2>3 DEF Laid
<1>11. Abs(fr, m) # <<>> /\ Last(Abs(fr, m)) = Saved(m, Last(fr)) /\ Abs(t, n) = Front(Abs(fr, m))
  <2> DEFINE b == Abs(fr, m)
             c == Front(b)
  <2>1. IsSeq(b) /\ Len(b) = k /\ \A i \in 1..k : b[i] = Saved(m, fr[i])
    BY <1>1, AbsIsSeq DEF k
  <2> HIDE DEF b
  <2>2. /\ IsSeq(c) /\ Len(c) = k - 1 /\ Last(b) = b[k]
        /\ \A i \in 1..(k - 1) : c[i] = b[i]
    BY <1>2, <2>1, FrontIsSeq
  <2> HIDE DEF c
  <2>3. b # <<>>
    BY <1>2, <2>1
  <2>4. Last(b) = Saved(m, Last(fr))
    BY <1>1, <1>2, <1>3, <2>1, <2>2
  <2>5. \A i \in 1..(k - 1) : c[i] = Saved(n, t[i])
    BY <1>1, <1>3, <1>6, <2>1, <2>2
  <2>6. DOMAIN t = 1..(k - 1)
    BY <1>3 DEF IsSeq
  <2>7. c = [i \in 1..(k - 1) |-> c[i]]
    BY <2>2 DEF IsSeq
  <2>8. c = Abs(t, n)
    BY <2>5, <2>6, <2>7 DEF Abs
  <2> QED
    BY <2>3, <2>4, <2>8 DEF b, c
<1> QED
  BY <1>3, <1>4, <1>10, <1>11 DEF t, f
-----------------------------------------------------------------------------
(* Stores change the cells they name. *)
LEMMA HalfStored ==
  ASSUME NEW m, IsMem(m), NEW a \in Int, NEW kind, NEW v
  PROVE  /\ IsMem(StoreHalf(m, a, kind, v))
         /\ a \in Cells => StoreHalf(m, a, kind, v)[a] = Half(kind, v)
         /\ \A c \in Cells : c # a => StoreHalf(m, a, kind, v)[c] = m[c]
  BY DEF StoreHalf, IsMem

(* A long that is stored is there, and nothing else has changed. *)
LEMMA LongStored ==
  ASSUME NEW m, IsMem(m), NEW a \in Int, NEW kind, NEW v
  PROVE  /\ IsMem(StoreLong(m, a, kind, v))
         /\ StorableLong(a) =>
              StoreLong(m, a, kind, v)[a] = Half(kind, v) /\ StoreLong(m, a, kind, v)[a + 2] = Half(kind, v)
         /\ \A c \in Cells : c # a /\ c # a + 2 => StoreLong(m, a, kind, v)[c] = m[c]
<1>1. a # a + 2
  OBVIOUS
<1> QED
  BY <1>1 DEF StoreLong, StorableLong, IsMem

(* The core after a step that succeeds, and after one that fails. *)
LEMMA DoIsCpu ==
  ASSUME NEW c, IsCpu(c), Do(c)
  PROVE  IsCpu(cpu') /\ cpu' = [c EXCEPT !.halt = FALSE] /\ cpu'.a7 = c.a7 /\ cpu'.pc = c.pc
         /\ cpu'.mask = c.mask /\ cpu'.ccr = c.ccr /\ cpu'.d = c.d
  BY DEF IsCpu, Do

\* What a step that fails has to spare.
Spared ==
  /\ cpu'.d = cpu.d /\ cpu'.ccr \ {"Z"} = cpu.ccr \ {"Z"}
  /\ cpu'.pc = cpu.pc => cpu'.ccr = cpu.ccr
  /\ \A a \in Cells : a >= cpu.a7 => mem'[a] = mem[a]

(* A bus error or an illegal instruction leaves the stack as it was. *)
LEMMA FailStep ==
  ASSUME IInv, NEW c, NEW m, FailWith(c, m), IsCpu(c), c.d = cpu.d,
         c.ccr \ {"Z"} = cpu.ccr \ {"Z"}, c.pc = cpu.pc => c.ccr = cpu.ccr,
         IsMem(m), \A a \in Cells : a >= cpu.a7 => m[a] = mem[a]
  PROVE  IInv' /\ Spared /\ faults' = faults + 1 /\ faults' # 0
<1>1. IsCpu(cpu') /\ cpu'.d = c.d /\ cpu'.ccr = c.ccr /\ cpu'.pc = c.pc
  BY DEF IsCpu, FailWith
<1>2. mem' = m /\ faults' = faults + 1 /\ faults \in Nat
  BY DEF FailWith, IInv
<1>3. IsMem(mem')
  BY <1>2
<1> QED
  BY <1>1, <1>2, <1>3 DEF IInv, Spared

(* A step that puts a frame on the stack. *)
LEMMA PushStep ==
  ASSUME IInv, NEW kind \in {"call", "irq", "data"}, NEW a \in Int,
         a + (IF kind = "irq" THEN 6 ELSE 4) = cpu.a7,
         Entered(kind, a), IsMem(mem'), Stored(mem', [kind |-> kind, at |-> a, cmp |-> cmp]),
         \A c \in Cells : c >= cpu.a7 => mem'[c] = mem[c],
         IsCpu(cpu'), cpu'.a7 = a, faults' = faults
  PROVE  /\ IInv'
         /\ faults = 0 =>
              Abs(frames', mem') = Append(Abs(frames, mem), Saved(mem', [kind |-> kind, at |-> a, cmp |-> cmp]))
<1> DEFINE f == [kind |-> kind, at |-> a, cmp |-> cmp]
<1>1. frames' = Append(frames, f)
  BY DEF Entered
<1>2. f.kind = kind /\ f.at = a /\ f.at + SizeOf(f) = cpu.a7
  BY DEF SizeOf
<1>3. cpu.a7 \in Int
  BY DEF IInv, IsCpu
<1>4. ASSUME faults = 0
      PROVE  /\ Laid(Append(frames, f), mem', a)
             /\ Abs(Append(frames, f), mem') = Append(Abs(frames, mem), Saved(mem', f))
  <2>1. Laid(frames, mem, cpu.a7)
    BY <1>4 DEF IInv
  <2> HIDE DEF f
  <2>2. f.kind \in {"call", "irq", "data"} /\ f.at \in Int /\ Stored(mem', f)
    BY <1>2 DEF f
  <2> QED
    BY <1>2, <1>3, <2>1, <2>2, LaidPush
<1> HIDE DEF f
<1>5. faults' = 0 => Laid(frames', mem', cpu'.a7)
  BY <1>1, <1>4
<1>6. IInv'
  BY <1>5 DEF IInv
<1> QED
  BY <1>1, <1>4, <1>6 DEF f

(* A step that takes the lowest frame off. *)
LEMMA PopStep ==
  ASSUME IInv, NEW kind \in {"call", "irq", "data"}, OnTop(kind), Left,
         NEW size, size = IF kind = "irq" THEN 6 ELSE 4,
         KeepFrom(cpu.a7 + size), IsCpu(cpu'), cpu'.a7 = cpu.a7 + size, faults' = faults
  PROVE  /\ IInv'
         /\ faults = 0 =>
              /\ Last(frames).kind = kind /\ Last(frames).at = cpu.a7 /\ Stored(mem, Last(frames))
              /\ Abs(frames, mem) # <<>> /\ Last(Abs(frames, mem)) = Saved(mem, Last(frames))
              /\ Abs(frames', mem') = Front(Abs(frames, mem))
<1>1. frames # <<>> /\ Last(frames).kind = kind /\ frames' = Front(frames)
  BY DEF OnTop, Left
<1>2. SizeOf(Last(frames)) = size
  BY <1>1 DEF SizeOf
<1>3. cpu.a7 \in Int /\ size \in Int
  BY DEF IInv, IsCpu
<1>4. IsMem(mem') /\ \A a \in Cells : a >= cpu.a7 + size => mem'[a] = mem[a]
  BY DEF KeepFrom, IsMem
<1>5. ASSUME faults = 0
      PROVE  /\ Last(frames).at = cpu.a7 /\ Stored(mem, Last(frames))
             /\ Laid(Front(frames), mem', cpu.a7 + size)
             /\ Abs(frames, mem) # <<>> /\ Last(Abs(frames, mem)) = Saved(mem, Last(frames))
             /\ Abs(Front(frames), mem') = Front(Abs(frames, mem))
  <2>1. Laid(frames, mem, cpu.a7)
    BY <1>5 DEF IInv
  <2> QED
    BY <1>1, <1>2, <1>3, <1>4, <2>1, LaidPop
<1>6. faults' = 0 => Laid(frames', mem', cpu'.a7)
  BY <1>1, <1>5
<1>7. IInv'
  BY <1>4, <1>6 DEF IInv
<1> QED
  BY <1>1, <1>5, <1>7

(* A step that leaves the stack alone. *)
LEMMA SameStep ==
  ASSUME IInv, UNCHANGED <<frames, mem, faults>>, IsCpu(cpu'), cpu'.a7 = cpu.a7
  PROVE  IInv'
  BY DEF IInv
-----------------------------------------------------------------------------
Implements == [Abstract!StackNext]_(Abstract!cvars)

(* The frames of the refinement mapping are Abs. *)
LEMMA MappedFrames ==
  /\ [i \in DOMAIN frames |-> Content(frames[i])] = Abs(frames, mem)
  /\ [i \in DOMAIN frames |-> Content(frames[i])]' = Abs(frames', mem')
  BY DEF Content, Abs, Saved

(* What the CallStack sees of a step between two states without a fault. *)
LEMMA UpView ==
  ASSUME faults = 0, faults' = 0,
         NEW fs, fs = Abs(frames, mem), NEW gs, gs = Abs(frames', mem'),
         \/ /\ \E n \in {2, 4} : gs = Append(fs, Abstract!Frame("call", cpu.pc + n, 0, {}, 0))
            /\ cpu'.mask = cpu.mask /\ cpu'.ccr = cpu.ccr /\ cpu'.d = cpu.d
         \/ /\ fs # <<>> /\ Last(fs).kind = "call" /\ cpu'.pc = Last(fs).ret /\ gs = Front(fs)
            /\ cpu'.mask = cpu.mask /\ cpu'.ccr = cpu.ccr /\ cpu'.d = cpu.d
         \/ /\ cpu'.mask > cpu.mask /\ cpu'.ccr = cpu.ccr /\ cpu'.d = cpu.d
            /\ gs = Append(fs, Abstract!Frame("irq", cpu.pc, cpu.mask, cpu.ccr, 0))
         \/ /\ fs # <<>> /\ Last(fs).kind = "irq" /\ cpu'.pc = Last(fs).ret /\ gs = Front(fs)
            /\ cpu'.mask = Last(fs).mask /\ cpu'.ccr = Last(fs).ccr /\ cpu'.d = cpu.d
         \/ /\ cpu'.pc = cpu.pc + 2 /\ cpu'.mask = cpu.mask /\ cpu'.d = cpu.d
            /\ gs = Append(fs, Abstract!Frame("data", 0, 0, {}, cpu.d))
         \/ /\ fs # <<>> /\ Last(fs).kind = "data" /\ cpu'.pc = cpu.pc + 2 /\ gs = Front(fs)
            /\ cpu'.mask = cpu.mask /\ cpu'.d = Last(fs).d
         \/ gs = fs
  PROVE  Implements
<1>1. Up /\ Up'
  BY DEF Up
<1>2. /\ [i \in DOMAIN frames |-> Content(frames[i])] = fs
      /\ [i \in DOMAIN frames |-> Content(frames[i])]' = gs
  BY MappedFrames
<1>3. Abstract!Front(fs) = Front(fs) /\ Abstract!Last(fs) = Last(fs)
  BY DEF Front, Last, Abstract!Front, Abstract!Last
<1> HIDE DEF Up, Content
<1>4. ASSUME \E n \in {2, 4} : gs = Append(fs, Abstract!Frame("call", cpu.pc + n, 0, {}, 0)),
             cpu'.mask = cpu.mask, cpu'.ccr = cpu.ccr, cpu'.d = cpu.d
      PROVE  Abstract!Call
  BY <1>1, <1>2, <1>4 DEF Abstract!Call
<1>5. ASSUME fs # <<>>, Last(fs).kind = "call", cpu'.pc = Last(fs).ret, gs = Front(fs),
             cpu'.mask = cpu.mask, cpu'.ccr = cpu.ccr, cpu'.d = cpu.d
      PROVE  Abstract!Return
  BY <1>1, <1>2, <1>3, <1>5 DEF Abstract!Return, Abstract!Top
<1>6. ASSUME cpu'.mask > cpu.mask, cpu'.ccr = cpu.ccr, cpu'.d = cpu.d,
             gs = Append(fs, Abstract!Frame("irq", cpu.pc, cpu.mask, cpu.ccr, 0))
      PROVE  Abstract!Interrupt
  BY <1>1, <1>2, <1>6 DEF Abstract!Interrupt
<1>7. ASSUME fs # <<>>, Last(fs).kind = "irq", cpu'.pc = Last(fs).ret, gs = Front(fs),
             cpu'.mask = Last(fs).mask, cpu'.ccr = Last(fs).ccr, cpu'.d = cpu.d
      PROVE  Abstract!ReturnFromException
  BY <1>1, <1>2, <1>3, <1>7 DEF Abstract!ReturnFromException, Abstract!Top
<1>8. ASSUME cpu'.pc = cpu.pc + 2, cpu'.mask = cpu.mask, cpu'.d = cpu.d,
             gs = Append(fs, Abstract!Frame("data", 0, 0, {}, cpu.d))
      PROVE  Abstract!Push
  BY <1>1, <1>2, <1>8 DEF Abstract!Push
<1>9. ASSUME fs # <<>>, Last(fs).kind = "data", cpu'.pc = cpu.pc + 2, gs = Front(fs),
             cpu'.mask = cpu.mask, cpu'.d = Last(fs).d
      PROVE  Abstract!Pop
  BY <1>1, <1>2, <1>3, <1>9 DEF Abstract!Pop, Abstract!Top
<1>10. ASSUME gs = fs PROVE Abstract!Inner
  BY <1>1, <1>2, <1>10 DEF Abstract!Inner
<1> QED
  BY <1>1, <1>4, <1>5, <1>6, <1>7, <1>8, <1>9, <1>10 DEF Implements, Abstract!StackNext

(* After a fault nothing is promised. *)
LEMMA DownView ==
  ASSUME faults' # 0
  PROVE  Implements
<1>1. ~Up'
  BY DEF Up
<1> QED
  BY <1>1, Zenon DEF Implements, Abstract!StackNext, Abstract!Fault, Abstract!cvars
-----------------------------------------------------------------------------
\* What every step does: it keeps the invariant, spares the stack when it
\* fails, and is a step of the CallStack.
Good == IInv' /\ (faults' # faults => Spared) /\ Implements

(* A step that fails is a good one. *)
LEMMA FailIsGood ==
  ASSUME IInv, NEW c, NEW m, FailWith(c, m), IsCpu(c), c.d = cpu.d, c.ccr = cpu.ccr,
         IsMem(m), \A a \in Cells : a >= cpu.a7 => m[a] = mem[a]
  PROVE  Good
  BY FailStep, DownView DEF Good

(* So is one that leaves the stack and the data put aside alone. *)
LEMMA SameIsGood ==
  ASSUME IInv, NEW c, cpu' = c \/ Do(c), IsCpu(c), c.a7 = cpu.a7, UNCHANGED <<frames, mem, faults>>
  PROVE  Good
<1>1. IsCpu(cpu') /\ cpu'.a7 = cpu.a7
  BY DoIsCpu
<1>2. IInv'
  BY <1>1, SameStep
<1>3. ASSUME faults = 0 PROVE Implements
  BY <1>3, UpView
<1>4. ASSUME faults # 0 PROVE Implements
  BY <1>4, DownView
<1> QED
  BY <1>2, <1>3, <1>4 DEF Good

(* The core and its memory are what the lemmas above ask for. *)
LEMMA CpuFields ==
  ASSUME IInv
  PROVE  IsCpu(cpu) /\ IsMem(mem) /\ cpu.a7 \in Int
  BY DEF IInv, IsCpu

(* An interrupt puts SR and the pc aside before anything of its handler. *)
LEMMA TakeInterruptStep ==
  ASSUME IInv, TakeInterrupt
  PROVE  Good
<1> PICK l \in IrqLevels, handler \in Targets :
      LET a1 == cpu.a7 - 2  a2 == cpu.a7 - 6
          m1 == StoreHalf(mem, a1, "sr", <<cpu.mask, cpu.ccr>>)
          m2 == StoreLong(m1, a2, "pc", cpu.pc)
      IN  /\ l > cpu.mask /\ faults < MaxFaults + MaxRetries
          /\ \/ a1 \in Cells /\ StorableLong(a2)
                /\ Do([cpu EXCEPT !.a7 = a2, !.mask = l, !.pc = handler]) /\ mem' = m2
                /\ Entered("irq", a2) /\ cmp' = <<>> /\ UNCHANGED faults
             \/ a1 \notin Cells /\ FailWith([cpu EXCEPT !.a7 = a1], mem)
             \/ a1 \in Cells /\ ~StorableLong(a2) /\ FailWith([cpu EXCEPT !.a7 = a2], m1)
             \/ a1 \in Cells /\ StorableLong(a2) /\ FailWith([cpu EXCEPT !.a7 = a2, !.mask = l], m2)
  BY DEF TakeInterrupt
<1> DEFINE a1 == cpu.a7 - 2
           a2 == cpu.a7 - 6
           sr == <<cpu.mask, cpu.ccr>>
           m1 == StoreHalf(mem, a1, "sr", sr)
           m2 == StoreLong(m1, a2, "pc", cpu.pc)
           f == [kind |-> "irq", at |-> a2, cmp |-> cmp]
<1>1. IsCpu(cpu) /\ IsMem(mem) /\ cpu.a7 \in Int /\ a1 \in Int /\ a2 \in Int
  BY CpuFields
<1>2. a2 + 4 = a1 /\ a2 + 6 = cpu.a7 /\ a1 < cpu.a7 /\ a2 < cpu.a7 /\ a2 + 2 < cpu.a7 /\ a1 # a2 /\ a1 # a2 + 2
  BY <1>1
<1>3. /\ IsMem(m1) /\ (a1 \in Cells => m1[a1] = Half("sr", sr))
      /\ \A c \in Cells : c # a1 => m1[c] = mem[c]
  BY <1>1, HalfStored
<1>4. \A c \in Cells : c \in Int
  BY CoreAssumption DEF Cells
<1> HIDE DEF m1, a1, a2
<1>5. /\ IsMem(m2)
      /\ StorableLong(a2) => m2[a2] = Half("pc", cpu.pc) /\ m2[a2 + 2] = Half("pc", cpu.pc)
      /\ \A c \in Cells : c # a2 /\ c # a2 + 2 => m2[c] = m1[c]
  BY <1>1, <1>3, LongStored
<1> HIDE DEF m2
<1>6. /\ \A c \in Cells : c >= cpu.a7 => m1[c] = mem[c]
      /\ \A c \in Cells : c >= cpu.a7 => m2[c] = mem[c]
  BY <1>1, <1>2, <1>3, <1>4, <1>5
<1>7. CASE /\ a1 \in Cells /\ StorableLong(a2) /\ l > cpu.mask
           /\ Do([cpu EXCEPT !.a7 = a2, !.mask = l, !.pc = handler]) /\ mem' = m2
           /\ Entered("irq", a2) /\ UNCHANGED faults
  <2> DEFINE c == [cpu EXCEPT !.a7 = a2, !.mask = l, !.pc = handler]
  <2>1. IsCpu(c) /\ c.a7 = a2 /\ c.mask = l /\ c.ccr = cpu.ccr /\ c.d = cpu.d
    BY <1>1 DEF IsCpu
  <2>2. Do(c)
    BY <1>7
  <2> HIDE DEF c
  <2>3. IsCpu(cpu') /\ cpu'.a7 = a2 /\ cpu'.mask = l /\ cpu'.ccr = cpu.ccr /\ cpu'.d = cpu.d
    BY <2>1, <2>2, DoIsCpu
  <2>4. m2[a1] = Half("sr", sr) /\ a2 + 4 \in Cells /\ m2[a2 + 4] = Half("sr", sr)
    BY <1>2, <1>3, <1>5, <1>7
  <2>5. Stored(m2, f)
    BY <1>5, <1>7, <2>4 DEF Stored, Half
  <2>6. Saved(m2, f) = Abstract!Frame("irq", cpu.pc, cpu.mask, cpu.ccr, 0)
    BY <1>5, <1>7, <2>4 DEF Saved, Half, Abstract!Frame
  <2> HIDE DEF f
  <2>7. IInv' /\ (faults = 0 => Abs(frames', mem') = Append(Abs(frames, mem), Saved(mem', f)))
    BY <1>1, <1>2, <1>5, <1>6, <1>7, <2>3, <2>5, PushStep DEF f
  <2>8. ASSUME faults = 0 PROVE Implements
    BY <1>7, <2>3, <2>6, <2>7, <2>8, UpView
  <2>9. ASSUME faults # 0 PROVE Implements
    BY <1>7, <2>9, DownView
  <2> QED
    BY <1>7, <2>7, <2>8, <2>9 DEF Good
<1>8. CASE FailWith([cpu EXCEPT !.a7 = a1], mem)
  <2> DEFINE c == [cpu EXCEPT !.a7 = a1]
  <2>1. IsCpu(c) /\ c.d = cpu.d /\ c.ccr = cpu.ccr
    BY <1>1 DEF IsCpu
  <2> QED
    BY <1>1, <1>8, <2>1, FailIsGood
<1>9. CASE FailWith([cpu EXCEPT !.a7 = a2], m1)
  <2> DEFINE c == [cpu EXCEPT !.a7 = a2]
  <2>1. IsCpu(c) /\ c.d = cpu.d /\ c.ccr = cpu.ccr
    BY <1>1 DEF IsCpu
  <2> QED
    BY <1>3, <1>6, <1>9, <2>1, FailIsGood
<1>10. CASE FailWith([cpu EXCEPT !.a7 = a2, !.mask = l], m2)
  <2> DEFINE c == [cpu EXCEPT !.a7 = a2, !.mask = l]
  <2>1. IsCpu(c) /\ c.d = cpu.d /\ c.ccr = cpu.ccr
    BY <1>1 DEF IsCpu
  <2> QED
    BY <1>5, <1>6, <1>10, <2>1, FailIsGood
<1> QED
  BY <1>7, <1>8, <1>9, <1>10 DEF a1, a2, m1, m2

(* What a push of one long below the stack pointer makes of the memory. *)
LEMMA PushedLong ==
  ASSUME IInv, NEW kind \in {"call", "data"}, NEW h, h = IF kind = "data" THEN "data" ELSE "pc", NEW v
  PROVE  LET a == cpu.a7 - 4
             m == StoreLong(mem, a, h, v)
             f == [kind |-> kind, at |-> a, cmp |-> cmp]
         IN  /\ a \in Int /\ a + 4 = cpu.a7 /\ IsMem(m)
             /\ \A c \in Cells : c >= cpu.a7 => m[c] = mem[c]
             /\ StorableLong(a) => Stored(m, f) /\ m[a].v = v
<1> DEFINE a == cpu.a7 - 4
           m == StoreLong(mem, a, h, v)
           f == [kind |-> kind, at |-> a, cmp |-> cmp]
<1>1. IsMem(mem) /\ cpu.a7 \in Int /\ a \in Int
  BY CpuFields
<1>2. a + 4 = cpu.a7 /\ a < cpu.a7 /\ a + 2 < cpu.a7
  BY <1>1
<1>3. \A c \in Cells : c \in Int
  BY CoreAssumption DEF Cells
<1> HIDE DEF a
<1>4. /\ IsMem(m)
      /\ StorableLong(a) => m[a] = Half(h, v) /\ m[a + 2] = Half(h, v)
      /\ \A c \in Cells : c # a /\ c # a + 2 => m[c] = mem[c]
  BY <1>1, LongStored
<1> HIDE DEF m
<1>5. \A c \in Cells : c >= cpu.a7 => m[c] = mem[c]
  BY <1>1, <1>2, <1>3, <1>4
<1>6. StorableLong(a) => Stored(m, f) /\ m[a].v = v
  BY <1>4 DEF Stored, Half
<1> QED
  BY <1>1, <1>2, <1>4, <1>5, <1>6 DEF a, m

(* A call lays one frame on the stack. *)
LEMMA CallsStep ==
  ASSUME IInv, Calls
  PROVE  Good
<1> DEFINE a == cpu.a7 - 4
<1> PICK n \in {2, 4}, target \in Targets :
      LET ret == cpu.pc + n  m == StoreLong(mem, a, "pc", ret)
      IN  IF StorableLong(a)
          THEN \/ /\ Do([cpu EXCEPT !.a7 = a, !.pc = target]) /\ mem' = m
                  /\ Entered("call", a) /\ UNCHANGED <<cmp, faults>>
               \/ n = 2 /\ FailWith([cpu EXCEPT !.a7 = a, !.pc = ret], m)
          ELSE FailWith([cpu EXCEPT !.a7 = a, !.pc = ret], mem)
  BY DEF Calls
<1> DEFINE ret == cpu.pc + n
           m == StoreLong(mem, a, "pc", ret)
           f == [kind |-> "call", at |-> a, cmp |-> cmp]
<1>1. /\ a \in Int /\ a + 4 = cpu.a7 /\ IsMem(m)
      /\ \A c \in Cells : c >= cpu.a7 => m[c] = mem[c]
      /\ StorableLong(a) => Stored(m, f) /\ m[a].v = ret
  BY PushedLong
<1>2. IsCpu(cpu) /\ IsMem(mem)
  BY CpuFields
<1> HIDE DEF a, m, ret
<1>3. ASSUME StorableLong(a), Do([cpu EXCEPT !.a7 = a, !.pc = target]), mem' = m,
             Entered("call", a), UNCHANGED <<cmp, faults>>
      PROVE  Good
  <2> DEFINE c == [cpu EXCEPT !.a7 = a, !.pc = target]
  <2>1. IsCpu(c) /\ c.a7 = a /\ c.mask = cpu.mask /\ c.ccr = cpu.ccr /\ c.d = cpu.d
    BY <1>1, <1>2 DEF IsCpu
  <2>2. Do(c)
    BY <1>3
  <2> HIDE DEF c
  <2>3. IsCpu(cpu') /\ cpu'.a7 = a /\ cpu'.mask = cpu.mask /\ cpu'.ccr = cpu.ccr /\ cpu'.d = cpu.d
    BY <2>1, <2>2, DoIsCpu
  <2>4. Saved(m, f) = Abstract!Frame("call", ret, 0, {}, 0)
    BY <1>1, <1>3 DEF Saved, Abstract!Frame
  <2>5. Stored(m, f)
    BY <1>1, <1>3
  <2> HIDE DEF f
  <2>6. IInv' /\ (faults = 0 => Abs(frames', mem') = Append(Abs(frames, mem), Saved(mem', f)))
    BY <1>1, <1>3, <2>3, <2>5, PushStep DEF f
  <2>7. ASSUME faults = 0 PROVE Implements
    BY <1>3, <2>3, <2>4, <2>6, <2>7, UpView DEF ret
  <2>8. ASSUME faults # 0 PROVE Implements
    BY <1>3, <2>8, DownView
  <2> QED
    BY <1>3, <2>6, <2>7, <2>8 DEF Good
<1>4. ASSUME NEW m0 \in {m, mem}, FailWith([cpu EXCEPT !.a7 = a, !.pc = ret], m0) PROVE Good
  <2> DEFINE c == [cpu EXCEPT !.a7 = a, !.pc = ret]
  <2>1. IsCpu(c) /\ c.d = cpu.d /\ c.ccr = cpu.ccr
    BY <1>1, <1>2 DEF IsCpu
  <2> QED
    BY <1>1, <1>2, <1>4, <2>1, FailIsGood
<1> QED
  BY <1>3, <1>4 DEF m, ret, a

(* So does a push of data. *)
LEMMA PushOfData ==
  ASSUME IInv, Push
  PROVE  Good
<1> DEFINE a == cpu.a7 - 4
           m == StoreLong(mem, a, "data", cpu.d)
           f == [kind |-> "data", at |-> a, cmp |-> cmp]
           moved == [cpu EXCEPT !.a7 = a, !.pc = @ + 2]
           x == Move(cpu.d, 4, cpu.d).ccr
<1>1. /\ a \in Int /\ a + 4 = cpu.a7 /\ IsMem(m)
      /\ \A c \in Cells : c >= cpu.a7 => m[c] = mem[c]
      /\ StorableLong(a) => Stored(m, f) /\ m[a].v = cpu.d
  BY PushedLong
<1>2. IsCpu(cpu) /\ IsMem(mem)
  BY CpuFields
<1>3. IF StorableLong(a)
      THEN Do([moved EXCEPT !.ccr = x]) /\ mem' = m /\ Entered("data", a) /\ UNCHANGED faults
      ELSE FailWith(moved, mem)
  BY DEF Push
<1> HIDE DEF a, m, x
<1>4. IsCpu(moved) /\ moved.d = cpu.d /\ moved.ccr = cpu.ccr
  BY <1>1, <1>2 DEF IsCpu
<1>5. CASE StorableLong(a)
  <2> DEFINE c == [moved EXCEPT !.ccr = x]
  <2>1. IsCpu(c) /\ c.a7 = a /\ c.mask = cpu.mask /\ c.pc = cpu.pc + 2 /\ c.d = cpu.d
    BY <1>1, <1>2 DEF IsCpu
  <2>2. Do(c)
    BY <1>3, <1>5
  <2> HIDE DEF c
  <2>3. IsCpu(cpu') /\ cpu'.a7 = a /\ cpu'.mask = cpu.mask /\ cpu'.pc = cpu.pc + 2 /\ cpu'.d = cpu.d
    BY <2>1, <2>2, DoIsCpu
  <2>4. Saved(m, f) = Abstract!Frame("data", 0, 0, {}, cpu.d)
    BY <1>1, <1>5 DEF Saved, Abstract!Frame
  <2>5. Stored(m, f)
    BY <1>1, <1>5
  <2> HIDE DEF f
  <2>6. IInv' /\ (faults = 0 => Abs(frames', mem') = Append(Abs(frames, mem), Saved(mem', f)))
    BY <1>1, <1>3, <1>5, <2>3, <2>5, PushStep DEF f
  <2>7. ASSUME faults = 0 PROVE Implements
    BY <1>3, <1>5, <2>3, <2>4, <2>6, <2>7, UpView
  <2>8. ASSUME faults # 0 PROVE Implements
    BY <1>3, <1>5, <2>8, DownView
  <2> QED
    BY <1>3, <1>5, <2>6, <2>7, <2>8 DEF Good
<1>6. CASE ~StorableLong(a)
  <2> HIDE DEF moved
  <2> QED
    BY <1>2, <1>3, <1>4, <1>6, FailIsGood
<1> QED
  BY <1>5, <1>6

(* RTS finds the return address of its own call. *)
LEMMA RtsStep ==
  ASSUME IInv, Rts
  PROVE  Good
<1>1. IsCpu(cpu) /\ IsMem(mem) /\ cpu.a7 \in Int
  BY CpuFields
<1>2. CASE StorableLong(cpu.a7)
  <2> PICK ret \in LoadLong(cpu.a7, "pc", Targets) : Do([cpu EXCEPT !.a7 = @ + 4, !.pc = ret])
    BY <1>2 DEF Rts
  <2>1. KeepFrom(cpu.a7 + 4) /\ Left /\ UNCHANGED <<cmp, faults>> /\ OnTop("call")
    BY <1>2 DEF Rts
  <2> DEFINE c == [cpu EXCEPT !.a7 = @ + 4, !.pc = ret]
  <2>2. IsCpu(c) /\ c.a7 = cpu.a7 + 4 /\ c.pc = ret /\ c.mask = cpu.mask /\ c.ccr = cpu.ccr /\ c.d = cpu.d
    BY <1>1 DEF IsCpu
  <2>3. Do(c)
    OBVIOUS
  <2> HIDE DEF c
  <2>4. /\ IsCpu(cpu') /\ cpu'.a7 = cpu.a7 + 4 /\ cpu'.pc = ret
        /\ cpu'.mask = cpu.mask /\ cpu'.ccr = cpu.ccr /\ cpu'.d = cpu.d
    BY <2>2, <2>3, DoIsCpu
  <2>5. /\ IInv'
        /\ faults = 0 =>
             /\ Last(frames).kind = "call" /\ Last(frames).at = cpu.a7 /\ Stored(mem, Last(frames))
             /\ Abs(frames, mem) # <<>> /\ Last(Abs(frames, mem)) = Saved(mem, Last(frames))
             /\ Abs(frames', mem') = Front(Abs(frames, mem))
    BY <2>1, <2>4, PopStep
  <2>6. ASSUME faults = 0 PROVE Implements
    <3>1. mem[cpu.a7].kind = "pc" /\ mem[cpu.a7 + 2] = mem[cpu.a7]
      BY <2>5, <2>6 DEF Stored
    <3>2. ret = mem[cpu.a7].v
      BY <3>1 DEF LoadLong
    <3>3. /\ Saved(mem, Last(frames)).kind = "call"
          /\ Saved(mem, Last(frames)).ret = mem[cpu.a7].v
      BY <2>5, <2>6 DEF Saved
    <3> QED
      BY <2>1, <2>4, <2>5, <2>6, <3>2, <3>3, UpView
  <2>7. ASSUME faults # 0 PROVE Implements
    BY <2>1, <2>7, DownView
  <2> QED
    BY <2>1, <2>5, <2>6, <2>7 DEF Good
<1>3. CASE ~StorableLong(cpu.a7)
  <2> DEFINE c == [cpu EXCEPT !.pc = @ + 2]
  <2>1. IsCpu(c) /\ c.d = cpu.d /\ c.ccr = cpu.ccr
    BY <1>1 DEF IsCpu
  <2>2. FailWith(c, mem)
    BY <1>3 DEF Rts
  <2> QED
    BY <1>1, <2>1, <2>2, FailIsGood
<1> QED
  BY <1>2, <1>3

(* RTE finds the pc, the mask and the flags of its own interrupt. *)
LEMMA RteStep ==
  ASSUME IInv, Rte
  PROVE  Good
<1>1. IsCpu(cpu) /\ IsMem(mem) /\ cpu.a7 \in Int
  BY CpuFields
<1>2. CASE StorableLong(cpu.a7) /\ cpu.a7 + 4 \in Cells
  <2> DEFINE srs == IF mem[cpu.a7 + 4].kind = "sr" THEN {mem[cpu.a7 + 4].v} ELSE {<<0, {}>>, <<7, Flags>>}
  <2> PICK ret \in LoadLong(cpu.a7, "pc", Targets), sr \in srs :
        Do([cpu EXCEPT !.a7 = @ + 6, !.pc = ret, !.mask = sr[1], !.ccr = sr[2]])
    BY <1>2 DEF Rte
  <2>1. KeepFrom(cpu.a7 + 6) /\ Left /\ UNCHANGED faults /\ OnTop("irq")
    BY <1>2 DEF Rte
  <2> DEFINE c == [cpu EXCEPT !.a7 = @ + 6, !.pc = ret, !.mask = sr[1], !.ccr = sr[2]]
  <2>2. IsCpu(c) /\ c.a7 = cpu.a7 + 6 /\ c.pc = ret /\ c.mask = sr[1] /\ c.ccr = sr[2] /\ c.d = cpu.d
    BY <1>1 DEF IsCpu
  <2>3. Do(c)
    OBVIOUS
  <2> HIDE DEF c
  <2>4. /\ IsCpu(cpu') /\ cpu'.a7 = cpu.a7 + 6 /\ cpu'.pc = ret
        /\ cpu'.mask = sr[1] /\ cpu'.ccr = sr[2] /\ cpu'.d = cpu.d
    BY <2>2, <2>3, DoIsCpu
  <2>5. /\ IInv'
        /\ faults = 0 =>
             /\ Last(frames).kind = "irq" /\ Last(frames).at = cpu.a7 /\ Stored(mem, Last(frames))
             /\ Abs(frames, mem) # <<>> /\ Last(Abs(frames, mem)) = Saved(mem, Last(frames))
             /\ Abs(frames', mem') = Front(Abs(frames, mem))
    BY <2>1, <2>4, PopStep
  <2>6. ASSUME faults = 0 PROVE Implements
    <3>1. /\ mem[cpu.a7].kind = "pc" /\ mem[cpu.a7 + 2] = mem[cpu.a7]
          /\ mem[cpu.a7 + 4].kind = "sr"
      BY <2>5, <2>6 DEF Stored
    <3>2. ret = mem[cpu.a7].v /\ sr = mem[cpu.a7 + 4].v
      BY <3>1 DEF LoadLong
    <3>3. /\ Saved(mem, Last(frames)).kind = "irq"
          /\ Saved(mem, Last(frames)).ret = mem[cpu.a7].v
          /\ Saved(mem, Last(frames)).mask = mem[cpu.a7 + 4].v[1]
          /\ Saved(mem, Last(frames)).ccr = mem[cpu.a7 + 4].v[2]
      BY <2>5, <2>6 DEF Saved
    <3> QED
      BY <2>1, <2>4, <2>5, <2>6, <3>2, <3>3, UpView
  <2>7. ASSUME faults # 0 PROVE Implements
    BY <2>1, <2>7, DownView
  <2> QED
    BY <2>1, <2>5, <2>6, <2>7 DEF Good
<1>3. CASE ~(StorableLong(cpu.a7) /\ cpu.a7 + 4 \in Cells)
  <2> DEFINE x == IF StorableLong(cpu.a7) THEN cpu.a7 + 4 ELSE cpu.a7
             c == [cpu EXCEPT !.pc = @ + 2, !.a7 = x]
  <2>1. x \in Int
    BY <1>1
  <2>2. FailWith(c, mem)
    BY <1>1, <1>3 DEF Rte, IsCpu
  <2> HIDE DEF x
  <2>3. IsCpu(c) /\ c.d = cpu.d /\ c.ccr = cpu.ccr
    BY <1>1, <2>1 DEF IsCpu
  <2> QED
    BY <1>1, <2>2, <2>3, FailIsGood
<1> QED
  BY <1>2, <1>3

(* A pop finds the value of its own push. *)
LEMMA PopOfData ==
  ASSUME IInv, Pop
  PROVE  Good
<1> DEFINE moved == [cpu EXCEPT !.a7 = @ + 4, !.pc = @ + 2]
<1>1. IsCpu(cpu) /\ IsMem(mem) /\ cpu.a7 \in Int
  BY CpuFields
<1>2. /\ IsCpu(moved) /\ moved.d = cpu.d /\ moved.ccr = cpu.ccr
      /\ moved.a7 = cpu.a7 + 4 /\ moved.pc = cpu.pc + 2 /\ moved.mask = cpu.mask
  BY <1>1 DEF IsCpu
<1>3. CASE StorableLong(cpu.a7)
  <2> PICK v \in LoadLong(cpu.a7, "data", Values) : Do([moved EXCEPT !.d = v, !.ccr = Move(cpu.d, 4, v).ccr])
    BY <1>3 DEF Pop
  <2>1. KeepFrom(cpu.a7 + 4) /\ Left /\ UNCHANGED faults /\ OnTop("data")
    BY <1>3 DEF Pop
  <2> DEFINE x == Move(cpu.d, 4, v).ccr
             c == [moved EXCEPT !.d = v, !.ccr = x]
  <2>2. Do(c)
    OBVIOUS
  <2> HIDE DEF x, moved
  <2>3. IsCpu(c) /\ c.a7 = cpu.a7 + 4 /\ c.pc = cpu.pc + 2 /\ c.mask = cpu.mask /\ c.d = v
    BY <1>2 DEF IsCpu
  <2> HIDE DEF c
  <2>4. IsCpu(cpu') /\ cpu'.a7 = cpu.a7 + 4 /\ cpu'.pc = cpu.pc + 2 /\ cpu'.mask = cpu.mask /\ cpu'.d = v
    BY <2>2, <2>3, DoIsCpu
  <2>5. /\ IInv'
        /\ faults = 0 =>
             /\ Last(frames).kind = "data" /\ Last(frames).at = cpu.a7 /\ Stored(mem, Last(frames))
             /\ Abs(frames, mem) # <<>> /\ Last(Abs(frames, mem)) = Saved(mem, Last(frames))
             /\ Abs(frames', mem') = Front(Abs(frames, mem))
    BY <2>1, <2>4, PopStep
  <2>6. ASSUME faults = 0 PROVE Implements
    <3>1. mem[cpu.a7].kind = "data" /\ mem[cpu.a7 + 2] = mem[cpu.a7]
      BY <2>5, <2>6 DEF Stored
    <3>2. v = mem[cpu.a7].v
      BY <3>1 DEF LoadLong
    <3>3. Saved(mem, Last(frames)).kind = "data" /\ Saved(mem, Last(frames)).d = mem[cpu.a7].v
      BY <2>5, <2>6 DEF Saved
    <3> QED
      BY <2>1, <2>4, <2>5, <2>6, <3>2, <3>3, UpView
  <2>7. ASSUME faults # 0 PROVE Implements
    BY <2>1, <2>7, DownView
  <2> QED
    BY <2>1, <2>5, <2>6, <2>7 DEF Good
<1>4. CASE ~StorableLong(cpu.a7)
  <2>1. FailWith(moved, mem)
    BY <1>4 DEF Pop
  <2> HIDE DEF moved
  <2> QED
    BY <1>1, <1>2, <2>1, FailIsGood
<1> QED
  BY <1>3, <1>4

(* Everything else leaves the stack alone, or fails with the pc moved at   *)
(* most.                                                                   *)
LEMMA OtherStep ==
  ASSUME IInv, FetchFault \/ Stop \/ Branch \/ MoveToSr \/ Arithmetic \/ Unknown \/ UNCHANGED vars
  PROVE  Good
<1>1. IsCpu(cpu) /\ IsMem(mem)
  BY CpuFields
<1>2. CASE FetchFault
  BY <1>1, <1>2, FailIsGood DEF FetchFault
<1>3. CASE Unknown
  <2> PICK n \in {2, 4, 6, 8, 10}, ccr \in {cpu.ccr, cpu.ccr \union {"Z"}, cpu.ccr \ {"Z"}} :
        FailWith([cpu EXCEPT !.pc = @ + n, !.ccr = ccr], mem)
    BY <1>3 DEF Unknown
  <2> DEFINE c == [cpu EXCEPT !.pc = @ + n, !.ccr = ccr]
  <2>1. cpu.pc \in Int
    BY <1>3, CoreAssumption DEF Unknown, Fetched, Code, CoreAssumption
  <2>2. IsCpu(c) /\ c.d = cpu.d /\ c.ccr = ccr /\ c.pc = cpu.pc + n
    BY <1>1 DEF IsCpu
  <2>3. c.pc # cpu.pc
    BY <2>1, <2>2
  <2>4. ccr \ {"Z"} = cpu.ccr \ {"Z"}
    OBVIOUS
  <2>5. FailWith(c, mem)
    OBVIOUS
  <2> HIDE DEF c
  <2>6. IInv' /\ Spared /\ faults' # 0
    BY <1>1, <2>2, <2>3, <2>4, <2>5, FailStep
  <2> QED
    BY <2>6, DownView DEF Good
<1>4. ASSUME UNCHANGED <<frames, mem, faults>>, NEW c, cpu' = c \/ Do(c), DOMAIN c = DOMAIN cpu, c.a7 = cpu.a7
      PROVE  Good
  <2>1. IsCpu(c)
    BY <1>1, <1>4 DEF IsCpu
  <2> QED
    BY <1>4, <2>1, SameIsGood
<1> USE DEF IsCpu
<1>5. CASE Stop
  <2> DEFINE c == [cpu EXCEPT !.pc = @ + 4, !.halt = TRUE]
  <2>1. DOMAIN c = DOMAIN cpu /\ c.a7 = cpu.a7
    BY <1>1
  <2>2. cpu' = c /\ UNCHANGED <<frames, mem, faults>>
    BY <1>5 DEF Stop
  <2> HIDE DEF c
  <2> QED
    BY <1>4, <2>1, <2>2
<1>6. CASE Branch
  <2> PICK next : Do([cpu EXCEPT !.pc = next])
    BY <1>6 DEF Branch
  <2> DEFINE c == [cpu EXCEPT !.pc = next]
  <2>1. Do(c) /\ UNCHANGED <<frames, mem, faults>>
    BY <1>6 DEF Branch
  <2>2. DOMAIN c = DOMAIN cpu /\ c.a7 = cpu.a7
    BY <1>1
  <2> HIDE DEF c
  <2> QED
    BY <1>4, <2>1, <2>2
<1>7. CASE MoveToSr
  <2> PICK m \in IrqLevels \union {0, cpu.mask} :
        Do([cpu EXCEPT !.pc = @ + 2, !.mask = m, !.ccr = FlagsOf(cpu.d)])
    BY <1>7 DEF MoveToSr
  <2> DEFINE c == [cpu EXCEPT !.pc = @ + 2, !.mask = m, !.ccr = FlagsOf(cpu.d)]
  <2>1. Do(c) /\ UNCHANGED <<frames, mem, faults>>
    BY <1>7 DEF MoveToSr
  <2>2. DOMAIN c = DOMAIN cpu /\ c.a7 = cpu.a7
    BY <1>1
  <2> HIDE DEF c
  <2> QED
    BY <1>4, <2>1, <2>2
<1>8. CASE Arithmetic
  <2>1. UNCHANGED <<frames, mem, faults>>
    BY <1>8 DEF Arithmetic
  <2>2. \E v, x : Do([cpu EXCEPT !.pc = @ + 2, !.d = v, !.ccr = x]) \/ Do([cpu EXCEPT !.pc = @ + 2, !.d = v])
    BY <1>8 DEF Arithmetic
  <2> PICK v, x : Do([cpu EXCEPT !.pc = @ + 2, !.d = v, !.ccr = x]) \/ Do([cpu EXCEPT !.pc = @ + 2, !.d = v])
    BY <2>2
  <2> DEFINE c == [cpu EXCEPT !.pc = @ + 2, !.d = v, !.ccr = x]
             e == [cpu EXCEPT !.pc = @ + 2, !.d = v]
  <2>3. Do(c) \/ Do(e)
    OBVIOUS
  <2>4. DOMAIN c = DOMAIN cpu /\ c.a7 = cpu.a7 /\ DOMAIN e = DOMAIN cpu /\ e.a7 = cpu.a7
    BY <1>1
  <2> HIDE DEF c, e
  <2> QED
    BY <1>4, <2>1, <2>3, <2>4
<1>9. CASE UNCHANGED vars
  BY <1>1, <1>4, <1>9 DEF vars
<1> QED
  BY <1>2, <1>3, <1>5, <1>6, <1>7, <1>8, <1>9

(* Every step keeps the invariant, and none spoils what is spared. *)
LEMMA EveryStep ==
  ASSUME IInv, [Next]_vars
  PROVE  Good
  BY TakeInterruptStep, CallsStep, RtsStep, RteStep, PushOfData, PopOfData, OtherStep DEF Next

LEMMA IInvInit == Init => IInv
<1> SUFFICES ASSUME Init PROVE IInv
  OBVIOUS
<1>1. IsCpu(cpu) /\ IsMem(mem) /\ faults = 0
  BY CoreAssumption DEF Init, IsCpu, IsMem
<1>2. frames = <<>> /\ cpu.a7 = StackTop
  BY DEF Init
<1>3. Len(<<>>) = 0 /\ IsSeq(<<>>)
  BY DEF IsSeq
<1>4. Laid(frames, mem, cpu.a7)
  BY <1>2, <1>3 DEF Laid, Above
<1> QED
  BY <1>1, <1>4 DEF IInv
-----------------------------------------------------------------------------
(* Every return finds its own frame again, however deep calls, interrupts  *)
(* and pushes are nested: the core is a CallStack.                         *)
THEOREM EveryReturn == Spec => EveryReturnIsItsOwn
<1>1. Init => Abstract!StackInit
  BY DEF Init, Up, Abstract!StackInit
<1>2. IInv /\ [Next]_vars => IInv' /\ Implements
  BY EveryStep DEF Good
<1> QED
  BY <1>1, <1>2, IInvInit, PTL DEF Spec, EveryReturnIsItsOwn, Abstract!StackSpec, Implements

(* A step that fails, wherever it stops, changes no data register, no flag *)
(* but Z, and that only once it is past its opcode, and nothing the        *)
(* program has on its stack: BCHG, BCLR and BSET set Z before the store    *)
(* that may be refused (src/cpu/coldfire.rs:624).                          *)
THEOREM FaultsSpare == Spec => FaultsSpareTheStack
<1> DEFINE Spares == faults' # faults =>
       /\ cpu'.d = cpu.d /\ cpu'.ccr \ {"Z"} = cpu.ccr \ {"Z"}
       /\ cpu'.pc = cpu.pc => cpu'.ccr = cpu.ccr
       /\ \A a \in Cells : a >= cpu.a7 => mem'[a] = mem[a]
<1>1. IInv /\ [Next]_vars => IInv' /\ [Spares]_vars
  BY EveryStep DEF Good, Spared
<1> QED
  BY <1>1, IInvInit, PTL DEF Spec, FaultsSpareTheStack

-----------------------------------------------------------------------------
(* Recursive functions over numbers: the powers of two *)

(* A set of numbers that holds 0, and n + 1 whenever it holds n, is all of *)
(* them.                                                                   *)
LEMMA SetInduction ==
  ASSUME NEW S, 0 \in S, \A n \in Nat : n \in S => n + 1 \in S
  PROVE  Nat \subseteq S
<1> DEFINE T == Nat \ S
           R == OpToRel(<, Nat)
<1>1. SUFFICES ASSUME T # {} PROVE FALSE
  OBVIOUS
<1>2. \E x \in T : \A y \in T : ~(<<y, x>> \in R)
  <2>1. IsWellFoundedOn(R, Nat)
    BY NatLessThanWellFounded
  <2> HIDE DEF R
  <2> QED
    BY <1>1, <2>1, WFMin
<1>3. PICK x \in T : \A y \in T : ~(<<y, x>> \in R)
  BY <1>2
<1>4. \A y \in T : ~(y < x)
  BY <1>3 DEF OpToRel
<1>5. x # 0 /\ x - 1 \in Nat /\ x - 1 < x
  OBVIOUS
<1>6. x - 1 \in S
  BY <1>4, <1>5
<1> QED
  BY <1>5, <1>6

\* The numbers f[0] .. f[n] each made of the one before.
Iterates(f, n, base, step) ==
  /\ f \in [0..n -> Nat] /\ f[0] = base
  /\ \A i \in 1..n : f[i] = step[i][f[i - 1]]

(* A recursion over 0 .. n has a result.                                   *)
LEMMA RecursionExists ==
  ASSUME NEW n \in Nat, NEW base \in Nat, NEW step, \A i \in 1..n, x \in Nat : step[i][x] \in Nat
  PROVE  \E f : Iterates(f, n, base, step)
<1> DEFINE S == { k \in Nat : k <= n => \E f : Iterates(f, k, base, step) }
<1>1. 0 \in S
  <2> DEFINE g == [i \in 0..0 |-> base]
  <2>1. Iterates(g, 0, base, step)
    BY DEF Iterates
  <2> HIDE DEF g
  <2> QED
    BY <2>1
<1>2. ASSUME NEW k \in Nat, k \in S PROVE k + 1 \in S
  <2> SUFFICES ASSUME k + 1 <= n PROVE \E f : Iterates(f, k + 1, base, step)
    OBVIOUS
  <2>1. PICK f : Iterates(f, k, base, step)
    BY <1>2
  <2> DEFINE g == [i \in 0..(k + 1) |-> IF i <= k THEN f[i] ELSE step[k + 1][f[k]]]
  <2>2. step[k + 1][f[k]] \in Nat
    BY <2>1 DEF Iterates
  <2>3. g \in [0..(k + 1) -> Nat] /\ g[0] = base
    BY <2>1, <2>2 DEF Iterates
  <2>4. ASSUME NEW i \in 1..(k + 1) PROVE g[i] = step[i][g[i - 1]]
    <3>1. CASE i <= k
      BY <2>1, <3>1 DEF Iterates
    <3>2. CASE i = k + 1
      BY <3>2
    <3> QED
      BY <3>1, <3>2
  <2> HIDE DEF g
  <2>5. Iterates(g, k + 1, base, step)
    BY <2>3, <2>4 DEF Iterates
  <2> QED
    BY <2>5
<1>3. n \in S
  <2> HIDE DEF S
  <2> QED
    BY <1>1, <1>2, SetInduction
<1> QED
  BY <1>3

(* Powers of two double. *)
LEMMA PowerSteps ==
  /\ Bits[4] \in Nat /\ Power \in [0..(2 * Bits[4]) -> Nat] /\ Power[0] = 1
  /\ \A n \in 1..(2 * Bits[4]) : Power[n] = 2 * Power[n - 1]
<1> DEFINE L == 2 * Bits[4]
           step == [n \in 1..L |-> [x \in Nat |-> 2 * x]]
           Eq(f) == f = [n \in 0..L |-> IF n = 0 THEN 1 ELSE 2 * f[n - 1]]
<1>1. Bits[4] \in Nat /\ L \in Nat
  BY CoreAssumption DEF CoreAssumption, Sizes
<1> HIDE DEF L
<1>2. \A n \in 1..L, x \in Nat : step[n][x] = 2 * x
  BY <1>1
<1> HIDE DEF step
<1>3. PICK f : Iterates(f, L, 1, step)
  <2>1. \A n \in 1..L, x \in Nat : step[n][x] \in Nat
    BY <1>2
  <2> QED
    BY <1>1, <2>1, RecursionExists
<1>4. Eq(f)
  <2>1. \A n \in 0..L : f[n] = IF n = 0 THEN 1 ELSE 2 * f[n - 1]
    <3> TAKE n \in 0..L
    <3>1. CASE n = 0
      BY <1>3, <3>1 DEF Iterates
    <3>2. CASE n # 0
      <4>1. n \in 1..L /\ n - 1 \in 0..L
        BY <1>1, <3>2
      <4>2. f[n - 1] \in Nat
        BY <1>3, <4>1 DEF Iterates
      <4>3. f[n] = step[n][f[n - 1]]
        BY <1>3, <4>1 DEF Iterates
      <4> QED
        BY <1>2, <3>2, <4>1, <4>2, <4>3
    <3> QED
      BY <3>1, <3>2
  <2>2. f = [n \in 0..L |-> f[n]]
    BY <1>3 DEF Iterates
  <2> QED
    BY <2>1, <2>2, Zenon
<1>5. Eq(Power)
  <2>1. Power = CHOOSE g : Eq(g)
    BY DEF Power, L
  <2> QED
    BY <1>4, <2>1
<1>6. Power[0] = 1 /\ DOMAIN Power = 0..L /\ \A n \in 1..L : Power[n] = 2 * Power[n - 1]
  BY <1>1, <1>5
<1> DEFINE S == { n \in Nat : n <= L => Power[n] \in Nat }
<1>7. Nat \subseteq S
  <2>1. 0 \in S
    BY <1>6
  <2>2. ASSUME NEW n \in Nat, n \in S PROVE n + 1 \in S
    BY <1>1, <1>6, <2>2
  <2> HIDE DEF S
  <2> QED
    BY <2>1, <2>2, SetInduction
<1>8. Power \in [0..L -> Nat]
  <2>1. \A n \in 0..L : Power[n] \in Nat
    BY <1>1, <1>7
  <2>2. Power = [n \in 0..L |-> Power[n]]
    BY <1>5
  <2> QED
    BY <2>1, <2>2
<1> QED
  BY <1>1, <1>6, <1>8 DEF L

(* The power of a sum is the product of the powers. *)
LEMMA PowerOfSum ==
  ASSUME NEW a \in Nat, NEW c \in Nat, a + c <= 2 * Bits[4]
  PROVE  Power[a + c] = Power[a] * Power[c]
<1> DEFINE L == 2 * Bits[4]
           S == { n \in Nat : a + n <= L => Power[a + n] = Power[a] * Power[n] }
<1>1. /\ L \in Nat /\ Power \in [0..L -> Nat] /\ Power[0] = 1
      /\ \A n \in 1..L : Power[n] = 2 * Power[n - 1]
  BY PowerSteps
<1> HIDE DEF L
<1>2. 0 \in S
  BY <1>1
<1>3. ASSUME NEW n \in Nat, n \in S PROVE n + 1 \in S
  <2> SUFFICES ASSUME a + (n + 1) <= L PROVE Power[a + (n + 1)] = Power[a] * Power[n + 1]
    OBVIOUS
  <2>1. Power[a + n] = Power[a] * Power[n]
    BY <1>1, <1>3
  <2>2. Power[a + (n + 1)] = 2 * Power[a + n]
    <3>1. a + (n + 1) \in 1..L /\ (a + (n + 1)) - 1 = a + n
      BY <1>1
    <3> QED
      BY <1>1, <3>1
  <2>3. Power[n + 1] = 2 * Power[n]
    <3>1. n + 1 \in 1..L /\ (n + 1) - 1 = n
      BY <1>1
    <3> QED
      BY <1>1, <3>1
  <2>4. Power[a] \in Nat /\ Power[n] \in Nat
    BY <1>1
  <2>5. \A x, y \in Nat : 2 * (x * y) = x * (2 * y)
    OBVIOUS
  <2> QED
    BY <2>1, <2>2, <2>3, <2>4, <2>5
<1>4. c \in S
  <2> HIDE DEF S
  <2> QED
    BY <1>2, <1>3, SetInduction
<1> QED
  BY <1>4 DEF L

(* No power of two is zero. *)
LEMMA PowerPositive ==
  ASSUME NEW n \in 0..(2 * Bits[4])
  PROVE  Power[n] \in Nat \ {0}
<1> DEFINE L == 2 * Bits[4]
           S == { k \in Nat : k <= L => Power[k] # 0 }
<1>1. /\ L \in Nat /\ Power \in [0..L -> Nat] /\ Power[0] = 1
      /\ \A k \in 1..L : Power[k] = 2 * Power[k - 1]
  BY PowerSteps
<1>2. n \in 0..L
  OBVIOUS
<1> HIDE DEF L
<1>3. ASSUME NEW k \in Nat, k \in S PROVE k + 1 \in S
  <2>1. k + 1 <= L => Power[k + 1] = 2 * Power[k] /\ Power[k] \in Nat
    BY <1>1
  <2> QED
    BY <1>1, <1>3, <2>1
<1>4. 0 \in S
  BY <1>1
<1>5. n \in S
  <2> HIDE DEF S
  <2> QED
    BY <1>2, <1>3, <1>4, SetInduction
<1> QED
  BY <1>1, <1>2, <1>5

(* A long is so many bytes or words, a word times a word, and even. *)
LEMMA Moduli ==
  /\ \A s \in Sizes : Mod(s) \in Nat \ {0}
  /\ \A s \in Sizes : \E k \in Nat : Mod(4) = Mod(s) * k
  /\ Mod(4) = Mod(2) * Mod(2)
  /\ \E h \in Nat \ {0} : Mod(4) = 2 * h
<1> DEFINE L == 2 * Bits[4]
<1>1. /\ \A s \in Sizes : Bits[s] \in Nat \ {0} /\ Bits[s] <= Bits[4]
      /\ Bits[2] + Bits[2] = Bits[4] /\ Bits[4] \in Nat \ {0} /\ Bits[2] \in Nat
  BY CoreAssumption DEF CoreAssumption, Sizes
<1>2. \A n \in 0..L : Power[n] \in Nat \ {0}
  BY PowerPositive
<1>3. \A s \in Sizes : Mod(s) \in Nat \ {0}
  BY <1>1, <1>2 DEF Mod
<1>4. ASSUME NEW s \in Sizes PROVE \E k \in Nat : Mod(4) = Mod(s) * k
  <2> DEFINE c == Bits[4] - Bits[s]
  <2>1. c \in Nat /\ Bits[s] \in Nat /\ Bits[s] + c = Bits[4] /\ Bits[s] + c <= L /\ c \in 0..L
    BY <1>1
  <2> HIDE DEF c
  <2>2. Power[Bits[4]] = Power[Bits[s]] * Power[c]
    BY <2>1, PowerOfSum
  <2> QED
    BY <1>2, <2>1, <2>2 DEF Mod
<1>5. Mod(4) = Mod(2) * Mod(2)
  <2>1. Bits[2] + Bits[2] <= L
    BY <1>1
  <2> QED
    BY <1>1, <2>1, PowerOfSum DEF Mod
<1>6. \E h \in Nat \ {0} : Mod(4) = 2 * h
  <2>1. Bits[4] \in 1..L /\ Bits[4] - 1 \in 0..L
    BY <1>1
  <2>2. Power[Bits[4]] = 2 * Power[Bits[4] - 1]
    BY <2>1, PowerSteps
  <2> QED
    BY <1>2, <2>1, <2>2 DEF Mod
<1> QED
  BY <1>3, <1>4, <1>5, <1>6
-----------------------------------------------------------------------------
(* Arithmetic modulo the size of a register *)

(* Division with remainder. *)
LEMMA DivMod ==
  ASSUME NEW x \in Int, NEW m \in Nat \ {0}
  PROVE  /\ x % m \in 0..(m - 1) /\ x \div m \in Int
         /\ x = m * (x \div m) + (x % m)
<1>1. m \in Int /\ m > 0
  OBVIOUS
<1>2. x = m * (x \div m) + (x % m)
  BY <1>1
<1>3. x % m \in 0..(m - 1) /\ x \div m \in Int
  OBVIOUS
<1> QED
  BY <1>2, <1>3

(* The product of natural numbers is one. *)
LEMMA ProductIsNat ==
  ASSUME NEW x \in Nat, NEW y \in Nat
  PROVE  x * y \in Nat
  OBVIOUS

(* A quotient is in range when the dividend is. *)
LEMMA Quotient ==
  ASSUME NEW x \in Nat, NEW m \in Nat \ {0}, NEW k \in Nat, x < m * k
  PROVE  x \div m \in Nat /\ x \div m < k
<1> DEFINE q == x \div m  r == x % m
<1>1. r \in 0..(m - 1) /\ q \in Int /\ x = m * q + r
  BY DivMod
<1> HIDE DEF q, r
<1>2. q >= 0
  <2> SUFFICES ASSUME q < 0 PROVE FALSE
    BY <1>1
  <2>1. -q - 1 \in Nat
    BY <1>1
  <2>2. m * (-q - 1) \in Nat
    BY <2>1, ProductIsNat
  <2>3. m * (-q - 1) = -(m * q) - m
    BY <1>1
  <2> QED
    BY <1>1, <2>2, <2>3
<1>3. q < k
  <2> SUFFICES ASSUME q >= k PROVE FALSE
    BY <1>1
  <2>1. q - k \in Nat
    BY <1>1
  <2>2. m * (q - k) \in Nat
    BY <2>1, ProductIsNat
  <2>3. m * (q - k) = m * q - m * k
    BY <1>1
  <2>4. m * q \in Int /\ m * k \in Int
    BY <1>1
  <2> QED
    BY <1>1, <2>2, <2>3, <2>4
<1> QED
  BY <1>1, <1>2, <1>3 DEF q

(* The low part of a number in range can be any. *)
LEMMA LowPart ==
  ASSUME NEW m \in Nat \ {0}, NEW k \in Nat, NEW d \in Nat, d < m * k, NEW v \in Int
  PROVE  (d - (d % m)) + (v % m) \in 0..(m * k - 1)
<1> DEFINE q == d \div m  r == d % m  s == v % m
<1>1. r \in 0..(m - 1) /\ s \in 0..(m - 1) /\ q \in Nat /\ d = m * q + r /\ q < k
  <2>1. d \in Int /\ v \in Int
    OBVIOUS
  <2>2. r \in 0..(m - 1) /\ d = m * q + r
    BY <2>1, DivMod
  <2>3. s \in 0..(m - 1)
    BY <2>1, DivMod
  <2>4. q \in Nat /\ q < k
    BY Quotient
  <2> QED
    BY <2>2, <2>3, <2>4
<1> HIDE DEF q, r, s
<1>2. k - 1 - q \in Nat
  BY <1>1
<1>3. m * (k - 1 - q) \in Nat /\ m * q \in Nat
  BY <1>1, <1>2, ProductIsNat
<1>4. m * (k - 1 - q) = m * k - m - m * q /\ m * k \in Int
  BY <1>1
<1> HIDE DEF q
<1>5. (d - r) + s = m * q + s
  BY <1>1, <1>3
<1>6. m * q + s \in 0..(m * k - 1)
  BY <1>1, <1>3, <1>4
<1> QED
  BY <1>5, <1>6 DEF r, s

(* Truth values. *)
LEMMA SameTruth ==
  ASSUME NEW p \in BOOLEAN, NEW q \in BOOLEAN, p <=> q
  PROVE  p = q
  OBVIOUS

(* Two truth values differ when one of them holds alone. *)
LEMMA Differ ==
  ASSUME NEW p \in BOOLEAN, NEW q \in BOOLEAN
  PROVE  (p # q) <=> ((p /\ ~q) \/ (~p /\ q))
  OBVIOUS

(* Of two numbers of a modulus, what their difference says of their order,  *)
(* signed and unsigned.                                                     *)
LEMMA FlagsTellRelation ==
  ASSUME NEW a \in Values, NEW b \in Values, NEW cond \in Conditions
  PROVE  Cc(cond, CmpFlags(a, b)) = Relation(cond, a, b)
<1> DEFINE M == Mod(4)
           f == CmpFlags(a, b)
           res == Minus(a, b)
           overflow == \/ Negative(a) /\ ~Negative(b) /\ ~Negative(res)
                       \/ ~Negative(a) /\ Negative(b) /\ Negative(res)
<1>1. PICK h \in Nat \ {0} : M = 2 * h
  BY Moduli
<1>2. a \in 0..(M - 1) /\ b \in 0..(M - 1)
  BY DEF Values
<1>3. \A v \in Int : Negative(v) <=> v >= h
  <2>1. M \div 2 = h
    BY <1>1
  <2> QED
    BY <2>1 DEF Negative
<1>4. res \in 0..(M - 1) /\ res = IF a >= b THEN a - b ELSE (a - b) + M
  <2>1. res = (a - b) % M
    BY DEF Minus
  <2> HIDE DEF M, res
  <2>2. M \in Int /\ M > 0 /\ a - b \in Int
    BY <1>1, <1>2
  <2>3. CASE a >= b
    <3>1. a - b \in 0..(M - 1)
      BY <1>2, <2>2, <2>3
    <3>2. \A x \in 0..(M - 1) : x % M = x
      BY <2>2
    <3> QED
      BY <2>1, <2>3, <3>1, <3>2
  <2>4. CASE a < b
    <3>1. (a - b) + M \in 0..(M - 1)
      BY <1>2, <2>2, <2>4
    <3>2. \A x \in Int : x + M \in 0..(M - 1) => x % M = x + M
      BY <2>2
    <3> QED
      BY <1>2, <2>1, <2>2, <2>4, <3>1, <3>2
  <2> QED
    BY <1>2, <2>3, <2>4
<1>5. res % M = res
  <2> HIDE DEF res, M
  <2> QED
    BY <1>1, <1>4
<1>6. f = { x \in Flags : CASE x = "Z" -> res = 0 [] x = "N" -> Negative(res) [] x = "C" -> a < b [] OTHER -> overflow }
  BY <1>5 DEF CmpFlags, UpdateFlags
<1> HIDE DEF M, res, overflow
<1>7. /\ "Z" \in f <=> res = 0
      /\ "N" \in f <=> Negative(res)
      /\ "C" \in f <=> a < b
      /\ "V" \in f <=> overflow
  BY <1>6 DEF Flags
<1> HIDE DEF f
<1>8. res = 0 <=> a = b
  BY <1>1, <1>2, <1>4
<1>9. ((Negative(res) /\ ~overflow) \/ (~Negative(res) /\ overflow)) <=> Signed(a) < Signed(b)
  <2>1. \A v \in Int : Signed(v) = IF v >= h THEN v - M ELSE v
    BY <1>3 DEF Signed, M
  <2> QED
    BY <1>1, <1>2, <1>3, <1>4, <2>1 DEF overflow
<1> DEFINE lt == ("N" \in f) # ("V" \in f)
<1>10. lt <=> Signed(a) < Signed(b)
  <2>1. lt <=> (("N" \in f /\ "V" \notin f) \/ ("N" \notin f /\ "V" \in f))
    <3>1. ("N" \in f) \in BOOLEAN /\ ("V" \in f) \in BOOLEAN
      BY SMT
    <3> DEFINE n == "N" \in f  v == "V" \in f
    <3>2. n \in BOOLEAN /\ v \in BOOLEAN /\ lt = (n # v)
      BY <3>1
    <3> HIDE DEF n, v, lt
    <3>3. (n # v) <=> ((n /\ ~v) \/ (~n /\ v))
      BY <3>2, Differ
    <3>4. lt <=> ((n /\ ~v) \/ (~n /\ v))
      BY <3>2, <3>3
    <3> QED
      BY <3>4 DEF n, v
  <2> HIDE DEF lt
  <2> QED
    BY <1>7, <1>9, <2>1
<1>11. Signed(a) \in Int /\ Signed(b) \in Int /\ a \in Int /\ b \in Int /\ (Signed(a) = Signed(b) <=> a = b)
  BY <1>1, <1>2, <1>3 DEF Signed, M
<1> DEFINE c == "C" \in f  z == "Z" \in f
<1>12. (c <=> a < b) /\ (z <=> a = b)
  BY <1>7, <1>8
<1>30. c \in BOOLEAN /\ z \in BOOLEAN /\ lt \in BOOLEAN
  BY SMT
<1> HIDE DEF lt, c, z
<1> DEFINE is == Cc(cond, f)
           should == Relation(cond, a, b)
<1>13. ASSUME cond = "HI" PROVE is = should
  <2> DEFINE p == ~c /\ ~z
             q == a > b
  <2>1. is = p /\ should = q
    BY <1>13 DEF Cc, Relation, c, z, lt
  <2>2. p \in BOOLEAN
    BY <1>30, Zenon
  <2>4. q \in BOOLEAN
    BY <1>11, SMT
  <2>3. p <=> q
    BY <1>10, <1>11, <1>12
  <2> HIDE DEF p, q
  <2>5. p = q
    BY <2>2, <2>3, <2>4, SameTruth
  <2> QED
    BY <2>1, <2>5
<1>14. ASSUME cond = "LS" PROVE is = should
  <2> DEFINE p == c \/ z
             q == a <= b
  <2>1. is = p /\ should = q
    BY <1>14 DEF Cc, Relation, c, z, lt
  <2>2. p \in BOOLEAN
    BY <1>30, Zenon
  <2>4. q \in BOOLEAN
    BY <1>11, SMT
  <2>3. p <=> q
    BY <1>10, <1>11, <1>12
  <2> HIDE DEF p, q
  <2>5. p = q
    BY <2>2, <2>3, <2>4, SameTruth
  <2> QED
    BY <2>1, <2>5
<1>15. ASSUME cond = "CC" PROVE is = should
  <2> DEFINE p == ~c
             q == a >= b
  <2>1. is = p /\ should = q
    BY <1>15 DEF Cc, Relation, c, z, lt
  <2>2. p \in BOOLEAN
    BY <1>30, Zenon
  <2>4. q \in BOOLEAN
    BY <1>11, SMT
  <2>3. p <=> q
    BY <1>10, <1>11, <1>12
  <2> HIDE DEF p, q
  <2>5. p = q
    BY <2>2, <2>3, <2>4, SameTruth
  <2> QED
    BY <2>1, <2>5
<1>16. ASSUME cond = "CS" PROVE is = should
  <2> DEFINE p == c
             q == a < b
  <2>1. is = p /\ should = q
    BY <1>16 DEF Cc, Relation, c, z, lt
  <2>2. p \in BOOLEAN
    BY <1>30, Zenon
  <2>4. q \in BOOLEAN
    BY <1>11, SMT
  <2>3. p <=> q
    BY <1>10, <1>11, <1>12
  <2> HIDE DEF p, q
  <2>5. p = q
    BY <2>2, <2>3, <2>4, SameTruth
  <2> QED
    BY <2>1, <2>5
<1>17. ASSUME cond = "NE" PROVE is = should
  <2> DEFINE p == ~z
             q == a # b
  <2>1. is = p /\ should = q
    BY <1>17 DEF Cc, Relation, c, z, lt
  <2>2. p \in BOOLEAN
    BY <1>30, Zenon
  <2>4. q \in BOOLEAN
    BY <1>11, SMT
  <2>3. p <=> q
    BY <1>10, <1>11, <1>12
  <2> HIDE DEF p, q
  <2>5. p = q
    BY <2>2, <2>3, <2>4, SameTruth
  <2> QED
    BY <2>1, <2>5
<1>18. ASSUME cond = "EQ" PROVE is = should
  <2> DEFINE p == z
             q == a = b
  <2>1. is = p /\ should = q
    BY <1>18 DEF Cc, Relation, c, z, lt
  <2>2. p \in BOOLEAN
    BY <1>30, Zenon
  <2>4. q \in BOOLEAN
    BY <1>11, SMT
  <2>3. p <=> q
    BY <1>10, <1>11, <1>12
  <2> HIDE DEF p, q
  <2>5. p = q
    BY <2>2, <2>3, <2>4, SameTruth
  <2> QED
    BY <2>1, <2>5
<1>19. ASSUME cond = "GE" PROVE is = should
  <2> DEFINE p == ~lt
             q == Signed(a) >= Signed(b)
  <2>1. is = p /\ should = q
    BY <1>19 DEF Cc, Relation, c, z, lt
  <2>2. p \in BOOLEAN
    BY <1>30, Zenon
  <2>4. q \in BOOLEAN
    BY <1>11, SMT
  <2>3. p <=> q
    BY <1>10, <1>11, <1>12
  <2> HIDE DEF p, q
  <2>5. p = q
    BY <2>2, <2>3, <2>4, SameTruth
  <2> QED
    BY <2>1, <2>5
<1>20. ASSUME cond = "LT" PROVE is = should
  <2> DEFINE p == lt
             q == Signed(a) < Signed(b)
  <2>1. is = p /\ should = q
    BY <1>20 DEF Cc, Relation, c, z, lt
  <2>2. p \in BOOLEAN
    BY <1>30, Zenon
  <2>4. q \in BOOLEAN
    BY <1>11, SMT
  <2>3. p <=> q
    BY <1>10, <1>11, <1>12
  <2> HIDE DEF p, q
  <2>5. p = q
    BY <2>2, <2>3, <2>4, SameTruth
  <2> QED
    BY <2>1, <2>5
<1>21. ASSUME cond = "GT" PROVE is = should
  <2> DEFINE p == ~z /\ ~lt
             q == Signed(a) > Signed(b)
  <2>1. is = p /\ should = q
    BY <1>21 DEF Cc, Relation, c, z, lt
  <2>2. p \in BOOLEAN
    BY <1>30, Zenon
  <2>4. q \in BOOLEAN
    BY <1>11, SMT
  <2>3. p <=> q
    BY <1>10, <1>11, <1>12
  <2> HIDE DEF p, q
  <2>5. p = q
    BY <2>2, <2>3, <2>4, SameTruth
  <2> QED
    BY <2>1, <2>5
<1>22. ASSUME cond = "LE" PROVE is = should
  <2> DEFINE p == z \/ lt
             q == Signed(a) <= Signed(b)
  <2>1. is = p /\ should = q
    BY <1>22 DEF Cc, Relation, c, z, lt
  <2>2. p \in BOOLEAN
    BY <1>30, Zenon
  <2>4. q \in BOOLEAN
    BY <1>11, SMT
  <2>3. p <=> q
    BY <1>10, <1>11, <1>12
  <2> HIDE DEF p, q
  <2>5. p = q
    BY <2>2, <2>3, <2>4, SameTruth
  <2> QED
    BY <2>1, <2>5
<1> QED
  BY <1>13, <1>14, <1>15, <1>16, <1>17, <1>18, <1>19, <1>20, <1>21, <1>22 DEF Conditions, f
-----------------------------------------------------------------------------
InRange(r) == r.d \in Values /\ r.ccr \subseteq Flags

(* UpdateFlags gives flags. *)
LEMMA FlagsAreFlags ==
  ASSUME NEW v, NEW s, NEW c, NEW o
  PROVE  UpdateFlags(v, s, c, o) \subseteq Flags
  BY DEF UpdateFlags

(* A value and its flags make a result. *)
LEMMA ResultInRange ==
  ASSUME NEW d \in Values, NEW v, NEW s, NEW c, NEW o
  PROVE  InRange(Result(d, UpdateFlags(v, s, c, o)))
  BY FlagsAreFlags DEF InRange, Result

(* The low bytes of a register can be replaced by any. *)
LEMMA KeepInRange ==
  ASSUME NEW d \in Values, NEW s \in Sizes, NEW v \in Int
  PROVE  Keep(d, s, v) \in Values
<1> DEFINE m == Mod(s)  M == Mod(4)
<1>1. PICK k \in Nat : M = m * k
  BY Moduli
<1>2. m \in Nat \ {0} /\ M \in Nat \ {0}
  BY Moduli DEF Sizes
<1>3. Keep(d, s, v) = (d - (d % m)) + (v % m) /\ d \in 0..(M - 1) /\ Values = 0..(M - 1)
  BY DEF Keep, Values
<1> HIDE DEF m, M
<1>4. d \in Nat /\ d < m * k
  BY <1>1, <1>2, <1>3
<1>5. (d - (d % m)) + (v % m) \in 0..(m * k - 1)
  BY <1>2, <1>4, LowPart
<1> QED
  BY <1>1, <1>3, <1>5

(* A number modulo a size is of that size. *)
LEMMA WrapInRange ==
  ASSUME NEW v \in Int
  PROVE  v % Mod(4) \in Values /\ \A s \in Sizes : v % Mod(s) \in 0..(Mod(s) - 1)
<1>1. \A s \in Sizes : Mod(s) \in Nat \ {0}
  BY Moduli
<1>2. \A s \in Sizes : v % Mod(s) \in 0..(Mod(s) - 1)
  BY <1>1, DivMod
<1> QED
  BY <1>2 DEF Values, Sizes

(* Values are numbers, and so are their differences. *)
LEMMA ValuesAreInts ==
  /\ Mod(4) \in Nat \ {0}
  /\ \A v \in Values : v \in Nat
  /\ \A v, w \in Int : Minus(v, w) \in Values
<1>1. Mod(4) \in Nat \ {0}
  BY Moduli DEF Sizes
<1>2. \A v, w \in Int : Minus(v, w) \in Values
  BY WrapInRange DEF Minus
<1> QED
  BY <1>1, <1>2 DEF Values

(* A number of so many bits is below the modulus. *)
LEMMA NumberInRange ==
  ASSUME NEW S
  PROVE  Number(S) \in Values
<1> DEFINE B == Bits[4]
           add(n, x) == x + (IF n - 1 \in S THEN Power[n - 1] ELSE 0)
           step == [n \in 1..B |-> [x \in Nat |-> add(n, x)]]
           Eq(f) == f = [n \in 0..B |-> IF n = 0 THEN 0 ELSE add(n, f[n - 1])]
<1>1. B \in Nat /\ \A n \in 0..B : Power[n] \in Nat
  <2>1. B \in Nat /\ Power \in [0..(2 * B) -> Nat]
    BY PowerSteps
  <2>2. \A n \in 0..B : n \in 0..(2 * B)
    BY <2>1
  <2> QED
    BY <2>1, <2>2
<1>2. \A n \in 1..B : Power[n] = 2 * Power[n - 1]
  BY <1>1, PowerSteps
<1>3. Power[0] = 1 /\ Values = 0..(Power[B] - 1)
  BY PowerSteps DEF Values, Mod
<1>4. Number(S) = (CHOOSE f : Eq(f))[B]
  BY DEF Number
<1> HIDE DEF B
<1>5. \A n \in 1..B, x \in Nat : add(n, x) \in Nat /\ add(n, x) <= x + Power[n - 1]
  <2> SUFFICES ASSUME NEW n \in 1..B, NEW x \in Nat PROVE add(n, x) \in Nat /\ add(n, x) <= x + Power[n - 1]
    OBVIOUS
  <2>1. Power[n - 1] \in Nat
    BY <1>1
  <2> QED
    BY <2>1
<1> HIDE DEF add
<1>6. \A n \in 1..B, x \in Nat : step[n][x] = add(n, x)
  OBVIOUS
<1> HIDE DEF step
<1>7. PICK f : Iterates(f, B, 0, step)
  <2>1. \A n \in 1..B, x \in Nat : step[n][x] \in Nat
    BY <1>5, <1>6
  <2> QED
    BY <1>1, <2>1, RecursionExists
<1>8. Eq(f)
  <2>1. \A n \in 0..B : f[n] = IF n = 0 THEN 0 ELSE add(n, f[n - 1])
    <3> TAKE n \in 0..B
    <3>1. CASE n = 0
      BY <1>7, <3>1 DEF Iterates
    <3>2. CASE n # 0
      <4>1. n \in 1..B /\ n - 1 \in 0..B
        BY <1>1, <3>2
      <4>2. f[n - 1] \in Nat /\ f[n] = step[n][f[n - 1]]
        BY <1>7, <4>1 DEF Iterates
      <4> QED
        BY <1>6, <3>2, <4>1, <4>2
    <3> QED
      BY <3>1, <3>2
  <2>2. f = [n \in 0..B |-> f[n]]
    BY <1>7 DEF Iterates
  <2> QED
    BY <2>1, <2>2
<1> DEFINE low == CHOOSE g : Eq(g)
<1>9. Eq(low)
  BY <1>8
<1>10. Number(S) = low[B]
  BY <1>4
<1> HIDE DEF low
<1>11. low[0] = 0 /\ \A n \in 1..B : low[n] = add(n, low[n - 1])
  BY <1>1, <1>9
<1> DEFINE T == { n \in Nat : n <= B => low[n] \in 0..(Power[n] - 1) }
<1>12. 0 \in T
  BY <1>3, <1>11
<1>13. ASSUME NEW n \in Nat, n \in T PROVE n + 1 \in T
  <2> SUFFICES ASSUME n + 1 <= B PROVE low[n + 1] \in 0..(Power[n + 1] - 1)
    OBVIOUS
  <2>1. n + 1 \in 1..B /\ (n + 1) - 1 = n /\ n \in 0..B
    BY <1>1
  <2>2. low[n] \in 0..(Power[n] - 1) /\ Power[n] \in Nat
    BY <1>1, <1>13, <2>1
  <2>3. low[n + 1] \in Nat /\ low[n + 1] <= low[n] + Power[n] /\ Power[n + 1] = 2 * Power[n]
    <3>1. low[n] \in Nat
      BY <2>2
    <3> QED
      BY <1>2, <1>5, <1>11, <2>1, <3>1
  <2> QED
    BY <2>2, <2>3
<1>14. B \in T
  <2> HIDE DEF T
  <2> QED
    BY <1>1, <1>12, <1>13, SetInduction
<1> QED
  BY <1>3, <1>10, <1>14

(* An AND, OR or EOR, and what the other instructions make of a register. *)
LEMMA MoveInRange ==
  ASSUME NEW d \in Values, NEW s \in Sizes, NEW v \in Int
  PROVE  InRange(Move(d, s, v))
<1>1. Keep(d, s, v) \in Values
  BY KeepInRange
<1> QED
  BY <1>1, ResultInRange DEF Move

(* A sign-extended number is a number. *)
LEMMA ExtendedIsInt ==
  ASSUME NEW v \in Int, NEW s \in Sizes
  PROVE  Extended(v, s) \in Int
<1> DEFINE m == Mod(s)  low == v % m
<1>1. m \in Nat \ {0} /\ low \in 0..(m - 1)
  BY Moduli, WrapInRange
<1>2. Extended(v, s) \in {low, Minus(low, m)}
  BY DEF Extended
<1> HIDE DEF m, low
<1>3. low \in Int /\ m \in Int
  BY <1>1
<1>4. Minus(low, m) \in Int
  BY <1>3, ValuesAreInts
<1> QED
  BY <1>2, <1>3, <1>4

(* What is shifted out to the right comes in on the left. *)
LEMMA RotationInRange ==
  ASSUME NEW P \in Nat \ {0}, NEW Q \in Nat \ {0}, NEW d \in Nat, d < P * Q
  PROVE  (d \div P) + ((d * Q) % (P * Q)) \in 0..(P * Q - 1)
<1> DEFINE q == d \div P  r == d % P
<1>1. r \in 0..(P - 1) /\ d = P * q + r
  <2>1. d \in Int
    OBVIOUS
  <2> QED
    BY <2>1, DivMod
<1>2. q \in Nat /\ q < Q
  BY Quotient
<1> HIDE DEF q, r
<1>3. d * Q = (P * Q) * q + r * Q
  BY <1>1, <1>2
<1>4. r * Q \in Nat /\ r * Q <= P * Q - Q
  <2>1. r \in Nat /\ P - 1 - r \in Nat
    BY <1>1
  <2>2. (P - 1 - r) * Q \in Nat /\ r * Q \in Nat
    BY <2>1, ProductIsNat
  <2>3. (P - 1 - r) * Q = P * Q - Q - r * Q
    BY <2>1
  <2>4. P * Q \in Int
    OBVIOUS
  <2> QED
    BY <2>2, <2>3, <2>4
<1> DEFINE N == P * Q  x == r * Q
<1>5. N \in Nat \ {0} /\ x \in 0..(N - 1) /\ x <= N - Q
  <2>1. P * Q > 0
    OBVIOUS
  <2> QED
    BY <1>4, <2>1
<1>6. (d * Q) % N = x
  <2> DEFINE e == d * Q
  <2>1. e = N * q + x
    BY <1>3
  <2>2. e \in Int
    OBVIOUS
  <2> HIDE DEF e, N, x
  <2>3. e % N \in 0..(N - 1) /\ e \div N \in Int /\ e = N * (e \div N) + (e % N)
    BY <1>5, <2>2, DivMod
  <2> DEFINE y == e % N  t == e \div N
  <2>4. y \in 0..(N - 1) /\ t \in Int /\ N * (q - t) = y - x
    <3> HIDE DEF y, t
    <3>1. y \in 0..(N - 1) /\ t \in Int /\ e = N * t + y
      BY <2>3 DEF y, t
    <3>2. N * (q - t) = N * q - N * t /\ N * q \in Int /\ N * t \in Int
      BY <1>2, <1>5, <3>1
    <3> QED
      BY <1>5, <2>1, <3>1, <3>2
  <2> HIDE DEF y, t
  <2>5. q - t = 0
    <3> DEFINE z == q - t
    <3>1. z \in Int /\ N * z = y - x /\ y - x < N /\ y - x > -N
      BY <1>2, <1>5, <2>4
    <3> HIDE DEF z
    <3>2. ASSUME z >= 1 PROVE FALSE
      <4>1. N * (z - 1) \in Nat
        BY <1>5, <3>1, <3>2, ProductIsNat
      <4>2. N * (z - 1) = N * z - N
        BY <1>5, <3>1
      <4> QED
        BY <1>5, <2>4, <3>1, <4>1, <4>2
    <3>3. ASSUME z <= -1 PROVE FALSE
      <4>1. N * (-z - 1) \in Nat
        BY <1>5, <3>1, <3>3, ProductIsNat
      <4>2. N * (-z - 1) = -(N * z) - N
        BY <1>5, <3>1
      <4> QED
        BY <1>5, <2>4, <3>1, <4>1, <4>2
    <3> QED
      BY <3>1, <3>2, <3>3 DEF z
  <2>6. y = x
    BY <1>5, <2>4, <2>5
  <2> QED
    BY <2>6 DEF y, e, N, x
<1> HIDE DEF N, x
<1>7. q + x \in 0..(N - 1)
  BY <1>2, <1>5
<1> QED
  BY <1>6, <1>7 DEF q, N

(* A shift of a long stays one. *)
LEMMA ShiftInRange ==
  ASSUME NEW d \in Values, NEW n \in 0..(2 * Bits[4])
  PROVE  d \div Power[n] \in Values
<1> DEFINE p == Power[n]  M == Mod(4)
<1>1. p \in Nat \ {0}
  BY PowerPositive
<1>2. M \in Nat \ {0} /\ d \in 0..(M - 1) /\ Values = 0..(M - 1)
  BY ValuesAreInts DEF Values
<1> HIDE DEF p, M
<1>3. d < p * M
  <2>1. (p - 1) * M \in Nat
    BY <1>1, <1>2, ProductIsNat
  <2>2. (p - 1) * M = p * M - M /\ p * M \in Int
    BY <1>1, <1>2
  <2> QED
    BY <1>2, <2>1, <2>2
<1>4. d \div p \in Nat /\ d \div p < M
  <2>1. d \in Nat /\ M \in Nat
    BY <1>2
  <2> QED
    BY <1>1, <1>3, <2>1, Quotient
<1> QED
  BY <1>2, <1>4 DEF p

(* A rotation of a long is a long. *)
LEMMA RotateInRange ==
  ASSUME NEW d \in Values, NEW n \in Nat
  PROVE  InRange(Ror(d, n))
<1> DEFINE B == Bits[4]  m == n % B  P == Power[m]  Q == Power[B - m]  M == Mod(4)
           res == (d \div P) + ((d * Q) % M)
<1>1. B \in Nat \ {0} /\ m \in 0..(B - 1)
  <2>1. B \in Nat \ {0}
    BY CoreAssumption DEF CoreAssumption, Sizes
  <2>2. n \in Int
    OBVIOUS
  <2> HIDE DEF B
  <2> QED
    BY <2>1, <2>2, DivMod
<1>2. Ror(d, n) = Result(res, UpdateFlags(res, 4, m - 1 \in Ones(d), FALSE))
  BY DEF Ror
<1>3. M = P * Q
  <2> DEFINE c == B - m
  <2>1. m \in Nat /\ c \in Nat /\ m + c = B /\ m + c <= 2 * B
    <3> HIDE DEF B, m
    <3> QED
      BY <1>1
  <2>2. Power[m + c] = Power[m] * Power[c]
    <3> HIDE DEF m, c
    <3> QED
      BY <2>1, PowerOfSum DEF B
  <2> QED
    BY <2>1, <2>2 DEF Mod
<1>4. P \in Nat \ {0} /\ Q \in Nat \ {0}
  <2>1. m \in 0..(2 * B) /\ B - m \in 0..(2 * B)
    <3> HIDE DEF B, m
    <3> QED
      BY <1>1
  <2> HIDE DEF m
  <2> QED
    BY <2>1, PowerPositive
<1>5. d \in Nat /\ d < M /\ Values = 0..(M - 1)
  BY ValuesAreInts DEF Values
<1> HIDE DEF P, Q, M, m, B
<1>6. res \in Values
  BY <1>3, <1>4, <1>5, RotationInRange
<1> QED
  BY <1>2, <1>6, ResultInRange DEF res

(* So are the other shifts and rotations. *)
LEMMA ShiftsInRange ==
  ASSUME NEW d \in Values, NEW r \in Shifts(d)
  PROVE  InRange(r)
<1>1. Bits[4] \in Nat \ {0}
  BY CoreAssumption DEF CoreAssumption, Sizes
<1>2. 0 \in Values /\ 1 \in Values
  <2>1. \E h \in Nat \ {0} : Mod(4) = 2 * h
    BY Moduli
  <2> QED
    BY <2>1 DEF Values
<1>3. ASSUME NEW n \in 1..(2 * Bits[4] - 1) PROVE InRange(Asr(d, n)) /\ InRange(Lsr(d, n)) /\ InRange(Ror(d, n))
  <2>1. n \in 0..(2 * Bits[4]) /\ n \in Nat
    BY <1>1
  <2>2. d \div Power[n] \in Values
    BY <2>1, ShiftInRange
  <2>3. InRange(Lsr(d, n))
    BY <2>2, ResultInRange DEF Lsr
  <2>4. InRange(Asr(d, n))
    <3> DEFINE e == IF Negative(d) THEN 1 ELSE 0
    <3>1. e \in Values
      BY <1>2
    <3>2. \/ Asr(d, n) = Result(e, UpdateFlags(e, 4, Negative(d), FALSE))
          \/ Asr(d, n) = Result(d \div Power[n], UpdateFlags(d \div Power[n], 4, n - 1 \in Ones(d), FALSE))
      BY DEF Asr
    <3> HIDE DEF e
    <3> QED
      BY <2>2, <3>1, <3>2, ResultInRange
  <2> QED
    BY <2>1, <2>3, <2>4, RotateInRange
<1> QED
  BY <1>3 DEF Shifts

(* Whatever is computed of a register is as wide as a register. *)
LEMMA ResultsInRange ==
  ASSUME NEW d \in Values, NEW r \in Results(d)
  PROVE  InRange(r)
<1>0. /\ d \in Nat /\ d \in Int /\ 0 \in Values /\ 1 \in Sizes /\ 2 \in Sizes /\ 4 \in Sizes
      /\ \A v \in Values : v \in Int
  BY ValuesAreInts DEF Values, Sizes
<1>1. ASSUME NEW s \in Sizes, NEW v \in Values PROVE InRange(Move(d, s, v))
  BY <1>0, MoveInRange
<1>2. ASSUME NEW s \in AddqSizes, NEW n \in {1, 3} PROVE InRange(Quick(d, s, n))
  <2> DEFINE val == d % Mod(s)  res == (val + n) % Mod(s)
  <2>1. s \in Sizes /\ val \in Int /\ res \in Int
    <3>1. s \in Sizes
      BY DEF AddqSizes, Sizes
    <3>2. Mod(s) \in Nat \ {0}
      BY <3>1, Moduli
    <3>3. val \in Int
      BY <1>0, <3>1, <3>2, WrapInRange
    <3>4. (val + n) \in Int
      BY <3>3
    <3>5. res \in Int
      BY <3>2, <3>4, DivMod
    <3> QED
      BY <3>1, <3>3, <3>5
  <2>2. Quick(d, s, n) = Result(Keep(d, s, res), UpdateFlags(res, s, res < val, FALSE))
    BY DEF Quick
  <2> HIDE DEF val, res
  <2> QED
    BY <2>1, <2>2, KeepInRange, ResultInRange
<1>3. ASSUME NEW n \in {1, 3} PROVE InRange(Subq(d, n))
  <2>1. Minus(d, n) \in Values
    BY <1>0, ValuesAreInts
  <2> QED
    BY <2>1, ResultInRange DEF Subq
<1>4. ASSUME NEW s \in AddqSizes PROVE InRange(Clr(d, s))
  <2>1. s \in Sizes /\ 0 \in Int
    BY DEF AddqSizes, Sizes
  <2> QED
    BY <2>1, KeepInRange, ResultInRange DEF Clr
<1>5. ASSUME NEW s \in {1, 4}, NEW v \in Values PROVE InRange(Add(d, s, v)) /\ InRange(Sub(d, s, v))
  <2>1. s \in Sizes /\ v \in Int
    BY <1>0
  <2>2. Minus(d, v) \in Int /\ (d + v) % Mod(4) \in Int
    <3>1. Minus(d, v) \in Values
      BY <1>0, <2>1, ValuesAreInts
    <3>2. (d + v) \in Int
      BY <1>0, <2>1
    <3>3. (d + v) % Mod(4) \in Values
      BY <3>2, WrapInRange
    <3> QED
      BY <1>0, <3>1, <3>3
  <2> QED
    BY <2>1, <2>2, KeepInRange, ResultInRange DEF Add, Sub
<1>6. ASSUME NEW s \in Sizes, NEW v \in Values, NEW x \in Logic(d, s, v) PROVE InRange(x)
  <2>1. PICK S : x = Move(d, s, Number(S))
    BY <1>6 DEF Logic
  <2>2. Number(S) \in Int
    BY <1>0, NumberInRange
  <2> QED
    BY <2>1, <2>2, MoveInRange
<1>7. ASSUME NEW v \in Values PROVE InRange(Moveq(v))
  <2>1. Extended(v, 1) \in Int
    BY <1>0, ExtendedIsInt
  <2> QED
    BY <1>0, <2>1, MoveInRange DEF Moveq
<1>8. InRange(Ext(d)) /\ InRange(Swap(d))
  <2>1. Extended(d, 1) \in Int
    BY <1>0, ExtendedIsInt
  <2>2. (d % Mod(2)) * Mod(2) + (d \div Mod(2)) \in Int
    <3>1. Mod(2) \in Nat \ {0}
      BY <1>0, Moduli
    <3>2. d % Mod(2) \in Int /\ d \div Mod(2) \in Int
      BY <1>0, <3>1
    <3> QED
      BY <3>1, <3>2
  <2> QED
    BY <1>0, <2>1, <2>2, MoveInRange DEF Ext, Swap
<1>9. ASSUME NEW s \in {2, 4} PROVE InRange(Tst(d, s))
  BY ResultInRange DEF Tst
<1>10. ASSUME r \in Shifts(d) PROVE InRange(r)
  BY <1>10, ShiftsInRange
<1>11. \/ \E s \in Sizes, v \in Values : r = Move(d, s, v)
       \/ \E s \in AddqSizes, n \in {1, 3} : r = Quick(d, s, n)
       \/ \E n \in {1, 3} : r = Subq(d, n)
       \/ \E s \in AddqSizes : r = Clr(d, s)
       \/ \E s \in {1, 4}, v \in Values : r = Add(d, s, v) \/ r = Sub(d, s, v)
       \/ \E s \in Sizes, v \in Values : r \in Logic(d, s, v)
       \/ \E v \in Values : r = Moveq(v)
       \/ r = Ext(d) \/ r = Swap(d)
       \/ \E s \in {2, 4} : r = Tst(d, s)
       \/ r \in Shifts(d)
  <2> DEFINE A == { Move(d, s, v) : s \in Sizes, v \in Values }
             B == { Quick(d, s, n) : s \in AddqSizes, n \in {1, 3} }
             C == { Subq(d, n) : n \in {1, 3} }
             D == { Clr(d, s) : s \in AddqSizes }
             E == { Add(d, s, v) : s \in {1, 4}, v \in Values }
             F == { Sub(d, s, v) : s \in {1, 4}, v \in Values }
             G == UNION { Logic(d, s, v) : s \in Sizes, v \in Values }
             H == { Moveq(v) : v \in Values }
             I == {Ext(d), Swap(d)}
             J == { Tst(d, s) : s \in {2, 4} }
             K == Shifts(d)
  <2>1. Results(d) = A \union B \union C \union D \union E \union F \union G \union H \union I \union J \union K
    BY DEF Results
  <2>2. \/ r \in A \/ r \in B \/ r \in C \/ r \in D \/ r \in E \/ r \in F
        \/ r \in G \/ r \in H \/ r \in I \/ r \in J \/ r \in K
    <3> HIDE DEF A, B, C, D, E, F, G, H, I, J, K
    <3> QED
      BY <2>1
  <2>3. r \in G => \E s \in Sizes, v \in Values : r \in Logic(d, s, v)
    OBVIOUS
  <2> QED
    BY <2>2, <2>3
<1> QED
  BY <1>1, <1>2, <1>3, <1>4, <1>5, <1>6, <1>7, <1>8, <1>9, <1>10, <1>11

(* BTST, BCHG, BCLR and BSET give a long. *)
LEMMA BitOpsInRange ==
  ASSUME NEW d \in Values, NEW f, f \subseteq Flags, NEW r \in BitOps(d, f)
  PROVE  InRange(r)
<1>1. \/ r = Result(d, f \union {"Z"})
      \/ \E S, z : r = Result(Number(S), z) /\ z \in {f \ {"Z"}, f \union {"Z"}}
  <2>1. CASE r = Result(d, f \union {"Z"})
    BY <2>1
  <2>2. ASSUME NEW b \in 0..(Bits[1] - 1),
               r \in LET z == IF b \in Ones(d) THEN f \ {"Z"} ELSE f \union {"Z"}
                     IN  { Result(Number(S), z) : S \in { Ones(d), Ones(d) \ {b}, Ones(d) \union {b} } }
        PROVE  \E S, z : r = Result(Number(S), z) /\ z \in {f \ {"Z"}, f \union {"Z"}}
    <3> DEFINE y == IF b \in Ones(d) THEN f \ {"Z"} ELSE f \union {"Z"}
    <3>1. y \in {f \ {"Z"}, f \union {"Z"}}
      OBVIOUS
    <3>2. PICK S : r = Result(Number(S), y)
      BY <2>2
    <3> HIDE DEF y
    <3> QED
      BY <3>1, <3>2
  <2> QED
    BY <2>1, <2>2, Zenon DEF BitOps
<1>2. "Z" \in Flags
  BY DEF Flags
<1> QED
  BY <1>1, <1>2, NumberInRange DEF InRange, Result

(* MULU, MULS, DIVU and Scc give a long. *)
LEMMA UnflaggedInRange ==
  ASSUME NEW d \in Values, NEW f, NEW v \in Unflagged(d, f)
  PROVE  v \in Values
<1>0. d \in Nat /\ 1 \in Sizes /\ 2 \in Sizes /\ \A w \in Values : w \in Int
  BY ValuesAreInts DEF Sizes
<1>1. ASSUME NEW w \in Values, NEW signed \in BOOLEAN PROVE Product(d, w, signed) \in Values
  <2> DEFINE x == IF signed THEN Extended(w, 2) ELSE w % Mod(2)
  <2>1. x \in Int
    <3>1. Extended(w, 2) \in Int /\ w % Mod(2) \in Int
      BY <1>0, ExtendedIsInt, WrapInRange
    <3> QED
      BY <3>1
  <2>2. Product(d, w, signed) = (d * x) % Mod(4)
    BY DEF Product
  <2> HIDE DEF x
  <2>3. d * x \in Int
    BY <1>0, <2>1
  <2> QED
    BY <2>2, <2>3, WrapInRange
<1>2. ASSUME NEW v0 \in Values, v0 % Mod(2) # 0 PROVE Divu(d, v0) \in Values
  <2> DEFINE m == Mod(2)  w == v0 % m  a == (d % w) % m  b == (d \div w) % m
  <2>1. m \in Nat \ {0} /\ w \in 0..(m - 1) /\ w # 0
    BY <1>0, <1>2, Moduli, WrapInRange
  <2>2. Mod(4) = m * m
    BY Moduli
  <2>3. Divu(d, v0) = a * m + b
    BY DEF Divu
  <2> HIDE DEF m, w
  <2>4. d % w \in Int /\ d \div w \in Int
    <3>1. w \in Nat \ {0} /\ d \in Int
      BY <1>0, <2>1
    <3> QED
      BY <3>1, DivMod
  <2>5. a \in 0..(m - 1) /\ b \in 0..(m - 1)
    BY <2>1, <2>4, DivMod
  <2> HIDE DEF a, b
  <2>6. (m - 1 - a) * m \in Nat /\ a * m \in Nat
    <3>1. m - 1 - a \in Nat /\ a \in Nat /\ m \in Nat
      BY <2>1, <2>5
    <3> QED
      BY <3>1, ProductIsNat
  <2>7. (m - 1 - a) * m = m * m - m - a * m /\ m * m \in Int
    BY <2>1, <2>5
  <2>8. a * m + b \in 0..(m * m - 1)
    BY <2>1, <2>5, <2>6, <2>7
  <2> QED
    BY <2>2, <2>3, <2>8 DEF Values
<1>3. ASSUME NEW holds PROVE Scc(d, holds) \in Values
  <2> DEFINE x == IF holds THEN Mod(1) - 1 ELSE 0
  <2>1. x \in Int
    <3>1. Mod(1) \in Nat
      BY <1>0, Moduli
    <3> QED
      BY <3>1
  <2>2. Scc(d, holds) = Keep(d, 1, x)
    BY DEF Scc
  <2> HIDE DEF x
  <2> QED
    BY <1>0, <2>1, <2>2, KeepInRange
<1> QED
  BY <1>1, <1>2, <1>3 DEF Unflagged

(* A comparison changes the flags alone. *)
LEMMA CompareInRange ==
  ASSUME NEW d \in Values, NEW v
  PROVE  InRange(Compare(d, v)) /\ Compare(d, v).d = d /\ Compare(d, v).ccr = CmpFlags(d, v)
<1>1. CmpFlags(d, v) \subseteq Flags
  BY FlagsAreFlags DEF CmpFlags
<1> QED
  BY <1>1 DEF InRange, Compare, Result

-----------------------------------------------------------------------------
(* The types: what memory and the frames hold *)

\* The flags f are those of comparison c, when there is one.
Speaks(c, f) == c # <<>> => c[1] \in Values /\ c[2] \in Values /\ f = CmpFlags(c[1], c[2])

CpuOK(c) ==
  /\ IsCpu(c)
  /\ c.d \in Values /\ c.pc \in Pcs /\ c.mask \in 0..7 /\ c.ccr \subseteq Flags /\ c.halt \in BOOLEAN

CellOK(x) ==
  /\ x.kind = "pc" => x.v \in Pcs
  /\ x.kind = "data" => x.v \in Values
  /\ x.kind = "sr" => x.v[1] \in 0..7 /\ x.v[2] \subseteq Flags

MemOK(m) == IsMem(m) /\ \A a \in Cells : CellOK(m[a])

\* A frame of an interrupt holds the flags of the comparison put aside with it.
FramesSpeak(fr, m) ==
  \A i \in 1..Len(fr) : fr[i].kind = "irq" => Speaks(fr[i].cmp, m[fr[i].at + 4].v[2])

NothingSaid(fr) == \A i \in 1..Len(fr) : fr[i].cmp = <<>>

AreFrames(fr) == IsSeq(fr) /\ \A i \in 1..Len(fr) : DOMAIN fr[i] = {"kind", "at", "cmp"}

TInv ==
  /\ CpuOK(cpu) /\ MemOK(mem) /\ AreFrames(frames)
  /\ Speaks(cmp, cpu.ccr)
  /\ faults = 0 => FramesSpeak(frames, mem)
  /\ faults # 0 => cmp = <<>> /\ NothingSaid(frames)

(* A step that fails says nothing of comparisons any more. *)
LEMMA FailTyped ==
  ASSUME IInv, TInv, NEW c, NEW m, FailWith(c, m), CpuOK(c), MemOK(m)
  PROVE  TInv'
<1>1. CpuOK(cpu')
  BY DEF FailWith, CpuOK, IsCpu
<1>2. mem' = m /\ faults' = faults + 1 /\ faults \in Nat /\ cmp' = <<>>
  BY DEF FailWith, IInv
<1>3. AreFrames(frames') /\ NothingSaid(frames')
  <2> DEFINE fr == [i \in DOMAIN frames |-> [frames[i] EXCEPT !.cmp = <<>>]]
             n == Len(frames)
  <2>1. frames' = fr /\ DOMAIN frames = 1..n /\ n \in Nat
    BY DEF FailWith, TInv, AreFrames, IsSeq
  <2>2. \A i \in 1..n : DOMAIN fr[i] = {"kind", "at", "cmp"} /\ fr[i].cmp = <<>>
    BY <2>1 DEF TInv, AreFrames
  <2>3. fr = [i \in 1..n |-> fr[i]]
    BY <2>1
  <2> HIDE DEF fr, n
  <2>4. fr \in Seq({ fr[i] : i \in 1..n }) /\ Len(fr) = n
    BY <2>1, <2>3
  <2> QED
    BY <2>1, <2>2, <2>3, <2>4 DEF AreFrames, NothingSaid, IsSeq
<1>4. faults' # 0
  BY <1>2
<1> QED
  BY <1>1, <1>2, <1>3, <1>4 DEF TInv, Speaks

(* A step that leaves the stack alone. *)
LEMMA SameTyped ==
  ASSUME TInv, UNCHANGED <<frames, mem, faults>>, CpuOK(cpu'), Speaks(cmp', cpu'.ccr),
         faults # 0 => cmp' = <<>>
  PROVE  TInv'
  BY DEF TInv

(* A step that puts a frame on the stack. *)
LEMMA PushTyped ==
  ASSUME IInv, TInv, NEW kind, NEW a, Entered(kind, a), UNCHANGED faults,
         CpuOK(cpu'), MemOK(mem'), Speaks(cmp', cpu'.ccr), faults # 0 => cmp' = <<>>,
         \A c \in Cells : c >= cpu.a7 => mem'[c] = mem[c],
         kind = "irq" /\ faults = 0 => Speaks(cmp, mem'[a + 4].v[2])
  PROVE  TInv'
<1> DEFINE f == [kind |-> kind, at |-> a, cmp |-> cmp]
           n == Len(frames)
<1>1. frames' = Append(frames, f)
  BY DEF Entered
<1>2. DOMAIN f = {"kind", "at", "cmp"} /\ f.kind = kind /\ f.at = a /\ f.cmp = cmp
  OBVIOUS
<1>3. IsSeq(frames) /\ n \in Nat
  BY DEF TInv, AreFrames, IsSeq
<1> HIDE DEF f
<1>4. /\ IsSeq(frames') /\ Len(frames') = n + 1 /\ frames'[n + 1] = f
      /\ \A i \in 1..n : frames'[i] = frames[i]
  BY <1>1, <1>3, AppendIsSeq
<1>5. \A i \in 1..(n + 1) : i = n + 1 \/ i \in 1..n
  BY <1>3
<1>6. AreFrames(frames')
  BY <1>2, <1>4, <1>5 DEF AreFrames, TInv
<1>7. faults # 0 => NothingSaid(frames')
  BY <1>2, <1>4, <1>5 DEF NothingSaid, TInv
<1>8. ASSUME faults = 0 PROVE FramesSpeak(frames', mem')
  <2>1. ASSUME NEW i \in 1..n, frames[i].kind = "irq" PROVE Speaks(frames[i].cmp, mem'[frames[i].at + 4].v[2])
    <3>1. frames[i].at \in Int /\ frames[i].at >= cpu.a7 /\ frames[i].at + 4 \in Cells /\ cpu.a7 \in Int
      BY <1>8, <2>1 DEF IInv, Laid, Stored, IsCpu
    <3>2. mem'[frames[i].at + 4] = mem[frames[i].at + 4]
      BY <3>1
    <3> QED
      BY <1>8, <2>1, <3>2 DEF TInv, FramesSpeak
  <2> QED
    BY <1>2, <1>4, <1>5, <1>8, <2>1 DEF FramesSpeak
<1> QED
  BY <1>6, <1>7, <1>8 DEF TInv

(* A step that takes one off. *)
LEMMA PopTyped ==
  ASSUME IInv, TInv, IInv', NEW kind, OnTop(kind), Left, NEW x \in Int, KeepFrom(x), cpu'.a7 = x,
         CpuOK(cpu'), UNCHANGED faults,
         Speaks(cmp', cpu'.ccr), faults # 0 => cmp' = <<>>
  PROVE  TInv'
<1> DEFINE n == Len(frames)
<1>1. IsSeq(frames) /\ n \in Nat /\ frames # <<>>
  BY DEF TInv, AreFrames, IsSeq, OnTop
<1>2. n > 0
  <2> SUFFICES ASSUME n = 0 PROVE FALSE
    BY <1>1
  <2>1. frames = [i \in 1..0 |-> frames[i]]
    BY <1>1 DEF IsSeq
  <2> QED
    BY <1>1, <2>1
<1>3. /\ IsSeq(frames') /\ Len(frames') = n - 1
      /\ \A i \in 1..(n - 1) : frames'[i] = frames[i] /\ i \in 1..n
  BY <1>1, <1>2, FrontIsSeq DEF Left
<1>4. AreFrames(frames')
  BY <1>3 DEF AreFrames, TInv
<1>5. faults # 0 => NothingSaid(frames')
  BY <1>3 DEF NothingSaid, TInv
<1>6. ASSUME faults = 0 PROVE FramesSpeak(frames', mem')
  <2> SUFFICES ASSUME NEW i \in 1..(n - 1), frames'[i].kind = "irq"
               PROVE  Speaks(frames'[i].cmp, mem'[frames'[i].at + 4].v[2])
    BY <1>3 DEF FramesSpeak
  <2> DEFINE a == frames'[i].at
  <2>1. Laid(frames', mem', x)
    BY <1>6 DEF IInv
  <2>2. a \in Int /\ a >= x /\ a + 4 \in Cells
    BY <1>3, <2>1 DEF Laid, Stored
  <2>3. a + 4 >= x
    BY <2>2
  <2> HIDE DEF a
  <2>4. mem'[a + 4] = mem[a + 4]
    BY <2>2, <2>3 DEF KeepFrom
  <2> QED
    BY <1>3, <1>6, <2>4 DEF a, TInv, FramesSpeak
<1>7. MemOK(mem')
  <2>1. CellOK(Half("zero", 0))
    BY DEF CellOK, Half
  <2>2. \A c \in Cells : mem'[c] = mem[c] \/ mem'[c] = Half("zero", 0)
    BY DEF KeepFrom
  <2>3. IsMem(mem')
    BY DEF KeepFrom, IsMem
  <2> QED
    BY <2>1, <2>2, <2>3 DEF MemOK, TInv
<1> QED
  BY <1>4, <1>5, <1>6, <1>7 DEF TInv

-----------------------------------------------------------------------------
(* One lemma for each kind of step *)

(* Instructions are at even addresses, and lead to such. *)
LEMMA EvenPcs ==
  /\ Targets \subseteq Pcs /\ \A l \in IrqLevels : l \in 0..7
  /\ \A p \in Code : p \in Pcs /\ \A n \in {2, 4, 6, 8, 10} : p + n \in Pcs
<1>1. CodeEnd \in Nat /\ Targets \subseteq { a \in 0..CodeEnd : a % 2 = 0 } /\ IrqLevels \subseteq 1..7
  BY CoreAssumption DEF CoreAssumption
<1>2. \A p \in Int : p % 2 = 0 => \A n \in {2, 4, 6, 8, 10} : (p + n) % 2 = 0
  OBVIOUS
<1>3. \A p \in Code : p \in Int /\ p \in 0..(CodeEnd - 1) /\ p % 2 = 0
  BY <1>1 DEF Code
<1> QED
  BY <1>1, <1>2, <1>3 DEF Pcs

(* What is stored is of its kind, so memory stays typed. *)
LEMMA StoresTyped ==
  ASSUME NEW m, MemOK(m), NEW a \in Int, NEW kind, NEW v, CellOK(Half(kind, v))
  PROVE  MemOK(StoreHalf(m, a, kind, v)) /\ MemOK(StoreLong(m, a, kind, v))
<1>1. IsMem(m) /\ \A c \in Cells : CellOK(m[c])
  BY DEF MemOK
<1>2. MemOK(StoreHalf(m, a, kind, v))
  <2> DEFINE n == StoreHalf(m, a, kind, v)
  <2>1. /\ IsMem(n) /\ (a \in Cells => n[a] = Half(kind, v))
        /\ \A c \in Cells : c # a => n[c] = m[c]
    BY <1>1, HalfStored
  <2> HIDE DEF n
  <2>2. \A c \in Cells : CellOK(n[c])
    BY <1>1, <2>1
  <2> QED
    BY <2>1, <2>2 DEF MemOK, n
<1>3. MemOK(StoreLong(m, a, kind, v))
  <2> DEFINE n == StoreLong(m, a, kind, v)
  <2>1. /\ IsMem(n) /\ (StorableLong(a) => n[a] = Half(kind, v) /\ n[a + 2] = Half(kind, v))
        /\ \A c \in Cells : c # a /\ c # a + 2 => n[c] = m[c]
    BY <1>1, LongStored
  <2>2. ~StorableLong(a) => n = m
    BY DEF StoreLong
  <2> HIDE DEF n
  <2>3. \A c \in Cells : CellOK(n[c])
    BY <1>1, <2>1, <2>2
  <2> QED
    BY <2>1, <2>3 DEF MemOK, n
<1> QED
  BY <1>2, <1>3

(* What may be put into a cell. *)
LEMMA HalvesTyped ==
  /\ \A p \in Pcs : CellOK(Half("pc", p))
  /\ \A v \in Values : CellOK(Half("data", v))
  /\ \A k \in 0..7 : \A f \in SUBSET Flags : CellOK(Half("sr", <<k, f>>))
  BY DEF CellOK, Half

(* What a load of a long gives. *)
LEMMA LoadsTyped ==
  ASSUME MemOK(mem), NEW a, StorableLong(a)
  PROVE  LoadLong(a, "pc", Targets) \subseteq Pcs /\ LoadLong(a, "data", Values) \subseteq Values
<1>1. CellOK(mem[a])
  BY DEF MemOK, StorableLong
<1> QED
  BY <1>1, EvenPcs DEF LoadLong, CellOK

(* The core after a step that succeeds. *)
LEMMA DoTyped ==
  ASSUME NEW c, IsCpu(c), Do(c), c.d \in Values, c.pc \in Pcs, c.mask \in 0..7, c.ccr \subseteq Flags
  PROVE  /\ CpuOK(cpu') /\ cpu'.a7 = c.a7 /\ cpu'.ccr = c.ccr
<1>1. /\ IsCpu(cpu') /\ cpu' = [c EXCEPT !.halt = FALSE] /\ cpu'.a7 = c.a7 /\ cpu'.pc = c.pc
      /\ cpu'.mask = c.mask /\ cpu'.ccr = c.ccr /\ cpu'.d = c.d
  BY DoIsCpu
<1>2. cpu'.halt = FALSE
  BY <1>1 DEF IsCpu
<1>3. cpu'.halt \in BOOLEAN
  BY <1>2, Zenon
<1> QED
  BY <1>1, <1>3 DEF CpuOK

(* What the invariant says of the state, part by part. *)
LEMMA TypedFields ==
  ASSUME TInv
  PROVE  /\ IsCpu(cpu) /\ cpu.a7 \in Int /\ IsMem(mem) /\ MemOK(mem)
         /\ cpu.d \in Values /\ cpu.pc \in Pcs /\ cpu.mask \in 0..7 /\ cpu.ccr \subseteq Flags
         /\ cpu.halt \in BOOLEAN
  BY DEF TInv, CpuOK, MemOK, IsCpu

(* An interrupt puts the flags and the comparison they speak of aside together. *)
LEMMA TakeInterruptTyped ==
  ASSUME IInv, TInv, TakeInterrupt
  PROVE  TInv'
<1> PICK l \in IrqLevels, handler \in Targets :
      LET a1 == cpu.a7 - 2  a2 == cpu.a7 - 6
          m1 == StoreHalf(mem, a1, "sr", <<cpu.mask, cpu.ccr>>)
          m2 == StoreLong(m1, a2, "pc", cpu.pc)
      IN  /\ l > cpu.mask /\ faults < MaxFaults + MaxRetries
          /\ \/ a1 \in Cells /\ StorableLong(a2)
                /\ Do([cpu EXCEPT !.a7 = a2, !.mask = l, !.pc = handler]) /\ mem' = m2
                /\ Entered("irq", a2) /\ cmp' = <<>> /\ UNCHANGED faults
             \/ a1 \notin Cells /\ FailWith([cpu EXCEPT !.a7 = a1], mem)
             \/ a1 \in Cells /\ ~StorableLong(a2) /\ FailWith([cpu EXCEPT !.a7 = a2], m1)
             \/ a1 \in Cells /\ StorableLong(a2) /\ FailWith([cpu EXCEPT !.a7 = a2, !.mask = l], m2)
  BY DEF TakeInterrupt
<1> DEFINE a1 == cpu.a7 - 2
           a2 == cpu.a7 - 6
           sr == <<cpu.mask, cpu.ccr>>
           m1 == StoreHalf(mem, a1, "sr", sr)
           m2 == StoreLong(m1, a2, "pc", cpu.pc)
<1>1. /\ IsCpu(cpu) /\ cpu.a7 \in Int /\ IsMem(mem) /\ MemOK(mem)
      /\ cpu.d \in Values /\ cpu.pc \in Pcs /\ cpu.mask \in 0..7 /\ cpu.ccr \subseteq Flags
      /\ cpu.halt \in BOOLEAN
  BY TypedFields
<1>2. /\ a1 \in Int /\ a2 \in Int /\ a2 + 4 = a1 /\ a1 < cpu.a7 /\ a2 < cpu.a7 /\ a2 + 2 < cpu.a7
      /\ a1 # a2 /\ a1 # a2 + 2 /\ \A c \in Cells : c \in Int
  <2>1. \A c \in Cells : c \in Int
    BY CoreAssumption DEF CoreAssumption, Cells
  <2> QED
    BY <1>1, <2>1
<1>3. l \in 0..7 /\ handler \in Pcs
  BY EvenPcs
<1> HIDE DEF a1, a2
<1>4. MemOK(m1) /\ IsMem(m1) /\ (a1 \in Cells => m1[a1] = Half("sr", sr)) /\ \A c \in Cells : c # a1 => m1[c] = mem[c]
  <2>1. CellOK(Half("sr", sr))
    BY <1>1, HalvesTyped
  <2> HIDE DEF sr
  <2> QED
    BY <1>1, <1>2, <2>1, StoresTyped, HalfStored
<1> HIDE DEF m1
<1>5. MemOK(m2) /\ \A c \in Cells : c # a2 /\ c # a2 + 2 => m2[c] = m1[c]
  <2>1. CellOK(Half("pc", cpu.pc))
    BY <1>1, HalvesTyped
  <2> QED
    BY <1>2, <1>4, <2>1, StoresTyped, LongStored
<1> HIDE DEF m2
<1>6. CASE /\ a1 \in Cells /\ StorableLong(a2)
           /\ Do([cpu EXCEPT !.a7 = a2, !.mask = l, !.pc = handler]) /\ mem' = m2
           /\ Entered("irq", a2) /\ cmp' = <<>> /\ UNCHANGED faults
  <2> DEFINE c == [cpu EXCEPT !.a7 = a2, !.mask = l, !.pc = handler]
  <2>1. IsCpu(c) /\ c.d \in Values /\ c.pc \in Pcs /\ c.mask \in 0..7 /\ c.ccr \subseteq Flags
    BY <1>1, <1>2, <1>3 DEF IsCpu
  <2>2. Do(c)
    BY <1>6
  <2> HIDE DEF c
  <2>3. CpuOK(cpu')
    BY <2>1, <2>2, DoTyped
  <2>4. m2[a2 + 4] = Half("sr", sr)
    BY <1>2, <1>4, <1>5, <1>6
  <2>5. Speaks(cmp, mem'[a2 + 4].v[2])
    <3>1. mem'[a2 + 4].v = sr
      BY <1>6, <2>4 DEF Half
    <3>2. sr[2] = cpu.ccr
      OBVIOUS
    <3> QED
      BY <3>1, <3>2 DEF TInv
  <2>6. \A x \in Cells : x >= cpu.a7 => mem'[x] = mem[x]
    BY <1>1, <1>2, <1>4, <1>5, <1>6
  <2>7. Speaks(cmp', cpu'.ccr) /\ MemOK(mem')
    BY <1>5, <1>6 DEF Speaks
  <2> QED
    BY <1>6, <2>3, <2>5, <2>6, <2>7, PushTyped
<1>7. CASE FailWith([cpu EXCEPT !.a7 = a1], mem)
  <2> DEFINE c == [cpu EXCEPT !.a7 = a1]
  <2>1. CpuOK(c)
    BY <1>1, <1>2 DEF CpuOK, IsCpu
  <2> QED
    BY <1>1, <1>7, <2>1, FailTyped
<1>8. CASE FailWith([cpu EXCEPT !.a7 = a2], m1)
  <2> DEFINE c == [cpu EXCEPT !.a7 = a2]
  <2>1. CpuOK(c)
    BY <1>1, <1>2 DEF CpuOK, IsCpu
  <2> QED
    BY <1>4, <1>8, <2>1, FailTyped
<1>9. CASE FailWith([cpu EXCEPT !.a7 = a2, !.mask = l], m2)
  <2> DEFINE c == [cpu EXCEPT !.a7 = a2, !.mask = l]
  <2>1. CpuOK(c)
    BY <1>1, <1>2, <1>3 DEF CpuOK, IsCpu
  <2> QED
    BY <1>5, <1>9, <2>1, FailTyped
<1> QED
  BY <1>6, <1>7, <1>8, <1>9 DEF a1, a2, m1, m2

(* JSR and BSR push a program counter. *)
LEMMA CallsTyped ==
  ASSUME IInv, TInv, Calls
  PROVE  TInv'
<1> DEFINE a == cpu.a7 - 4
<1> PICK n \in {2, 4}, target \in Targets :
      LET ret == cpu.pc + n  m == StoreLong(mem, a, "pc", ret)
      IN  IF StorableLong(a)
          THEN \/ /\ Do([cpu EXCEPT !.a7 = a, !.pc = target]) /\ mem' = m
                  /\ Entered("call", a) /\ UNCHANGED <<cmp, faults>>
               \/ n = 2 /\ FailWith([cpu EXCEPT !.a7 = a, !.pc = ret], m)
          ELSE FailWith([cpu EXCEPT !.a7 = a, !.pc = ret], mem)
  BY DEF Calls
<1> DEFINE ret == cpu.pc + n
           m == StoreLong(mem, a, "pc", ret)
           f == [kind |-> "call", at |-> a, cmp |-> cmp]
<1>1. /\ a \in Int /\ a + 4 = cpu.a7 /\ IsMem(m)
      /\ \A c \in Cells : c >= cpu.a7 => m[c] = mem[c]
      /\ StorableLong(a) => Stored(m, f) /\ m[a].v = ret
  BY PushedLong
<1>2. /\ IsCpu(cpu) /\ cpu.a7 \in Int /\ IsMem(mem) /\ MemOK(mem)
      /\ cpu.d \in Values /\ cpu.pc \in Pcs /\ cpu.mask \in 0..7 /\ cpu.ccr \subseteq Flags
      /\ cpu.halt \in BOOLEAN
  BY TypedFields
<1>3. ret \in Pcs /\ target \in Pcs
  BY EvenPcs DEF Calls, Fetched
<1>4. MemOK(m)
  <2>1. CellOK(Half("pc", ret))
    BY <1>3, HalvesTyped
  <2> HIDE DEF a, ret
  <2> QED
    BY <1>1, <1>2, <2>1, StoresTyped
<1> HIDE DEF a, m, ret
<1>5. CASE /\ Do([cpu EXCEPT !.a7 = a, !.pc = target]) /\ mem' = m
           /\ Entered("call", a) /\ UNCHANGED <<cmp, faults>>
  <2> DEFINE c == [cpu EXCEPT !.a7 = a, !.pc = target]
  <2>1. IsCpu(c) /\ c.d \in Values /\ c.pc \in Pcs /\ c.mask \in 0..7 /\ c.ccr \subseteq Flags /\ c.ccr = cpu.ccr
    BY <1>1, <1>2, <1>3 DEF IsCpu
  <2>2. Do(c)
    BY <1>5
  <2> HIDE DEF c
  <2>3. CpuOK(cpu') /\ cpu'.ccr = cpu.ccr
    BY <2>1, <2>2, DoTyped
  <2>4. Speaks(cmp', cpu'.ccr) /\ (faults # 0 => cmp' = <<>>)
    BY <1>5, <2>3 DEF TInv
  <2>5. \A x \in Cells : x >= cpu.a7 => mem'[x] = mem[x]
    BY <1>1, <1>5
  <2> QED
    BY <1>4, <1>5, <2>3, <2>4, <2>5, PushTyped
<1>6. ASSUME NEW m0 \in {m, mem}, FailWith([cpu EXCEPT !.a7 = a, !.pc = ret], m0) PROVE TInv'
  <2> DEFINE c == [cpu EXCEPT !.a7 = a, !.pc = ret]
  <2>1. CpuOK(c)
    BY <1>1, <1>2, <1>3 DEF CpuOK, IsCpu
  <2> QED
    BY <1>2, <1>4, <1>6, <2>1, FailTyped
<1> QED
  BY <1>5, <1>6 DEF m, ret, a

(* A push of a register pushes a value. *)
LEMMA PushOfDataTyped ==
  ASSUME IInv, TInv, Push
  PROVE  TInv'
<1> DEFINE a == cpu.a7 - 4
           m == StoreLong(mem, a, "data", cpu.d)
           f == [kind |-> "data", at |-> a, cmp |-> cmp]
           moved == [cpu EXCEPT !.a7 = a, !.pc = @ + 2]
           x == Move(cpu.d, 4, cpu.d).ccr
<1>1. /\ a \in Int /\ a + 4 = cpu.a7 /\ IsMem(m)
      /\ \A c \in Cells : c >= cpu.a7 => m[c] = mem[c]
      /\ StorableLong(a) => Stored(m, f) /\ m[a].v = cpu.d
  BY PushedLong
<1>2. /\ IsCpu(cpu) /\ cpu.a7 \in Int /\ IsMem(mem) /\ MemOK(mem)
      /\ cpu.d \in Values /\ cpu.pc \in Pcs /\ cpu.mask \in 0..7 /\ cpu.ccr \subseteq Flags
      /\ cpu.halt \in BOOLEAN
  BY TypedFields
<1>3. IF StorableLong(a)
      THEN Do([moved EXCEPT !.ccr = x]) /\ mem' = m /\ Entered("data", a) /\ cmp' = <<>> /\ UNCHANGED faults
      ELSE FailWith(moved, mem)
  BY DEF Push
<1>4. MemOK(m) /\ cpu.pc + 2 \in Pcs
  <2>1. CellOK(Half("data", cpu.d))
    BY <1>2, HalvesTyped
  <2>2. cpu.pc + 2 \in Pcs
    BY EvenPcs DEF Push, Fetched
  <2> HIDE DEF a
  <2> QED
    BY <1>1, <1>2, <2>1, <2>2, StoresTyped
<1>5. x \subseteq Flags
  <2>1. cpu.d \in Int /\ 4 \in Sizes
    BY <1>2, ValuesAreInts DEF Sizes
  <2> QED
    BY <1>2, <2>1, MoveInRange DEF InRange
<1> HIDE DEF a, m, x
<1>6. CpuOK(moved) /\ IsCpu(moved)
  BY <1>1, <1>2, <1>4 DEF CpuOK, IsCpu
<1>7. CASE StorableLong(a)
  <2> DEFINE c == [moved EXCEPT !.ccr = x]
  <2>1. IsCpu(c) /\ c.d \in Values /\ c.pc \in Pcs /\ c.mask \in 0..7 /\ c.ccr \subseteq Flags
    <3> HIDE DEF moved
    <3> QED
      BY <1>5, <1>6 DEF IsCpu, CpuOK
  <2>2. Do(c)
    BY <1>3, <1>7
  <2> HIDE DEF c
  <2>3. CpuOK(cpu')
    BY <2>1, <2>2, DoTyped
  <2>4. Speaks(cmp', cpu'.ccr) /\ cmp' = <<>>
    BY <1>3, <1>7 DEF Speaks
  <2>5. \A y \in Cells : y >= cpu.a7 => mem'[y] = mem[y]
    BY <1>1, <1>3, <1>7
  <2>6. Entered("data", a) /\ UNCHANGED faults /\ MemOK(mem')
    BY <1>3, <1>4, <1>7
  <2> QED
    BY <2>3, <2>4, <2>5, <2>6, PushTyped
<1>8. CASE ~StorableLong(a)
  <2> HIDE DEF moved
  <2> QED
    BY <1>2, <1>3, <1>6, <1>8, FailTyped
<1> QED
  BY <1>7, <1>8

(* RTS pops a program counter. *)
LEMMA RtsTyped ==
  ASSUME IInv, TInv, IInv', Rts
  PROVE  TInv'
<1>1. /\ IsCpu(cpu) /\ cpu.a7 \in Int /\ IsMem(mem) /\ MemOK(mem)
      /\ cpu.d \in Values /\ cpu.pc \in Pcs /\ cpu.mask \in 0..7 /\ cpu.ccr \subseteq Flags
      /\ cpu.halt \in BOOLEAN
  BY TypedFields
<1>2. CASE StorableLong(cpu.a7)
  <2> PICK ret \in LoadLong(cpu.a7, "pc", Targets) : Do([cpu EXCEPT !.a7 = @ + 4, !.pc = ret])
    BY <1>2 DEF Rts
  <2>1. KeepFrom(cpu.a7 + 4) /\ Left /\ UNCHANGED <<cmp, faults>> /\ OnTop("call")
    BY <1>2 DEF Rts
  <2>2. ret \in Pcs
    BY <1>1, <1>2, LoadsTyped
  <2> DEFINE c == [cpu EXCEPT !.a7 = @ + 4, !.pc = ret]
  <2>3. /\ IsCpu(c) /\ c.d \in Values /\ c.pc \in Pcs /\ c.mask \in 0..7 /\ c.ccr \subseteq Flags
        /\ c.a7 = cpu.a7 + 4 /\ c.ccr = cpu.ccr
    BY <1>1, <2>2 DEF IsCpu
  <2>4. Do(c)
    OBVIOUS
  <2> HIDE DEF c
  <2>5. CpuOK(cpu') /\ cpu'.a7 = cpu.a7 + 4 /\ cpu'.ccr = cpu.ccr
    BY <2>3, <2>4, DoTyped
  <2>6. Speaks(cmp', cpu'.ccr) /\ (faults # 0 => cmp' = <<>>)
    BY <2>1, <2>5 DEF TInv
  <2>7. cpu.a7 + 4 \in Int
    BY <1>1
  <2> QED
    BY <2>1, <2>5, <2>6, <2>7, PopTyped
<1>3. CASE ~StorableLong(cpu.a7)
  <2> DEFINE c == [cpu EXCEPT !.pc = @ + 2]
  <2>1. FailWith(c, mem) /\ cpu.pc + 2 \in Pcs
    BY <1>3, EvenPcs DEF Rts, Fetched
  <2>2. CpuOK(c)
    BY <1>1, <2>1 DEF CpuOK, IsCpu
  <2> QED
    BY <1>1, <2>1, <2>2, FailTyped
<1> QED
  BY <1>2, <1>3

(* RTE brings back the flags that were put aside with the comparison. *)
LEMMA RteTyped ==
  ASSUME IInv, TInv, IInv', Rte
  PROVE  TInv'
<1>1. /\ IsCpu(cpu) /\ cpu.a7 \in Int /\ IsMem(mem) /\ MemOK(mem)
      /\ cpu.d \in Values /\ cpu.pc \in Pcs /\ cpu.mask \in 0..7 /\ cpu.ccr \subseteq Flags
      /\ cpu.halt \in BOOLEAN
  BY TypedFields
<1>2. CASE StorableLong(cpu.a7) /\ cpu.a7 + 4 \in Cells
  <2> DEFINE srs == IF mem[cpu.a7 + 4].kind = "sr" THEN {mem[cpu.a7 + 4].v} ELSE {<<0, {}>>, <<7, Flags>>}
  <2> PICK ret \in LoadLong(cpu.a7, "pc", Targets), sr \in srs :
        Do([cpu EXCEPT !.a7 = @ + 6, !.pc = ret, !.mask = sr[1], !.ccr = sr[2]])
    BY <1>2 DEF Rte
  <2>1. /\ KeepFrom(cpu.a7 + 6) /\ Left /\ UNCHANGED faults /\ OnTop("irq")
        /\ cmp' = Last(frames).cmp
    BY <1>2 DEF Rte
  <2>2. ret \in Pcs
    BY <1>1, <1>2, LoadsTyped
  <2>3. sr[1] \in 0..7 /\ sr[2] \subseteq Flags
    <3>1. CellOK(mem[cpu.a7 + 4])
      BY <1>1, <1>2 DEF MemOK
    <3> QED
      BY <3>1 DEF CellOK
  <2> DEFINE c == [cpu EXCEPT !.a7 = @ + 6, !.pc = ret, !.mask = sr[1], !.ccr = sr[2]]
  <2>4. /\ IsCpu(c) /\ c.d \in Values /\ c.pc \in Pcs /\ c.mask \in 0..7 /\ c.ccr \subseteq Flags
        /\ c.a7 = cpu.a7 + 6 /\ c.ccr = sr[2]
    BY <1>1, <2>2, <2>3 DEF IsCpu
  <2>5. Do(c)
    OBVIOUS
  <2> HIDE DEF c
  <2>6. CpuOK(cpu') /\ cpu'.a7 = cpu.a7 + 6 /\ cpu'.ccr = sr[2]
    BY <2>4, <2>5, DoTyped
  <2>7. Len(frames) \in Nat /\ Len(frames) > 0 /\ Last(frames) = frames[Len(frames)]
    <3>1. IsSeq(frames) /\ frames # <<>>
      BY <2>1 DEF TInv, AreFrames, OnTop
    <3>2. Len(frames) \in Nat /\ frames = [i \in 1..Len(frames) |-> frames[i]]
      BY <3>1 DEF IsSeq
    <3>3. Len(frames) # 0
      <4> SUFFICES ASSUME Len(frames) = 0 PROVE FALSE
        OBVIOUS
      <4>1. frames = [i \in 1..0 |-> frames[i]]
        BY <3>2
      <4> QED
        BY <3>1, <4>1
    <3> QED
      BY <3>2, <3>3 DEF Last
  <2>8. CASE faults = 0
    <3>1. Laid(frames, mem, cpu.a7)
      BY <2>8 DEF IInv
    <3>2. Last(frames).at = cpu.a7 /\ Stored(mem, Last(frames)) /\ Last(frames).kind = "irq"
      <4>1. cpu.a7 = Above(frames, Len(frames) + 1)
        BY <3>1 DEF Laid
      <4>2. Above(frames, Len(frames) + 1) = frames[Len(frames)].at
        BY <2>7 DEF Above
      <4> QED
        BY <2>1, <2>7, <3>1, <4>1, <4>2 DEF Laid, OnTop
    <3>3. mem[cpu.a7 + 4].kind = "sr"
      BY <3>2 DEF Stored
    <3>4. sr = mem[Last(frames).at + 4].v
      BY <3>2, <3>3
    <3>5. Speaks(Last(frames).cmp, mem[Last(frames).at + 4].v[2])
      BY <2>7, <2>8, <3>2 DEF TInv, FramesSpeak
    <3>6. Speaks(cmp', cpu'.ccr)
      BY <2>1, <2>6, <3>4, <3>5
    <3>7. cpu.a7 + 6 \in Int
      BY <1>1
    <3> QED
      BY <2>1, <2>6, <2>8, <3>6, <3>7, PopTyped
  <2>9. CASE faults # 0
    <3>1. cmp' = <<>>
      BY <2>1, <2>7, <2>9 DEF TInv, NothingSaid
    <3>2. Speaks(cmp', cpu'.ccr)
      BY <3>1 DEF Speaks
    <3>3. cpu.a7 + 6 \in Int
      BY <1>1
    <3> QED
      BY <2>1, <2>6, <3>1, <3>2, <3>3, PopTyped
  <2> QED
    BY <2>8, <2>9
<1>3. CASE ~(StorableLong(cpu.a7) /\ cpu.a7 + 4 \in Cells)
  <2> DEFINE x == IF StorableLong(cpu.a7) THEN cpu.a7 + 4 ELSE cpu.a7
             c == [cpu EXCEPT !.pc = @ + 2, !.a7 = x]
  <2>1. x \in Int
    BY <1>1
  <2>2. FailWith(c, mem)
    BY <1>1, <1>3 DEF Rte, IsCpu
  <2>3. cpu.pc + 2 \in Pcs
    BY EvenPcs DEF Rte, Fetched
  <2> HIDE DEF x
  <2>4. CpuOK(c)
    BY <1>1, <2>1, <2>3 DEF CpuOK, IsCpu
  <2> QED
    BY <1>1, <2>2, <2>4, FailTyped
<1> QED
  BY <1>2, <1>3

(* A pop into a register pops a value. *)
LEMMA PopOfDataTyped ==
  ASSUME IInv, TInv, IInv', Pop
  PROVE  TInv'
<1> DEFINE moved == [cpu EXCEPT !.a7 = @ + 4, !.pc = @ + 2]
<1>1. /\ IsCpu(cpu) /\ cpu.a7 \in Int /\ IsMem(mem) /\ MemOK(mem)
      /\ cpu.d \in Values /\ cpu.pc \in Pcs /\ cpu.mask \in 0..7 /\ cpu.ccr \subseteq Flags
      /\ cpu.halt \in BOOLEAN
  BY TypedFields
<1>2. cpu.pc + 2 \in Pcs
  BY EvenPcs DEF Pop, Fetched
<1>3. CpuOK(moved) /\ IsCpu(moved) /\ moved.a7 = cpu.a7 + 4
  BY <1>1, <1>2 DEF CpuOK, IsCpu
<1>4. CASE StorableLong(cpu.a7)
  <2> PICK v \in LoadLong(cpu.a7, "data", Values) : Do([moved EXCEPT !.d = v, !.ccr = Move(cpu.d, 4, v).ccr])
    BY <1>4 DEF Pop
  <2>1. KeepFrom(cpu.a7 + 4) /\ Left /\ UNCHANGED faults /\ OnTop("data") /\ cmp' = <<>>
    BY <1>4 DEF Pop
  <2> DEFINE x == Move(cpu.d, 4, v).ccr
             c == [moved EXCEPT !.d = v, !.ccr = x]
  <2>2. v \in Values /\ x \subseteq Flags
    <3>1. v \in Values
      BY <1>1, <1>4, LoadsTyped
    <3>2. v \in Int /\ 4 \in Sizes
      BY <3>1, ValuesAreInts DEF Sizes
    <3> QED
      BY <1>1, <3>1, <3>2, MoveInRange DEF InRange
  <2>3. Do(c)
    OBVIOUS
  <2> HIDE DEF x, moved
  <2>4. /\ IsCpu(c) /\ c.d \in Values /\ c.pc \in Pcs /\ c.mask \in 0..7 /\ c.ccr \subseteq Flags
        /\ c.a7 = cpu.a7 + 4
    BY <1>3, <2>2 DEF IsCpu, CpuOK
  <2> HIDE DEF c
  <2>5. CpuOK(cpu') /\ cpu'.a7 = cpu.a7 + 4
    BY <2>3, <2>4, DoTyped
  <2>6. Speaks(cmp', cpu'.ccr)
    BY <2>1 DEF Speaks
  <2>7. cpu.a7 + 4 \in Int
    BY <1>1
  <2> QED
    BY <2>1, <2>5, <2>6, <2>7, PopTyped
<1>5. CASE ~StorableLong(cpu.a7)
  <2>1. FailWith(moved, mem)
    BY <1>5 DEF Pop
  <2> HIDE DEF moved
  <2> QED
    BY <1>1, <1>3, <2>1, FailTyped
<1> QED
  BY <1>4, <1>5

(* Arithmetic stays within a register, and a comparison speaks of its     *)
(* operands.                                                               *)
LEMMA ArithmeticTyped ==
  ASSUME IInv, TInv, Arithmetic
  PROVE  TInv'
<1>1. /\ IsCpu(cpu) /\ cpu.a7 \in Int /\ IsMem(mem) /\ MemOK(mem)
      /\ cpu.d \in Values /\ cpu.pc \in Pcs /\ cpu.mask \in 0..7 /\ cpu.ccr \subseteq Flags
      /\ cpu.halt \in BOOLEAN
  BY TypedFields
<1>2. cpu.pc + 2 \in Pcs /\ UNCHANGED <<mem, frames, faults>> /\ faults = 0
  BY EvenPcs DEF Arithmetic, Fetched
<1>3. ASSUME NEW d \in Values, NEW f, f \subseteq Flags,
             Do([cpu EXCEPT !.pc = @ + 2, !.d = d, !.ccr = f]), Speaks(cmp', f)
      PROVE  TInv'
  <2> DEFINE c == [cpu EXCEPT !.pc = @ + 2, !.d = d, !.ccr = f]
  <2>1. IsCpu(c) /\ c.d \in Values /\ c.pc \in Pcs /\ c.mask \in 0..7 /\ c.ccr \subseteq Flags /\ c.ccr = f
    BY <1>1, <1>2, <1>3 DEF IsCpu
  <2>2. Do(c)
    BY <1>3
  <2> HIDE DEF c
  <2>3. CpuOK(cpu') /\ cpu'.ccr = f
    BY <2>1, <2>2, DoTyped
  <2> QED
    BY <1>2, <1>3, <2>3, SameTyped
<1>4. ASSUME NEW r \in Results(cpu.d) \union BitOps(cpu.d, cpu.ccr),
             Do([cpu EXCEPT !.pc = @ + 2, !.d = r.d, !.ccr = r.ccr]), cmp' = <<>>
      PROVE  TInv'
  <2>1. InRange(r)
    BY <1>1, ResultsInRange, BitOpsInRange
  <2>2. Speaks(cmp', r.ccr)
    BY <1>4 DEF Speaks
  <2> QED
    BY <1>3, <1>4, <2>1, <2>2 DEF InRange
<1>5. ASSUME NEW v \in Operands,
             Do([cpu EXCEPT !.pc = @ + 2, !.d = Compare(cpu.d, v).d, !.ccr = Compare(cpu.d, v).ccr]),
             cmp' = <<cpu.d, v>>
      PROVE  TInv'
  <2> DEFINE r == Compare(cpu.d, v)
  <2>1. InRange(r) /\ r.ccr = CmpFlags(cpu.d, v)
    BY <1>1, CompareInRange
  <2>2. v \in Values
    BY CoreAssumption DEF CoreAssumption
  <2>3. Speaks(cmp', r.ccr)
    BY <1>1, <1>5, <2>1, <2>2 DEF Speaks
  <2> HIDE DEF r
  <2>4. Do([cpu EXCEPT !.pc = @ + 2, !.d = r.d, !.ccr = r.ccr])
    BY <1>5 DEF r
  <2> QED
    BY <1>3, <2>1, <2>3, <2>4 DEF InRange
<1>6. ASSUME NEW v \in Unflagged(cpu.d, cpu.ccr), Do([cpu EXCEPT !.pc = @ + 2, !.d = v]), UNCHANGED cmp
      PROVE  TInv'
  <2> DEFINE c == [cpu EXCEPT !.pc = @ + 2, !.d = v]
  <2>1. v \in Values
    BY <1>1, UnflaggedInRange
  <2>2. /\ IsCpu(c) /\ c.d \in Values /\ c.pc \in Pcs /\ c.mask \in 0..7 /\ c.ccr \subseteq Flags
        /\ c.ccr = cpu.ccr
    BY <1>1, <1>2, <2>1 DEF IsCpu
  <2>3. Do(c)
    BY <1>6
  <2> HIDE DEF c
  <2>4. CpuOK(cpu') /\ cpu'.ccr = cpu.ccr
    BY <2>2, <2>3, DoTyped
  <2>5. Speaks(cmp', cpu'.ccr)
    BY <1>6, <2>4 DEF TInv
  <2> QED
    BY <1>2, <2>4, <2>5, SameTyped
<1> QED
  BY <1>4, <1>5, <1>6 DEF Arithmetic

(* Steps that put nothing on the stack and take nothing from it. *)
LEMMA OtherTyped ==
  ASSUME IInv, TInv, FetchFault \/ Stop \/ Branch \/ MoveToSr \/ Unknown \/ UNCHANGED vars
  PROVE  TInv'
<1>1. /\ IsCpu(cpu) /\ cpu.a7 \in Int /\ IsMem(mem) /\ MemOK(mem)
      /\ cpu.d \in Values /\ cpu.pc \in Pcs /\ cpu.mask \in 0..7 /\ cpu.ccr \subseteq Flags
      /\ cpu.halt \in BOOLEAN
  BY TypedFields
<1>2. CASE FetchFault
  BY <1>1, <1>2, FailTyped DEF FetchFault, TInv
<1>3. CASE Unknown
  <2> PICK n \in {2, 4, 6, 8, 10}, ccr \in {cpu.ccr, cpu.ccr \union {"Z"}, cpu.ccr \ {"Z"}} :
        FailWith([cpu EXCEPT !.pc = @ + n, !.ccr = ccr], mem)
    BY <1>3 DEF Unknown
  <2> DEFINE c == [cpu EXCEPT !.pc = @ + n, !.ccr = ccr]
  <2>1. cpu.pc + n \in Pcs
    BY <1>3, EvenPcs DEF Unknown, Fetched
  <2>2. ccr \subseteq Flags
    BY <1>1 DEF Flags
  <2>3. IsCpu(c) /\ c.d = cpu.d /\ c.pc = cpu.pc + n /\ c.mask = cpu.mask /\ c.ccr = ccr /\ c.halt = cpu.halt
    BY <1>1 DEF IsCpu
  <2>4. FailWith(c, mem)
    OBVIOUS
  <2> HIDE DEF c
  <2>5. c.halt \in BOOLEAN
    BY <1>1, <2>3, Zenon
  <2>6. CpuOK(c)
    BY <1>1, <2>1, <2>2, <2>3, <2>5 DEF CpuOK
  <2> QED
    BY <1>1, <2>4, <2>6, FailTyped
<1>4. CASE Stop
  <2> DEFINE c == [cpu EXCEPT !.pc = @ + 4, !.halt = TRUE]
  <2>1. cpu.pc + 4 \in Pcs /\ cpu' = c /\ UNCHANGED <<frames, mem, faults, cmp>>
    BY <1>4, EvenPcs DEF Stop, Fetched
  <2>2. /\ IsCpu(c) /\ c.d = cpu.d /\ c.pc \in Pcs /\ c.mask = cpu.mask /\ c.ccr = cpu.ccr
        /\ c.halt = TRUE
    BY <1>1, <2>1 DEF IsCpu
  <2>3. c.halt \in BOOLEAN
    BY <2>2, Zenon
  <2> HIDE DEF c
  <2>4. CpuOK(cpu') /\ cpu'.ccr = cpu.ccr
    BY <1>1, <2>1, <2>2, <2>3 DEF CpuOK
  <2> QED
    BY <2>1, <2>4, SameTyped DEF TInv
<1>5. CASE Branch
  <2> PICK next \in UNION { IF Cc(cond, cpu.ccr) THEN Targets ELSE {cpu.pc + 2, cpu.pc + 4} : cond \in Conditions } :
        Do([cpu EXCEPT !.pc = next])
    BY <1>5 DEF Branch
  <2> DEFINE c == [cpu EXCEPT !.pc = next]
  <2>1. next \in Targets \/ next \in {cpu.pc + 2, cpu.pc + 4}
    <3>1. PICK cond \in Conditions : next \in IF Cc(cond, cpu.ccr) THEN Targets ELSE {cpu.pc + 2, cpu.pc + 4}
      OBVIOUS
    <3> QED
      BY <3>1
  <2>2. next \in Pcs
    BY <1>5, <2>1, EvenPcs DEF Branch, Fetched
  <2>3. /\ IsCpu(c) /\ c.d \in Values /\ c.pc \in Pcs /\ c.mask \in 0..7 /\ c.ccr \subseteq Flags
        /\ c.ccr = cpu.ccr
    BY <1>1, <2>2 DEF IsCpu
  <2>4. Do(c) /\ UNCHANGED <<frames, mem, faults, cmp>>
    BY <1>5 DEF Branch
  <2> HIDE DEF c
  <2>5. CpuOK(cpu') /\ cpu'.ccr = cpu.ccr
    BY <2>3, <2>4, DoTyped
  <2> QED
    BY <2>4, <2>5, SameTyped DEF TInv
<1>6. CASE MoveToSr
  <2> PICK m \in IrqLevels \union {0, cpu.mask} :
        Do([cpu EXCEPT !.pc = @ + 2, !.mask = m, !.ccr = FlagsOf(cpu.d)])
    BY <1>6 DEF MoveToSr
  <2> DEFINE c == [cpu EXCEPT !.pc = @ + 2, !.mask = m, !.ccr = FlagsOf(cpu.d)]
  <2>1. m \in 0..7 /\ cpu.pc + 2 \in Pcs /\ FlagsOf(cpu.d) \subseteq Flags
    <3>1. FlagsOf(cpu.d) \subseteq Flags
      BY DEF FlagsOf
    <3>2. m \in 0..7
      BY <1>1, EvenPcs
    <3> QED
      BY <1>6, <3>1, <3>2, EvenPcs DEF MoveToSr, Fetched
  <2> DEFINE f == FlagsOf(cpu.d)
  <2> HIDE DEF f
  <2>2. IsCpu(c) /\ c.d \in Values /\ c.pc \in Pcs /\ c.mask \in 0..7 /\ c.ccr \subseteq Flags
    BY <1>1, <2>1 DEF IsCpu
  <2>3. Do(c) /\ UNCHANGED <<frames, mem, faults>> /\ cmp' = <<>>
    BY <1>6 DEF MoveToSr
  <2> HIDE DEF c
  <2>4. CpuOK(cpu')
    BY <2>2, <2>3, DoTyped
  <2>5. Speaks(cmp', cpu'.ccr)
    BY <2>3 DEF Speaks
  <2> QED
    BY <2>3, <2>4, <2>5, SameTyped
<1>7. CASE UNCHANGED vars
  BY <1>7 DEF vars, TInv
<1> QED
  BY <1>2, <1>3, <1>4, <1>5, <1>6, <1>7

(* The reset state is typed, and no comparison is under way. *)
LEMMA TInvInit == Init => TInv
<1> SUFFICES ASSUME Init PROVE TInv
  OBVIOUS
<1>1. CpuOK(cpu)
  <2> DEFINE c == [d |-> 0, a7 |-> StackTop, pc |-> 0, mask |-> 0, ccr |-> {}, halt |-> FALSE]
  <2>1. cpu = c /\ StackTop \in Int /\ CodeEnd \in Nat
    BY CoreAssumption DEF Init, CoreAssumption
  <2>2. /\ IsCpu(c) /\ c.d = 0 /\ c.pc = 0 /\ c.mask = 0 /\ c.ccr = {} /\ c.halt = FALSE
    BY <2>1 DEF IsCpu
  <2>3. c.halt \in BOOLEAN
    BY <2>2, Zenon
  <2>4. 0 \in Values
    BY ValuesAreInts DEF Values
  <2>5. 0 \in Pcs
    BY <2>1 DEF Pcs
  <2> HIDE DEF c
  <2> QED
    BY <2>1, <2>2, <2>3, <2>4, <2>5 DEF CpuOK
<1>2. MemOK(mem)
  <2>1. CellOK(Half("zero", 0))
    BY DEF CellOK, Half
  <2> QED
    BY <2>1 DEF Init, MemOK, IsMem
<1>3. frames = <<>> /\ cmp = <<>> /\ faults = 0
  BY DEF Init
<1>4. Len(<<>>) = 0 /\ IsSeq(<<>>)
  BY DEF IsSeq
<1> QED
  BY <1>1, <1>2, <1>3, <1>4 DEF TInv, AreFrames, FramesSpeak, Speaks

(* Every step keeps the invariant, and no branch goes against its comparison. *)
LEMMA EveryStepTyped ==
  ASSUME IInv, TInv, [Next]_vars
  PROVE  IInv' /\ TInv'
<1>1. IInv'
  BY EveryStep DEF Good
<1>2. TInv'
  BY <1>1, TakeInterruptTyped, CallsTyped, RtsTyped, RteTyped, PushOfDataTyped, PopOfDataTyped,
     ArithmeticTyped, OtherTyped DEF Next
<1> QED
  BY <1>1, <1>2
-----------------------------------------------------------------------------
(* Whatever is computed, a register keeps its width, the pc stays even and *)
(* next to the program, and until a step fails the frames of the program   *)
(* lie one below the other down to the stack pointer.                      *)
THEOREM TypeCorrect == Spec => []TypeOK
<1>1. ASSUME IInv, TInv PROVE TypeOK
  <2>1. /\ cpu.d \in Values /\ cpu.pc \in Pcs /\ cpu.mask \in 0..7 /\ cpu.ccr \subseteq Flags
        /\ cpu.halt \in BOOLEAN /\ DOMAIN mem = Cells
    BY <1>1, TypedFields DEF IsMem
  <2>2. ASSUME faults = 0
        PROVE  /\ \A i \in DOMAIN frames : frames[i].at + SizeOf(frames[i]) = Ceiling(i)
               /\ cpu.a7 = Ceiling(Len(frames) + 1)
    <3>1. Laid(frames, mem, cpu.a7)
      BY <1>1, <2>2 DEF IInv
    <3>2. DOMAIN frames = 1..Len(frames)
      BY <3>1 DEF Laid, IsSeq
    <3> QED
      BY <3>1, <3>2 DEF Laid, Above, Ceiling
  <2> QED
    BY <2>1, <2>2 DEF TypeOK
<1>2. IInv /\ TInv /\ [Next]_vars => IInv' /\ TInv'
  BY EveryStepTyped
<1> QED
  BY IInvInit, TInvInit, <1>1, <1>2, PTL DEF Spec

(* A branch after a comparison decides as the operands do, signed and      *)
(* unsigned, for every width of a long and however many interrupts came in *)
(* between.                                                                *)
THEOREM ComparisonsHold == Spec => []ComparisonsSurvive
<1>1. ASSUME TInv PROVE ComparisonsSurvive
  <2> SUFFICES ASSUME cmp # <<>>, NEW cond \in Conditions
               PROVE  Cc(cond, cpu.ccr) = Relation(cond, cmp[1], cmp[2])
    BY DEF ComparisonsSurvive
  <2>1. cmp[1] \in Values /\ cmp[2] \in Values /\ cpu.ccr = CmpFlags(cmp[1], cmp[2])
    BY <1>1 DEF TInv, Speaks
  <2> QED
    BY <2>1, FlagsTellRelation
<1>2. IInv /\ TInv /\ [Next]_vars => IInv' /\ TInv'
  BY EveryStepTyped
<1> QED
  BY IInvInit, TInvInit, <1>1, <1>2, PTL DEF Spec
=============================================================================
