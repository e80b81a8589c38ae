------------------------------ MODULE PpcProofs ------------------------------
(***************************************************************************)
(* Theorems about PpcCore for every geometry of the address space, every   *)
(* page table, every program and every placement of memory.                *)
(***************************************************************************)
EXTENDS PpcCore, WellFoundedInduction, TLAPS

Cpus == [pc : Addresses, lr : Addresses, ra : Addresses, rd : Addresses, msr : SUBSET Bits,
         srr0 : Addresses, srr1 : SUBSET Bits, halt : BOOLEAN]

Typed == cpu \in Cpus /\ mem \in [Ram -> Addresses] /\ irq \in BOOLEAN

\* While the context of an interrupt is kept no second interrupt is taken:
\* that is why the first one to come is the only one.
Closed == ctx.open => "EE" \notin cpu.msr
-----------------------------------------------------------------------------
(* There is a first address. *)
LEMMA SomeAddress == AddrSpace \in Nat /\ AddrSpace > 0 /\ 0 \in Addresses
<1>1. PageSize \in Nat /\ PageSize > 0 /\ SegPages \in Nat /\ SegPages > 0 /\ Segments \in Nat /\ Segments > 0
  BY MmuAssumption
<1>2. \A m, n \in Nat : m > 0 /\ n > 0 => m * n \in Nat /\ m * n > 0
  OBVIOUS
<1>3. SegSize \in Nat /\ SegSize > 0
  BY <1>1, <1>2 DEF SegSize
<1>4. AddrSpace \in Nat /\ AddrSpace > 0
  BY <1>1, <1>2, <1>3 DEF AddrSpace
<1> QED
  BY <1>4 DEF Addresses

(* Whatever is added to an address, the sum wraps into the address space. *)
LEMMA Wraps ==
  ASSUME NEW a \in Addresses, NEW d \in {0, 1}
  PROVE  (a + d) % AddrSpace \in Addresses
<1>1. a + d \in Nat
  BY SomeAddress DEF Addresses
<1>2. \A n \in Nat, m \in Nat : m > 0 => n % m \in 0..(m - 1)
  OBVIOUS
<1> QED
  BY <1>1, <1>2, SomeAddress DEF Addresses

(* The constants of the core are of their types. *)
LEMMA ConstantTypes ==
  /\ Vector \in Addresses /\ Values \subseteq Addresses /\ Targets \subseteq Addresses
  /\ \A m \in Modes : m \in SUBSET Bits
  BY CoreAssumption

(* The pc of the next instruction is an address. *)
LEMMA NextPcType ==
  ASSUME Typed
  PROVE  NextPc \in Addresses
<1>1. cpu.pc \in Addresses
  BY DEF Typed, Cpus
<1> QED
  BY <1>1, Wraps DEF NextPc
-----------------------------------------------------------------------------
(* Every step keeps the types. *)
LEMMA TypedStep ==
  ASSUME Typed, [Next]_vars
  PROVE  Typed'
<1> USE DEF Do, Fail
<1>1. NextPc \in Addresses
  BY NextPcType
<1>2. \A c \in Cpus, b \in BOOLEAN : [c EXCEPT !.halt = b] \in Cpus
  BY DEF Cpus
<1>3. [cpu EXCEPT !.pc = NextPc] \in Cpus
  BY <1>1 DEF Typed, Cpus
<1>4. CASE Interrupt
  <2>1. EntryMode \in SUBSET Bits
    BY DEF EntryMode, Typed, Cpus
  <2>2. [cpu EXCEPT !.srr0 = cpu.pc, !.srr1 = cpu.msr, !.msr = EntryMode, !.pc = Vector] \in Cpus
    BY <2>1, ConstantTypes DEF Typed, Cpus
  <2> QED
    BY <1>2, <1>4, <2>2 DEF Interrupt, Typed
<1>5. CASE FetchFault
  BY <1>2, <1>5 DEF FetchFault, Typed
<1>6. CASE Illegal
  BY <1>2, <1>3, <1>6 DEF Illegal, Typed
<1>7. CASE Arithmetic
  <2>1. \A v \in Values, r \in {"ra", "rd"} : Computed(r, v) \in Cpus
    BY <1>1, ConstantTypes DEF Computed, Typed, Cpus
  <2> QED
    BY <1>2, <1>7, <2>1 DEF Arithmetic, Typed
<1>8. CASE Load
  <2> SUFFICES ASSUME NEW d \in {0, 1}, NEW upd \in BOOLEAN, NEW r \in {"ra", "rd"},
                      NEW p, NEW ea, ea = (cpu.ra + d) % AddrSpace,
                      LET loaded == [cpu EXCEPT !.pc = NextPc, ![r] = IF p \in Ram THEN mem[p] ELSE @]
                      IN  IF p \in Ram THEN Do([loaded EXCEPT !.ra = IF upd THEN ea ELSE @])
                          ELSE Fail(Faulted(ea, upd))
               PROVE  cpu' \in Cpus
    BY <1>8 DEF Load, Typed
  <2>1. ea \in Addresses
    BY Wraps DEF Typed, Cpus
  <2>2. CASE p \in Ram
    <3> DEFINE loaded == [cpu EXCEPT !.pc = NextPc, ![r] = mem[p]]
    <3>1. mem[p] \in Addresses
      BY <2>2 DEF Typed
    <3>2. loaded \in Cpus
      BY <1>1, <3>1 DEF Typed, Cpus
    <3> HIDE DEF loaded
    <3>3. [loaded EXCEPT !.ra = IF upd THEN ea ELSE @] \in Cpus
      BY <2>1, <3>2 DEF Cpus
    <3>4. cpu' = [[loaded EXCEPT !.ra = IF upd THEN ea ELSE @] EXCEPT !.halt = FALSE]
      BY <2>2 DEF loaded
    <3> QED
      BY <1>2, <3>3, <3>4
  <2>3. CASE p \notin Ram
    BY <1>2, <1>3, <2>3 DEF Faulted
  <2> QED
    BY <2>2, <2>3
<1>9. CASE Store
  <2> SUFFICES ASSUME NEW d \in {0, 1}, NEW upd \in BOOLEAN,
                      NEW p, NEW ea, ea = (cpu.ra + d) % AddrSpace,
                      IF p \in Ram
                      THEN /\ mem' = [mem EXCEPT ![p] = cpu.rd]
                           /\ Do([cpu EXCEPT !.pc = NextPc, !.ra = IF upd THEN ea ELSE @])
                      ELSE Fail(Faulted(ea, upd)) /\ UNCHANGED mem
               PROVE  cpu' \in Cpus /\ mem' \in [Ram -> Addresses]
    BY <1>9 DEF Store, Typed
  <2>1. ea \in Addresses
    BY Wraps DEF Typed, Cpus
  <2>2. CASE p \in Ram
    <3>1. [cpu EXCEPT !.pc = NextPc, !.ra = IF upd THEN ea ELSE @] \in Cpus
      BY <1>1, <2>1 DEF Typed, Cpus
    <3>2. cpu.rd \in Addresses
      BY DEF Typed, Cpus
    <3>3. [mem EXCEPT ![p] = cpu.rd] \in [Ram -> Addresses]
      BY <2>2, <3>2 DEF Typed
    <3> QED
      BY <1>2, <2>2, <3>1, <3>3
  <2>3. CASE p \notin Ram
    BY <1>2, <1>3, <2>3 DEF Faulted, Typed
  <2> QED
    BY <2>2, <2>3
<1>10. CASE Branch
  <2>1. \A taken, link \in BOOLEAN, target \in Targets \union {cpu.lr} :
          [cpu EXCEPT !.pc = IF taken THEN target ELSE NextPc, !.lr = IF link THEN NextPc ELSE @] \in Cpus
    BY <1>1, ConstantTypes DEF Typed, Cpus
  <2>2. cpu' \in Cpus
    BY <1>2, <1>10, <2>1 DEF Branch
  <2> QED
    BY <1>10, <2>2 DEF Branch, Typed
<1>11. CASE Rfi
  <2>1. [cpu EXCEPT !.pc = cpu.srr0, !.msr = cpu.srr1] \in Cpus
    BY DEF Typed, Cpus
  <2> QED
    BY <1>2, <1>11, <2>1 DEF Rfi, Typed
<1>12. CASE MoveToMsr
  <2>1. \A m \in Modes : [cpu EXCEPT !.pc = NextPc, !.msr = m] \in Cpus
    BY <1>1, ConstantTypes DEF Typed, Cpus
  <2> QED
    BY <1>2, <1>12, <2>1 DEF MoveToMsr, Typed
<1>13. CASE MoveToSrr
  <2>1. \A t \in Targets : [cpu EXCEPT !.pc = NextPc, !.srr0 = t] \in Cpus
    BY <1>1, ConstantTypes DEF Typed, Cpus
  <2>2. \A m \in Modes : [cpu EXCEPT !.pc = NextPc, !.srr1 = m] \in Cpus
    BY <1>1, ConstantTypes DEF Typed, Cpus
  <2> QED
    BY <1>2, <1>13, <2>1, <2>2 DEF MoveToSrr, Typed
<1>14. CASE Raise
  BY <1>14 DEF Raise, Typed
<1>15. CASE Kernel
  BY <1>15 DEF Kernel, Typed
<1>16. CASE UNCHANGED vars
  BY <1>16 DEF vars, Typed
<1> QED
  BY <1>4, <1>5, <1>6, <1>7, <1>8, <1>9, <1>10, <1>11, <1>12, <1>13, <1>14, <1>15, <1>16 DEF Next, Program

(* The core comes out of reset well typed. *)
LEMMA TypedInit == Init => Typed
<1> SUFFICES ASSUME Init PROVE Typed
  OBVIOUS
<1>1. cpu \in Cpus
  BY SomeAddress DEF Init, Cpus
<1>2. mem \in [Ram -> Addresses]
  BY SomeAddress DEF Init
<1> QED
  BY <1>1, <1>2 DEF Init, Typed

(* Registers, memory and the mode bits keep their types, at the end of the *)
(* address space too.                                                      *)
THEOREM TypeCorrect == Spec => []TypeOK
<1>1. Typed => TypeOK
  <2> SUFFICES ASSUME Typed PROVE TypeOK
    OBVIOUS
  <2>1. {cpu.pc, cpu.lr, cpu.ra, cpu.rd, cpu.srr0} \subseteq Addresses
    BY DEF Typed, Cpus
  <2>2. {cpu.msr, cpu.srr1} \subseteq SUBSET Bits /\ cpu.halt \in BOOLEAN
    BY DEF Typed, Cpus
  <2> QED
    BY <2>1, <2>2 DEF Typed, TypeOK
<1> QED
  BY <1>1, TypedInit, TypedStep, PTL DEF Spec
-----------------------------------------------------------------------------
(* A step that fails changes nothing but the pc, wherever it fails. *)
THEOREM FaultsPrecise == Spec => FaultsArePrecise
<1> DEFINE Precise == cpu'.halt =>
       /\ cpu' = [cpu EXCEPT !.pc = cpu'.pc, !.halt = TRUE] /\ mem' = mem
       /\ cpu'.pc = cpu.pc \/ (cpu'.pc = NextPc /\ Fetches(cpu.pc))
<1>1. ASSUME Typed, [Next]_vars PROVE Precise
  <2> USE DEF Do, Fail
  <2>0. cpu \in Cpus
    BY <1>1 DEF Typed
  <2>1. \A c \in Cpus : cpu' = [c EXCEPT !.halt = FALSE] => ~cpu'.halt
    BY DEF Cpus
  <2>2. ASSUME cpu' = [[cpu EXCEPT !.pc = NextPc] EXCEPT !.halt = TRUE], mem' = mem, Fetched
        PROVE  Precise
    BY <2>0, <2>2 DEF Cpus, Fetched
  <2>3. cpu' = cpu /\ mem' = mem => Precise
    BY <2>0 DEF Cpus
  <2> HIDE DEF Precise
  <2>4. ~cpu'.halt => Precise
    BY DEF Precise
  <2>5. ASSUME NEW c, DOMAIN c = DOMAIN cpu, cpu' = [c EXCEPT !.halt = FALSE]
        PROVE  ~cpu'.halt
    BY <2>0, <2>5 DEF Cpus
  <2>6. CASE Interrupt
    BY <2>4, <2>5, <2>6 DEF Interrupt
  <2>7. CASE FetchFault
    BY <2>0, <2>7 DEF FetchFault, Cpus, Precise
  <2>8. CASE Illegal
    BY <2>2, <2>8 DEF Illegal
  <2>9. CASE Arithmetic
    BY <2>4, <2>5, <2>9 DEF Arithmetic, Computed
  <2>10. CASE Load
    BY <2>2, <2>4, <2>5, <2>10 DEF Load, Faulted
  <2>11. CASE Store
    BY <2>2, <2>4, <2>5, <2>11 DEF Store, Faulted
  <2>12. CASE Branch
    BY <2>4, <2>5, <2>12 DEF Branch
  <2>13. CASE Rfi \/ MoveToMsr \/ MoveToSrr
    BY <2>4, <2>5, <2>13 DEF Rfi, MoveToMsr, MoveToSrr
  <2>14. CASE Raise \/ Kernel \/ UNCHANGED vars
    BY <2>3, <2>14 DEF Raise, Kernel, vars
  <2> QED
    BY <1>1, <2>6, <2>7, <2>8, <2>9, <2>10, <2>11, <2>12, <2>13, <2>14 DEF Next, Program
<1>2. Typed /\ [Next]_vars => [Precise]_vars
  BY <1>1
<1> QED
  BY <1>2, TypedInit, TypedStep, PTL DEF Spec, FaultsArePrecise
-----------------------------------------------------------------------------
(* The context of the first interrupt stays in SRR0 and SRR1 until its     *)
(* handler is over, whatever fails on the way.                             *)
THEOREM ContextIsKept == Spec => []ContextKept
<1> DEFINE IInv == Typed /\ Closed /\ ContextKept
<1>1. Init => IInv
  <2>1. Init => ~ctx.open
    BY DEF Init, NoContext
  <2> QED
    BY <2>1, TypedInit DEF Closed, ContextKept
<1>2. ASSUME IInv, [Next]_vars PROVE (Closed /\ ContextKept)'
  <2> USE DEF Do, Fail, Closed, ContextKept
  <2>0. cpu \in Cpus
    BY <1>2 DEF Typed
  <2>1. ASSUME cpu'.msr = cpu.msr, cpu'.srr0 = cpu.srr0, cpu'.srr1 = cpu.srr1, ctx' = ctx
        PROVE  (Closed /\ ContextKept)'
    BY <1>2, <2>1
  <2>2. ctx' = NoContext => (Closed /\ ContextKept)'
    BY DEF NoContext
  <2>3. CASE Interrupt
    <3>1. ~ctx.open
      BY <1>2, <2>3 DEF Interrupt, Takes
    <3>2. ctx' = [open |-> TRUE, pc |-> cpu.pc, msr |-> cpu.msr]
      BY <2>3, <3>1 DEF Interrupt
    <3>3. cpu'.srr0 = cpu.pc /\ cpu'.srr1 = cpu.msr /\ cpu'.msr = EntryMode
      BY <2>0, <2>3 DEF Interrupt, Cpus
    <3> QED
      BY <3>2, <3>3 DEF EntryMode
  <2>4. CASE FetchFault \/ Illegal
    BY <2>0, <2>1, <2>4 DEF FetchFault, Illegal, Cpus
  <2>5. CASE Arithmetic
    BY <2>0, <2>1, <2>5 DEF Arithmetic, Computed, Cpus
  <2>6. CASE Load
    BY <2>0, <2>1, <2>6 DEF Load, Faulted, Cpus
  <2>7. CASE Store
    BY <2>0, <2>1, <2>7 DEF Store, Faulted, Cpus
  <2>8. CASE Branch
    BY <2>0, <2>1, <2>8 DEF Branch, Cpus
  <2>9. CASE Rfi \/ MoveToSrr
    BY <2>2, <2>9 DEF Rfi, MoveToSrr
  <2>10. CASE MoveToMsr
    <3> PICK m \in Modes : /\ cpu' = [[cpu EXCEPT !.pc = NextPc, !.msr = m] EXCEPT !.halt = FALSE]
                           /\ ctx' = IF "EE" \in m THEN NoContext ELSE ctx
      BY <2>10 DEF MoveToMsr
    <3>1. cpu'.msr = m /\ cpu'.srr0 = cpu.srr0 /\ cpu'.srr1 = cpu.srr1
      BY <2>0 DEF Cpus
    <3> QED
      BY <1>2, <2>2, <3>1
  <2>11. CASE Raise \/ Kernel \/ UNCHANGED vars
    BY <2>1, <2>11 DEF Raise, Kernel, vars
  <2> QED
    BY <1>2, <2>3, <2>4, <2>5, <2>6, <2>7, <2>8, <2>9, <2>10, <2>11 DEF Next, Program
<1>3. IInv /\ [Next]_vars => IInv'
  BY <1>2, TypedStep
<1>4. IInv => ContextKept
  OBVIOUS
<1> QED
  BY <1>1, <1>3, <1>4, PTL DEF Spec
-----------------------------------------------------------------------------
(* Arithmetic of addresses *)

(* A set of natural numbers has a least one. *)
LEMMA LeastOf ==
  ASSUME NEW S, S \subseteq Nat, S # {}
  PROVE  Min(S) \in S
<1> DEFINE R == OpToRel(<, Nat)
<1>1. \E x \in S : \A y \in S : ~(<<y, x>> \in R)
  <2>1. IsWellFoundedOn(R, Nat)
    BY NatLessThanWellFounded
  <2> HIDE DEF R
  <2> QED
    BY <2>1, WFMin
<1>2. PICK x \in S : \A y \in S : ~(<<y, x>> \in R)
  BY <1>1
<1>3. \A y \in S : x <= y
  <2>1. ASSUME NEW y \in S PROVE ~(y < x)
    BY <1>2 DEF OpToRel
  <2>2. x \in Nat /\ \A y \in S : y \in Nat
    OBVIOUS
  <2> QED
    BY <2>1, <2>2
<1> QED
  BY <1>3 DEF Min

(* Quotient and remainder are the only numbers of their kind. *)
LEMMA OneQuotient ==
  ASSUME NEW n \in Nat \ {0}, NEW q \in Nat, NEW r \in 0..(n - 1)
  PROVE  (n * q + r) \div n = q /\ (n * q + r) % n = r
<1> DEFINE x == n * q + r  y == x % n  t == x \div n
<1>1. x \in Int
  OBVIOUS
<1>2. y \in 0..(n - 1) /\ t \in Int /\ x = n * t + y
  <2>1. n \in Int /\ n > 0
    OBVIOUS
  <2> HIDE DEF x
  <2>2. y \in 0..(n - 1) /\ t \in Int
    BY <1>1, <2>1
  <2>3. x = n * t + y
    BY <1>1, <2>1
  <2> QED
    BY <2>2, <2>3
<1> HIDE DEF y, t
<1>3. n * (q - t) = y - r
  <2>1. n * (q - t) = n * q - n * t /\ n * q \in Int /\ n * t \in Int
    BY <1>2
  <2>2. n * q + r = n * t + y
    BY <1>2
  <2> QED
    BY <1>2, <2>1, <2>2
<1>4. q - t = 0
  <2> DEFINE z == q - t
  <2>1. z \in Int /\ n * z < n /\ n * z > -n
    BY <1>2, <1>3
  <2> HIDE DEF z
  <2>2. ASSUME z >= 1 PROVE FALSE
    <3>1. \A u \in Nat : n * u \in Nat
      OBVIOUS
    <3>2. z - 1 \in Nat /\ n * (z - 1) = n * z - n
      BY <2>1, <2>2
    <3>3. n * (z - 1) \in Nat
      BY <3>1, <3>2
    <3> QED
      BY <2>1, <3>2, <3>3
  <2>3. ASSUME z <= -1 PROVE FALSE
    <3>1. \A u \in Nat : n * u \in Nat
      OBVIOUS
    <3>2. -z - 1 \in Nat /\ n * (-z - 1) = -(n * z) - n
      BY <2>1, <2>3
    <3>3. n * (-z - 1) \in Nat
      BY <3>1, <3>2
    <3> QED
      BY <2>1, <3>2, <3>3
  <2> QED
    BY <2>1, <2>2, <2>3 DEF z
<1>5. t = q /\ y = r
  BY <1>2, <1>3, <1>4
<1> QED
  BY <1>5 DEF y, t

(* What whole pages are made of: where an address lies among things of k     *)
(* pages, and where in the thing, its offset in the page left aside.         *)
LEMMA WholePages ==
  ASSUME NEW k \in Nat \ {0}, NEW a \in Nat
  PROVE  LET m == PageSize * k  start == a - (a % PageSize) IN
         /\ start \in Nat /\ start \div m = a \div m
         /\ a % m = (start % m) + (a % PageSize)
         /\ start \div PageSize = a \div PageSize /\ start % PageSize = 0
         /\ a % PageSize \in 0..(PageSize - 1) /\ start + (a % PageSize) = a
<1> DEFINE n == PageSize  q == a \div n  r == a % n  u == q % k  t == q \div k  m == n * k
           start == a - r
<1>1. n \in Nat \ {0}
  BY MmuAssumption
<1> HIDE DEF n
<1>2. r \in 0..(n - 1) /\ q \in Nat /\ a = n * q + r
  <2>1. n \in Int /\ n > 0
    BY <1>1
  <2>2. r \in 0..(n - 1) /\ q \in Nat
    BY <2>1
  <2>3. a = n * q + r
    BY <2>1
  <2> QED
    BY <2>2, <2>3
<1> HIDE DEF q, r
<1>3. u \in 0..(k - 1) /\ t \in Nat /\ q = k * t + u
  <2>1. k \in Int /\ k > 0
    OBVIOUS
  <2>2. u \in 0..(k - 1) /\ t \in Nat
    BY <1>2, <2>1
  <2>3. q = k * t + u
    BY <1>2, <2>1
  <2> QED
    BY <2>2, <2>3
<1> HIDE DEF u, t
<1>4. m \in Nat \ {0} /\ n * u \in Nat /\ n * u + n <= m
  <2>1. \A i, j \in Nat : i * j \in Nat /\ (i # 0 /\ j # 0 => i * j # 0)
    OBVIOUS
  <2>2. k - 1 - u \in Nat
    BY <1>3
  <2>3. n * (k - 1 - u) \in Nat
    BY <1>1, <2>1, <2>2
  <2>4. n * (k - 1 - u) = n * k - n - n * u
    BY <1>1, <1>3
  <2>5. n * k \in Nat \ {0} /\ n * u \in Nat
    BY <1>1, <1>3, <2>1
  <2> QED
    BY <1>1, <2>3, <2>4, <2>5
<1>5. n * q = m * t + n * u
  <2>1. n * (k * t + u) = (n * k) * t + n * u
    BY <1>1, <1>3
  <2> QED
    BY <1>3, <2>1
<1>6. n * q \in Nat /\ start = n * q
  <2>1. n * q \in Nat
    BY <1>1, <1>2
  <2> QED
    BY <1>2, <2>1
<1> HIDE DEF m
<1>7. n * u \in 0..(m - 1) /\ n * u + r \in 0..(m - 1)
  BY <1>1, <1>2, <1>4
<1>8. (m * t + n * u) \div m = t /\ (m * t + n * u) % m = n * u
  BY <1>3, <1>4, <1>7, OneQuotient
<1>9. (m * t + (n * u + r)) \div m = t /\ (m * t + (n * u + r)) % m = n * u + r
  BY <1>3, <1>4, <1>7, OneQuotient
<1>10. a = m * t + (n * u + r)
  <2>1. m * t \in Int
    BY <1>3, <1>4
  <2> QED
    BY <1>2, <1>4, <1>5, <2>1
<1>11. start = m * t + n * u
  BY <1>5, <1>6
<1>12. start \div n = q /\ start % n = 0
  <2>1. 0 \in 0..(n - 1) /\ start = n * q + 0
    BY <1>1, <1>6
  <2> QED
    BY <1>1, <1>2, <2>1, OneQuotient
<1>13. /\ start \in Nat /\ start \div m = a \div m /\ a % m = (start % m) + r
       /\ start \div n = q /\ start % n = 0 /\ r \in 0..(n - 1) /\ start + r = a
  BY <1>2, <1>6, <1>8, <1>9, <1>10, <1>11, <1>12
<1> QED
  BY <1>13 DEF n, q, r, m
(* The quotient of a number below n * k is below k. *)
LEMMA QuotientBelow ==
  ASSUME NEW n \in Nat \ {0}, NEW k \in Nat, NEW a \in Nat, a < n * k
  PROVE  a \div n \in Nat /\ a \div n < k
<1> DEFINE t == a \div n  y == a % n
<1>1. t \in Nat /\ y \in 0..(n - 1) /\ a = n * t + y
  <2>1. n \in Int /\ n > 0
    OBVIOUS
  <2>2. t \in Nat /\ y \in 0..(n - 1)
    BY <2>1
  <2>3. a = n * t + y
    BY <2>1
  <2> QED
    BY <2>2, <2>3
<1> HIDE DEF t, y
<1>2. ASSUME t >= k PROVE FALSE
  <2>1. \A i \in Nat : n * i \in Nat
    OBVIOUS
  <2>2. t - k \in Nat /\ n * (t - k) = n * t - n * k
    BY <1>1, <1>2
  <2>3. n * (t - k) \in Nat /\ n * t \in Nat /\ n * k \in Nat
    BY <1>1, <2>1, <2>2
  <2> QED
    BY <1>1, <2>2, <2>3
<1>3. t < k
  BY <1>1, <1>2
<1> QED
  BY <1>1, <1>3 DEF t

(* The segment and the page of an address, and of the start of its page. *)
LEMMA PlaceOf ==
  ASSUME NEW a \in Addresses
  PROVE  LET start == a - (a % PageSize) IN
         /\ Segment(a) \in 0..(Segments - 1) /\ Page(a) \in Groups
         /\ start \in Addresses /\ start % PageSize = 0 /\ a % PageSize \in 0..(PageSize - 1)
         /\ Segment(start) = Segment(a) /\ Page(start) = Page(a)
<1> DEFINE start == a - (a % PageSize)
<1>1. /\ PageSize \in Nat \ {0} /\ SegPages \in Nat \ {0} /\ Segments \in Nat \ {0}
      /\ a \in Nat /\ a < AddrSpace
  BY MmuAssumption, SomeAddress DEF Addresses
<1>2. /\ start \in Nat /\ start \div SegSize = a \div SegSize
      /\ start \div PageSize = a \div PageSize /\ start % PageSize = 0
      /\ a % PageSize \in 0..(PageSize - 1) /\ start + (a % PageSize) = a
  BY <1>1, WholePages DEF SegSize
<1>3. SegSize \in Nat \ {0}
  <2>1. \A i, j \in Nat \ {0} : i * j \in Nat \ {0}
    OBVIOUS
  <2> QED
    BY <1>1, <2>1 DEF SegSize
<1>4. Segment(a) \in 0..(Segments - 1)
  <2>1. a \div SegSize \in Nat /\ a \div SegSize < Segments
    BY <1>1, <1>3, QuotientBelow DEF AddrSpace
  <2> QED
    BY <1>1, <2>1 DEF Segment
<1>5. Page(a) \in Groups
  <2>1. a \div PageSize \in Nat
    BY <1>1
  <2>2. \A q \in Nat, k \in Nat \ {0} : q % k \in 0..(k - 1)
    OBVIOUS
  <2> QED
    BY <1>1, <2>1, <2>2 DEF Page, Groups
<1>6. start \in Addresses
  <2> DEFINE r == a % PageSize
  <2> HIDE DEF start, r
  <2>1. start \in Nat /\ r \in 0..(PageSize - 1) /\ start + r = a
    BY <1>2 DEF r
  <2>2. start \in Nat /\ start < AddrSpace
    BY <1>1, SomeAddress, <2>1
  <2> QED
    BY <2>2, SomeAddress DEF Addresses
<1>7. Segment(start) = Segment(a) /\ Page(start) = Page(a)
  BY <1>2 DEF Segment, Page
<1> QED
  BY <1>2, <1>4, <1>5, <1>6, <1>7

(* A frame lies in the address space. *)
LEMMA FrameBelow ==
  ASSUME NEW f \in Frames
  PROVE  f * PageSize \in Nat /\ f * PageSize < AddrSpace
<1>1. /\ PageSize \in Nat \ {0} /\ SegPages \in Nat \ {0} /\ Segments \in Nat \ {0}
      /\ f \in 0..(SegPages * Segments - 1)
  BY MmuAssumption, TranslationAssumption
<1> DEFINE k == SegPages * Segments
<1>2. k \in Nat /\ AddrSpace = PageSize * k
  BY <1>1 DEF AddrSpace, SegSize
<1> HIDE DEF k
<1>3. k - f \in Nat \ {0} /\ f \in Nat
  BY <1>1, <1>2 DEF k
<1>4. PageSize * (k - f) \in Nat \ {0}
  <2>1. \A i, j \in Nat \ {0} : i * j \in Nat \ {0}
    OBVIOUS
  <2> QED
    BY <1>1, <1>3, <2>1
<1>5. PageSize * (k - f) = PageSize * k - f * PageSize
  BY <1>1, <1>2, <1>3
<1>6. f * PageSize \in Nat /\ PageSize * k \in Nat
  BY <1>1, <1>2, <1>3
<1> QED
  BY <1>2, <1>4, <1>5, <1>6

(* A block covers pages as a whole, and moves each as a whole to where there *)
(* are addresses.                                                            *)
LEMMA BlockOfPages ==
  ASSUME NEW bat, NEW a \in Addresses, bat.brpn \in Addresses,
         BlockSize(bat) \in Nat \ {0}, BlockSize(bat) % PageSize = 0, AddrSpace % BlockSize(bat) = 0
  PROVE  LET start == a - (a % PageSize) IN
         /\ Covers(bat, start) <=> Covers(bat, a)
         /\ Moved(bat, a) = Moved(bat, start) + (a % PageSize)
         /\ Moved(bat, start) # Fault
<1> DEFINE n == BlockSize(bat)  start == a - (a % PageSize)  b == bat.brpn
           k == n \div PageSize  base == b - (b % n)
<1>1. /\ PageSize \in Nat \ {0} /\ a \in Nat /\ b \in Nat /\ b < AddrSpace
      /\ n \in Nat \ {0} /\ AddrSpace \in Nat
  BY MmuAssumption, SomeAddress DEF Addresses
<1> HIDE DEF n, b
<1>2. k \in Nat \ {0} /\ n = PageSize * k
  <2>1. PageSize \in Int /\ PageSize > 0 /\ n \in Int /\ n % PageSize = 0
    BY <1>1 DEF n
  <2>2. n = PageSize * k + (n % PageSize) /\ k \in Int
    BY <2>1
  <2>3. n = PageSize * k
    BY <2>1, <2>2
  <2> HIDE DEF k
  <2>4. ASSUME k <= 0 PROVE FALSE
    <3>1. -k \in Nat
      BY <2>2, <2>4
    <3>2. PageSize * (-k) \in Nat
      BY <1>1, <3>1
    <3>3. PageSize * (-k) = -(PageSize * k)
      BY <1>1, <2>2
    <3> QED
      BY <1>1, <2>3, <3>2, <3>3
  <2> QED
    BY <2>2, <2>3, <2>4
<1> HIDE DEF k
<1>3. /\ start \in Nat /\ start \div n = a \div n /\ a % n = (start % n) + (a % PageSize)
      /\ a % PageSize \in 0..(PageSize - 1)
  BY <1>1, <1>2, WholePages
<1> HIDE DEF start
<1>4. start % n \in 0..(n - 1) /\ b % n \in 0..(n - 1)
  BY <1>1, <1>3
<1>5. base \in Nat /\ base + n <= AddrSpace
  <2> DEFINE t == b \div n  w == AddrSpace \div n
  <2>1. n \in Int /\ n > 0 /\ AddrSpace % n = 0
    BY <1>1 DEF n
  <2>2. t \in Nat /\ b = n * t + (b % n)
    BY <1>1, <2>1
  <2>3. w \in Nat /\ AddrSpace = n * w + (AddrSpace % n)
    BY <1>1, <2>1
  <2>4. AddrSpace = n * w
    BY <1>1, <2>1, <2>3
  <2>5. t < w
    BY <1>1, <2>3, <2>4, QuotientBelow
  <2> HIDE DEF t, w
  <2>6. n * (w - t - 1) \in Nat
    BY <1>1, <2>2, <2>3, <2>5
  <2>7. n * (w - t - 1) = n * w - n * t - n /\ n * t \in Nat /\ n * w \in Nat
    BY <1>1, <2>2, <2>3
  <2>8. base = n * t
    BY <1>4, <2>2, <2>7
  <2> QED
    BY <1>1, <2>4, <2>6, <2>7, <2>8
<1> HIDE DEF base
<1>6. Covers(bat, start) <=> Covers(bat, a)
  BY <1>3 DEF Covers, n
<1>7. Moved(bat, a) = base + (a % n) /\ Moved(bat, start) = base + (start % n)
  BY DEF Moved, base, n, b
<1>8. Moved(bat, a) = Moved(bat, start) + (a % PageSize)
  BY <1>1, <1>3, <1>4, <1>5, <1>7
<1>9. Moved(bat, start) # Fault
  BY <1>1, <1>4, <1>5, <1>7 DEF Fault
<1> QED
  BY <1>6, <1>8, <1>9 DEF start
-----------------------------------------------------------------------------
(* The page table and what the kernel has in it *)

Ptes == [vsid : Nat, second : BOOLEAN, api : Nat, rpn : Nat]
Mmus == [ibat : { b.ibat : b \in Bats }, dbat : { b.dbat : b \in Bats }, sdr1 : BOOLEAN,
         sr : [0..(Segments - 1) -> Vsids \union {0}], table : [Groups -> [Slots -> Ptes]]]
Mappings == [vsid : Vsids, page : Groups, frame : Frames, group : Groups, slot : Slots]

GroupOf(vsid, page, second) == IF second THEN SecondGroup(vsid, page) ELSE Hash(vsid, page)

\* An entry of the table says of a page what the kernel has put down.
Kept(m) ==
  \E second \in BOOLEAN :
    /\ mmu.table[m.group][m.slot] = Entry(m.vsid, m.page, second, m.frame)
    /\ m.group = GroupOf(m.vsid, m.page, second)

AllKept == \A m \in mapped : Kept(m)

\* A page has one entry, and an entry one page.
OneEntry ==
  \A m, n \in mapped :
    (m.vsid = n.vsid /\ m.page = n.page) \/ (m.group = n.group /\ m.slot = n.slot) => m = n

\* Nothing is in the table that the kernel has not put there.
NothingElse ==
  \A g \in Groups, s \in Slots :
    Present(mmu.table[g][s]) => \E m \in mapped : m.group = g /\ m.slot = s

MapTyped == mmu \in Mmus /\ mapped \subseteq Mappings

MapInv == MapTyped /\ AllKept /\ OneEntry /\ NothingElse

(* A page has its groups and a valid entry, the api of which is the page's   *)
(* own only if that is odd.                                                  *)
LEMMA EntryFacts ==
  ASSUME NEW v \in Vsids \union {0}, NEW page \in Groups, NEW second \in BOOLEAN, NEW f \in Frames
  PROVE  /\ Entry(v, page, second, f) \in Ptes /\ Present(Entry(v, page, second, f))
         /\ GroupOf(v, page, second) \in Groups
         /\ Entry(v, page, second, f).api = Api(page) <=> Api(page) % 2 = 1
<1> DEFINE p == Api(page)  q == p + (1 - (p % 2))
<1>1. page \in Nat /\ ApiPages \in Nat \ {0} /\ v \in Nat /\ f \in Nat /\ SegPages \in Nat \ {0}
  BY MmuAssumption, TranslationAssumption DEF Groups
<1>2. p \in Nat
  BY <1>1 DEF Api
<1> HIDE DEF p
<1>3. q \in Nat /\ q % 2 = 1 /\ (q = p <=> p % 2 = 1)
  BY <1>2
<1> HIDE DEF q
<1>4. Entry(v, page, second, f) = [vsid |-> v, second |-> second, api |-> q, rpn |-> f]
  BY DEF Entry, p, q
<1>5. Hash(v, page) \in 0..(SegPages - 1)
  BY TranslationAssumption DEF Groups
<1>6. GroupOf(v, page, second) \in Groups
  BY <1>1, <1>5 DEF GroupOf, SecondGroup, Groups
<1> QED
  BY <1>1, <1>3, <1>4, <1>6 DEF Ptes, Present, p

(* Within a segment a group belongs to one page, for either hash. *)
LEMMA OneGroup ==
  ASSUME NEW v \in Vsids \union {0}, NEW p \in Groups, NEW q \in Groups, NEW second \in BOOLEAN,
         GroupOf(v, p, second) = GroupOf(v, q, second)
  PROVE  p = q
<1>1. Hash(v, p) \in Groups /\ Hash(v, q) \in Groups /\ SegPages \in Nat
  BY TranslationAssumption, MmuAssumption
<1>2. Hash(v, p) = Hash(v, q)
  BY <1>1 DEF GroupOf, SecondGroup, Groups
<1> QED
  BY <1>2, TranslationAssumption

(* A store into the table changes one entry. *)
LEMMA TableWritten ==
  ASSUME MapTyped, NEW g \in Groups, NEW s \in Slots, NEW e \in Ptes,
         mmu' = [mmu EXCEPT !.table[g][s] = e]
  PROVE  /\ mmu' \in Mmus
         /\ \A i \in Groups, j \in Slots :
              mmu'.table[i][j] = IF i = g /\ j = s THEN e ELSE mmu.table[i][j]
<1> DEFINE t == mmu.table  row == [t[g] EXCEPT ![s] = e]  u == [t EXCEPT ![g] = row]
<1>1. t \in [Groups -> [Slots -> Ptes]]
  BY DEF MapTyped, Mmus
<1>2. mmu' = [mmu EXCEPT !.table = u]
  OBVIOUS
<1>3. mmu'.table = u /\ (u \in [Groups -> [Slots -> Ptes]] => mmu' \in Mmus)
  BY <1>2 DEF MapTyped, Mmus
<1> HIDE DEF t, u
<1>4. row \in [Slots -> Ptes] /\ \A j \in Slots : row[j] = IF j = s THEN e ELSE t[g][j]
  BY <1>1
<1> HIDE DEF row
<1>5. u \in [Groups -> [Slots -> Ptes]] /\ \A i \in Groups : u[i] = IF i = g THEN row ELSE t[i]
  BY <1>1, <1>4 DEF u
<1> QED
  BY <1>3, <1>4, <1>5 DEF t

(* An empty entry is one, and not valid. *)
LEMMA EmptyFacts == Empty \in Ptes /\ ~Present(Empty)
  BY DEF Empty, Ptes, Present

(* What the kernel has in the table is valid. *)
LEMMA MappedPresent ==
  ASSUME MapInv, NEW m \in mapped
  PROVE  /\ m \in Mappings /\ Present(mmu.table[m.group][m.slot])
<1>1. m \in Mappings /\ Kept(m)
  BY DEF MapInv, MapTyped, AllKept
<1>2. m.vsid \in Vsids \union {0} /\ m.page \in Groups /\ m.frame \in Frames
  BY <1>1 DEF Mappings
<1> QED
  BY <1>1, <1>2, EntryFacts DEF Kept

(* The table starts empty. *)
LEMMA MapInit == Init => MapInv
<1> SUFFICES ASSUME Init PROVE MapInv
  OBVIOUS
<1>1. PICK b \in Bats :
        mmu = [ibat |-> b.ibat, dbat |-> b.dbat, sdr1 |-> FALSE, sr |-> [s \in 0..(Segments - 1) |-> 0],
               table |-> [g \in Groups |-> [s \in Slots |-> Empty]]]
  BY DEF Init
<1>2. mapped = {}
  BY DEF Init
<1>3. mmu \in Mmus
  <2>1. [g \in Groups |-> [s \in Slots |-> Empty]] \in [Groups -> [Slots -> Ptes]]
    BY EmptyFacts
  <2>2. [s \in 0..(Segments - 1) |-> 0] \in [0..(Segments - 1) -> Vsids \union {0}]
    OBVIOUS
  <2> QED
    BY <1>1, <2>1, <2>2 DEF Mmus
<1>4. \A g \in Groups, s \in Slots : mmu.table[g][s] = Empty
  BY <1>1
<1> QED
  BY <1>2, <1>3, <1>4, EmptyFacts DEF MapInv, MapTyped, AllKept, OneEntry, NothingElse

(* Entering a page overwrites no other. *)
LEMMA EnterKeepsMap ==
  ASSUME MapInv, EnterPage
  PROVE  MapInv'
<1>1. PICK v \in Vsids, page \in Groups, f \in Frames :
        LET first == Hash(v, page)
            second == Free(first) = {}
            g == IF second THEN SecondGroup(v, page) ELSE first
        IN  /\ Cardinality(mapped) < MaxPages /\ Free(g) # {}
            /\ \A m \in mapped : m.vsid # v \/ m.page # page
            /\ mmu' = [mmu EXCEPT !.table[g][Min(Free(g))] = Entry(v, page, second, f)]
            /\ mapped' = mapped \union {[vsid |-> v, page |-> page, frame |-> f, group |-> g, slot |-> Min(Free(g))]}
  BY DEF EnterPage
<1> DEFINE second == Free(Hash(v, page)) = {}
           g == GroupOf(v, page, second)
           s == Min(Free(g))
           e == Entry(v, page, second, f)
<1> PICK new : new = [vsid |-> v, page |-> page, frame |-> f, group |-> g, slot |-> s]
  OBVIOUS
<1>2. /\ Free(g) # {} /\ \A m \in mapped : m.vsid # v \/ m.page # page
      /\ mmu' = [mmu EXCEPT !.table[g][s] = e] /\ mapped' = mapped \union {new}
  BY <1>1 DEF GroupOf
<1>3. s \in Free(g)
  <2>1. Free(g) \subseteq Nat
    BY MmuAssumption DEF Free
  <2> QED
    BY <1>2, <2>1, LeastOf
<1> HIDE DEF s
<1>4. s \in Slots /\ ~Present(mmu.table[g][s])
  BY <1>3 DEF Free
<1>5. second \in BOOLEAN
  OBVIOUS
<1> HIDE DEF second
<1>6. g \in Groups /\ e \in Ptes /\ Present(e)
  BY <1>5, EntryFacts
<1> HIDE DEF g, e
<1>7. /\ mmu' \in Mmus
      /\ \A i \in Groups, j \in Slots :
           mmu'.table[i][j] = IF i = g /\ j = s THEN e ELSE mmu.table[i][j]
  BY <1>2, <1>4, <1>6, TableWritten DEF MapInv
<1>8. /\ new \in Mappings /\ new.group = g /\ new.slot = s /\ new.vsid = v /\ new.page = page
      /\ new.frame = f
  BY <1>4, <1>6 DEF Mappings
<1>9. ASSUME NEW m \in mapped
      PROVE  /\ m \in Mappings /\ Kept(m) /\ ~(m.group = g /\ m.slot = s)
             /\ mmu'.table[m.group][m.slot] = mmu.table[m.group][m.slot]
  <2>1. m \in Mappings /\ Present(mmu.table[m.group][m.slot])
    BY MappedPresent
  <2>2. ~(m.group = g /\ m.slot = s)
    BY <1>4, <2>1
  <2>3. m.group \in Groups /\ m.slot \in Slots
    BY <2>1 DEF Mappings
  <2> QED
    BY <1>7, <2>1, <2>2, <2>3 DEF MapInv, AllKept
<1>10. MapTyped'
  BY <1>2, <1>7, <1>8 DEF MapInv, MapTyped
<1>11. AllKept'
  <2>1. ASSUME NEW m \in mapped PROVE Kept(m)'
    BY <1>9 DEF Kept
  <2>2. Kept(new)'
    <3>1. mmu'.table[g][s] = e
      BY <1>4, <1>6, <1>7
    <3>2. g = GroupOf(v, page, second) /\ e = Entry(v, page, second, f)
      BY DEF g, e
    <3> QED
      BY <1>5, <1>8, <3>1, <3>2 DEF Kept
  <2> QED
    BY <1>2, <2>1, <2>2 DEF AllKept
<1>12. OneEntry'
  <2>1. \A m \in mapped : ~(m.vsid = v /\ m.page = page) /\ ~(m.group = g /\ m.slot = s)
    BY <1>2, <1>9
  <2> QED
    BY <1>2, <1>8, <2>1 DEF MapInv, OneEntry
<1>13. NothingElse'
  BY <1>2, <1>7, <1>8 DEF MapInv, NothingElse
<1> QED
  BY <1>10, <1>11, <1>12, <1>13 DEF MapInv

(* Removing a page removes no other. *)
LEMMA RemoveKeepsMap ==
  ASSUME MapInv, RemovePage
  PROVE  MapInv'
<1>1. PICK m \in mapped : mapped' = mapped \ {m} /\ mmu' = [mmu EXCEPT !.table[m.group][m.slot] = Empty]
  BY DEF RemovePage
<1>2. m.group \in Groups /\ m.slot \in Slots
  BY MappedPresent DEF Mappings
<1>3. /\ mmu' \in Mmus
      /\ \A i \in Groups, j \in Slots :
           mmu'.table[i][j] = IF i = m.group /\ j = m.slot THEN Empty ELSE mmu.table[i][j]
  BY <1>1, <1>2, TableWritten, EmptyFacts DEF MapInv
<1>4. MapTyped'
  BY <1>1, <1>3 DEF MapInv, MapTyped
<1>5. AllKept'
  <2>1. ASSUME NEW n \in mapped, n # m PROVE Kept(n)'
    <3>1. ~(n.group = m.group /\ n.slot = m.slot)
      BY <2>1 DEF MapInv, OneEntry
    <3>2. n.group \in Groups /\ n.slot \in Slots
      BY MappedPresent DEF Mappings
    <3>3. mmu'.table[n.group][n.slot] = mmu.table[n.group][n.slot]
      BY <1>3, <3>1, <3>2
    <3> QED
      BY <3>3 DEF MapInv, AllKept, Kept
  <2> QED
    BY <1>1, <2>1 DEF AllKept
<1>6. OneEntry'
  BY <1>1 DEF MapInv, OneEntry
<1>7. NothingElse'
  <2> SUFFICES ASSUME NEW i \in Groups, NEW j \in Slots, Present(mmu'.table[i][j])
               PROVE  \E n \in mapped' : n.group = i /\ n.slot = j
    BY DEF NothingElse
  <2>1. ~(i = m.group /\ j = m.slot) /\ mmu'.table[i][j] = mmu.table[i][j]
    BY <1>3, EmptyFacts
  <2>2. PICK n \in mapped : n.group = i /\ n.slot = j
    BY <2>1 DEF MapInv, NothingElse
  <2> QED
    BY <1>1, <2>1, <2>2
<1> QED
  BY <1>4, <1>5, <1>6, <1>7 DEF MapInv

(* Every step keeps the table as the kernel put it down. *)
LEMMA MapStep ==
  ASSUME MapInv, [Next]_vars
  PROVE  MapInv'
<1>1. ASSUME mmu' = mmu, mapped' = mapped PROVE MapInv'
  BY <1>1 DEF MapInv, MapTyped, AllKept, Kept, OneEntry, NothingElse
<1>2. ASSUME mmu' \in Mmus, mmu'.table = mmu.table, mapped' = mapped PROVE MapInv'
  BY <1>2 DEF MapInv, MapTyped, AllKept, Kept, OneEntry, NothingElse
<1>3. CASE Program
  <2>1. mmu' = mmu /\ mapped' = mapped
    BY <1>3 DEF Program, Interrupt, FetchFault, Illegal, Arithmetic, Load, Store, Branch, Rfi,
                MoveToMsr, MoveToSrr, Raise
  <2> QED
    BY <1>1, <2>1
<1>4. CASE SetSegment
  <2> PICK i \in DOMAIN mmu.sr, v \in Vsids : mmu' = [mmu EXCEPT !.sr[i] = v]
    BY <1>4 DEF SetSegment
  <2> DEFINE r == [mmu.sr EXCEPT ![i] = v]
  <2>1. mmu' = [mmu EXCEPT !.sr = r] /\ mapped' = mapped
    BY <1>4 DEF SetSegment
  <2>2. r \in [0..(Segments - 1) -> Vsids \union {0}]
    BY DEF MapInv, MapTyped, Mmus
  <2> HIDE DEF r
  <2>3. mmu' \in Mmus /\ mmu'.table = mmu.table
    BY <2>1, <2>2 DEF MapInv, MapTyped, Mmus
  <2> QED
    BY <1>2, <2>1, <2>3
<1>5. CASE EnableTable
  <2>1. mmu' \in Mmus /\ mmu'.table = mmu.table /\ mapped' = mapped
    BY <1>5 DEF EnableTable, MapInv, MapTyped, Mmus
  <2> QED
    BY <1>2, <2>1
<1>6. CASE UNCHANGED vars
  BY <1>1, <1>6 DEF vars
<1> QED
  BY <1>3, <1>4, <1>5, <1>6, EnterKeepsMap, RemoveKeepsMap DEF Next, Kernel
-----------------------------------------------------------------------------
(* What a walk finds *)

Given(a) == { m \in mapped : m.vsid = mmu.sr[Segment(a)] /\ m.page = Page(a) }

WalkTruthful(a) ==
  IF mmu.sdr1 /\ Given(a) # {} /\ Api(Page(a)) % 2 = 1
  THEN \E m \in Given(a) : Walk(mmu, a) = m.frame * PageSize + (a % PageSize)
  ELSE Walk(mmu, a) = Fault

Hits(v, page, second) ==
  { s \in Slots : Matches(mmu.table[GroupOf(v, page, second)][s], v, page, second) }

(* The segment of an address has an identifier the kernel put there. *)
LEMMA SegmentOf ==
  ASSUME MapInv, NEW a \in Addresses
  PROVE  mmu.sr[Segment(a)] \in Vsids \union {0} /\ Page(a) \in Groups
<1>1. Segment(a) \in 0..(Segments - 1) /\ Page(a) \in Groups
  BY PlaceOf
<1> QED
  BY <1>1 DEF MapInv, MapTyped, Mmus

(* An entry that matches is the one of the page that is looked for.        *)
LEMMA HitIsGiven ==
  ASSUME MapInv, NEW v \in Vsids \union {0}, NEW page \in Groups, NEW second \in BOOLEAN,
         NEW s \in Hits(v, page, second)
  PROVE  \E m \in mapped :
           /\ m.vsid = v /\ m.page = page /\ m.slot = s /\ m.group = GroupOf(v, page, second)
           /\ mmu.table[GroupOf(v, page, second)][s] = Entry(v, page, second, m.frame)
           /\ Api(page) % 2 = 1
<1> DEFINE g == GroupOf(v, page, second)
<1>1. g \in Groups
  <2>1. Hash(v, page) \in 0..(SegPages - 1) /\ SegPages \in Nat \ {0}
    BY TranslationAssumption, MmuAssumption DEF Groups
  <2> QED
    BY <2>1 DEF GroupOf, SecondGroup, Groups
<1>2. s \in Slots /\ Matches(mmu.table[g][s], v, page, second)
  BY DEF Hits
<1> HIDE DEF g
<1>3. PICK m \in mapped : m.group = g /\ m.slot = s
  BY <1>1, <1>2 DEF MapInv, NothingElse, Matches
<1>4. m.vsid \in Vsids \union {0} /\ m.page \in Groups /\ m.frame \in Frames
  BY <1>3 DEF MapInv, MapTyped, Mappings
<1>5. PICK h \in BOOLEAN : /\ mmu.table[g][s] = Entry(m.vsid, m.page, h, m.frame)
                           /\ g = GroupOf(m.vsid, m.page, h)
  BY <1>3 DEF MapInv, AllKept, Kept
<1>6. m.vsid = v /\ h = second /\ Entry(m.vsid, m.page, h, m.frame).api = Api(page)
  BY <1>2, <1>5 DEF Matches, Entry
<1>7. m.page = page
  <2>1. GroupOf(v, page, second) = GroupOf(v, m.page, second)
    BY <1>5, <1>6 DEF g
  <2> QED
    BY <1>4, <2>1, OneGroup
<1>8. Api(page) % 2 = 1
  BY <1>4, <1>6, <1>7, EntryFacts
<1> QED
  BY <1>3, <1>5, <1>6, <1>7, <1>8 DEF g

(* What the walk looks at is found in the hits of either group. *)
LEMMA FoundHits ==
  ASSUME NEW v, NEW page, NEW second \in BOOLEAN
  PROVE  Found(mmu.table, v, page, second) =
           IF Hits(v, page, second) = {} THEN {}
           ELSE {mmu.table[GroupOf(v, page, second)][Min(Hits(v, page, second))].rpn}
  BY DEF Found, Hits, GroupOf

(* A walk finds the frame of the page it looks for, or nothing. *)
LEMMA WalkFinds ==
  ASSUME MapInv, NEW a \in Addresses
  PROVE  WalkTruthful(a)
<1> DEFINE v == mmu.sr[Segment(a)]  page == Page(a)  off == a % PageSize
<1>1. v \in Vsids \union {0} /\ page \in Groups
  BY SegmentOf
<1>2. Given(a) = { m \in mapped : m.vsid = v /\ m.page = page }
  BY DEF Given
<1>3. Walk(mmu, a) =
        LET first == Found(mmu.table, v, page, FALSE)
            frames == IF first # {} THEN first ELSE Found(mmu.table, v, page, TRUE)
        IN  IF ~mmu.sdr1 \/ frames = {} THEN Fault
            ELSE CHOOSE p \in { f * PageSize + off : f \in frames } : TRUE
  BY DEF Walk
<1>4. WalkTruthful(a) <=>
        IF mmu.sdr1 /\ Given(a) # {} /\ Api(page) % 2 = 1
        THEN \E m \in Given(a) : Walk(mmu, a) = m.frame * PageSize + off
        ELSE Walk(mmu, a) = Fault
  BY DEF WalkTruthful
<1> HIDE DEF v, page, off
<1>5. CASE ~(Given(a) # {} /\ Api(page) % 2 = 1)
  <2>1. \A second \in BOOLEAN : Found(mmu.table, v, page, second) = {}
    <3> SUFFICES ASSUME NEW second \in BOOLEAN PROVE Hits(v, page, second) = {}
      BY FoundHits
    <3>1. ASSUME NEW s \in Hits(v, page, second) PROVE FALSE
      BY <1>1, <1>2, <1>5, HitIsGiven
    <3> QED
      BY <3>1
  <2> QED
    BY <1>3, <1>4, <1>5, <2>1
<1>6. CASE Given(a) # {} /\ Api(page) % 2 = 1
  <2> PICK m \in mapped : m \in Given(a) /\ m.vsid = v /\ m.page = page
    BY <1>2, <1>6
  <2>1. \A n \in mapped : n.vsid = v /\ n.page = page => n = m
    BY DEF MapInv, OneEntry
  <2>2. m \in Mappings
    BY DEF MapInv, MapTyped
  <2> PICK h \in BOOLEAN : /\ mmu.table[m.group][m.slot] = Entry(v, page, h, m.frame)
                           /\ m.group = GroupOf(v, page, h)
    BY DEF MapInv, AllKept, Kept
  <2>3. m.frame \in Frames /\ m.slot \in Slots
    BY <2>2 DEF Mappings
  <2>4. Matches(mmu.table[m.group][m.slot], v, page, h)
    <3>1. /\ Present(Entry(v, page, h, m.frame))
          /\ Entry(v, page, h, m.frame).api = Api(page)
      BY <1>1, <1>6, <2>3, EntryFacts
    <3> QED
      BY <3>1 DEF Matches, Entry
  <2>5. m.slot \in Hits(v, page, h)
    BY <2>3, <2>4 DEF Hits
  <2>6. ASSUME NEW second \in BOOLEAN, NEW s \in Hits(v, page, second)
        PROVE  second = h /\ s = m.slot
    <3>1. PICK n \in mapped :
            /\ n.vsid = v /\ n.page = page /\ n.slot = s /\ n.group = GroupOf(v, page, second)
            /\ mmu.table[GroupOf(v, page, second)][s] = Entry(v, page, second, n.frame)
      BY <1>1, HitIsGiven
    <3>2. n = m
      BY <2>1, <3>1
    <3> QED
      BY <3>1, <3>2 DEF Entry
  <2>7. Hits(v, page, h) = {m.slot} /\ Hits(v, page, ~h) = {}
    BY <2>5, <2>6
  <2>8. Min({m.slot}) = m.slot
    <3>1. {m.slot} \subseteq Nat /\ {m.slot} # {}
      BY <2>3, MmuAssumption
    <3> QED
      BY <3>1, LeastOf
  <2>9. Found(mmu.table, v, page, h) = {m.frame} /\ Found(mmu.table, v, page, ~h) = {}
    <3>1. Found(mmu.table, v, page, h) = {mmu.table[m.group][m.slot].rpn}
      <4>1. Hits(v, page, h) # {} /\ Min(Hits(v, page, h)) = m.slot
        BY <2>7, <2>8
      <4>2. Found(mmu.table, v, page, h) =
              IF Hits(v, page, h) = {} THEN {}
              ELSE {mmu.table[GroupOf(v, page, h)][Min(Hits(v, page, h))].rpn}
        BY ONLY FoundHits, h \in BOOLEAN
      <4>3. m.group = GroupOf(v, page, h)
        OBVIOUS
      <4> QED
        BY ONLY <4>1, <4>2, <4>3
    <3>2. Found(mmu.table, v, page, ~h) = {}
      BY <2>7, FoundHits
    <3> QED
      BY <3>1, <3>2 DEF Entry
  <2>10. (CHOOSE p \in { f * PageSize + off : f \in {m.frame} } : TRUE) = m.frame * PageSize + off
    OBVIOUS
  <2>11. Walk(mmu, a) = IF ~mmu.sdr1 THEN Fault ELSE m.frame * PageSize + off
    <3>1. CASE h
      BY <1>3, <2>9, <2>10, <3>1
    <3>2. CASE ~h
      BY <1>3, <2>9, <2>10, <3>2
    <3> QED
      BY <3>1, <3>2
  <2> QED
    BY <1>4, <1>6, <2>11
<1> QED
  BY <1>5, <1>6

(* A page is translated as a whole, by the table too. *)
LEMMA WalkWhole ==
  ASSUME MapInv, NEW a \in Addresses
  PROVE  LET start == a - (a % PageSize) IN
         IF Walk(mmu, start) = Fault THEN Walk(mmu, a) = Fault
         ELSE Walk(mmu, a) = Walk(mmu, start) + (a % PageSize)
<1> DEFINE start == a - (a % PageSize)  off == a % PageSize
<1>1. /\ start \in Addresses /\ start % PageSize = 0 /\ off \in 0..(PageSize - 1)
      /\ Segment(start) = Segment(a) /\ Page(start) = Page(a)
  BY PlaceOf
<1> HIDE DEF start
<1>2. WalkTruthful(a) /\ WalkTruthful(start)
  BY <1>1, WalkFinds
<1>3. Given(start) = Given(a)
  BY <1>1 DEF Given
<1>4. CASE mmu.sdr1 /\ Given(a) # {} /\ Api(Page(a)) % 2 = 1
  <2>1. PICK m \in Given(a) : Walk(mmu, a) = m.frame * PageSize + off
    BY <1>2, <1>4 DEF WalkTruthful
  <2>2. PICK n \in Given(a) : Walk(mmu, start) = n.frame * PageSize + (start % PageSize)
    BY <1>1, <1>2, <1>3, <1>4 DEF WalkTruthful
  <2>3. m = n
    BY DEF Given, MapInv, OneEntry
  <2>4. m.frame \in Frames
    BY DEF Given, MapInv, MapTyped, Mappings
  <2>5. m.frame * PageSize \in Nat /\ m.frame * PageSize < AddrSpace
    BY <2>4, FrameBelow
  <2>6. Walk(mmu, start) = m.frame * PageSize
    BY <1>1, <2>2, <2>3, <2>5
  <2>7. Walk(mmu, start) # Fault
    BY <2>5, <2>6, SomeAddress DEF Fault
  <2> QED
    BY <2>1, <2>6, <2>7 DEF start
<1>5. CASE ~(mmu.sdr1 /\ Given(a) # {} /\ Api(Page(a)) % 2 = 1)
  BY <1>1, <1>2, <1>3, <1>5 DEF WalkTruthful, start
<1> QED
  BY <1>4, <1>5

(* The blocks of the state are blocks a kernel may have set up. *)
LEMMA BlocksGood ==
  ASSUME MapInv, NEW data \in BOOLEAN
  PROVE  LET bats == IF data THEN mmu.dbat ELSE mmu.ibat IN
         /\ DOMAIN bats \subseteq Nat
         /\ \A i \in DOMAIN bats :
              /\ BlockSize(bats[i]) \in Nat \ {0} /\ bats[i].brpn \in Addresses
              /\ BlockSize(bats[i]) % PageSize = 0 /\ AddrSpace % BlockSize(bats[i]) = 0
<1> DEFINE bats == IF data THEN mmu.dbat ELSE mmu.ibat
<1>1. mmu.ibat \in { b.ibat : b \in Bats } /\ mmu.dbat \in { b.dbat : b \in Bats }
  BY DEF MapInv, MapTyped, Mmus
<1>2. \E b \in Bats : bats \in {b.ibat, b.dbat}
  BY <1>1
<1> HIDE DEF bats
<1>3. /\ DOMAIN bats \subseteq Nat
      /\ \A i \in DOMAIN bats :
           /\ BlockSize(bats[i]) \in Nat \ {0} /\ bats[i].brpn \in Addresses
           /\ BlockSize(bats[i]) % PageSize = 0 /\ AddrSpace % BlockSize(bats[i]) = 0
  BY <1>2, TranslationAssumption
<1> QED
  BY <1>3 DEF bats

(* Translation moves a page as a whole or not at all, to the frame its page *)
(* was given unless a block covers it, and never to any other.              *)
THEOREM TranslationHolds == Spec => []TranslationTruthful
<1>1. ASSUME MapInv PROVE TranslationTruthful
  <2> SUFFICES ASSUME NEW user \in BOOLEAN, NEW data \in BOOLEAN, NEW a \in Addresses
               PROVE  LET p == Translate(mmu, TRUE, user, data, a)
                          start == Translate(mmu, TRUE, user, data, a - (a % PageSize))
                          bats == IF data THEN mmu.dbat ELSE mmu.ibat
                          given == { m \in mapped : m.vsid = mmu.sr[Segment(a)] /\ m.page = Page(a) }
                      IN  /\ IF start = Fault THEN p = Fault ELSE p = start + (a % PageSize)
                          /\ (\A i \in DOMAIN bats : ~(Valid(bats[i], user) /\ Covers(bats[i], a))) =>
                               IF mmu.sdr1 /\ given # {} /\ Api(Page(a)) % 2 = 1
                               THEN \E m \in given : p = m.frame * PageSize + (a % PageSize)
                               ELSE p = Fault
    BY DEF TranslationTruthful
  <2> DEFINE bats == IF data THEN mmu.dbat ELSE mmu.ibat
             b == a - (a % PageSize)
             hits(x) == { i \in DOMAIN bats : Valid(bats[i], user) /\ Covers(bats[i], x) }
             p == Translate(mmu, TRUE, user, data, a)
             start == Translate(mmu, TRUE, user, data, b)
  <2>1. p = (IF hits(a) # {} THEN Moved(bats[Min(hits(a))], a) ELSE Walk(mmu, a))
    BY DEF Translate
  <2>2. start = (IF hits(b) # {} THEN Moved(bats[Min(hits(b))], b) ELSE Walk(mmu, b))
    BY DEF Translate
  <2>3. /\ DOMAIN bats \subseteq Nat
        /\ \A i \in DOMAIN bats :
             /\ BlockSize(bats[i]) \in Nat \ {0} /\ bats[i].brpn \in Addresses
             /\ BlockSize(bats[i]) % PageSize = 0 /\ AddrSpace % BlockSize(bats[i]) = 0
    BY <1>1, BlocksGood
  <2> HIDE DEF bats, p, start
  <2>4. \A i \in DOMAIN bats :
          /\ Covers(bats[i], b) <=> Covers(bats[i], a)
          /\ Moved(bats[i], a) = Moved(bats[i], b) + (a % PageSize)
          /\ Moved(bats[i], b) # Fault
    BY <2>3, BlockOfPages
  <2>5. hits(b) = hits(a) /\ hits(a) \subseteq DOMAIN bats
    BY <2>4
  <2> HIDE DEF b
  <2>6. IF start = Fault THEN p = Fault ELSE p = start + (a % PageSize)
    <3>1. CASE hits(a) # {}
      <4>1. Min(hits(a)) \in DOMAIN bats
        BY <2>3, <2>5, <3>1, LeastOf
      <4> QED
        BY <2>1, <2>2, <2>4, <2>5, <3>1, <4>1
    <3>2. CASE hits(a) = {}
      <4>1. p = Walk(mmu, a) /\ start = Walk(mmu, b)
        BY <2>1, <2>2, <2>5, <3>2
      <4> QED
        BY <1>1, <4>1, WalkWhole DEF b
    <3> QED
      BY <3>1, <3>2
  <2>7. ASSUME \A i \in DOMAIN bats : ~(Valid(bats[i], user) /\ Covers(bats[i], a))
        PROVE  IF mmu.sdr1 /\ Given(a) # {} /\ Api(Page(a)) % 2 = 1
               THEN \E m \in Given(a) : p = m.frame * PageSize + (a % PageSize)
               ELSE p = Fault
    <3>1. p = Walk(mmu, a)
      BY <2>1, <2>7
    <3>2. WalkTruthful(a)
      BY <1>1, WalkFinds
    <3> QED
      BY <3>1, <3>2 DEF WalkTruthful
  <2> QED
    BY <2>6, <2>7 DEF Given, bats, p, start, b
<1> QED
  BY <1>1, MapInit, MapStep, PTL DEF Spec
=============================================================================
