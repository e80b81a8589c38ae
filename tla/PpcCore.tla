------------------------------- MODULE PpcCore -------------------------------
(***************************************************************************)
(* The PowerPC core, src/cpu/ppc603e.rs: every instruction is a choice of  *)
(* the environment among the forms that another step can depend on;        *)
(* arithmetic gives any value, a condition holds or not.  Addresses count  *)
(* words.  A kernel fills the page table in the form translate reads it.   *)
(***************************************************************************)
EXTENDS PpcMmu

CONSTANTS
  Vector,      (* the interrupt handler (0x500)                            *)
  Code, Ram,   (* physical words: fetched from, and loaded and stored      *)
  Values,      (* what arithmetic puts into a register                     *)
  Targets,     (* where branches lead                                      *)
  Modes,       (* what the program puts into MSR and SRR1                  *)
  Bats,        (* the pairs [ibat, dbat] a kernel may have set up          *)
  Vsids, Frames,   (* segment identifiers and frames it uses               *)
  MaxPages     (* bound: pages it enters into the table                    *)

\* The bits of MSR that matter: interrupts, translation of fetches and of data,
\* user mode.
Bits == {"EE", "IR", "DR", "PR"}

ASSUME CoreAssumption ==
  /\ Vector \in Addresses /\ Code \subseteq Addresses /\ Ram \subseteq Addresses
  /\ Values \subseteq Addresses /\ Targets \subseteq Addresses /\ MaxPages \in Nat
  /\ Modes \subseteq SUBSET Bits

\* Blocks are whole pages and tile the address space, as powers of two do;
\* frames lie in it; and a hash, an exclusive or with the page, tells the pages
\* of a segment apart.
ASSUME TranslationAssumption ==
  /\ \A b \in Bats : \A bats \in {b.ibat, b.dbat} :
       /\ DOMAIN bats \subseteq Nat
       /\ \A i \in DOMAIN bats :
            /\ BlockSize(bats[i]) \in Nat \ {0} /\ bats[i].brpn \in Addresses
            /\ BlockSize(bats[i]) % PageSize = 0 /\ AddrSpace % BlockSize(bats[i]) = 0
  /\ Vsids \subseteq Nat /\ Frames \subseteq 0..(SegPages * Segments - 1)
  /\ \A v \in Vsids \union {0}, p \in Groups :
       Hash(v, p) \in Groups /\ \A q \in Groups \ {p} : Hash(v, q) # Hash(v, p)

VARIABLES
  cpu,     (* pc, lr, ra and rd of the gprs, msr, srr0, srr1, halt         *)
  mem,     (* the words of Ram                                             *)
  mmu,     (* ibat, dbat, sr, sdr1 (set or not) and the page table         *)
  irq,     (* ppc_irq_pending                                              *)
  runs,    (* bound: a kernel sets up translation, or a program runs       *)
  ctx,     (* history: what an interrupt put aside, as long as it is kept  *)
  mapped   (* history: what the kernel has in the table                    *)

vars == <<cpu, mem, mmu, irq, runs, ctx, mapped>>

NoContext == [open |-> FALSE, pc |-> 0, msr |-> {}]
Empty == [vsid |-> 0, second |-> FALSE, api |-> 0, rpn |-> 0]

Init ==
  /\ cpu = [pc |-> 0, lr |-> 0, ra |-> 0, rd |-> 0, msr |-> {}, srr0 |-> 0, srr1 |-> {}, halt |-> FALSE]
  /\ mem = [a \in Ram |-> 0]
  /\ \E b \in Bats :
       mmu = [ibat |-> b.ibat, dbat |-> b.dbat, sdr1 |-> FALSE, sr |-> [s \in 0..(Segments - 1) |-> 0],
              table |-> [g \in Groups |-> [s \in Slots |-> Empty]]]
  /\ irq = FALSE /\ runs \in {"kernel", "program"} /\ ctx = NoContext /\ mapped = {}
-----------------------------------------------------------------------------
(* One step: run_cycles wakes a halted core that has an interrupt pending, *)
(* whether it will take it or not, and halts one whose step fails.         *)

User == "PR" \in cpu.msr
Phys(data, a) == Translate(mmu, (IF data THEN "DR" ELSE "IR") \in cpu.msr, User, data, a)
Fetches(a) == Phys(FALSE, a) \in Code

Steps == runs = "program" /\ (cpu.halt => irq)
Takes == "EE" \in cpu.msr /\ irq
Fetched == Steps /\ ~Takes /\ Fetches(cpu.pc)

\* Mutant: the pc does not wrap.
NextPcUnwrapped == cpu.pc + 1

NextPc == (cpu.pc + 1) % AddrSpace

Do(c) == cpu' = [c EXCEPT !.halt = FALSE]
Fail(c) == cpu' = [c EXCEPT !.halt = TRUE]

\* Mutant: MSR[EE] stays set.
EntryModeOpen == cpu.msr

EntryMode == cpu.msr \ {"EE"}

\* take_extint: translation stays on, so the handler is where the vector leads.
Interrupt ==
  /\ Steps /\ Takes
  /\ Do([cpu EXCEPT !.srr0 = cpu.pc, !.srr1 = cpu.msr, !.msr = EntryMode, !.pc = Vector])
  /\ ctx' = IF ctx.open THEN ctx ELSE [open |-> TRUE, pc |-> cpu.pc, msr |-> cpu.msr]
  /\ UNCHANGED <<mem, mmu, irq, runs, mapped>>

\* A fetch that fails leaves the pc; everything that fails later does not.
FetchFault ==
  /\ Steps /\ ~Takes /\ ~Fetches(cpu.pc)
  /\ Fail(cpu)
  /\ UNCHANGED <<mem, mmu, irq, runs, ctx, mapped>>

Illegal ==
  /\ Fetched
  /\ Fail([cpu EXCEPT !.pc = NextPc])
  /\ UNCHANGED <<mem, mmu, irq, runs, ctx, mapped>>

\* What a register form (OR, NEG, SUBFE, DIVW and their like) leaves behind.
Computed(r, v) == [cpu EXCEPT !.pc = NextPc, ![r] = v]

\* The same for the immediate forms (ADDI, ORI, RLWINM, CMPI and their like).
Arithmetic ==
  /\ Fetched
  /\ \E v \in Values, r \in {"ra", "rd"} : Do(Computed(r, v))
  /\ UNCHANGED <<mem, mmu, irq, runs, ctx, mapped>>

\* Mutant: the update form moves its register before the access.
FaultedUpdated(ea, upd) == [cpu EXCEPT !.pc = NextPc, !.ra = IF upd THEN ea ELSE @]

\* Where an access stops that finds no page or no memory.
Faulted(ea, upd) == [cpu EXCEPT !.pc = NextPc]

\* With update, a load whose two registers are the same keeps the address.
Load ==
  /\ Fetched
  /\ \E d \in {0, 1}, upd \in BOOLEAN, r \in {"ra", "rd"} :
       LET ea == (cpu.ra + d) % AddrSpace
           p == Phys(TRUE, ea)
           loaded == [cpu EXCEPT !.pc = NextPc, ![r] = IF p \in Ram THEN mem[p] ELSE @]
       IN  IF p \in Ram THEN Do([loaded EXCEPT !.ra = IF upd THEN ea ELSE @])
           ELSE Fail(Faulted(ea, upd))
  /\ UNCHANGED <<mem, mmu, irq, runs, ctx, mapped>>

Store ==
  /\ Fetched
  /\ \E d \in {0, 1}, upd \in BOOLEAN :
       LET ea == (cpu.ra + d) % AddrSpace
           p == Phys(TRUE, ea)
       IN  IF p \in Ram
           THEN /\ mem' = [mem EXCEPT ![p] = cpu.rd]
                /\ Do([cpu EXCEPT !.pc = NextPc, !.ra = IF upd THEN ea ELSE @])
           ELSE Fail(Faulted(ea, upd)) /\ UNCHANGED mem
  /\ UNCHANGED <<mmu, irq, runs, ctx, mapped>>

\* B, BC, BCLR and BCCTR: with LK the link register is set, taken or not, and
\* BCLR goes where it stood before.
Branch ==
  /\ Fetched
  /\ \E taken, link \in BOOLEAN, target \in Targets \union {cpu.lr} :
       Do([cpu EXCEPT !.pc = IF taken THEN target ELSE NextPc, !.lr = IF link THEN NextPc ELSE @])
  /\ UNCHANGED <<mem, mmu, irq, runs, ctx, mapped>>

\* RFI gives back what the registers hold, and the handler is over.
Rfi ==
  /\ Fetched
  /\ Do([cpu EXCEPT !.pc = cpu.srr0, !.msr = cpu.srr1])
  /\ ctx' = NoContext
  /\ UNCHANGED <<mem, mmu, irq, runs, mapped>>

\* A handler that opens interrupts, or moves something into SRR0 or SRR1, no
\* longer keeps what was put aside.
MoveToMsr ==
  /\ Fetched
  /\ \E m \in Modes :
       /\ Do([cpu EXCEPT !.pc = NextPc, !.msr = m])
       /\ ctx' = IF "EE" \in m THEN NoContext ELSE ctx
  /\ UNCHANGED <<mem, mmu, irq, runs, mapped>>

MoveToSrr ==
  /\ Fetched
  /\ \/ \E t \in Targets : Do([cpu EXCEPT !.pc = NextPc, !.srr0 = t])
     \/ \E m \in Modes : Do([cpu EXCEPT !.pc = NextPc, !.srr1 = m])
  /\ ctx' = NoContext
  /\ UNCHANGED <<mem, mmu, irq, runs, mapped>>

\* Nothing takes a line away again.
Raise ==
  /\ runs = "program" /\ irq' = TRUE
  /\ UNCHANGED <<cpu, mem, mmu, runs, ctx, mapped>>

Program ==
  \/ Interrupt \/ FetchFault \/ Illegal \/ Arithmetic \/ Load \/ Store
  \/ Branch \/ Rfi \/ MoveToMsr \/ MoveToSrr \/ Raise
-----------------------------------------------------------------------------
(* A kernel sets up translation: MTSR, MTSPR SDR1 and stores into the table *)

SetSegment ==
  \E s \in DOMAIN mmu.sr, v \in Vsids : mmu' = [mmu EXCEPT !.sr[s] = v] /\ UNCHANGED mapped

EnableTable == mmu' = [mmu EXCEPT !.sdr1 = TRUE] /\ UNCHANGED mapped

\* The valid bit of an entry is the lowest bit of its api.
Entry(vsid, page, second, frame) ==
  [vsid |-> vsid, second |-> second, api |-> Api(page) + (1 - (Api(page) % 2)), rpn |-> frame]

Free(g) == { s \in Slots : ~Present(mmu.table[g][s]) }

EnterPage ==
  \E v \in Vsids, page \in Groups, f \in Frames :
    LET first == Hash(v, page)
        second == Free(first) = {}
        g == IF second THEN SecondGroup(v, page) ELSE first
    IN  /\ Cardinality(mapped) < MaxPages /\ Free(g) # {}
        /\ \A m \in mapped : m.vsid # v \/ m.page # page
        /\ mmu' = [mmu EXCEPT !.table[g][Min(Free(g))] = Entry(v, page, second, f)]
        /\ mapped' = mapped \union {[vsid |-> v, page |-> page, frame |-> f, group |-> g, slot |-> Min(Free(g))]}

RemovePage ==
  \E m \in mapped : mapped' = mapped \ {m} /\ mmu' = [mmu EXCEPT !.table[m.group][m.slot] = Empty]

Kernel ==
  /\ runs = "kernel"
  /\ SetSegment \/ EnableTable \/ EnterPage \/ RemovePage
  /\ UNCHANGED <<cpu, mem, irq, runs, ctx>>

Next == Program \/ Kernel

Spec == Init /\ [][Next]_vars
-----------------------------------------------------------------------------
(* Properties *)

\* Registers hold addresses, at the end of the address space too, where the pc
\* wraps (src/cpu/ppc603e.rs:77).
TypeOK ==
  /\ {cpu.pc, cpu.lr, cpu.ra, cpu.rd, cpu.srr0} \subseteq Addresses
  /\ {cpu.msr, cpu.srr1} \subseteq SUBSET Bits
  /\ cpu.halt \in BOOLEAN /\ irq \in BOOLEAN /\ mem \in [Ram -> Addresses]

\* A step that fails has changed nothing but the pc, which stands behind the
\* instruction unless its fetch failed: an interrupt that wakes the core lets
\* it go on there (src/cpu/ppc603e.rs:77, :507).
FaultsArePrecise ==
  [][cpu'.halt =>
       /\ cpu' = [cpu EXCEPT !.pc = cpu'.pc, !.halt = TRUE] /\ mem' = mem
       /\ cpu'.pc = cpu.pc \/ (cpu'.pc = NextPc /\ Fetches(cpu.pc))]_vars

\* What the first interrupt put aside is still there when its handler gets to
\* RFI, however often the fetch of the handler, or an instruction of it, fails
\* and is woken again by the line that never falls
\* (src/cpu/ppc603e.rs:181, src/hardware.rs:90).
ContextKept == ctx.open => cpu.srr0 = ctx.pc /\ cpu.srr1 = ctx.msr

\* Translation does what the kernel asked for, in every segment and mode and
\* through hash collisions: a page moves as a whole or not at all, and where
\* no block covers it, it goes to the frame it was given, provided its api is
\* odd; a page with an even api is never found (src/cpu/ppc603e.rs:154).
TranslationTruthful ==
  \A user, data \in BOOLEAN, a \in Addresses :
    LET p == Translate(mmu, TRUE, user, data, a)
        start == Translate(mmu, TRUE, user, data, a - (a % PageSize))
        bats == IF data THEN mmu.dbat ELSE mmu.ibat
        given == { m \in mapped : m.vsid = mmu.sr[Segment(a)] /\ m.page = Page(a) }
    IN  /\ IF start = Fault THEN p = Fault ELSE p = start + (a % PageSize)
        /\ (\A i \in DOMAIN bats : ~(Valid(bats[i], user) /\ Covers(bats[i], a))) =>
             IF mmu.sdr1 /\ given # {} /\ Api(Page(a)) % 2 = 1
             THEN \E m \in given : p = m.frame * PageSize + (a % PageSize)
             ELSE p = Fault
=============================================================================
