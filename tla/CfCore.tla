-------------------------------- MODULE CfCore --------------------------------
(***************************************************************************)
(* The ColdFire core, src/cpu/coldfire.rs, over any memory and any source  *)
(* of interrupts: every instruction is a choice of the environment, every  *)
(* step may find any interrupt level pending.  The stack is memory: a cell *)
(* for each half word, and nothing else to tell a return address from the  *)
(* rest.  Arithmetic has its three sizes, with fewer bits in each.         *)
(***************************************************************************)
EXTENDS CfAlu, SequencesExt

CONSTANTS
  Targets,    (* where jumps, calls and vectors lead                         *)
  CodeEnd,    (* instructions are fetched from below it; a fetch there fails *)
  StackLow,   (* the first address of the stack                              *)
  StackTop,   (* the address above the stack: stores there fail              *)
  IrqLevels,  (* the interrupt levels the bus may present                    *)
  Operands,   (* what a register is compared with                            *)
  DataDepth,  (* bound: arithmetic with at most this many frames, no fault   *)
  MaxFaults,  (* bound: failed steps; after the last no instruction is looked *)
              (* at, only interrupts                                         *)
  MaxRetries  (* bound: interrupt entries that fail after those               *)

ASSUME CoreAssumption ==
  /\ \A s \in Sizes : Bits[s] \in Nat \ {0}
  /\ Bits[1] <= Bits[2] /\ Bits[2] + Bits[2] = Bits[4]
  /\ CodeEnd \in Nat /\ StackLow \in Nat /\ StackTop \in Nat
  /\ IrqLevels \subseteq 1..7 /\ Targets \subseteq { a \in 0..CodeEnd : a % 2 = 0 } /\ Operands \subseteq Values
  /\ DataDepth \in Nat /\ MaxFaults \in Nat /\ MaxRetries \in Nat

VARIABLES
  cpu,     (* d, a7, pc, the mask and the flags of sr, halt                  *)
  mem,     (* the half words of the stack                                    *)
  frames,  (* what the program has on its stack, where, and its comparison   *)
  cmp,     (* the operands of the comparison the flags still speak of        *)
  faults   (* failed steps                                                   *)

vars == <<cpu, mem, frames, cmp, faults>>

Code == { a \in 0..(CodeEnd - 1) : a % 2 = 0 }
Pcs == { a \in 0..(CodeEnd + 9) : a % 2 = 0 }
Cells == { a \in StackLow..(StackTop - 1) : a % 2 = 0 }
-----------------------------------------------------------------------------
(* Memory *)

Half(kind, v) == [kind |-> kind, v |-> v]

StorableLong(a) == {a, a + 2} \subseteq Cells
StoreHalf(m, a, kind, v) == IF a \in Cells THEN [m EXCEPT ![a] = Half(kind, v)] ELSE m
StoreLong(m, a, kind, v) ==
  IF StorableLong(a) THEN [m EXCEPT ![a] = Half(kind, v), ![a + 2] = Half(kind, v)] ELSE m

\* What a load of a long may give: the long that was stored there, or anything
\* when the two halves are of something else.
LoadLong(a, kind, any) ==
  IF mem[a].kind = kind /\ mem[a + 2] = mem[a] THEN {mem[a].v} ELSE any

\* What is left below the stack pointer is not kept: a load from there gives
\* anything.
KeepFrom(a) == mem' = [c \in Cells |-> IF c >= a THEN mem[c] ELSE Half("zero", 0)]

Init ==
  /\ cpu = [d |-> 0, a7 |-> StackTop, pc |-> 0, mask |-> 0, ccr |-> {}, halt |-> FALSE]
  /\ mem = [a \in Cells |-> Half("zero", 0)]
  /\ frames = <<>> /\ cmp = <<>> /\ faults = 0
-----------------------------------------------------------------------------
(* One step: run_cycles wakes a halted core whose interrupt is pending, and *)
(* halts one whose step fails.                                              *)

\* The levels pending with which the core gets to an instruction.
Runs == faults < MaxFaults /\ \E l \in IrqLevels \union {0} : l <= cpu.mask /\ (cpu.halt => l > 0)

Fetched == Runs /\ cpu.pc \in Code

\* Mutant: the core is reset before it is halted.
FailWithReset(c, m) ==
  /\ cpu' = [c EXCEPT !.halt = TRUE, !.d = 0, !.ccr = {}] /\ mem' = m
  /\ faults' = faults + 1
  /\ cmp' = <<>> /\ frames' = [i \in DOMAIN frames |-> [frames[i] EXCEPT !.cmp = <<>>]]

\* A step that fails: c is the core as far as the instruction came.  The
\* comparisons put aside can no longer be trusted to come back.
FailWith(c, m) ==
  /\ cpu' = [c EXCEPT !.halt = TRUE] /\ mem' = m
  /\ faults' = faults + 1
  /\ cmp' = <<>> /\ frames' = [i \in DOMAIN frames |-> [frames[i] EXCEPT !.cmp = <<>>]]

Do(c) == cpu' = [c EXCEPT !.halt = FALSE]

Entered(kind, at) == frames' = Append(frames, [kind |-> kind, at |-> at, cmp |-> cmp])
OnTop(kind) == frames # <<>> /\ Last(frames).kind = kind
Left == frames' = Front(frames)

\* The level and the handler read from the vector table are the bus's choice.
TakeInterrupt ==
  \E l \in IrqLevels, handler \in Targets :
    LET a1 == cpu.a7 - 2  a2 == cpu.a7 - 6
        m1 == StoreHalf(mem, a1, "sr", <<cpu.mask, cpu.ccr>>)
        m2 == StoreLong(m1, a2, "pc", cpu.pc)
    IN  /\ l > cpu.mask /\ faults < MaxFaults + MaxRetries
        /\ \/ a1 \in Cells /\ StorableLong(a2)
              /\ Do([cpu EXCEPT !.a7 = a2, !.mask = l, !.pc = handler]) /\ mem' = m2
              /\ Entered("irq", a2) /\ cmp' = <<>> /\ UNCHANGED faults
           \/ a1 \notin Cells /\ FailWith([cpu EXCEPT !.a7 = a1], mem)
           \/ a1 \in Cells /\ ~StorableLong(a2) /\ FailWith([cpu EXCEPT !.a7 = a2], m1)
           \/ a1 \in Cells /\ StorableLong(a2) /\ FailWith([cpu EXCEPT !.a7 = a2, !.mask = l], m2)

FetchFault == Runs /\ cpu.pc \notin Code /\ FailWith(cpu, mem)

\* JSR puts aside the address behind its opcode, which for the forms with
\* extension words is still inside it; BSR with a word displacement the
\* address behind that.  A mode JSR does not know fails after the push.
Calls ==
  /\ Fetched
  /\ \E n \in {2, 4}, target \in Targets :
       LET a == cpu.a7 - 4  ret == cpu.pc + n  m == StoreLong(mem, a, "pc", ret)
       IN  IF StorableLong(a)
           THEN \/ /\ Do([cpu EXCEPT !.a7 = a, !.pc = target]) /\ mem' = m
                   /\ Entered("call", a) /\ UNCHANGED <<cmp, faults>>
                \/ n = 2 /\ FailWith([cpu EXCEPT !.a7 = a, !.pc = ret], m)
           ELSE FailWith([cpu EXCEPT !.a7 = a, !.pc = ret], mem)

\* Mutant: the return address is read and left on the stack.
RtsKeeps ==
  /\ Fetched /\ OnTop("call") /\ StorableLong(cpu.a7)
  /\ \E ret \in LoadLong(cpu.a7, "pc", Targets) : Do([cpu EXCEPT !.pc = ret])
  /\ Left /\ UNCHANGED <<mem, cmp, faults>>

\* A program returns when it has a call on top, from an interrupt when it has
\* an interrupt there, and so on: otherwise nothing could be promised to it.
Rts ==
  /\ Fetched /\ OnTop("call")
  /\ IF StorableLong(cpu.a7)
     THEN /\ \E ret \in LoadLong(cpu.a7, "pc", Targets) : Do([cpu EXCEPT !.a7 = @ + 4, !.pc = ret])
          /\ KeepFrom(cpu.a7 + 4) /\ Left /\ UNCHANGED <<cmp, faults>>
     ELSE FailWith([cpu EXCEPT !.pc = @ + 2], mem)

\* Mutant: the flags are left as the handler had them.
RteKeepsFlags ==
  /\ Fetched /\ OnTop("irq") /\ StorableLong(cpu.a7) /\ mem[cpu.a7 + 4].kind = "sr"
  /\ \E ret \in LoadLong(cpu.a7, "pc", Targets) : Do([cpu EXCEPT !.a7 = @ + 6, !.pc = ret, !.mask = mem[cpu.a7 + 4].v[1]])
  /\ KeepFrom(cpu.a7 + 6) /\ Left /\ cmp' = Last(frames).cmp /\ UNCHANGED faults

Rte ==
  /\ Fetched /\ OnTop("irq")
  /\ IF StorableLong(cpu.a7) /\ cpu.a7 + 4 \in Cells
     THEN /\ \E ret \in LoadLong(cpu.a7, "pc", Targets) :
             \E sr \in IF mem[cpu.a7 + 4].kind = "sr" THEN {mem[cpu.a7 + 4].v} ELSE {<<0, {}>>, <<7, Flags>>} :
               Do([cpu EXCEPT !.a7 = @ + 6, !.pc = ret, !.mask = sr[1], !.ccr = sr[2]])
          /\ KeepFrom(cpu.a7 + 6) /\ Left /\ cmp' = Last(frames).cmp /\ UNCHANGED faults
     ELSE FailWith([cpu EXCEPT !.pc = @ + 2, !.a7 = IF StorableLong(@) THEN @ + 4 ELSE @], mem)

\* MOVE.L D0,-(A7) and MOVE.L (A7)+,D0: the register moves before the access.
Push ==
  /\ Fetched
  /\ LET a == cpu.a7 - 4  moved == [cpu EXCEPT !.a7 = a, !.pc = @ + 2]
     IN  IF StorableLong(a)
         THEN /\ Do([moved EXCEPT !.ccr = Move(cpu.d, 4, cpu.d).ccr])
              /\ mem' = StoreLong(mem, a, "data", cpu.d)
              /\ Entered("data", a) /\ cmp' = <<>> /\ UNCHANGED faults
         ELSE FailWith(moved, mem)

Pop ==
  /\ Fetched /\ OnTop("data")
  /\ LET moved == [cpu EXCEPT !.a7 = @ + 4, !.pc = @ + 2]
     IN  IF StorableLong(cpu.a7)
         THEN /\ \E v \in LoadLong(cpu.a7, "data", Values) :
                  Do([moved EXCEPT !.d = v, !.ccr = Move(cpu.d, 4, v).ccr])
              /\ KeepFrom(cpu.a7 + 4) /\ Left /\ cmp' = <<>> /\ UNCHANGED faults
         ELSE FailWith(moved, mem)

Stop ==
  /\ Fetched
  /\ cpu' = [cpu EXCEPT !.pc = @ + 4, !.halt = TRUE]
  /\ UNCHANGED <<mem, frames, cmp, faults>>

Branch ==
  /\ Fetched
  /\ \E next \in UNION { IF Cc(cond, cpu.ccr) THEN Targets ELSE {cpu.pc + 2, cpu.pc + 4} : cond \in Conditions } :
       Do([cpu EXCEPT !.pc = next])
  /\ UNCHANGED <<mem, frames, cmp, faults>>

\* MOVE to SR and to CCR; the flags are the low bits of the operand.
FlagsOf(v) == { f \in Flags : (v \div (CASE f = "C" -> 1 [] f = "V" -> 2 [] f = "Z" -> 4 [] OTHER -> 8)) % 2 = 1 }

MoveToSr ==
  /\ Fetched
  /\ \E m \in IrqLevels \union {0, cpu.mask} :
       Do([cpu EXCEPT !.pc = @ + 2, !.mask = m, !.ccr = FlagsOf(cpu.d)])
  /\ cmp' = <<>>
  /\ UNCHANGED <<mem, frames, faults>>

Compare(d, v) == Result(d, CmpFlags(d, v))

Results(d) ==
  { Move(d, s, v) : s \in Sizes, v \in Values } \union { Quick(d, s, n) : s \in AddqSizes, n \in {1, 3} }
  \union { Subq(d, n) : n \in {1, 3} } \union { Clr(d, s) : s \in AddqSizes }
  \union { Add(d, s, v) : s \in {1, 4}, v \in Values } \union { Sub(d, s, v) : s \in {1, 4}, v \in Values }
  \union (UNION { Logic(d, s, v) : s \in Sizes, v \in Values }) \union { Moveq(v) : v \in Values }
  \union {Ext(d), Swap(d)} \union { Tst(d, s) : s \in {2, 4} } \union Shifts(d)

\* What d may be after an instruction that leaves the flags alone; a shift by
\* nothing and a CHK that holds are among them.
Unflagged(d, f) ==
  {d} \union { Product(d, v, signed) : v \in Values, signed \in BOOLEAN }
  \union { Divu(d, v) : v \in { w \in Values : w % Mod(2) # 0 } }
  \union { Scc(d, Cc(cond, f)) : cond \in Conditions }

Arithmetic ==
  /\ Fetched /\ Len(frames) <= DataDepth /\ faults = 0
  /\ \/ \E r \in Results(cpu.d) \union BitOps(cpu.d, cpu.ccr) :
          Do([cpu EXCEPT !.pc = @ + 2, !.d = r.d, !.ccr = r.ccr]) /\ cmp' = <<>>
     \/ \E v \in Operands : LET r == Compare(cpu.d, v) IN
          Do([cpu EXCEPT !.pc = @ + 2, !.d = r.d, !.ccr = r.ccr]) /\ cmp' = <<cpu.d, v>>
     \/ \E v \in Unflagged(cpu.d, cpu.ccr) : Do([cpu EXCEPT !.pc = @ + 2, !.d = v]) /\ UNCHANGED cmp
  /\ UNCHANGED <<mem, frames, faults>>

\* An unknown instruction, an operand that cannot be reached, a division by
\* zero or a CHK that fails: the pc has moved past what was decoded.  BCHG,
\* BCLR and BSET set Z before the store that may be refused.
Unknown ==
  /\ Fetched
  /\ \E n \in {2, 4, 6, 8, 10}, ccr \in {cpu.ccr, cpu.ccr \union {"Z"}, cpu.ccr \ {"Z"}} :
       FailWith([cpu EXCEPT !.pc = @ + n, !.ccr = ccr], mem)

Next ==
  \/ TakeInterrupt \/ FetchFault \/ Calls \/ Rts \/ Rte \/ Push \/ Pop
  \/ Stop \/ Branch \/ MoveToSr \/ Arithmetic \/ Unknown

Spec == Init /\ [][Next]_vars
-----------------------------------------------------------------------------
(* Properties *)

\* Registers have their widths; what the program has on the stack lies within
\* it, one frame below the other with nothing in between, down to the stack
\* pointer, until a step fails (src/cpu/coldfire.rs:570).
SizeOf(f) == IF f.kind = "irq" THEN 6 ELSE 4
Ceiling(i) == IF i = 1 THEN StackTop ELSE frames[i - 1].at
TypeOK ==
  /\ cpu.d \in Values /\ cpu.pc \in Pcs /\ cpu.mask \in 0..7 /\ cpu.ccr \subseteq Flags /\ cpu.halt \in BOOLEAN
  /\ DOMAIN mem = Cells
  /\ faults = 0 => /\ \A i \in DOMAIN frames : frames[i].at + SizeOf(frames[i]) = Ceiling(i)
                   /\ cpu.a7 = Ceiling(Len(frames) + 1)

\* Every return finds its own frame again: the core is a CallStack whose frames
\* are nowhere but in memory (src/cpu/coldfire.rs:933, :965).
Content(f) ==
  [kind |-> f.kind,
   ret  |-> IF f.kind = "data" THEN 0 ELSE mem[f.at].v,
   mask |-> IF f.kind = "irq" THEN mem[f.at + 4].v[1] ELSE 0,
   ccr  |-> IF f.kind = "irq" THEN mem[f.at + 4].v[2] ELSE {},
   d    |-> IF f.kind = "data" THEN mem[f.at].v ELSE 0]
Up == faults = 0
Abstract == INSTANCE CallStack WITH
  pc <- IF Up THEN cpu.pc ELSE 0,
  mask <- IF Up THEN cpu.mask ELSE 0,
  ccr <- IF Up THEN cpu.ccr ELSE {},
  d <- IF Up THEN cpu.d ELSE 0,
  frames <- IF Up THEN [i \in DOMAIN frames |-> Content(frames[i])] ELSE <<>>,
  down <- ~Up
EveryReturnIsItsOwn == Abstract!StackSpec

\* A branch after a comparison decides as the operands do, signed and
\* unsigned, however many interrupts came in between
\* (src/cpu/coldfire.rs:512, :1345).
Signed(v) == IF Negative(v) THEN v - Mod(4) ELSE v
Relation(cond, a, b) ==
  CASE cond = "HI" -> a > b [] cond = "LS" -> a <= b [] cond = "CC" -> a >= b [] cond = "CS" -> a < b
    [] cond = "NE" -> a # b [] cond = "EQ" -> a = b
    [] cond = "GE" -> Signed(a) >= Signed(b) [] cond = "LT" -> Signed(a) < Signed(b)
    [] cond = "GT" -> Signed(a) > Signed(b)  [] cond = "LE" -> Signed(a) <= Signed(b)
ComparisonsSurvive ==
  cmp # <<>> => \A cond \in Conditions : Cc(cond, cpu.ccr) = Relation(cond, cmp[1], cmp[2])

\* A step that fails, wherever it stops and however often one failed before,
\* changes no register of data, nothing the program has on its stack and no
\* flag but Z, which an instruction on a bit of memory sets before its store
\* is refused; where no instruction was fetched, as in an interrupt entry that
\* fails and is tried again, not even that (src/cpu/coldfire.rs:579, :624).
FaultsSpareTheStack ==
  [][faults' # faults =>
       /\ cpu'.d = cpu.d /\ cpu'.ccr \ {"Z"} = cpu.ccr \ {"Z"}
       /\ cpu'.pc = cpu.pc => cpu'.ccr = cpu.ccr
       /\ \A a \in Cells : a >= cpu.a7 => mem'[a] = mem[a]]_vars
=============================================================================
