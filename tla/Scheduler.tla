------------------------------ MODULE Scheduler ------------------------------
(***************************************************************************)
(* src/hardware.rs: run_cycles interleaves the ColdFire and the PowerPC    *)
(* with a debt accumulator, keeps the PowerPC in reset until the ColdFire  *)
(* stops, wakes halted CPUs on interrupts and ticks the devices at every   *)
(* quantum.  What an instruction computes is left open: a step of a CPU is *)
(* one of the outcomes that the scheduler or the interrupt entry can tell  *)
(* apart.                                                                  *)
(***************************************************************************)
EXTENDS InterruptController

CONSTANTS
  CfPerPpc,   (* debt a PowerPC cycle adds (140)                           *)
  PpcPerCf,   (* debt a ColdFire cycle pays (266)                          *)
  Quantum,    (* cycles between two ticks of the devices (16)              *)
  SrMasks,    (* interrupt masks the ColdFire code loads into SR           *)
  MaxCycles,  (* bound of the model: cycles run                            *)
  MaxResets   (* bound of the model: calls of reset                        *)

ASSUME SchedulerAssumption ==
  /\ CfPerPpc \in Nat \ {0}
  /\ PpcPerCf \in Nat \ {0}
  /\ Quantum \in Nat \ {0}
  /\ SrMasks \subseteq 0..7
  /\ MaxCycles \in Nat
  /\ MaxResets \in Nat

VARIABLES
  cycleAcc,     (* cycle_acc: >= 0 when the ColdFire is behind             *)
  totalCycles, ppcCycles, cfCycles,
  heldCycles,   (* history: turns the PowerPC lost to the hold             *)
  ppcHold,      (* ppc_hold: PowerPC in reset during the bootstrap         *)
  bootComplete,
  ppc,          (* halt, MSR[EE] and the EE bit saved in SRR1              *)
  cf,           (* halt, the SR interrupt mask and, a history, whether an  *)
                (* error was what halted it                                *)
  lines,        (* asserted levels of the interrupt controller             *)
  resets        (* calls of reset so far                                   *)

clocks == <<cycleAcc, totalCycles, ppcCycles, cfCycles, heldCycles>>
vars == <<clocks, ppcHold, bootComplete, ppc, cf, lines, resets>>

PpcReset == [halt |-> FALSE, ee |-> FALSE, savedEE |-> FALSE]
CfReset  == [halt |-> FALSE, mask |-> 7, fault |-> FALSE]

\* Sources some code asserts: Bus::tick the VBlank, run_cycles the DMA ones.
RaisedSources == {"GpuVBlank", "CdromData", "DmaDone"}

Init ==
  /\ cycleAcc = 0 /\ totalCycles = 0
  /\ ppcCycles = 0 /\ cfCycles = 0 /\ heldCycles = 0
  /\ ppcHold = TRUE /\ bootComplete = FALSE
  /\ ppc = PpcReset /\ cf = CfReset
  /\ lines = {} /\ resets = 0
-----------------------------------------------------------------------------
(* ColdFire::step *)

\* The CPU after the wake-up test of run_cycles, which ignores the SR mask.
CfAwake == IF CfIrqPending(lines) THEN [cf EXCEPT !.halt = FALSE, !.fault = FALSE] ELSE cf

CfError(cpu) == [cpu EXCEPT !.halt = TRUE, !.fault = TRUE]

\* Mutant: the two halves of the pair (level, vector) are taken for each other.
CfInterruptSwapped(cpu) == { [cpu EXCEPT !.mask = 96 + 4 * CfIrqLevel(lines)], CfError(cpu) }

\* take_interrupt: a push of SR or PC may fault, before the mask is raised.
\* (The vector table is in RAM: its fetch does not fault.)
CfInterrupt(cpu) ==
  { [cpu EXCEPT !.mask = CfIrqLevel(lines)], CfError(cpu) }

\* dispatch: nothing to see here, STOP, an error, MOVE to SR or RTE.
CfInstruction(cpu) ==
  {cpu, [cpu EXCEPT !.halt = TRUE], CfError(cpu)} \union { [cpu EXCEPT !.mask = m] : m \in SrMasks }

CfOutcomes(cpu) ==
  IF cpu.halt THEN {cpu}
  ELSE IF CfIrqLevel(lines) > cpu.mask THEN CfInterrupt(cpu)
  ELSE CfInstruction(cpu)
-----------------------------------------------------------------------------
(* Ppu::step *)

\* Mutant: an error halt lasts one turn.
PpcAwakeAlways == [ppc EXCEPT !.halt = FALSE]

PpcAwake == [ppc EXCEPT !.halt = ppc.halt /\ ~PpcIrqPending(lines)]

\* take_extint
PpcInterrupt(cpu) == [cpu EXCEPT !.savedEE = cpu.ee, !.ee = FALSE]

\* dispatch: nothing to see here, an error, mtmsr, mtspr SRR1, rfi.
PpcInstruction(cpu) ==
  {cpu, [cpu EXCEPT !.halt = TRUE], [cpu EXCEPT !.ee = cpu.savedEE]}
    \union { [cpu EXCEPT !.ee = b] : b \in BOOLEAN }
    \union { [cpu EXCEPT !.savedEE = b] : b \in BOOLEAN }

\* Mutant: a pending interrupt is looked at after the instruction only.
PpcOutcomesLateIrq(cpu) == IF cpu.halt THEN {cpu} ELSE PpcInstruction(cpu)

PpcOutcomes(cpu) ==
  IF cpu.halt THEN {cpu}
  ELSE IF cpu.ee /\ PpcIrqPending(lines) THEN {PpcInterrupt(cpu)}
  ELSE PpcInstruction(cpu)
-----------------------------------------------------------------------------
(* The end of an iteration of run_cycles *)

\* Bus::tick and the DMA loop: the devices assert some of their lines.
Peripherals ==
  \E raised \in SUBSET RaisedSources :
    lines' = lines \union UNION { LevelsOf(s) : s \in raised }

EndOfCycle ==
  /\ totalCycles' = totalCycles + 1
  /\ IF totalCycles' % Quantum = 0
     THEN /\ Peripherals
          /\ bootComplete' = (bootComplete \/ (cf'.halt /\ ~ppcHold'))
     ELSE UNCHANGED <<lines, bootComplete>>
  /\ UNCHANGED resets

\* Mutant: the ColdFire waits until it is a whole PowerPC cycle behind.
CfDueLate == cycleAcc >= CfPerPpc

CfDue == cycleAcc >= 0

\* Mutant: the hand-off is noticed on the ColdFire's next turn only.
HoldAfterLate == ppcHold /\ ~cf.halt

\* A halted ColdFire, after STOP or after an error, releases the PowerPC.
HoldAfter == ppcHold /\ ~cf'.halt

CfTurn ==
  /\ totalCycles < MaxCycles
  /\ CfDue
  /\ cf' \in CfOutcomes(CfAwake)
  /\ cfCycles' = cfCycles + 1
  /\ cycleAcc' = cycleAcc - PpcPerCf
  /\ ppcHold' = HoldAfter
  /\ UNCHANGED <<ppcCycles, heldCycles, ppc>>
  /\ EndOfCycle

PpcTurn ==
  /\ totalCycles < MaxCycles
  /\ ~CfDue /\ ~ppcHold
  /\ ppc' \in PpcOutcomes(PpcAwake)
  /\ ppcCycles' = ppcCycles + 1
  /\ cycleAcc' = cycleAcc + CfPerPpc
  /\ UNCHANGED <<cfCycles, heldCycles, ppcHold, cf>>
  /\ EndOfCycle

HeldTurn ==
  /\ totalCycles < MaxCycles
  /\ ~CfDue /\ ppcHold
  /\ heldCycles' = heldCycles + 1
  /\ cycleAcc' = cycleAcc + CfPerPpc
  /\ UNCHANGED <<ppcCycles, cfCycles, ppcHold, ppc, cf>>
  /\ EndOfCycle

\* reset() puts both CPUs back but neither the hold nor the debt.
Reset ==
  /\ resets < MaxResets
  /\ ppc' = PpcReset /\ cf' = CfReset
  /\ bootComplete' = FALSE
  /\ resets' = resets + 1
  /\ UNCHANGED <<clocks, ppcHold, lines>>

Next == CfTurn \/ PpcTurn \/ HeldTurn \/ Reset

Spec == Init /\ [][Next]_vars
-----------------------------------------------------------------------------
(* Type correctness of every field. *)
TypeOK ==
  /\ cycleAcc \in Int
  /\ totalCycles \in Nat /\ ppcCycles \in Nat /\ cfCycles \in Nat
  /\ heldCycles \in Nat /\ resets \in Nat
  /\ ppcHold \in BOOLEAN /\ bootComplete \in BOOLEAN
  /\ ppc \in [halt : BOOLEAN, ee : BOOLEAN, savedEE : BOOLEAN]
  /\ cf \in [halt : BOOLEAN, mask : 0..7, fault : BOOLEAN]
  /\ lines \subseteq Levels

(* The two clocks keep the ratio 266:140 that run_cycles promises: however *)
(* instructions, halts, errors, the hold and resets fall, the PowerPC's    *)
(* time, hold included, is never a whole turn of either CPU away from the  *)
(* ColdFire's, and every cycle is somebody's.                              *)
ClockRatio ==
  LET drift == CfPerPpc * (ppcCycles + heldCycles) - PpcPerCf * cfCycles
  IN  /\ -PpcPerCf <= drift /\ drift < CfPerPpc
      /\ totalCycles = ppcCycles + heldCycles + cfCycles

(* The bootstrap's hold: while it lasts the PowerPC has not run at all,    *)
(* the ColdFire is awake (so somebody can still end it) and nobody takes   *)
(* the machine for booted.                                                 *)
HoldProtocol ==
  ppcHold => ppcCycles = 0 /\ ppc = PpcReset /\ ~cf.halt /\ ~bootComplete

(* A halted CPU runs again only because an interrupt routed to it is       *)
(* pending, or because the machine is reset.                               *)
WokenByItsInterrupt ==
  [][resets' = resets =>
       /\ (cf.halt /\ ~cf'.halt => CfIrqPending(lines))
       /\ (ppc.halt /\ ~ppc'.halt => PpcIrqPending(lines))]_vars

(* Nothing withdraws a line, so from the first interrupt of the PowerPC on *)
(* every turn it takes with MSR[EE] set is an interrupt entry: code that   *)
(* runs with interrupts open makes no progress between them.               *)
InterruptStorm ==
  [][ /\ lines \subseteq lines'
      /\ ppcCycles' # ppcCycles /\ ppc.ee /\ PpcIrqPending(lines)
           => ppc' = [halt |-> FALSE, ee |-> FALSE, savedEE |-> TRUE]]_vars

(* "PPC held in reset during ColdFire bootstrap" (hardware.rs, ppc_hold):  *)
(* the hold ends when the bootstrap ends, with a STOP.  What the code does *)
(* is to end it on an error of the ColdFire too.                           *)
HeldUntilStop == [][ppcHold /\ ~ppcHold' => ~cf'.fault]_vars
=============================================================================
