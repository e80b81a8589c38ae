--------------------------- MODULE SchedulerProofs ---------------------------
(***************************************************************************)
(* Theorems about Scheduler for every cost, quantum and bound.             *)
(***************************************************************************)
EXTENDS Scheduler, TLAPS

\* The debt is what ClockRatio calls the drift, and it stays in range.
DebtInv ==
  /\ cycleAcc = CfPerPpc * (ppcCycles + heldCycles) - PpcPerCf * cfCycles
  /\ -PpcPerCf <= cycleAcc /\ cycleAcc < CfPerPpc
  /\ totalCycles = ppcCycles + heldCycles + cfCycles
-----------------------------------------------------------------------------
(* One more cycle adds its cost once to a product of cost and cycles. *)
LEMMA CostOfNext ==
  ASSUME NEW cost \in Nat, NEW n \in Nat
  PROVE  /\ cost * (n + 1) = cost * n + cost
         /\ cost * n \in Nat
  OBVIOUS

(* What update_pending leaves for the ColdFire: a shared level counts      *)
(* whoever asserted it, so level 4 (DmaDone and UartRx) wins over level 3. *)
LEMMA CfIrqLevelValue ==
  ASSUME NEW S
  PROVE  CfIrqLevel(S) = IF 4 \in S THEN 4 ELSE IF 3 \in S THEN 3 ELSE 0
<1> DEFINE T == {0} \union (S \intersect LevelsTo("ColdFire"))
           m == IF 4 \in S THEN 4 ELSE IF 3 \in S THEN 3 ELSE 0
<1>1. LevelsTo("ColdFire") = {3, 4}
  <2>1. \A r \in Routing : r.target = "ColdFire" => r.level \in {3, 4}
    BY DEF Routing
  <2>2. \A n \in {3, 4} : \E r \in Routing : r.target = "ColdFire" /\ r.level = n
    <3> DEFINE t == [source |-> "Timer0", target |-> "ColdFire", level |-> 3, vector |-> 108]
               u == [source |-> "UartRx", target |-> "ColdFire", level |-> 4, vector |-> 112]
    <3>1. t \in Routing /\ u \in Routing
      BY DEF Routing
    <3> QED
      BY <3>1
  <2> QED
    BY <2>1, <2>2 DEF LevelsTo
<1>2. T \subseteq {0, 3, 4}
  BY <1>1
<1>3. m \in T /\ \A y \in T : m >= y
  BY <1>1, <1>2
<1>4. \A x \in T : (\A y \in T : x >= y) => x = m
  BY <1>2, <1>3
<1> QED
  BY <1>3, <1>4 DEF CfIrqLevel, Max

(* The state reset leaves the CPUs in is well typed. *)
LEMMA ResetType ==
  /\ PpcReset \in [halt : BOOLEAN, ee : BOOLEAN, savedEE : BOOLEAN]
  /\ CfReset \in [halt : BOOLEAN, mask : 0..7, fault : BOOLEAN]
<1>1. PpcReset \in [halt : BOOLEAN, ee : BOOLEAN, savedEE : BOOLEAN]
  BY DEF PpcReset
<1>2. CfReset \in [halt : BOOLEAN, mask : 0..7, fault : BOOLEAN]
  BY DEF CfReset
<1> QED
  BY <1>1, <1>2

LEMMA CfOutcomesType ==
  ASSUME TypeOK, SchedulerAssumption
  PROVE  CfOutcomes(CfAwake) \subseteq [halt : BOOLEAN, mask : 0..7, fault : BOOLEAN]
<1>1. CfIrqLevel(lines) \in 0..7
  BY CfIrqLevelValue
<1>2. CfAwake \in [halt : BOOLEAN, mask : 0..7, fault : BOOLEAN]
  BY DEF TypeOK, CfAwake
<1> QED
  BY <1>1, <1>2 DEF CfOutcomes, CfInterrupt, CfInstruction, CfError, SchedulerAssumption

LEMMA PpcOutcomesType ==
  ASSUME TypeOK
  PROVE  PpcOutcomes(PpcAwake) \subseteq [halt : BOOLEAN, ee : BOOLEAN, savedEE : BOOLEAN]
<1>1. PpcAwake \in [halt : BOOLEAN, ee : BOOLEAN, savedEE : BOOLEAN]
  BY DEF TypeOK, PpcAwake
<1> QED
  BY <1>1 DEF PpcOutcomes, PpcInterrupt, PpcInstruction

LEMMA EndOfCycleType ==
  ASSUME TypeOK, EndOfCycle, cf'.halt \in BOOLEAN, ppcHold' \in BOOLEAN
  PROVE  /\ totalCycles' \in Nat /\ totalCycles' = totalCycles + 1
         /\ lines' \subseteq Levels
         /\ bootComplete' \in BOOLEAN
         /\ resets' \in Nat
         /\ bootComplete' => bootComplete \/ ~ppcHold'
<1>1. \A s : LevelsOf(s) \subseteq Levels
  BY DEF LevelsOf, Routing, Levels
<1>2. Peripherals => lines' \subseteq Levels
  BY <1>1 DEF Peripherals, TypeOK
<1>3. CASE totalCycles' % Quantum = 0
  BY <1>2, <1>3 DEF EndOfCycle, TypeOK
<1>4. CASE totalCycles' % Quantum # 0
  BY <1>4 DEF EndOfCycle, TypeOK
<1> QED
  BY <1>3, <1>4 DEF EndOfCycle
-----------------------------------------------------------------------------
(* Every field keeps its type, whatever the CPUs and the devices do. *)
THEOREM TypeCorrect == Spec => []TypeOK
<1>1. Init => TypeOK
  <2> SUFFICES ASSUME Init PROVE TypeOK
    OBVIOUS
  <2>1. /\ cycleAcc \in Int
        /\ totalCycles \in Nat /\ ppcCycles \in Nat /\ cfCycles \in Nat
        /\ heldCycles \in Nat /\ resets \in Nat
    BY DEF Init
  <2>2. ppcHold \in BOOLEAN /\ bootComplete \in BOOLEAN
    BY DEF Init
  <2>3. ppc \in [halt : BOOLEAN, ee : BOOLEAN, savedEE : BOOLEAN]
    BY ResetType DEF Init
  <2>4. cf \in [halt : BOOLEAN, mask : 0..7, fault : BOOLEAN]
    BY ResetType DEF Init
  <2>5. lines \subseteq Levels
    BY DEF Init
  <2> QED
    BY <2>1, <2>2, <2>3, <2>4, <2>5 DEF TypeOK
<1>2. TypeOK /\ [Next]_vars => TypeOK'
  <2> SUFFICES ASSUME TypeOK, [Next]_vars PROVE TypeOK'
    OBVIOUS
  <2>1. CASE CfTurn
    <3>1. cf' \in [halt : BOOLEAN, mask : 0..7, fault : BOOLEAN]
      BY <2>1, CfOutcomesType, SchedulerAssumption DEF CfTurn
    <3>2. ppcHold' \in BOOLEAN
      BY <2>1, <3>1 DEF CfTurn, HoldAfter, TypeOK
    <3>3. EndOfCycle
      BY <2>1 DEF CfTurn
    <3>4. cycleAcc' \in Int /\ cfCycles' \in Nat
      BY <2>1, SchedulerAssumption DEF CfTurn, TypeOK, SchedulerAssumption
    <3> QED
      BY <2>1, <3>1, <3>2, <3>3, <3>4, EndOfCycleType DEF CfTurn, TypeOK
  <2>2. CASE PpcTurn
    <3>1. ppc' \in [halt : BOOLEAN, ee : BOOLEAN, savedEE : BOOLEAN]
      BY <2>2, PpcOutcomesType DEF PpcTurn
    <3>2. cf' \in [halt : BOOLEAN, mask : 0..7, fault : BOOLEAN] /\ ppcHold' \in BOOLEAN
      BY <2>2 DEF PpcTurn, TypeOK
    <3>3. cycleAcc' \in Int /\ ppcCycles' \in Nat
      BY <2>2, SchedulerAssumption DEF PpcTurn, TypeOK, SchedulerAssumption
    <3> QED
      BY <2>2, <3>1, <3>2, <3>3, EndOfCycleType DEF PpcTurn, TypeOK
  <2>3. CASE HeldTurn
    <3>1. cf' \in [halt : BOOLEAN, mask : 0..7, fault : BOOLEAN] /\ ppcHold' \in BOOLEAN
      BY <2>3 DEF HeldTurn, TypeOK
    <3>2. cycleAcc' \in Int /\ heldCycles' \in Nat
      BY <2>3, SchedulerAssumption DEF HeldTurn, TypeOK, SchedulerAssumption
    <3> QED
      BY <2>3, <3>1, <3>2, EndOfCycleType DEF HeldTurn, TypeOK
  <2>4. CASE Reset
    <3>1. ppc' \in [halt : BOOLEAN, ee : BOOLEAN, savedEE : BOOLEAN]
      BY <2>4, ResetType DEF Reset
    <3>2. cf' \in [halt : BOOLEAN, mask : 0..7, fault : BOOLEAN]
      BY <2>4, ResetType DEF Reset
    <3>3. resets' \in Nat
      BY <2>4 DEF Reset, TypeOK
    <3>4. bootComplete' \in BOOLEAN
      BY <2>4 DEF Reset
    <3>5. UNCHANGED <<cycleAcc, totalCycles, ppcCycles, cfCycles, heldCycles, ppcHold, lines>>
      BY <2>4 DEF Reset, clocks
    <3> QED
      BY <3>1, <3>2, <3>3, <3>4, <3>5 DEF TypeOK
  <2>5. CASE UNCHANGED vars
    BY <2>5 DEF vars, clocks, TypeOK
  <2> QED
    BY <2>1, <2>2, <2>3, <2>4, <2>5 DEF Next
<1> QED
  BY <1>1, <1>2, PTL DEF Spec
-----------------------------------------------------------------------------
(* The debt accumulator counts exactly the drift between the two clocks,   *)
(* and a turn is only ever given to the CPU that is behind.                *)
THEOREM DebtBounded == Spec => []DebtInv
<1>1. Init => DebtInv
  BY SchedulerAssumption DEF Init, DebtInv, SchedulerAssumption
<1>2. TypeOK /\ DebtInv /\ [Next]_vars => DebtInv'
  <2> SUFFICES ASSUME TypeOK, DebtInv, [Next]_vars PROVE DebtInv'
    OBVIOUS
  <2> USE SchedulerAssumption DEF SchedulerAssumption
  <2>1. CASE CfTurn
    <3>1. PpcPerCf * (cfCycles + 1) = PpcPerCf * cfCycles + PpcPerCf
          /\ PpcPerCf * cfCycles \in Nat
      BY CostOfNext DEF TypeOK
    <3>2. CfPerPpc * (ppcCycles + heldCycles) \in Nat
      BY CostOfNext DEF TypeOK
    <3> QED
      BY <2>1, <3>1, <3>2 DEF CfTurn, CfDue, EndOfCycle, TypeOK, DebtInv
  <2>2. CASE PpcTurn
    <3>1. CfPerPpc * ((ppcCycles + heldCycles) + 1)
            = CfPerPpc * (ppcCycles + heldCycles) + CfPerPpc
          /\ CfPerPpc * (ppcCycles + heldCycles) \in Nat
      BY CostOfNext DEF TypeOK
    <3>2. ppcCycles' + heldCycles' = (ppcCycles + heldCycles) + 1
      BY <2>2 DEF PpcTurn, TypeOK
    <3>3. PpcPerCf * cfCycles \in Nat
      BY CostOfNext DEF TypeOK
    <3> QED
      BY <2>2, <3>1, <3>2, <3>3 DEF PpcTurn, CfDue, EndOfCycle, TypeOK, DebtInv
  <2>3. CASE HeldTurn
    <3>1. CfPerPpc * ((ppcCycles + heldCycles) + 1)
            = CfPerPpc * (ppcCycles + heldCycles) + CfPerPpc
          /\ CfPerPpc * (ppcCycles + heldCycles) \in Nat
      BY CostOfNext DEF TypeOK
    <3>2. ppcCycles' + heldCycles' = (ppcCycles + heldCycles) + 1
      BY <2>3 DEF HeldTurn, TypeOK
    <3>3. PpcPerCf * cfCycles \in Nat
      BY CostOfNext DEF TypeOK
    <3> QED
      BY <2>3, <3>1, <3>2, <3>3 DEF HeldTurn, CfDue, EndOfCycle, TypeOK, DebtInv
  <2>4. CASE Reset
    BY <2>4 DEF Reset, clocks, DebtInv
  <2>5. CASE UNCHANGED vars
    BY <2>5 DEF vars, clocks, DebtInv
  <2> QED
    BY <2>1, <2>2, <2>3, <2>4, <2>5 DEF Next
<1> QED
  BY <1>1, <1>2, TypeCorrect, PTL DEF Spec

(* Neither CPU ever gets a whole turn ahead of the ratio of their clocks,  *)
(* for every pair of costs and every program the CPUs run.                 *)
THEOREM ClockRatioHolds == Spec => []ClockRatio
<1>1. DebtInv => ClockRatio
  BY DEF DebtInv, ClockRatio
<1> QED
  BY <1>1, DebtBounded, PTL
-----------------------------------------------------------------------------
(* Until the hand-off the PowerPC is untouched and the ColdFire is awake.  *)
THEOREM HoldRespected == Spec => []HoldProtocol
<1>1. Init => HoldProtocol
  BY DEF Init, HoldProtocol, CfReset
<1>2. TypeOK /\ HoldProtocol /\ [Next]_vars => HoldProtocol'
  <2> SUFFICES ASSUME TypeOK, HoldProtocol, [Next]_vars, ppcHold'
               PROVE  ppcHold /\ ppcCycles' = 0 /\ ppc' = PpcReset
                      /\ ~cf'.halt /\ ~bootComplete'
    BY DEF HoldProtocol
  <2>1. CASE CfTurn
    <3>1. ppcHold /\ ~cf'.halt
      BY <2>1 DEF CfTurn, HoldAfter
    <3>2. ~bootComplete'
      BY <2>1, <3>1 DEF CfTurn, EndOfCycle, HoldProtocol
    <3> QED
      BY <2>1, <3>1, <3>2 DEF CfTurn, HoldProtocol
  <2>2. CASE PpcTurn
    BY <2>2 DEF PpcTurn
  <2>3. CASE HeldTurn
    BY <2>3 DEF HeldTurn, EndOfCycle, HoldProtocol
  <2>4. CASE Reset
    BY <2>4 DEF Reset, clocks, HoldProtocol, CfReset
  <2>5. CASE UNCHANGED vars
    BY <2>5 DEF vars, clocks, HoldProtocol
  <2> QED
    BY <2>1, <2>2, <2>3, <2>4, <2>5 DEF Next
<1> QED
  BY <1>1, <1>2, TypeCorrect, PTL DEF Spec
-----------------------------------------------------------------------------
(* A halted CPU leaves its halt on a pending interrupt of its own or on a  *)
(* reset, on no other step.                                                *)
THEOREM WokenByItsInterruptHolds == Spec => WokenByItsInterrupt
<1> DEFINE A == resets' = resets =>
                  /\ (cf.halt /\ ~cf'.halt => CfIrqPending(lines))
                  /\ (ppc.halt /\ ~ppc'.halt => PpcIrqPending(lines))
<1>1. TypeOK /\ [Next]_vars => [A]_vars
  <2> SUFFICES ASSUME TypeOK, [Next]_vars PROVE [A]_vars
    OBVIOUS
  <2>1. CASE CfTurn
    <3>1. cf.halt /\ ~CfIrqPending(lines) => cf' = cf
      BY <2>1 DEF CfTurn, CfOutcomes, CfAwake
    <3> QED
      BY <2>1, <3>1 DEF CfTurn
  <2>2. CASE PpcTurn
    <3>1. ppc.halt /\ ~PpcIrqPending(lines) => ppc'.halt
      <4> SUFFICES ASSUME ppc.halt, ~PpcIrqPending(lines) PROVE ppc'.halt
        OBVIOUS
      <4>1. PpcAwake.halt
        BY DEF PpcAwake, TypeOK
      <4> QED
        BY <2>2, <4>1 DEF PpcTurn, PpcOutcomes
    <3> QED
      BY <2>2, <3>1 DEF PpcTurn
  <2>3. CASE HeldTurn
    BY <2>3 DEF HeldTurn
  <2>4. CASE Reset
    BY <2>4 DEF Reset, TypeOK
  <2>5. CASE UNCHANGED vars
    BY <2>5
  <2> QED
    BY <2>1, <2>2, <2>3, <2>4, <2>5 DEF Next
<1> QED
  BY <1>1, TypeCorrect, PTL DEF Spec, WokenByItsInterrupt

(* Lines only rise, and a PowerPC turn that begins with interrupts open    *)
(* and one pending is spent on the interrupt entry.                        *)
THEOREM InterruptStormHolds == Spec => InterruptStorm
<1> DEFINE A == /\ lines \subseteq lines'
                /\ ppcCycles' # ppcCycles /\ ppc.ee /\ PpcIrqPending(lines)
                     => ppc' = [halt |-> FALSE, ee |-> FALSE, savedEE |-> TRUE]
<1>1. TypeOK /\ [Next]_vars => [A]_vars
  <2> SUFFICES ASSUME TypeOK, [Next]_vars PROVE [A]_vars
    OBVIOUS
  <2>1. EndOfCycle => lines \subseteq lines'
    BY DEF EndOfCycle, Peripherals
  <2>2. CASE CfTurn
    BY <2>1, <2>2 DEF CfTurn
  <2>3. CASE PpcTurn
    <3>1. ASSUME ppc.ee, PpcIrqPending(lines)
          PROVE  ppc' = [halt |-> FALSE, ee |-> FALSE, savedEE |-> TRUE]
      <4>1. PpcAwake = [halt |-> FALSE, ee |-> TRUE, savedEE |-> ppc.savedEE]
        <5>1. PpcAwake \in [halt : BOOLEAN, ee : BOOLEAN, savedEE : BOOLEAN]
          BY DEF PpcAwake, TypeOK
        <5>2. PpcAwake.halt = FALSE /\ PpcAwake.ee = TRUE
              /\ PpcAwake.savedEE = ppc.savedEE
          BY <3>1 DEF PpcAwake, TypeOK
        <5> QED
          BY <5>1, <5>2
      <4>2. ppc' = PpcInterrupt(PpcAwake)
        BY <2>3, <3>1, <4>1 DEF PpcTurn, PpcOutcomes
      <4> QED
        BY <4>1, <4>2 DEF PpcInterrupt
    <3> QED
      BY <2>1, <2>3, <3>1 DEF PpcTurn
  <2>4. CASE HeldTurn
    BY <2>1, <2>4 DEF HeldTurn
  <2>5. CASE Reset
    BY <2>5 DEF Reset, clocks
  <2>6. CASE UNCHANGED vars
    BY <2>6
  <2> QED
    BY <2>2, <2>3, <2>4, <2>5, <2>6 DEF Next
<1> QED
  BY <1>1, TypeCorrect, PTL DEF Spec, InterruptStorm
=============================================================================
