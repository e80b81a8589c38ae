------------------------ MODULE InterruptController ------------------------
(***************************************************************************)
(* src/interrupt.rs: seven sources share one line per priority level, and  *)
(* update_pending derives what each CPU sees from the lines alone.  The    *)
(* cached fields pending_ppc, pending_cf_level and pending_cf_vector are   *)
(* recomputed by every operation that touches a line, so they are          *)
(* operators over the lines here.                                          *)
(***************************************************************************)
EXTENDS Integers, FiniteSetsExt

\* The routing table.  A level may carry sources of both CPUs.
Routing ==
  { [source |-> "GpuVBlank", target |-> "Ppc",      level |-> 1, vector |-> 100],
    [source |-> "CdromData", target |-> "Ppc",      level |-> 2, vector |-> 104],
    [source |-> "CdromDone", target |-> "Ppc",      level |-> 2, vector |-> 104],
    [source |-> "Timer0",    target |-> "ColdFire", level |-> 3, vector |-> 108],
    [source |-> "Timer1",    target |-> "Ppc",      level |-> 3, vector |-> 108],
    [source |-> "DmaDone",   target |-> "Ppc",      level |-> 4, vector |-> 112],
    [source |-> "UartRx",    target |-> "ColdFire", level |-> 4, vector |-> 112] }

Levels == 1..7

\* Lines are the set of asserted levels; assert_irq adds the levels of its
\* source.  deassert_irq, which would take them away, has no caller.
LevelsOf(source) == { r.level : r \in { x \in Routing : x.source = source } }

LevelsTo(target) == { r.level : r \in { x \in Routing : x.target = target } }

PpcIrqPending(lines) == lines \intersect LevelsTo("Ppc") # {}

\* The highest asserted level with a ColdFire source on it, 0 for none.
CfIrqLevel(lines) == Max({0} \union (lines \intersect LevelsTo("ColdFire")))

CfIrqPending(lines) == CfIrqLevel(lines) > 0
=============================================================================
