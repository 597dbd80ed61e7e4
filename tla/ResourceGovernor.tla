--------------------------- MODULE ResourceGovernor ---------------------------
(***************************************************************************)
(* computeGovernorState(): how the worker judges a sample of the load, with*)
(* a margin below each threshold before it calms down again                *)
(* (runtime-worker/src/core/governor/resource-governor.ts).  Samples are   *)
(* percentages, here integers: only their order matters.                   *)
(***************************************************************************)
EXTENDS Integers

GovernorStates == {"normal", "warning", "reject"}
Thresholds == [maxCpu : Int, maxMem : Int, rejectCpu : Int, rejectMem : Int]
WarnMargin == 5
RejectMargin == 3

RejectEnter(t, cpu, mem) == cpu >= t.rejectCpu \/ mem >= t.rejectMem
RejectExit(t, cpu, mem) == cpu < t.rejectCpu - RejectMargin /\ mem < t.rejectMem - RejectMargin
WarnEnter(t, cpu, mem) == cpu >= t.maxCpu \/ mem >= t.maxMem
WarnExit(t, cpu, mem) == cpu < t.maxCpu - WarnMargin /\ mem < t.maxMem - WarnMargin

GovernorState(t, cpu, mem, current) ==
  IF RejectEnter(t, cpu, mem) \/ (current = "reject" /\ ~RejectExit(t, cpu, mem)) THEN "reject"
  ELSE IF current = "warning" THEN IF WarnExit(t, cpu, mem) THEN "normal" ELSE "warning"
  ELSE IF WarnEnter(t, cpu, mem) THEN "warning" ELSE "normal"

Severity(state) == IF state = "reject" THEN 2 ELSE IF state = "warning" THEN 1 ELSE 0
=============================================================================
