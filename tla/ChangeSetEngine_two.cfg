\* Two change sets of one target, one of them page HEAD code, sharing a key,
\* with the fairness of the scheduler.
CONSTANTS
  ChangeSets = {c1, c2}
  Keys = {k1}
  Procs = {p1}
  Hashes = {h1, h2, h3}
  HeadCode = {c2}
  NoKey = NoKey
  NoHash = NoHash
  Free = Free
  Stale = Stale
  MaxDrifts = 0
  MaxFaults = 1
SPECIFICATION FairSpec
CHECK_DEADLOCK FALSE
INVARIANTS KeyAuthorisesOnce PlanScanUnambiguous
PROPERTIES LockReleased
