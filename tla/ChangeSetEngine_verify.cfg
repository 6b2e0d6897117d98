\* No faults.
CONSTANTS
  ChangeSets = {c1}
  Keys = {k1, k2}
  Procs = {p1}
  Hashes = {h1, h2, h3}
  HeadCode = {}
  NoKey = NoKey
  NoHash = NoHash
  Free = Free
  Stale = Stale
  MaxDrifts = 1
  MaxFaults = 0
CHECK_DEADLOCK FALSE
SPECIFICATION Spec
INVARIANTS VerifyReportsMismatch
