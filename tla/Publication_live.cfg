\* Fair scheduling: every call ends.
CONSTANTS
  Keys = {k1}
  Procs = {p1}
  Pages = {g1}
  Stamps = {s1, s2}
  Free = Free
  Stale = Stale
  None = None
  Rereads = 2
  MaxDrifts = 1
  MaxFaults = 1
CHECK_DEADLOCK FALSE
SPECIFICATION FairSpec
PROPERTIES LockReleased
