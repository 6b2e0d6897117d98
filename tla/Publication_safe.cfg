\* Two keys, two processes, one page: deaths, refused writes, late requests.
CONSTANTS
  Keys = {k1, k2}
  Procs = {p1, p2}
  Pages = {g1}
  Stamps = {s1, s2}
  Free = Free
  Stale = Stale
  None = None
  Rereads = 2
  MaxDrifts = 1
  MaxFaults = 2
CHECK_DEADLOCK FALSE
SPECIFICATION Spec
SYMMETRY Symmetry
INVARIANTS TypeOK DispatchedOnce OutcomeTrue AnswerTrue
PROPERTIES FollowsLedger
