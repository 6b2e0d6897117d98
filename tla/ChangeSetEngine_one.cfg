\* One change set, two processes: deaths, refused writes and foreign edits.
CONSTANTS
  ChangeSets = {c1}
  Keys = {k1, k2}
  Procs = {p1, p2}
  Hashes = {h1, h2, h3}
  HeadCode = {}
  NoKey = NoKey
  NoHash = NoHash
  Free = Free
  Stale = Stale
  MaxDrifts = 1
  MaxFaults = 2
SPECIFICATION Spec
CHECK_DEADLOCK FALSE
SYMMETRY Symmetry
INVARIANTS TypeOK SentOnce OutcomeAccepted JournalTruthful
PROPERTIES MaterialKept FollowsLedger
