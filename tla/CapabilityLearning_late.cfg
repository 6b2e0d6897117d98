\* The property of workflow.ts:338, on one lesson whose write lands late.
CONSTANTS
  Proc = {p1}
  Key = {k1}
  Target = {t1}
  Capability = {c1}
  Lineage = {g1}
  MaxEntries = 2
  None = None
  MaxEdits = 0
CHECK_DEADLOCK FALSE
SPECIFICATION LearningSpec
INVARIANT SafelyRestored
