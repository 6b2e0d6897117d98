\* Two processes and two keys for one capability of one target, which
\* somebody edits once, with the fairness of the scheduler.
CONSTANTS
  Proc = {p1, p2}
  Key = {k1, k2}
  Target = {t1}
  Capability = {c1}
  Lineage = {g1}
  MaxEntries = 4
  None = None
  MaxEdits = 1
CHECK_DEADLOCK FALSE
SPECIFICATION FairSpec
INVARIANTS WorkflowTypeOK ClaimDurable MarksQuarantined UnchangedTrue CompletedHasRecipe
PROPERTIES KeepsLedger LessonsEnd
