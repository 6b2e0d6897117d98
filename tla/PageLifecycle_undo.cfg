\* One round trip in which one thing goes wrong.
CONSTANTS
  Keys = {k1}
  MaxPages = 2
  MaxCalls = 1
  MaxFaults = 1
  MaxDrifts = 0
  None = None
SPECIFICATION Spec
INVARIANT CompensationCleans
CHECK_DEADLOCK FALSE
