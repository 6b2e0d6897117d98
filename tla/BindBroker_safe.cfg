\* Two projects, one change of the account, every failure and time-out.
CONSTANTS
  N = 2
  MaxDrifts = 1
  None = None
CHECK_DEADLOCK FALSE
SPECIFICATION FairSpec
INVARIANTS TypeOK GivenBack NavigationTracked BoundExisted OutputAdmitted
PROPERTY RunEnds
