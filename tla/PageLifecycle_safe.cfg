\* Two calls, one failure and one change made by somebody else.
CONSTANTS
  Keys = {k1, k2}
  MaxPages = 3
  MaxCalls = 2
  MaxFaults = 1
  MaxDrifts = 1
  None = None
SPECIFICATION FairSpec
INVARIANTS TypeOK EachCommandOnce RoundTripRestored SavesWhatItSaw ReceiptTrue
PROPERTIES CallsEnd
CHECK_DEADLOCK FALSE
