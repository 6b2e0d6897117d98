\* Two calls at once, grants one after the other, one clone and a foreign page.
CONSTANTS
  Calls = {c1, c2}
  ChangeSets = {s1}
  Pages = {source, k1}
  Source = source
  Clones = {k1}
  Scopes = {{"edit", "publish", "reference"}}
  Ttls = {1}
  None = None
  Sessions = 1
  MaxTime = 1
  MaxTokens = 2
  MaxDrifts = 1
CHECK_DEADLOCK FALSE
SPECIFICATION FairSpec
INVARIANTS TypeOK ReceiptPending WriteUnderGrant
PROPERTIES RebindKeepsTask PinsGrant CallsEnd
