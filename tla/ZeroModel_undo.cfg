CONSTANTS
  Strings = {s1, s2}
  Numbers = {n1, n2}
  Others = {o1}
  Null = Null
  Ids = {i1, i2, i3}
  MaxKey = 2
  None = None
SPECIFICATION Spec
INVARIANT WriteUndoable
CHECK_DEADLOCK FALSE
