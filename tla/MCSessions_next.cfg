\* One session after another.
SPECIFICATION Spec
CONSTANTS
  Sessions = {s1, s2}
  WritesMayFail = FALSE
  MaxPairs = 1
  MaxResets = 0
  MaxChildren = 0
INVARIANTS NextSessionOffered
CHECK_DEADLOCK FALSE
