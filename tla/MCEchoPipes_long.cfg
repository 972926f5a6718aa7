\* Input that fills both socket pairs.
SPECIFICATION Spec
CONSTANTS
  BufSize = 4
  Cap = 1
  Replies = {1}
  Banner = 1
  MaxWindow = 2
  MaxInput = 5
  MaxPrinted = 6
INVARIANTS NotMutuallyBlocked
CHECK_DEADLOCK FALSE
