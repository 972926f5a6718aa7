\* Input that fits the socket pair: 7 = Banner + 2 * MaxInput.
SPECIFICATION FairSpec
CONSTANTS
  BufSize = 4
  Cap = 3
  Replies = {1, 2}
  Banner = 1
  MaxWindow = 2
  MaxInput = 3
  MaxPrinted = 7
INVARIANTS NotMutuallyBlocked
PROPERTIES EchoArrives
CHECK_DEADLOCK FALSE
