\* Two sessions, one after the other or at once, with resets and failed writes.
SPECIFICATION FairSpec
CONSTANTS
  Sessions = {s1, s2}
  WritesMayFail = TRUE
  MaxPairs = 3
  MaxResets = 1
  MaxChildren = 1
INVARIANTS DescriptorsAccounted PairMatches SignatureVerifies
PROPERTIES HostKeyStable ChildEnds
CHECK_DEADLOCK FALSE
