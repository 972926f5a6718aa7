CONSTANTS
  BufSize = 2
  PipeSize = 1
  Window = 1
  MaxOut = 1
  MaxIn = 1
SPECIFICATION FairSpec
INVARIANTS DeathNotMissed OutputComplete EndsInOrder
PROPERTIES StatusReported SessionEnds OutputFlow
CHECK_DEADLOCK FALSE
