CONSTANTS
  PacketLimit = 4
  FullLimit = 12
  RecvSlots = 2
  SendSlots = 1
  ZeroBytes = 2
  LenBytes = 2
  AuthBytes = 1
  CipherBytes = 1
  AnswerSize = 2
  DataSize = 9
  Lengths = {1, 4}
  ReadSizes = {3}
  WriteSizes = {4}
  MaxWaiting = 1
  MaxKex = 1
  MaxSent = 6
  MaxData = 2
SPECIFICATION FairSpec
INVARIANTS Verified AnswersFit CompactionReach
CHECK_DEADLOCK FALSE
PROPERTIES EverythingHandled
