SPECIFICATION Spec
CONSTANTS
  BufSize = 3
  PacketLimit = 4
  DataHeader = 2
  RecvSlots = 2
  SendSlots = 2
  MaxPackets = {1,2,3,5}
  FirstWindows = {1,2}
  MaxWindow = 3
  Polite = TRUE
  Modes = {"shell","exec"}
  MaxOpens = 1
  MaxOthers = 0
  MaxInput = 1
  MaxCredit = 3
  MaxPending = 3
  MaxOutput = 2
CHECK_DEADLOCK FALSE
PROPERTIES
  ReadingEnds
  OutputFlow
