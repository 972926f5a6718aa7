SPECIFICATION FairSpec
CONSTANTS
  BufSize = 2
  PacketLimit = 2
  DataHeader = 1
  RecvSlots = 1
  SendSlots = 1
  MaxPackets = {2}
  FirstWindows = {1}
  MaxWindow = 2
  Polite = TRUE
  Modes = {"shell"}
  MaxOpens = 1
  MaxOthers = 0
  MaxInput = 1
  MaxCredit = 0
  MaxPending = 1
  MaxOutput = 0
PROPERTIES
  ChildDeathSeen
CHECK_DEADLOCK FALSE
