SPECIFICATION Spec
CONSTANTS
  BufSize = 2
  PacketLimit = 3
  DataHeader = 1
  RecvSlots = 1
  SendSlots = 1
  MaxPackets = {3}
  FirstWindows = {0,1}
  MaxWindow = 2
  Polite = FALSE
  Modes = {"exec"}
  MaxOpens = 2
  MaxOthers = 1
  MaxInput = 4
  MaxCredit = 1
  MaxPending = 1
  MaxOutput = 0
INVARIANTS
  BufferSafe
CHECK_DEADLOCK FALSE
