SPECIFICATION FairSpec
CONSTANTS
  BufSize = 3
  PacketLimit = 3
  DataHeader = 1
  RecvSlots = 1
  SendSlots = 1
  MaxPackets = {3}
  FirstWindows = {1}
  MaxWindow = 3
  Polite = TRUE
  Modes = {"shell"}
  MaxOpens = 1
  MaxOthers = 0
  MaxInput = 4
  MaxCredit = 0
  MaxPending = 2
  MaxOutput = 0
INVARIANTS
  PoliteClientSafe
  WindowsAgree
  WindowNotStuck
  EofAfterInput
CHECK_DEADLOCK FALSE
PROPERTIES
  InputReachesShell
  EofReachesShell
  InputFlow
