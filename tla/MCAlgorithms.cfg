SPECIFICATION Spec
CONSTANTS
  NewenvLen = 6
  NewenvSpace = 26
  Names = {"PATH", "TERM", "LANG"}
  Sizes = {1, 4}
  Environ <- ProcessEnviron
  NumWidth = 8
  NumtostrLen = 5
  IptostrLen = 46
  LineMax = 6
  Addresses <- MCAddresses
  MaxText = 5
  SubsystemMax = 2
  ByteBits = 4
  NumLen = 1
  BufAlloc = 12
  MaxNumber = 100
  Comma = 1
  AlgorithmNames <- MCNames
  KeyName <- MCKeyName
  PkBytes = 1
  SigBytes = 2
  MaxBytes = 3
  KP = 5
  KQ = 79
  KW = 3
  KByte = 16
  KLimit = 128
  KWord = 16
  KeyGs <- MCGs
  KeyFs <- MCFs
  Messages <- MCMessages
  SortBits = 4
  Limbs = 2
  LimbBits = 5
  WordBits = 12
  Fold19 = 3
  A24 = 89
  BasePoint <- MCBasePoint
  Order = 67
  WindowBits = 3
  Hash <- MCHash
  Elements <- MCElements
  Points <- MCPoints
  Scalars <- MCScalars
  Seeds = {1, 2}
  SignedTexts = {0, 1}
  OctetBits = 4
  ShaBlk = 8
  ShaField = 3
  ShaLen = 2
  StreamBlk = 8
  IvLen = 4
  SeqLen = 2
  Pad0 = 8
  IPad = 3
  OPad = 5
  Compress <- Mix
  Keystream <- MCKeystream
  LabelPrefix <- MCPrefix
  RMask = 16383
  Lengths <- MCLengths
  BlkBits = 8
  WideBits = 12
  Turns <- MCTurns
  DoubleRounds = 3
  HashRounds = 24
  HashTurns <- MCHashTurns
  BlockSeeds = {0, 7, 44, 201}
  MaxFd = 11
  MaxOther = 5
  OptionWords <- MCWords
  FileParts = 2
  MaxKeys = 2
  MaxLosses = 1
  MaxKills = 1
INVARIANTS
  CommandPrepared
  FormatsReadBack
  PrimitivesAgree
  RecordOpens
  KeysWhole
  SubprocessAnswers
  NothingLeft
CHECK_DEADLOCK FALSE
