\* The first exchange with every list and guess, then two re-keyings.
SPECIFICATION FairSpec
CONSTANTS
  Algorithms <- EnabledAlgorithms
  Preferences <- AllPreferences
  Guesses = {TRUE, FALSE}
  UnauthLimit = 7
  TryLimit = 9
  MaxRekeys = 2
  MaxPackets = 4
  MaxOutput = 1
INVARIANTS PacketsReadable PacketLimitFirst
PROPERTIES KeysInStep KeyExchangeEnds TaskEnds RekeyingDone
CHECK_DEADLOCK FALSE
