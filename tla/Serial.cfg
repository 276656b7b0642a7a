CONSTANTS
  NumRequests = 4
  Size <- MCSize
  Target <- MCTarget
  Good <- MCGood
  PduSizeMin = 2
  PduSizeMax = 5
  Polite = TRUE
  Prompt = TRUE
  Noise <- MCNoise
  AscSize <- MCAscSize
  AscTarget <- MCAscTarget
  AscPduSizeMin = 3
  AscPduSizeMax = 4
SPECIFICATION MCSpec
PROPERTIES PoliteAnswered AsciiServes
INVARIANTS CharactersInOrder PoliteServed AssertsHold
CHECK_DEADLOCK FALSE
