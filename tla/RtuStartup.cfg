CONSTANTS
  NumRequests = 1
  Size <- MCMaxSize
  Target <- MCOneTarget
  Good <- MCOneGood
  PduSizeMin = 2
  PduSizeMax = 5
  Polite = TRUE
  Prompt = FALSE
SPECIFICATION FairSpec
PROPERTIES StartupEnds
CHECK_DEADLOCK FALSE
