CONSTANTS
  Handlers = {h1, h2}
  None = None
  Prices = {1, 2}
  MaxCalls = 3
  MaxDrops = 1
  MaxCrashes = 1
SPECIFICATION FairSpec
INVARIANTS AckedNoncesUnique AckedSurvives NoNonceGap HealsAfterOneReject
PROPERTIES EveryCallReturns AckedIsMined
CHECK_DEADLOCK FALSE
