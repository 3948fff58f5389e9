CONSTANTS
  p1 = p1
  Pages = {p1}
  None = None
  MaxAttempts = 3
  MaxFaults = 2
SPECIFICATION FairSpec
INVARIANTS FundedOnce NoneStranded OneWalletPerKey SavedIsStored
PROPERTIES DeployEnds
CHECK_DEADLOCK FALSE
