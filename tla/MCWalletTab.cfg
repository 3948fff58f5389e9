CONSTANTS
  Addresses = {1, 2}
  Ephemeral = {2}
  Limit = 2
  Null = Null
  Slots = {1, 2}
  OtherTabs = TRUE
SPECIFICATION FairSpec
INVARIANTS ActiveWasStored ReadyIsLoaded
PROPERTIES GoneForGood RedirectJustified PageSettles
