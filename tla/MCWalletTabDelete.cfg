CONSTANTS
  Addresses = {1, 2}
  Ephemeral = {2}
  Limit = 2
  Null = Null
  Slots = {1, 2}
  OtherTabs = FALSE
SPECIFICATION Spec
INVARIANT DeletedStaysDeleted
