CONSTANTS
  w1 = w1
  u1 = u1
  Wallets = {w1}
  Users = {u1}
  None = None
  Price <- MCPrice
  Reserve <- MCReserve
  Ether <- MCEther
  Amounts = {0, 1, 2}
  Recipients <- MCRecipients
  Approvals = {5}
  MaxSupply = 2
  MaxUint = 5
SPECIFICATION Spec
INVARIANTS SwapAsSigned SwapperKeepsWorth FullyBacked
PROPERTIES ImplementsAtomicSwap
