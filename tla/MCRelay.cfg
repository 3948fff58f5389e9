CONSTANTS
  r1 = r1
  r2 = r2
  wallet1 = wallet1
  Requests = {r1, r2}
  Wallets = {wallet1}
  WalletOf <- OneWallet
  None = None
  MaxFaults = 3
SPECIFICATION FairSpec
INVARIANTS RowsAgreeWithChain RelayedIsRecorded FailureMeansFailed
PROPERTIES MinedIsResolved
