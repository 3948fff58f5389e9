CONSTANTS
  w1 = w1
  Wallets = {w1}
  Algorithms = {"falcon-ntt", "ephemeral-ecdsa"}
  Txs = {1, 2}
  WalletOf <- MCWalletOf
  Type <- MCType
  Null = Null
  MaxBlock = 2
  Width = 16
  Queries <- MCQueries
  Addresses = {w1}
  FewRows = 1
  ManyRows = 3
  PageSize = 1
  Slots = {1, 2}
  Overlapping = {"transactions", "wallets"}
SPECIFICATION FairSpec
INVARIANTS StatusTrue SchemeTrue
PROPERTIES EventuallyFresh NotStranded LoadingEnds
