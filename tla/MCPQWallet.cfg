CONSTANTS
  PQWallets = {pq, pq2}
  EphWallets = {eph, eph2}
  PQKeys = {p1, p2}
  Signers = {e1, e2}
  NoKey = NoKey
  Addresses = {payer, other}
  Ops = {call, batch}
  MaxNonce = 2
  MaxSigned = 3
SPECIFICATION Spec
INVARIANTS SignatureUsedOnce ExecutedAsSigned RotationChain
PROPERTIES ImplementsAbstractWallet
SYMMETRY Symmetric
CHECK_DEADLOCK FALSE
