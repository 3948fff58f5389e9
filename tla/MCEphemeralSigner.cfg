CONSTANTS
  SigningPages = {p1, p2}
  None = None
  MaxSigned = 4
SPECIFICATION SignerSpec
SYMMETRY Symmetry
INVARIANTS KeyExposedOnce KeyExecutesOnce SignerIsNonce
