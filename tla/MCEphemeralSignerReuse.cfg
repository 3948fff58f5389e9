CONSTANTS
  SigningPages = {p1, p2}
  None = None
  MaxSigned = 3
SPECIFICATION SignerSpec
SYMMETRY Symmetry
INVARIANT KeyPairSingleUse
