CONSTANTS
  SigningPages = {p1}
  None = None
  MaxSigned = 3
SPECIFICATION SignerSpec
SYMMETRY Symmetry
INVARIANT IndexIsCurrent
