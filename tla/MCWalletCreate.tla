--------------------------- MODULE MCWalletCreate ---------------------------
(* Pages that deploy more than once.                                       *)
EXTENDS WalletCreate, TLC

CONSTANTS p1
===========================================================================
