------------------------- MODULE MCEphemeralSigner -------------------------
(* Two pages and the signatures they make.                                 *)
EXTENDS EphemeralSigner, TLC

\* Pages are interchangeable.
Symmetry == Permutations(SigningPages)
===========================================================================
