------------------------------ MODULE MCSwap ------------------------------
(* A wallet that swaps and does anything else with the contracts, and an   *)
(* account beside it.                                                      *)
EXTENDS Swap, TLC

CONSTANTS w1, u1

\* Each token against each other rounds down.
MCPrice == [t \in Tokens |-> CASE t = "WETH" -> 3 [] t = "USD" -> 2 [] t = "JEDKH" -> 1]
MCReserve == [t \in Tokens |-> IF t = "JEDKH" THEN 3 ELSE 1]
MCEther == [a \in Owners |-> IF a = w1 THEN 1 ELSE 0]
MCRecipients == {u1, "swapper"}
===========================================================================
