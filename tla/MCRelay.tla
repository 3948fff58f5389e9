------------------------------ MODULE MCRelay ------------------------------
(* Two requests for one wallet.                                            *)
EXTENDS Relay, TLC

CONSTANTS r1, r2, wallet1

OneWallet == (r1 :> wallet1) @@ (r2 :> wallet1)
===========================================================================
