----------------------------- MODULE MCPQWallet -----------------------------
(* Two wallets of either kind, which may share a key, two payers and two    *)
(* operations.                                                              *)
EXTENDS PQWallet, TLC

Symmetric ==
    UNION {Permutations(S) : S \in {PQWallets, EphWallets, PQKeys, Signers, Addresses, Ops}}
=============================================================================
