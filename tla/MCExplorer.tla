---------------------------- MODULE MCExplorer ----------------------------
(* A wallet of an NTT or the rotating scheme, its deployment and an        *)
(* operation of it.                                                        *)
EXTENDS Explorer

CONSTANTS w1

MCType == <<"deploy", "transfer">>
MCWalletOf == <<w1, w1>>
MCQueries == {[filter |-> f, sort |-> "newest"] : f \in {"", "falcon-ntt"}}
===========================================================================
