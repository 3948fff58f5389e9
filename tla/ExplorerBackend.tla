-------------------------- MODULE ExplorerBackend --------------------------
(***************************************************************************)
(* What the block explorer reads: the tables behind /api/explorer, which   *)
(* the relay handlers and the indexer fill, and the node behind the JSON   *)
(* RPC.  The explorer changes nothing of it.                               *)
(*                                                                         *)
(* A transaction is a number: 1, 2, ... in the order in which rows of the  *)
(* same block would be listed.  Addresses other than wallets, amounts and  *)
(* times are left out.                                                     *)
(***************************************************************************)
EXTENDS Naturals, FiniteSets

CONSTANTS
    Wallets,     \* addresses of PQ wallets
    Algorithms,  \* algorithms wallets are created with
    Txs,         \* transactions, a set of numbers from 1
    WalletOf,    \* the wallet of each transaction of the backend
    Type,        \* "deploy" and "transfer" are the backend's; "plain" and "7702" an EOA's
    Null,        \* JavaScript's null
    MaxBlock,    \* bound: blocks mined
    Width        \* values of a block number: 2^64 in the code

ASSUME BackendAssumption ==
    /\ Algorithms \subseteq {"falcon-direct", "falcon-ntt", "dilithium-direct", "dilithium-ntt", "ephemeral-ecdsa"}
    /\ Txs \subseteq Nat \ {0}
    /\ Type \in [Txs -> {"deploy", "transfer", "plain", "7702"}]
    /\ WalletOf \in [Txs -> Wallets]
    /\ Null \notin Nat
    /\ MaxBlock \in Nat /\ Width \in Nat /\ MaxBlock < Width

VARIABLES
    algorithm,   \* wallets.algorithm of each wallet
    listed,      \* wallets with a row
    row,         \* transactions.status of each transaction, or "none"
    sent,        \* transactions the node knows
    head,        \* number of the latest block
    mined,       \* block of each transaction, 0 before
    reverted,    \* mined transactions that reverted
    down         \* what does not answer now: "none", "server" or "node"

chainVars == <<sent, head, mined, reverted>>
backendVars == <<algorithm, listed, row, chainVars, down>>

BackendInit ==
    /\ algorithm \in [Wallets -> Algorithms]
    /\ listed = {}
    /\ row = [t \in Txs |-> "none"]
    /\ sent = {} /\ head = 0
    /\ mined = [t \in Txs |-> 0]
    /\ reverted = {}
    /\ down = "none"

---------------------------------------------------------------------------
(* The rest of the system.                                                 *)

\* A transaction reaches the node.  A relayed one gets its row, unless storing it
\* failed; a deployment gets it when it is mined.
Relay(t) ==
    /\ t \notin sent
    /\ Type[t] = "transfer" => WalletOf[t] \in listed
    /\ sent' = sent \cup {t}
    /\ \/ Type[t] = "transfer" /\ row' = [row EXCEPT ![t] = "pending"]
       \/ UNCHANGED row
    /\ UNCHANGED <<algorithm, listed, head, mined, reverted, down>>

\* The next block, with at most one of the transactions in it.
Mine ==
    /\ head < MaxBlock
    /\ head' = head + 1
    /\ \/ UNCHANGED <<mined, reverted>>
       \/ \E t \in {u \in sent : mined[u] = 0} :
            /\ mined' = [mined EXCEPT ![t] = head + 1]
            /\ \/ UNCHANGED reverted
               \/ reverted' = reverted \cup {t}
    /\ UNCHANGED <<algorithm, listed, row, sent, down>>

\* The handler or the indexer has the receipt: it resolves a pending row, or
\* stores the wallet and its deployment.
Record(t) ==
    /\ mined[t] # 0
    /\ \/ /\ row[t] = "pending"
          /\ row' = [row EXCEPT ![t] = IF t \in reverted THEN "failed" ELSE "success"]
          /\ UNCHANGED listed
       \/ /\ Type[t] = "deploy" /\ WalletOf[t] \notin listed /\ t \notin reverted
          /\ listed' = listed \cup {WalletOf[t]}
          /\ row' = [row EXCEPT ![t] = "success"]
    /\ UNCHANGED <<algorithm, chainVars, down>>

\* The backend or the node stops answering, or answers again.
Outage ==
    /\ down' \in {"none", "server", "node"} \ {down}
    /\ UNCHANGED <<algorithm, listed, row, chainVars>>

BackendNext == (\E t \in Txs : Relay(t) \/ Record(t)) \/ Mine \/ Outage

---------------------------------------------------------------------------
(* The handlers of /api/explorer; a handler that fails answers Null.       *)

Base(alg) ==
    CASE alg \in {"falcon-direct", "falcon-ntt"} -> "falcon"
      [] alg \in {"dilithium-direct", "dilithium-ntt"} -> "dilithium"
      [] OTHER -> alg

\* algorithmToGas
VerificationGas(alg) ==
    CASE alg = "falcon-direct" -> 2800
      [] alg = "dilithium-direct" -> 119000
      [] alg = "falcon-ntt" -> 5000
      [] alg = "dilithium-ntt" -> 150000
      [] alg = "ephemeral-ecdsa" -> 3000
      [] OTHER -> 0

\* A row as the handlers send it.  Deployments are the payer's, in plain ECDSA.
RawTransaction(t) ==
    LET alg == algorithm[WalletOf[t]]
        deploy == Type[t] = "deploy" IN
    [txHash |-> t, walletAddress |-> WalletOf[t], status |-> row[t], type |-> Type[t],
     signatureScheme |-> IF deploy THEN "ecdsa" ELSE Base(alg),
     verificationGas |-> IF deploy THEN 0 ELSE VerificationGas(alg),
     blockNumber |-> IF row[t] = "pending" THEN Null ELSE mined[t]]

\* Pending rows first, then the latest block.
Before(t, u) ==
    LET Place(x) == IF row[x] = "pending" THEN MaxBlock + 1 ELSE mined[x] IN
    \/ Place(t) > Place(u)
    \/ Place(t) = Place(u) /\ t < u

\* The rows of stored wallets, as many of the first as the limit allows.
RecentTransactions(limit) ==
    LET rows == {t \in Txs : row[t] # "none" /\ WalletOf[t] \in listed} IN
    {RawTransaction(t) : t \in {u \in rows : Cardinality({v \in rows : Before(v, u)}) < limit}}

\* The row and the wallet are both looked up; gasUsed is 0 without a receipt.
ExplorerTx(t) ==
    IF row[t] = "none" \/ WalletOf[t] \notin listed THEN Null
    ELSE [raw |-> RawTransaction(t), publicKey |-> TRUE,
          gasUsed |-> IF down # "node" /\ mined[t] # 0 THEN "used" ELSE "0"]

\* latestBlock - uint64(i) for i < limit: a number behind block 0 wraps around and
\* the node has no such header.
RecentBlocks(limit) ==
    IF down = "node" THEN Null
    ELSE IF head = 0 THEN {}
    ELSE {(head + Width - i) % Width : i \in 0..(limit - 1)} \cap 0..head

ListWallets(filter) ==
    {[address |-> w, algorithm |-> Base(algorithm[w])] :
        w \in {v \in listed : filter \in {"", algorithm[v], Base(algorithm[v])}}}

ExplorerAddress(a) ==
    IF a \notin listed THEN [address |-> a, isPQWallet |-> FALSE]
    ELSE [address |-> a, isPQWallet |-> TRUE, algorithm |-> Base(algorithm[a]),
          transactionCount |-> Cardinality({t \in Txs : row[t] # "none" /\ WalletOf[t] = a})]

Stats ==
    [currentBlock |-> IF down = "node" THEN 0 ELSE head,
     totalWallets |-> Cardinality(listed),
     totalTransactions |-> Cardinality({t \in Txs : row[t] # "none"}),
     falconWallets |-> Cardinality({w \in listed : Base(algorithm[w]) = "falcon"}),
     dilithiumWallets |-> Cardinality({w \in listed : Base(algorithm[w]) = "dilithium"})]

---------------------------------------------------------------------------
(* The node's JSON RPC.                                                    *)

Executed(t) == mined[t] # 0 /\ t \notin reverted

RpcBlock(n) ==
    IF n > head THEN Null ELSE [number |-> n, transactions |-> {t \in Txs : n > 0 /\ mined[t] = n}]

RpcTransaction(t) ==
    IF t \notin sent THEN Null
    ELSE [hash |-> t, type |-> Type[t], blockNumber |-> IF mined[t] = 0 THEN Null ELSE mined[t]]

\* The wallet of an ephemeral signer logs SignerRotated in every operation that executes.
RpcReceipt(t) ==
    IF mined[t] = 0 THEN Null
    ELSE [status |-> IF t \in reverted THEN "0x0" ELSE "0x1",
          rotated |-> Executed(t) /\ Type[t] = "transfer"
                      /\ algorithm[WalletOf[t]] = "ephemeral-ecdsa"]
===========================================================================
