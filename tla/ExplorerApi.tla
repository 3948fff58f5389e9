---------------------------- MODULE ExplorerApi ----------------------------
(***************************************************************************)
(* lib/api.ts and lib/utils.ts of the explorer, with the components that   *)
(* show a transaction or an algorithm: what a page asks for, what it gets, *)
(* and what it makes of it on the screen.                                  *)
(***************************************************************************)
EXTENDS ExplorerBackend

CONSTANT PageSize  \* rows of a page of a list: 20 or 25 in the code

ASSUME ApiAssumption == PageSize \in Nat \ {0}

---------------------------------------------------------------------------
(* Signature schemes.                                                      *)

\* Variant: the gas of the NTT verifiers counts as that of the direct ones.
InferSchemeAbove(scheme, gas) ==
    CASE scheme = "falcon" -> IF gas > 5000 THEN "falcon-ntt" ELSE "falcon-direct"
      [] scheme = "dilithium" -> IF gas > 150000 THEN "dilithium-ntt" ELSE "dilithium-direct"
      [] OTHER -> scheme

InferScheme(scheme, gas) ==
    CASE scheme = "falcon" -> IF gas >= 5000 THEN "falcon-ntt" ELSE "falcon-direct"
      [] scheme = "dilithium" -> IF gas >= 150000 THEN "dilithium-ntt" ELSE "dilithium-direct"
      [] OTHER -> scheme

\* mapRawWallet and getAddress: the scheme of a wallet from the name the backend gives.
WalletScheme(alg) ==
    CASE alg \in {"falcon", "falcon-direct"} -> "falcon-direct"
      [] alg \in {"dilithium", "dilithium-direct"} -> "dilithium-direct"
      [] alg \in {"falcon-ntt", "dilithium-ntt", "ephemeral-ecdsa"} -> alg
      [] OTHER -> "ecdsa"

\* normalizeScheme: what AlgorithmBadge shows.
Badge(scheme) ==
    CASE scheme \in {"falcon-direct", "falcon"} -> "falcon-direct"
      [] scheme \in {"dilithium-direct", "dilithium"} -> "dilithium-direct"
      [] scheme \in {"falcon-ntt", "dilithium-ntt", "ephemeral-ecdsa", "7702"} -> scheme
      [] OTHER -> "ecdsa"

\* getVerificationInfo: how a scheme is verified on chain, Null for the others.
VerificationInfo(scheme) ==
    CASE scheme \in {"falcon-direct", "dilithium-direct"} -> "direct precompile"
      [] scheme \in {"falcon-ntt", "dilithium-ntt"} -> "building blocks"
      [] scheme = "ephemeral-ecdsa" -> "ecrecover and rotation"
      [] OTHER -> Null

---------------------------------------------------------------------------
(* Requests and their answers.  apiFetch and rpcCall give Null when the    *)
(* call fails, and the getters make [] of it or pass it on.                *)

ServerUp == down # "server"
NodeUp == down # "node"

\* mapRawTx.  `algorithm` is -1 in what a page puts together from the RPC.
MapRawTx(raw) ==
    [hash |-> raw.txHash, from |-> raw.walletAddress, status |-> raw.status, txType |-> raw.type,
     blockNumber |-> IF raw.blockNumber = Null THEN 0 ELSE raw.blockNumber,
     signatureScheme |-> InferScheme(raw.signatureScheme, raw.verificationGas),
     gasUsed |-> "", publicKey |-> FALSE, algorithm |-> 0]

GetRecentTransactions(limit) ==
    IF ServerUp THEN {MapRawTx(raw) : raw \in RecentTransactions(limit)} ELSE {}

GetRecentBlocks(limit) == IF ServerUp /\ RecentBlocks(limit) # Null THEN RecentBlocks(limit) ELSE {}

GetTransaction(t) ==
    IF ~ServerUp \/ ExplorerTx(t) = Null THEN Null
    ELSE LET answer == ExplorerTx(t) IN
         [MapRawTx(answer.raw) EXCEPT !.publicKey = answer.publicKey, !.gasUsed = answer.gasUsed]

\* Direct and NTT wallets are not told apart: all are counted as direct.
GetStats ==
    IF ~ServerUp THEN Null
    ELSE [currentBlock |-> Stats.currentBlock, totalWallets |-> Stats.totalWallets,
          totalPqTransactions |-> Stats.totalTransactions,
          falconDirectWallets |-> Stats.falconWallets, falconNttWallets |-> 0,
          dilithiumDirectWallets |-> Stats.dilithiumWallets, dilithiumNttWallets |-> 0]

GetWallets(filter) ==
    IF ~ServerUp THEN {}
    ELSE {[address |-> raw.address, signatureScheme |-> WalletScheme(raw.algorithm)] :
             raw \in ListWallets(filter)}

\* The first half of getAddress; the rows are asked for next.
GetAddress(a) ==
    IF ~ServerUp THEN Null
    ELSE LET raw == ExplorerAddress(a) IN
         [address |-> a, isPqWallet |-> raw.isPQWallet,
          wallet |-> IF raw.isPQWallet THEN WalletScheme(raw.algorithm) ELSE Null,
          txCount |-> IF raw.isPQWallet THEN raw.transactionCount ELSE 0]

GetPoolPrice == IF ServerUp THEN 2000 ELSE Null

\* Answers of rpcCall.
GetBlockNumber == IF NodeUp THEN head ELSE 0
GetBlock(n) == IF NodeUp THEN RpcBlock(n) ELSE Null
GetRpcTransaction(t) == IF NodeUp THEN RpcTransaction(t) ELSE Null
GetTransactionReceipt(t) == IF NodeUp THEN RpcReceipt(t) ELSE Null
GetBalance == IF NodeUp THEN "balance" ELSE "0x0"

\* The answer a request gets at this moment.
Answer(request) ==
    LET what == request[1] IN
    CASE what = "stats" -> GetStats
      [] what = "recentTransactions" -> GetRecentTransactions(request[2])
      [] what = "recentBlocks" -> GetRecentBlocks(request[2])
      [] what = "transaction" -> GetTransaction(request[2])
      [] what = "wallets" -> GetWallets(request[2])
      [] what = "address" -> GetAddress(request[2])
      [] what = "poolPrice" -> GetPoolPrice
      [] what = "blockNumber" -> GetBlockNumber
      [] what = "latestBlock" -> GetBlock(head)
      [] what = "block" -> GetBlock(request[2])
      [] what = "rpcTransaction" -> GetRpcTransaction(request[2])
      [] what = "receipt" -> GetTransactionReceipt(request[2])
      [] what = "balance" -> GetBalance

---------------------------------------------------------------------------
(* On the screen: what the pages render from their state.                  *)

\* Variant: what did not fail succeeded.
NotFailed(status) == status \notin {"0x0", "failed"}

Success(status) == status \in {"0x1", "success"}

\* TxRow: a row of the lists, of a block and of an address.
TxRow(tx) ==
    [hash |-> tx.hash, from |-> tx.from, block |-> tx.blockNumber,
     badge |-> Badge(tx.signatureScheme),
     status |-> IF Success(tx.status) THEN "Success"
                ELSE IF tx.status \in {"0x0", "failed"} THEN "Failed"
                ELSE "Pending"]

TxRows(txs) == {TxRow(tx) : tx \in txs}

\* DataTable, in pages of PageSize rows; which row is on which page is left out.
TotalPages(rows) == IF rows = {} THEN 1 ELSE (Cardinality(rows) + PageSize - 1) \div PageSize

Table(rows, at, loading) ==
    [rows |-> IF Cardinality(rows) > (at - 1) * PageSize THEN rows ELSE {},
     message |-> IF Cardinality(rows) > (at - 1) * PageSize THEN "none"
                 ELSE IF loading THEN "loading" ELSE "nothing found",
     total |-> Cardinality(rows),
     pager |-> IF TotalPages(rows) > 1 THEN <<at, TotalPages(rows)>> ELSE Null]

\* The cards, the breakdown by algorithm, and the first rows of both lists.
DashboardScreen(view) ==
    LET Total(field) == IF view.stats = Null THEN 0 ELSE view.stats[field] IN
    [cards |-> IF view.loading THEN Null
               ELSE <<Total("totalPqTransactions"), Total("totalWallets"), view.currentBlock>>,
     breakdown |-> IF view.loading THEN Null
                   ELSE [field \in {"falconDirectWallets", "falconNttWallets",
                                    "dilithiumDirectWallets", "dilithiumNttWallets"} |-> Total(field)],
     noWallets |-> Total("totalWallets") = 0 /\ ~view.loading,
     blocks |-> Table(view.blocks, 1, view.loading),
     txs |-> Table({[hash |-> r.hash, badge |-> r.badge] : r \in TxRows(view.txs)}, 1, view.loading)]

TransactionsScreen(view) == Table(TxRows(view.txs), view.at, view.loading)
BlocksScreen(view) == Table(view.blocks, view.at, view.loading)
WalletsScreen(view) ==
    Table({[address |-> w.address, badge |-> Badge(w.signatureScheme)] : w \in view.wallets}, view.at, view.loading)

\* The upper half of the page of a transaction: whatever is not a success has failed.
TxHead(tx) ==
    [hash |-> tx.hash, block |-> tx.blockNumber, txType |-> tx.txType, from |-> tx.from,
     status |-> IF Success(tx.status) THEN "Success" ELSE "Failed",
     gasUsed |-> IF tx.gasUsed = "" THEN "unknown" ELSE tx.gasUsed]

\* The lower half: the scheme, how it is verified, and the signers of a rotation.
TxScheme(tx, rotated) ==
    LET info == VerificationInfo(tx.signatureScheme)
        isPq == info # Null
        ephemeral == tx.signatureScheme = "ephemeral-ecdsa" IN
    [badge |-> Badge(tx.signatureScheme),
     info |-> info,
     rotation |-> isPq /\ ephemeral /\ rotated,
     publicKey |-> isPq /\ ~ephemeral /\ tx.publicKey,
     buildingBlocks |-> info = "building blocks",
     note |-> IF isPq THEN Null ELSE IF tx.signatureScheme = "7702" THEN "delegation" ELSE "plain ECDSA"]

TxScreen(view) ==
    IF view.loading THEN "loading"
    ELSE IF view.tx = Null THEN "not found"
    ELSE <<TxHead(view.tx), TxScheme(view.tx, view.rotated), view.ethPrice>>

BlockScreen(view) ==
    IF view.loading THEN "loading"
    ELSE IF view.block = Null THEN "not found"
    ELSE <<view.block.number, Table(TxRows(view.txs), 1, FALSE)>>

\* Without data from the backend the page calls any address a standard one.
AddressScreen(view) ==
    LET data == view.data
        known == data # Null IN
    IF view.loading THEN "loading"
    ELSE [pqWallet |-> known /\ data.isPqWallet,
          badge |-> IF known /\ data.isPqWallet THEN Badge(data.wallet) ELSE Null,
          txCount |-> IF known THEN data.txCount ELSE Null,
          balance |-> view.ethBalance, price |-> view.ethPrice,
          txs |-> Table(TxRows(view.txs), 1, FALSE)]
===========================================================================
