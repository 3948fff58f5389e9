----------------------------- MODULE Explorer -----------------------------
(***************************************************************************)
(* The pages of the block explorer in one browser tab.  A page asks for    *)
(* its data when it is mounted and the lists ask again every few seconds,  *)
(* whether or not earlier requests have been answered; nothing is ever     *)
(* cancelled, so answers are applied in whatever order they arrive.        *)
(***************************************************************************)
EXTENDS ExplorerApi, Integers

CONSTANTS
    Queries,     \* [filter, sort] of the wallets page
    Addresses,   \* addresses whose page is opened
    FewRows,     \* rows the dashboard asks for: 20 and 10 in the code
    ManyRows,    \* rows the lists ask for: 200 and 100 in the code
    Slots,       \* bound: fetches of a page under way at once, numbered
    Overlapping  \* bound: the lists whose fetches may overlap

ASSUME ExplorerAssumption == FewRows \in Nat \ {0} /\ ManyRows \in Nat \ {0} /\ Slots \subseteq Nat /\ 1 \in Slots

VARIABLES
    page,        \* the page that is mounted: [kind, arg]
    view,        \* its React state
    fetches      \* in each slot a call of its fetch function, or NoFetch

pageVars == <<page, view, fetches>>
vars == <<backendVars, pageVars>>

PageOf(kind, arg) == [kind |-> kind, arg |-> arg]

Lists == {"transactions", "blocks", "wallets"}
Polled == Lists \cup {"dashboard"}

Pages ==
    {PageOf(kind, Null) : kind \in {"dashboard", "transactions", "blocks"}}
        \cup {PageOf("wallets", q) : q \in Queries}
        \cup {PageOf("tx", t) : t \in Txs}
        \cup {PageOf("block", n) : n \in 0..MaxBlock}
        \cup {PageOf("address", a) : a \in Addresses}

\* The useState values of each page.
InitialView(kind) ==
    CASE kind = "dashboard" -> [loading |-> TRUE, stats |-> Null, txs |-> {}, blocks |-> {}, currentBlock |-> 0]
      [] kind = "transactions" -> [loading |-> TRUE, txs |-> {}, at |-> 1]
      [] kind = "blocks" -> [loading |-> TRUE, blocks |-> {}, at |-> 1]
      [] kind = "wallets" -> [loading |-> TRUE, wallets |-> {}, at |-> 1]
      [] kind = "tx" -> [loading |-> TRUE, tx |-> Null, ethPrice |-> Null, rotated |-> FALSE]
      [] kind = "block" -> [loading |-> TRUE, block |-> Null, txs |-> {}]
      [] kind = "address" -> [loading |-> TRUE, data |-> Null, txs |-> {}, ethBalance |-> "0x0", ethPrice |-> Null]

\* What a page asks for first, all at once.
FirstRequests(p) ==
    CASE p.kind = "dashboard" -> {<<"stats">>, <<"recentTransactions", FewRows>>,
                                  <<"recentBlocks", FewRows>>, <<"blockNumber">>}
      [] p.kind = "transactions" -> {<<"recentTransactions", ManyRows>>}
      [] p.kind = "blocks" -> {<<"recentBlocks", ManyRows>>}
      [] p.kind = "wallets" -> {<<"wallets", p.arg.filter, p.arg.sort>>}
      [] p.kind = "tx" -> {<<"transaction", p.arg>>}
      [] p.kind = "block" -> {<<"block", p.arg>>}
      [] p.kind = "address" -> {<<"address", p.arg>>, <<"balance", p.arg>>, <<"poolPrice">>}

Fetch(stage, requests) == [stage |-> stage, asked |-> requests, got |-> <<>>]

Begin(p) == Fetch("first", FirstRequests(p))

NoFetch == Fetch("none", {})
Busy(s) == fetches[s].stage # "none"

Init ==
    /\ BackendInit
    /\ page = PageOf("dashboard", Null)
    /\ view = InitialView("dashboard")
    /\ fetches = [s \in Slots |-> IF s = 1 THEN Begin(page) ELSE NoFetch]

---------------------------------------------------------------------------
(* The user and the timer.                                                 *)

\* A page is left and another is mounted: the timer is cleared, and what is still
\* under way finds no state to set.
Open(p) ==
    /\ p # page
    /\ page' = p
    /\ view' = InitialView(p.kind)
    /\ fetches' = [s \in Slots |-> IF s = 1 THEN Begin(p) ELSE NoFetch]
    /\ UNCHANGED backendVars

\* handleSearch of the dashboard: the form of the input names the page.
Search(p) ==
    /\ page.kind = "dashboard"
    /\ p.kind \in {"tx", "address", "block"}
    /\ Open(p)

\* The fetch function is called once more, in the first slot that is free.
StartFetch(p) ==
    \E s \in Slots :
        /\ p.kind \in Overlapping \/ s = 1
        /\ ~Busy(s) /\ \A r \in Slots : r < s => Busy(r)
        /\ fetches' = [fetches EXCEPT ![s] = Begin(p)]

\* Variant: the timer keeps asking what the page asked when it was mounted.
PollFirstQuery ==
    /\ page.kind \in Polled
    /\ StartFetch(IF page.kind = "wallets" THEN PageOf("wallets", [filter |-> "", sort |-> "newest"]) ELSE page)
    /\ UNCHANGED <<backendVars, page, view>>

\* The interval of a list fires.
Poll ==
    /\ page.kind \in Polled
    /\ StartFetch(page)
    /\ UNCHANGED <<backendVars, page, view>>

\* The filter or the order of the wallets is changed: the effect runs again, with a
\* timer for the new query; the wallets on the screen stay until an answer comes.
SetQuery(q) ==
    /\ page.kind = "wallets" /\ page.arg # q
    /\ page' = PageOf("wallets", q)
    /\ view' = [view EXCEPT !.loading = TRUE, !.at = 1]
    /\ StartFetch(page')
    /\ UNCHANGED backendVars

\* The rows of a list, and the buttons of its pager, shown when there are more
\* pages than one.
ListRows ==
    CASE page.kind = "transactions" -> view.txs
      [] page.kind = "blocks" -> view.blocks
      [] page.kind = "wallets" -> view.wallets
      [] OTHER -> {}

\* Variant: the last page still has a next one.
TurnPagePastEnd ==
    /\ page.kind \in Lists
    /\ TotalPages(ListRows) > 1
    /\ \/ view.at > 1 /\ view' = [view EXCEPT !.at = @ - 1]
       \/ view.at <= TotalPages(ListRows) /\ view' = [view EXCEPT !.at = @ + 1]
    /\ UNCHANGED <<backendVars, page, fetches>>

TurnPage ==
    /\ page.kind \in Lists
    /\ TotalPages(ListRows) > 1
    /\ \/ view.at > 1 /\ view' = [view EXCEPT !.at = @ - 1]
       \/ view.at < TotalPages(ListRows) /\ view' = [view EXCEPT !.at = @ + 1]
    /\ UNCHANGED <<backendVars, page, fetches>>

---------------------------------------------------------------------------
(* Answers.                                                                *)

\* Requests of a fetch are answered, or fail.  getAddress goes on to the rows by itself.
Serve(s, requests) ==
    /\ LET more == IF \E a \in Addresses : <<"address", a>> \in requests /\ GetAddress(a) # Null
                   THEN {<<"recentTransactions", ManyRows>>} ELSE {} IN
       fetches' = [fetches EXCEPT
           ![s].asked = (@ \ requests) \cup more,
           ![s].got = [r \in DOMAIN @ \cup requests |-> IF r \in requests THEN Answer(r) ELSE @[r]]]
    /\ UNCHANGED <<backendVars, page, view>>

\* Each at its own time, but those of the dashboard and the headers of a list of
\* blocks at once: there no property relates two answers.
Answered(s) ==
    /\ fetches[s].asked # {}
    /\ IF page.kind \in {"dashboard", "blocks"} THEN Serve(s, fetches[s].asked)
       ELSE \E request \in fetches[s].asked : Serve(s, {request})

\* The fetch function goes on behind its await: all of it has been answered.
Ready(s, kind, stage) ==
    /\ page.kind = kind
    /\ fetches[s].stage = stage /\ fetches[s].asked = {}
    /\ UNCHANGED <<backendVars, page>>

Got(s, request) == fetches[s].got[request]
Only(s) == fetches[s].got[CHOOSE request \in DOMAIN fetches[s].got : TRUE]

Return(s) == fetches' = [fetches EXCEPT ![s] = NoFetch]
Await(s, stage, requests) == fetches' = [fetches EXCEPT ![s] = Fetch(stage, requests)]

ShowDashboard(s) ==
    /\ Ready(s, "dashboard", "first")
    /\ LET stats == Got(s, <<"stats">>) IN
       view' = [loading |-> FALSE, stats |-> stats,
                txs |-> Got(s, <<"recentTransactions", FewRows>>),
                blocks |-> Got(s, <<"recentBlocks", FewRows>>),
                currentBlock |-> IF stats # Null /\ stats.currentBlock # 0
                                 THEN stats.currentBlock ELSE Got(s, <<"blockNumber">>)]
    /\ Return(s)

ShowTransactions(s) ==
    /\ Ready(s, "transactions", "first")
    /\ view' = [view EXCEPT !.loading = FALSE, !.txs = Only(s)]
    /\ Return(s)

\* Whatever filter and order the request was made for.
ShowWallets(s) ==
    /\ Ready(s, "wallets", "first")
    /\ view' = [view EXCEPT !.loading = FALSE, !.wallets = Only(s)]
    /\ Return(s)

\* The backend's blocks, or else the node is asked for its latest one.
ShowBackendBlocks(s) ==
    /\ Ready(s, "blocks", "first")
    /\ IF Only(s) # {}
       THEN view' = [view EXCEPT !.loading = FALSE, !.blocks = Only(s)] /\ Return(s)
       ELSE Await(s, "latest", {<<"latestBlock">>}) /\ UNCHANGED view

\* Variant: the page that finds neither backend nor node goes on loading.
AskBlocksOrHang(s) ==
    /\ Ready(s, "blocks", "latest")
    /\ UNCHANGED view
    /\ IF Only(s) = Null THEN Return(s)
       ELSE Await(s, "blocks", {<<"block", n>> : n \in {m \in 0..Only(s).number : m + ManyRows > Only(s).number}})

\* Then for as many blocks below it as fit.
AskBlocks(s) ==
    /\ Ready(s, "blocks", "latest")
    /\ LET latest == Only(s) IN
       IF latest = Null
       THEN view' = [view EXCEPT !.loading = FALSE] /\ Return(s)
       ELSE /\ Await(s, "blocks", {<<"block", n>> : n \in {m \in 0..latest.number : m + ManyRows > latest.number}})
            /\ UNCHANGED view

ShowRpcBlocks(s) ==
    /\ Ready(s, "blocks", "blocks")
    /\ view' = [view EXCEPT !.loading = FALSE,
                    !.blocks = {request[2] : request \in {r \in DOMAIN fetches[s].got : Got(s, r) # Null}}]
    /\ Return(s)

---------------------------------------------------------------------------
(* The page of a transaction.                                              *)

\* The backend's row is shown, or the node is asked.
ShowBackendTx(s) ==
    /\ Ready(s, "tx", "first")
    /\ IF Only(s) # Null
       THEN view' = [view EXCEPT !.tx = Only(s)] /\ Await(s, "price", {<<"poolPrice">>})
       ELSE /\ Await(s, "rpc", {<<"rpcTransaction", page.arg>>, <<"receipt", page.arg>>})
            /\ UNCHANGED view

\* An ExplorerTransaction put together from the RPC.  Without a receipt its status is
\* taken for a success, and its gas is the limit.
RpcTxOf(tx, receipt) ==
    [hash |-> tx.hash, from |-> "eoa", txType |-> IF tx.type = "7702" THEN "7702-Migration" ELSE "Transfer",
     status |-> IF receipt = Null THEN "0x1" ELSE receipt.status,
     blockNumber |-> IF tx.blockNumber = Null THEN 0 ELSE tx.blockNumber,
     signatureScheme |-> IF tx.type = "7702" THEN "7702" ELSE "ecdsa",
     gasUsed |-> IF receipt = Null THEN "limit" ELSE "used",
     publicKey |-> FALSE, algorithm |-> -1]

ShowRpcTx(s) ==
    /\ Ready(s, "tx", "rpc")
    /\ LET tx == Got(s, <<"rpcTransaction", page.arg>>)
           receipt == Got(s, <<"receipt", page.arg>>) IN
       view' = [view EXCEPT !.tx = IF tx = Null THEN @ ELSE RpcTxOf(tx, receipt)]
    /\ Await(s, "price", {<<"poolPrice">>})

ShowPrice(s) ==
    /\ Ready(s, "tx", "price")
    /\ view' = [view EXCEPT !.ethPrice = Only(s)]
    /\ Await(s, "logs", {<<"receipt", page.arg>>})

\* The signers of a rotation come from the receipt, whatever the row said before.
ShowRotation(s) ==
    /\ Ready(s, "tx", "logs")
    /\ view' = [view EXCEPT !.rotated = Only(s) # Null /\ Only(s).rotated, !.loading = FALSE]
    /\ Return(s)

---------------------------------------------------------------------------
(* The pages of a block and of an address.                                 *)

\* The block is shown, and each of its transactions is looked up in the backend.
ShowBlock(s) ==
    /\ Ready(s, "block", "first")
    /\ view' = [view EXCEPT !.block = Only(s), !.loading = Only(s) # Null]
    /\ IF Only(s) = Null THEN Return(s)
       ELSE Await(s, "txs", {<<"transaction", t>> : t \in Only(s).transactions})

\* What stands for a transaction the backend does not have: always a success.
BlockTxOf(t) ==
    [hash |-> t, from |-> "eoa", txType |-> "Transfer", status |-> "0x1", blockNumber |-> page.arg,
     signatureScheme |-> IF Type[t] = "7702" THEN "7702" ELSE "ecdsa",
     gasUsed |-> "0", publicKey |-> FALSE, algorithm |-> -1]

ShowBlockTxs(s) ==
    /\ Ready(s, "block", "txs")
    /\ view' = [view EXCEPT !.loading = FALSE,
                    !.txs = {IF Got(s, r) # Null THEN Got(s, r) ELSE BlockTxOf(r[2]) : r \in DOMAIN fetches[s].got}]
    /\ Return(s)

\* Only the rows of this address out of the latest ones.
ShowAddress(s) ==
    /\ Ready(s, "address", "first")
    /\ LET data == Got(s, <<"address", page.arg>>) IN
       view' = [loading |-> FALSE, data |-> data,
                txs |-> IF data = Null THEN {}
                        ELSE {tx \in Got(s, <<"recentTransactions", ManyRows>>) : tx.from = page.arg},
                ethBalance |-> Got(s, <<"balance", page.arg>>),
                ethPrice |-> Got(s, <<"poolPrice">>)]
    /\ Return(s)

---------------------------------------------------------------------------
Continue(s) ==
    \/ ShowDashboard(s) \/ ShowTransactions(s) \/ ShowWallets(s)
    \/ ShowBackendBlocks(s) \/ AskBlocks(s) \/ ShowRpcBlocks(s)
    \/ ShowBackendTx(s) \/ ShowRpcTx(s) \/ ShowPrice(s) \/ ShowRotation(s)
    \/ ShowBlock(s) \/ ShowBlockTxs(s) \/ ShowAddress(s)

Next ==
    \/ BackendNext /\ UNCHANGED pageVars
    \/ \E p \in Pages : Open(p) \/ Search(p)
    \/ \E q \in Queries : SetQuery(q)
    \/ Poll \/ TurnPage
    \/ \E s \in Slots : Answered(s) \/ Continue(s)

Spec == Init /\ [][Next]_vars

\* Every request is answered or fails, what it was awaited for goes on, and the
\* interval fires again and again.
Fairness == WF_vars(Poll) /\ \A s \in Slots : WF_vars(Answered(s)) /\ WF_vars(Continue(s))

FairSpec == Spec /\ Fairness

---------------------------------------------------------------------------
(* Properties.                                                             *)

Statuses == {"pending", "success", "failed", "0x0", "0x1"}
ShownSchemes == {"falcon-direct", "falcon-ntt", "dilithium-direct", "dilithium-ntt", "ephemeral-ecdsa", "ecdsa", "7702"}

Screen(v) ==
    CASE page.kind = "dashboard" -> DashboardScreen(v)
      [] page.kind = "transactions" -> TransactionsScreen(v)
      [] page.kind = "blocks" -> BlocksScreen(v)
      [] page.kind = "wallets" -> WalletsScreen(v)
      [] page.kind = "tx" -> TxScreen(v)
      [] page.kind = "block" -> BlockScreen(v)
      [] page.kind = "address" -> AddressScreen(v)

\* The transactions on the screen.
ShownTxs ==
    CASE page.kind \in {"dashboard", "transactions"} -> view.txs
      [] page.kind \in {"block", "address"} /\ ~view.loading -> view.txs
      [] page.kind = "tx" /\ ~view.loading /\ view.tx # Null -> {view.tx}
      [] OTHER -> {}

ShownStatus(tx) ==
    CASE page.kind = "dashboard" -> "none"
      [] page.kind = "tx" -> TxHead(tx).status
      [] OTHER -> TxRow(tx).status

\* The transactions on the screen have a status the labels know, and a page that is
\* not polled is asking exactly while it says that it is loading.
TypeOK ==
    /\ page \in Pages
    /\ \A tx \in ShownTxs : tx.hash \in Txs /\ tx.status \in Statuses /\ tx.signatureScheme \in ShownSchemes
    /\ page.kind \in Polled \/ (view.loading <=> \E s \in Slots : Busy(s))

\* A page shows "Success" of a transaction that executed.  The exceptions are what it
\* puts together itself without a receipt.  A list shows "Failed" of a transaction
\* that reverted; the page of a transaction says so of a pending one, too.
StatusTrue ==
    \A tx \in ShownTxs :
        /\ ShownStatus(tx) = "Success" =>
              Executed(tx.hash) \/ (tx.algorithm = -1 /\ tx.gasUsed # "used")
        /\ ShownStatus(tx) = "Failed" =>
              tx.hash \in reverted \/ (page.kind = "tx" /\ tx.status = "pending")

\* A transaction of the backend carries the badge of its wallet's algorithm on every
\* page, deployments carry that of the payer: the name, cut short by the backend, is
\* put together again from the gas of the verification.  And a rotation of the signer
\* is shown only of an operation of a rotating wallet that executed, although the page
\* asks for the receipt long after the row.
SchemeTrue ==
    \A tx \in ShownTxs :
        /\ tx.algorithm # -1 =>
              TxRow(tx).badge = IF Type[tx.hash] = "deploy" THEN "ecdsa" ELSE algorithm[WalletOf[tx.hash]]
        /\ page.kind = "tx" /\ TxScheme(tx, view.rotated).rotation =>
              Executed(page.arg) /\ algorithm[WalletOf[page.arg]] = "ephemeral-ecdsa"

\* The latest `limit` blocks of the chain, which has no block to list before its first
\* one is mined; a page that gets none shows the first.
LatestBlocks(limit) == IF head = 0 THEN {} ELSE {n \in 0..head : n + limit > head}

\* What a page that is polled would show if everything were answered now.
Latest ==
    CASE page.kind = "dashboard" ->
            [loading |-> FALSE, stats |-> GetStats, txs |-> GetRecentTransactions(FewRows),
             blocks |-> LatestBlocks(FewRows), currentBlock |-> head]
      [] page.kind = "transactions" -> [view EXCEPT !.loading = FALSE, !.txs = GetRecentTransactions(ManyRows)]
      [] page.kind = "wallets" -> [view EXCEPT !.loading = FALSE, !.wallets = GetWallets(page.arg.filter)]
      [] page.kind = "blocks" ->
            [view EXCEPT !.loading = FALSE, !.blocks = IF head = 0 THEN {0} ELSE LatestBlocks(ManyRows)]
      [] OTHER -> view

Stays == <>[][FALSE]_page

\* A list that stays open while everything answers shows the latest data in the end,
\* and for the filter that is chosen: answers that come late, out of order or for an
\* earlier filter are overwritten by a later poll.
EventuallyFresh ==
    (<>[](down = "none" /\ page.kind \in Polled) /\ Stays) => <>[](Screen(view) = Screen(Latest))

\* A list of transactions or of blocks does not stay behind its last page, where it
\* says that nothing was found and has no pager to go back with, although answers
\* that come late or fail make it shorter.  The list of wallets can: when the filter
\* is changed, the next page of the old list may be asked for before the answer.
NotStranded ==
    (<>[](down = "none" /\ page.kind \in {"transactions", "blocks"}) /\ Stays) =>
        <>[](ListRows # {} => Screen(view).message = "none")

\* A page that stays open stops saying that it is loading, whatever fails.
LoadingEnds == Stays => <>[]~view.loading
===========================================================================
