# Verification of pq-eth-demo

TLA+ specifications of the quantum-resistant wallet demo: a browser wallet, a Go
backend that relays and pays for transactions, the smart wallets on chain, and
a block explorer.
Each module is written from the source it names; TLC checks it on small
instances and TLAPS proves its main invariants for every value of the constants.

    tlc -workers 2 -config MCRelay.cfg MCRelay     # model-check one run
    tlapm PQWallet_proofs.tla                      # check one module's proofs

`PROJECT.json` lists the components, the runs, which lines of code each
definition stands for, the hazards, the findings and the theorems.

## 1. The system

| Component | Code | State | Operations |
|---|---|---|---|
| Payer client | `backend/chain/client.go` | mutex, cached account nonce | SendTransaction, SendETH, WaitForReceipt |
| Relay handlers | `backend/api/relay.go`, `message.go` | per request | execute, execute-batch, swap and their messages |
| Wallet creation | `backend/api/wallet.go`, `frontend/.../create` | per request | deploy, fund, store, answer, save the key |
| Database | `backend/db` | wallets, transactions, indexed_blocks | insert, update, queries |
| Indexer | `backend/chain/indexer.go` | last indexed block (in the database) | poll, indexRange, updatePendingTransactions |
| Lifecycle | `backend/main.go` | - | start, ordered shutdown |
| Smart wallets, factory | `contracts/src/PQWalletBase.sol`, `EphemeralECDSAWallet.sol`, `PQWalletFactory.sol` | key, payer, nonce, currentSigner | createWallet, initialize, execute, executeBatch |
| Verifiers | `contracts/src/{Falcon,Dilithium}*.sol` | - | _verify through precompiles |
| Swap contracts | `contracts/src/MockSwapper.sol`, `v3/WETH9.sol`, tokens | balances, allowances | deposit, withdraw, approve, transfer, swap |
| Wallet UI | `frontend/src/app`, `lib/wallet-store.ts`, `lib/pq.ts` | IndexedDB wallets with the key index; active address in localStorage; React state per page; the WASM module | create, send, swap, delete, switch, load |
| Falcon decoding | `backend/chain/falcon_decode.go` | pure | decode keys and signatures, NTT |
| Explorer queries | `backend/api/explorer.go` | none | listings, statistics, one transaction, one address |
| Explorer | `explorer/src` | React state per page | poll, filter, turn pages, look up, fall back to the node |
| Proxied reads | `backend/api/chain.go`, `routes.go` | none | reads passed on to the node |

How they interact. A page asks the backend for the message of an operation
(which contains the wallet's nonce on chain), signs it in the browser, and posts
the signature. The handler packs the calldata and calls `SendTransaction`; all
handlers share one payer account through one client, each in its own goroutine.
It stores a pending row, polls for the receipt until its 30 s context expires,
updates the row and answers. The indexer polls every 2 s beside the handlers and
updates the rows still pending. On chain a wallet accepts a call from the payer
only, checks the signature over (operation, nonce, chain id [, next signer]),
increments its nonce and calls; the rotating wallet also installs the next
signer.

What makes each part correct, and what is hard about it:

- Payer client: a transaction that was acknowledged keeps its account nonce;
  the cache never opens a hole. Hard because a failed send may have
  succeeded or may still arrive, and handlers run concurrently.
- Relay, database, indexer: the table ends up agreeing with the chain. Hard
  because two writers race, write errors are ignored, receipts come late, and
  the process may restart between sending and storing.
- Smart wallets: a wallet executes each signature once, as signed. Hard because
  anybody may resubmit any signature in any order, and a signature does not name its
  wallet.
- Rotating signer: a key signs one thing; the browser's index follows the
  chain's signer. Hard because the index is bumped before the outcome is known
  and several pages may hold it.
- Wallet creation: no deployed wallet without its key, no row without a wallet.
- Swap: the batch either happens entirely, at the quoted price, or not at all.
- Wallet UI: a deleted wallet does not come back, the active wallet is a real one, and
  a page always arrives somewhere. Hard because every function goes on after its
  page was left, IndexedDB is read in several steps, and tabs share it.
- Explorer: what it says of a transaction is so. Hard because it puts its pages
  together from two sources that change and fail between the reads, and because
  its polls overlap and are never cancelled.

## 2. Modules

| Module | Models | Composition |
|---|---|---|
| `PayerClient` | the payer client against an external transaction pool | - |
| `Relay` | relay handlers, transaction table, indexer's updates, restarts | sees SendTransaction as PayerClient shows it to be |
| `PQWallet` | factory and smart wallets | implements `AbstractWallet` |
| `AbstractWallet` | what a wallet promises whoever holds its key | - |
| `EphemeralSigner` | pages, IndexedDB index, relay and rotating wallet together | sees the backend as Relay does, the wallet as PQWallet does |
| `WalletCreate` | the create page, handleCreateWallet, the tables | sees SendTransaction as PayerClient shows it to be; says when two wallets of PQWallet share a key |
| `Indexer` | poll, indexRange and the pending rows, through start, shutdown and crash of the process | sees handlers as Relay shows what they leave in the table |
| `Swap` | buildSwapBatch and executeBatch against WETH9, MockSwapper and the tokens | implements `AtomicSwap`; what PQWallet calls an operation, call by call |
| `AtomicSwap` | what swapping promises: a swap is one step | - |
| `ExplorerBackend` | tables and node as the explorer reads them, and the handlers of `/api/explorer` | sees the table as Relay and WalletCreate fill it |
| `ExplorerApi` | `lib/api.ts`, `lib/utils.ts` and the components of the explorer | extends ExplorerBackend |
| `Explorer` | every page of the explorer | extends ExplorerApi |
| `WalletTab` | every page of the wallet, IndexedDB, other tabs | sees the backend as WalletCreate and EphemeralSigner do |
| `MC...` | instances for TLC | - |
| `..._proofs` | theorems and proofs | - |

### PayerClient

State: the fields of `Client` (`nonceMu`, `nonce`, `nonceReady`), the program
counter of each handler inside `SendTransaction`/`WaitForReceipt`, and the node:
`ledger` holds the account's executable transactions (the one with nonce n at
n + 1), `head` how many are mined, `queued` those beyond a hole, `wire` requests
whose caller gave up. `SendTransaction` is cut at its RPCs: Lock, FetchNonce,
Prepare (gas price, estimate, signing), and a send that is accepted, refused,
accepted with the reply lost, or timed out with the request still on the wire.
`Deliver` lets the late request arrive at any time. The pool's rule is the usual
one: a mined nonce is refused, an occupied nonce needs a higher gas price.
`Crash` starts the process again with an empty cache; `DropPool` is a node that
restarts without its pool. Gas prices are members of a small set.

The invariants are stated for `drops = 0`: a node that loses its pool
leaves the cached nonce ahead of it, and the client has no way to notice, since a
nonce that is too high is accepted and queued. That behaviour is in the model
and is what `AckedIsMined` excuses with `drops > 0`.

### PQWallet

One record per wallet of the contracts' storage and a history of what it
executed. A transaction is atomic, so a reverted call is no step. `Ops` stands
for calls and batches (they are hashed differently), the digest is the record
of what is hashed, and a signature verifies for the key and digest it was made
with. Anybody may submit any signature ever made.
Anybody may create a wallet with any key and any payer: `CreateWallet` refuses
nothing but a second `initialize`. The wallet's address is not part of the digest,
so where wallets share a key a signature counts on each of them, and
`SignatureUsedOnce` says exactly what is left: a wallet executes a signature once,
and two wallets execute the same one only at the same place of their histories,
while the same key controls both. `AbstractWallet` says the same by giving
authorisations to keys and not to wallets. In this system wallets share a key only
when the create page deploys again with the pair of an attempt that reached the
chain and was reported as failed (`OneWalletPerKey` of WalletCreate), or through a
factory call that is not the backend's. Signers are addresses somebody has the key
of; how `ecrecover` answers for malformed bytes is cryptography, and left out.

### Relay

`phase` is the next step of each request: message, post, send, insert, wait,
update, respond. The estimate and the send are separate steps under the mutex,
so a block may come between them. `rows` is the status column, `unrecorded` a
history of the transactions a fault kept out of the table. Faults are database
errors (the database has no busy timeout, so writers can fail each other), lost
replies, transactions lost by the node and restarts; `MaxFaults` bounds them all.
Each transaction is mined in the order of acceptance, which is what
`AckedNoncesUnique` and `NoNonceGap` of PayerClient justify, and executes only if
the wallet's nonce is still the one that was signed.

### EphemeralSigner

`stored` is the index in IndexedDB, `held` the copy in each mounted page.
Sign, save and post are separate steps, and the tab may be closed between any
two. Keys are indices; `signer` is the index of the chain's current signer.
A handler outlives its page when the user navigates within the tab, so two
"pages" overlap there exactly as two tabs do.

### WalletCreate

An attempt `<<p, i>>` is the i-th deployment from page p; it names the request,
its transaction and the wallet created. `step` is what the page shows, `phase`
the handler's next step: send, wait, fund, insert the wallet, insert the
transaction, respond. An error after the send is only logged, as in the code,
and the answer is still a success. Between send and answer the
page may be closed, the connection may break, the request's context may end, and
the backend may restart. The histories say what the properties excuse:
`gaveUp` are the requests whose page was told of a failure or went away,
`unrecorded` the wallets that a failed insert or a restart kept out of the table.
The factory deploys with plain
`new`, so each deployment creates a wallet of its own. The indexer does not add
to the table: `processWalletCreatedLog` is empty (`indexer.go:135`).

### Indexer

`pc` is the goroutine's next call: the chain's height, the highest mark, then for
each chunk the logs and a mark per block, then the pending rows and a receipt for
each. Every call may fail by itself (a fault), and all of them do once the poll's
ten seconds are over (`expired`): a poll that ran out of time walks through its
remaining chunks without doing anything, as the loop in `poll` does not look at
errors. `main` goes from serving to stopping (the signal, `Stop` waits for the
goroutine), draining (the HTTP server gives handlers ten seconds; `Kill` is a
handler that does not make it) and exited; `Crash` ends it at any point, and
`Start` begins again with the tables as they are. Handlers are reduced to when
they store their row and whether they update it.

### Swap

Each call of a batch is a step, and `before` remembers the ledger the
transaction began with, so that a call that fails (`Revert`) undoes what the
calls before it did; no other transaction runs in between. Between batches any
owner makes any single call with any arguments in the bounds (`Execute`), as a
wallet can through `execute`, and the tokens are minted (`Mint`). A balance is
looked at where the code looks at it: WETH9 has no checked arithmetic, and
`TypeOK` would fail if one went below zero. A swap takes the input first, so a
token can be swapped for itself, and the product `amountIn * price` is checked
(`MaxUint`). `SwapperKeepsWorth` values the three tokens at the swapper's own
prices: whatever is done in whatever order, it never has less than at the start.

`AtomicSwap` knows orders and no calls: a step does the whole of an order
(`Trade`) or lets it fail (`Fail`), and in any other step an account uses what it
has (`Use`) without anybody else losing. `seen` maps a batch under way to the
ledger it began with, `ended` tells which order the last step ended and how.
Without the order in the abstract state the refinement would say nothing, since
whatever a batch leaves behind is something its owner might have done on purpose.

### ExplorerBackend, ExplorerApi, Explorer

`ExplorerBackend` keeps what the explorer can see: the rows and wallets, the
node's transactions and receipts, and which of the two services is `down`. Its
actions are the rest of the system: a transaction is relayed, mined, recorded.
The handlers of `explorer.go` are operators over it (`RecentTransactions`,
`ExplorerTx`, `RecentBlocks` with its 64-bit subtraction, `Stats`, ...), and a
handler that fails answers `Null`. `ExplorerApi` holds what `lib/api.ts` makes of
the answers (`MapRawTx`, `InferScheme`, `GetTransaction`, ...) and what the
components put on the screen (`TxRow`, `Table`, one `...Screen` per page).

In `Explorer`, `page` is the mounted page, `view` its `useState` values and
`fetches` the calls of its fetch function: for each, how far it is, what it has
asked for and what came back. An answer is computed when it arrives, so the
answers of one `Promise.all` may be of different times. `Poll` is the interval,
`SetQuery` the filter of the wallets, `TurnPage` the pager, and each `Show...` or
`Ask...` the code between two awaits. A page that is left loses its calls: the
explorer's functions only set state.

What one sees from the model, besides the properties:

- A pending row is "Failed" on the page of its transaction and "Pending" in
  lists. A transaction known only to the node is "Success" without a receipt,
  and in a block always.
- NTT wallets carry the direct badge in the list of wallets and on their own page,
  and the NTT badge in their transactions: only those have the gas to tell.
- A failed poll empties a list until the next one. On the page of an address the
  number of transactions is the backend's, the rows are those among the latest 200.
- With the backend down the page of an address calls every address a standard one.
- The wallets page can be left behind its last page: the filter is changed, the next
  page of the old list is opened, and the answer is shorter. `NotStranded` is
  therefore about the other two lists.

### WalletTab

`store` and `active` are IndexedDB and localStorage; `page` and `view` the mounted
page and its state; `calls` the functions under way, each waiting `at` one await;
`timers` the redirections of the create page; `pq` the one promise of `initPQ`.
`Navigate`, `TimerFires` and a page that finds no wallet go through `Push`, which
mounts another page and lets the functions of the old one go on with `mounted`
false: what they set is lost, what they store and where they navigate is not.
`Load` is a reload (`switchWallet` does one) and ends them all. A read and the
code behind it are one step, a write and the code behind it two. `OtherTab` is
any other tab, reduced to what it may do to the storage.

`created`, `deleted` and `emptied` are histories for the properties. The keys are
EphemeralSigner's business; a rotating wallet (`Ephemeral`) is one that
a signature saves.

What one sees from the model, besides the properties:

- A rotating wallet that is deleted while a page to send holds it, in this tab or in
  another one, is stored again by the next signature, seed included
  (`DeletedStaysDeleted` fails). Nothing else brings a deleted wallet back
  (`GoneForGood`): not a stale active address, list or selector. Other wallets are
  never saved again, and stay deleted.
- `handleDelete` makes the first remaining wallet active even when the deleted one
  was not; the fallback of `getActiveWallet` may undo another tab's choice.
- The settings are blank if another tab takes the last wallet away between their
  two reads, and the page of a migration waits for ever when the module failed:
  the two dead ends that `Settled` names.
- A module that failed is not fetched again until the tab is loaded anew.
- The dashboard is opened a second and a half after a deployment, wherever the user
  is by then.

## 3. Runs

| Run | Instance | Shows |
|---|---|---|
| `payer` | 2 handlers, 2 prices, 3 sends, 1 pool loss, 1 restart | acknowledged nonces are unique and survive, no hole, one refusal heals the cache, every call returns, every acknowledged transaction is mined |
| `wallet` | 2 post-quantum and 2 rotating wallets, 2 keys of either kind, 2 payers, 2 operations each, 3 signatures | a signature once per wallet and never at another place or under another key, executed as signed, the chain of signers, refinement of AbstractWallet |
| `relay` | 2 requests for one wallet, 3 faults | table agrees with the chain, is complete but for faults, and every mined row is resolved |
| `signer` | 2 pages, 4 signatures | keys exposed once without overlap; used on chain once in any case; nonce = index of the signer |
| `signer_reuse` | 2 pages, 3 signatures | violation: overlapping pages sign twice with one key |
| `signer_index` | 1 page, 3 signatures | violation: the stored index stays ahead after an operation that did not execute |
| `create` | 1 page, 3 deployments, 2 faults | funded once, what a page saved is in the table, no wallet without its key and no key with two wallets unless the page gave up, every deployment ends |
| `indexer` | chain of 4 blocks, chunks of 2, 1 transaction, 3 faults | marks are complete, every block is marked or passed over by a failure, mined rows are resolved, a signal ends the process |
| `swap` | 1 wallet and 1 other account, amounts up to 2, prices 3/2/1, reserves 1/1/3, 1 ether and 1 minted USD, 2^256 as 6 | a swap is as signed or leaves no trace, refinement of AtomicSwap, the swapper never loses, every token is backed |
| `explorer` | 1 wallet, NTT or rotating, its deployment and 1 operation, 2 blocks, lists of 3 in pages of 1, 2 fetches at once | statuses and schemes shown are true; lists become fresh, are not left behind their last page; no page loads for ever |
| `browser` | 2 wallets, 1 rotating, limit 2, 2 functions at once, other tabs | a deleted wallet comes back from a page to send only, the active wallet was stored, nobody is sent to the create page without need, the module is not used early, every page settles |
| `browser_deleted` | 2 wallets, 1 rotating, 1 tab | violation: a deleted wallet is saved again by a signature under way |

Why the bounds are enough. Two handlers are the least that can race for the
mutex and the nonce; three sends leave room for a failed send, a late arrival in
its place, and an acknowledged one after it, and the second price
distinguishes a replacement from a refusal. Two wallets of either kind are
needed for a signature to travel between wallets, two keys for wallets that share one
and wallets that do not, two operations for a replay.
Two requests with one nonce are the conflict the relay can have; three faults
allow a lost insert, a failed update and a restart in one behaviour. Four
signatures let an overlapping page move the stored index back and forth. Create
pages share nothing but the restarts of the backend, so one page is enough;
three deployments let two earlier handlers run on beside the current one, and
two faults combine a broken connection with a failed write or a restart. Two
chunks of two blocks are the least where one chunk can be passed over and the
next one marked, with a mark in the middle of a chunk; the third fault leaves one
for a crash after both. The prices are such that every rounding happens
(a unit of one token is worth a fraction of another, or one and a half), the
reserves can be used up, 3 * 2 overflows, and an approval of `MaxUint` is
infinite; the accounts a call names are the other account, which then has
something to lose, and the swapper itself. A second wallet would add to the state
and not to the cases, since a transaction runs alone; calls that name WETH9 are
left to the proofs. In the explorer a deployment and an operation of one
wallet give every kind of row and status, the two schemes are the one inferred at
the boundary of its gas and the one that rotates, lists longer than a page can
shrink, and two fetches overtake each other; a second filter that is answered
differently is what a stale answer needs. With one block mined the
list of three blocks asks for one behind block 0, so the subtraction of
`explorer.go:117` wraps; `LatestBlocks`, which `EventuallyFresh` compares with, is
written without it. Two wallets are the least to delete one and fall
back to the other; two functions at once are a page that was left and the one
that came after it; a third function would only be another of those. The proofs
remove these bounds for the invariants they name.

Symmetry is used in the runs without liveness over requests, pages, wallets of one
kind, keys and operations, which are interchangeable.

Deadlock is checked in `relay`, `signer`, `indexer`, `swap`, `explorer` and
`browser`, where the indexer keeps polling, a page can always be opened, a process
started and a batch begun. It is not in `payer`, `wallet` and `create`: with all sends, signatures or
deployments made, nothing is left to do.

### Fairness

- `payer`: handlers take their steps (each RPC ends by the request's
  deadline); the mutex is granted to a waiter again and again requested (strong
  fairness on `Lock`: Go's mutex switches to arrival order when a waiter
  starves); the node mines and promotes. Nothing is assumed of late requests,
  pool losses or restarts.
- `relay`: the indexer's ticker keeps firing and its steps are taken; the lookup
  of a mined transaction's receipt does not fail for ever (strong fairness per
  transaction, because a failed lookup is retried by the next poll). Handlers,
  clients and the miner may stop at any point.
- `create`: a handler takes its steps, because its context ends after 60 s; a
  page handles the answer it gets and then saves. The user and the node may stop at any point.
- `indexer`: the ticker fires and each call of a poll returns (weak fairness);
  `Stop` and the exit are taken when their time has come. When both the ticker
  and `stopCh` are ready, Go's select picks one at random, so the loop does not
  choose the ticker for ever: strong fairness on `Return`. Failures are
  bounded: a node that never answers resolves nothing.
- `explorer`: requests are answered or fail, the code behind an await runs, the
  interval fires (weak fairness, `setInterval` and the promises of `fetch`). The
  services may go down and come back at any time; `EventuallyFresh` and
  `NotStranded` are about lists that stay open while both are up from some time on.
- `browser`: IndexedDB and the backend answer and the functions go on (weak
  fairness per function, written out with its enabling condition, which is that a
  function is under way); the module loads or fails. The user, the timers and
  other tabs owe nothing.

### Findings

1. "Single-use" keys are reused when two mounted pages hold the same index.
   On chain `KeyExecutesOnce` still holds.
2. The stored "current key index" is ahead of the chain for good after any
   operation that was signed and not executed (refused by the gas estimate, lost,
   reverted, or the tab closed in between). `SignerIsNonce` shows what could
   repair it: the wallet's nonce, which the backend sends with each message, is
   always the index of the current signer.
3. A deleted wallet comes back. `send/page.tsx:94` and `swap/page.tsx:115` save the
   copy of a rotating wallet the page loaded, whether or not it is still stored: it is
   enough to leave the page to send while the message is awaited and to delete the
   wallet in the settings. The specification of the frontend says "Delete wallet from
   browser" (`agents/frontend/specification.md:220`).

Three more expectations do not hold of the code; no run repeats them.
A handler that times out waiting for the receipt answers `success: true`
(`relay.go:132`; `SuccessMeansExecuted` of `Relay`), while `FailureMeansFailed`
shows that `success: false` can be relied on. A swap to ether pays WETH:
`buildSwapBatch` (`relay.go:347`) ends with the swap and has no withdraw, where the
swap page says "You receive (est. ETH)" (`ReceivesEther` of `Swap`);
`SwapAsSigned` says what the wallet does get. And the limit of wallets is only shown:
the create page reads the number when it is mounted and sets an error text
(`create/page.tsx:38`), and `handleDeploy` deploys and saves all the same.

A last remark, from the state space of `indexer`: a chunk whose `FilterLogs`
fails by itself while the next chunk succeeds is never looked at again, because
the next poll starts behind the highest mark (`missed` in `MarksAreComplete` and
`BlocksAreIndexed`). Nothing depends on it as long as `processWalletCreatedLog`
is empty.

## 4. Proofs

`PayerClient_proofs`: `TypeOK`, `AckedNoncesUnique`, `AckedSurvives`,
`NoNonceGap` and `HealsAfterOneReject` for any handlers, prices and bounds, from
`PayerAssumption`. The inductive invariant adds: `Mutex` (only the holder is in
the critical section, and the cache is ready when it sends), `Identities` (each
call's number is used by one transaction and never by a later one),
`LedgerNonces` (the transaction at place n + 1 has nonce n) and `PoolKept` (while
the pool is kept, the acknowledged transactions are in place or displaced, and
the cache is at most the pending count). None of the properties is inductive
alone: that a nonce given to a new transaction is not an acknowledged one needs
both the place of the acknowledged one and the admission rule.

`PQWallet_proofs`: `TypeOK`, `ExecutedAsSigned`, `SignatureUsedOnce`,
`RotationChain`, and that the contracts implement `AbstractWallet`. Nothing is
assumed of keys and payers: any number of wallets may have the same. The invariant
adds `NonceCounts` (the nonce is the length of the history, and a wallet that is not
initialized has none and no key): the place a signature was executed at is then the
nonce it names, on whichever wallet, and its key is what controlled the wallet there.
For the refinement, `MapAppend` shows that mapping a
history entry by entry commutes with appending, so that each execution is a
`Perform` and each signature an `Authorise`.

`Browser_proofs`, first part, on `EphemeralSigner`: `SignerTypeOK`,
`KeyExposedOnce`, `StoredNotBehind`, `KeyExecutesOnce` and `SignerIsNonce` for any
number of pages. The invariant's core is `KeysSaved`: while pages do not overlap
there is one page, what it holds is what is stored, and everything posted is by
earlier keys.

`Relay_proofs`: `TypeOK`, `RowsAgreeWithChain`, `RelayedIsRecorded`,
`FailureMeansFailed`, `RowsAreFinal` and, not checked by a run,
`OneExecutionPerNonce` (of one message one request executes) for any requests,
wallets and faults. The invariant adds: `Placed` (a request's phase and its
transaction's place agree: nothing is in the pool or mined before it was sent),
`FoundIsReceipt` (the receipt a handler carries to its update is the
chain's), `NoRowYet` (no row before the insert), `Recorded` (whatever may be mined is about
to be stored, stored, or was hit by a fault), and `NonceUsed`
(the nonce of an executed operation is below its wallet's). `FoundIsReceipt` is
what makes the race of the two writers harmless: a receipt never changes, so
both write the same.

`WalletCreate_proofs`: `TypeOK`, `RowsAreWallets`, `FundedOnce`, `NoneStranded`,
`OneWalletPerKey` and `SavedIsStored` for any pages, attempts and faults. The
invariant adds: `Placed` (which phases have a transaction, which have not),
`Funding` (no transfer before the funding step), `Answers` and `Stored` (what has
happened by the time of a success answer), `SavedLast` (a page saves its last
attempt only) and `InProgress` (whatever runs or is on chain is saved, given up,
or what its page is busy with). `OneWalletPerKey` follows from `NoneStranded` and these.

`Indexer_proofs`: `TypeOK`, `MarksAreComplete` and `ScansOnlyNew` for any chunk
size, chain and faults. The invariant adds `Place`: while a poll reads a chunk or
marks one, all marks are below where it is, and everything below is marked or was
passed over, unless its time is up, when it marks nothing more. Without the last
clause the invariant is false: an expired poll runs through chunks it leaves
behind.

`Swap_proofs`: `TypeOK`, `SwapAsSigned`, `SwapperKeepsWorth`, `FullyBacked` and
that the contracts implement `AtomicSwap`, for any prices, amounts, reserves and accounts. The invariant adds `Stage`: how
far the batch is and what it has done by then, compared with `before`; and that
`before` is itself worth what the swapper was funded with, since a revert goes
back to it. The arithmetic is in `DivMul` (rounding down never pays out more than
came in) and `WorthSwap`. `SwapAssumption` leaves out amounts of 2^256 - 1, which
no account has: an approval of it is not spent and the last part of
`SwapAsSigned` fails.

`FullyBacked` compares a total over the accounts with one balance, and the total
is a fold of `FunctionsExt`, a recursion over a finite set. The library's
induction theorems cannot be cited, so the recursion is reasoned about by least
counterexamples: if it fails for some set of accounts it fails for one of the
smallest size, and one account less is a smaller one. That gives `SumIs` (the fold
has the value its recursion says), then `TotalChange`, `TotalAdd` and `TotalMove`
(what one account's change, a deposit and a transfer do to a total) and one
lemma for each call. `BackedInv` says of `before` what it says of `ledger`.

`BatchIsAtomic` is the refinement of `AtomicSwap`. The invariant adds `Progress`:
all that a batch has changed by its second and its third call, for every account
and token, where `Stage` speaks of the wallet only. The last call is then a
`Trade` (`WholeSwap`, `LastCall`), a revert a `Fail`, the calls before them
stutter, the start of a batch is a `Pass`, and any other call a `Use`, because
no call takes from another owner (`OthersKeep`) or from the swapper (`Gained`).

`Explorer_proofs`: `TypeOK`, `StatusTrue` and `SchemeTrue` for any chain, contents
of the transaction table, pages, slots and faults of the services, from
`ExplorerAssumption` and `BackendAssumption` (the algorithms are the five the
backend has; there is a slot for a page's first fetch). Answers arrive in any order, the last one written wins, and a polled
page has several fetches under way. `AnswerTrue` makes this harmless for what is
shown: an answer says something true of the chain when it is given, and what is
true of a chain that only grows (`Grows`) stays true (`StaysTrue`), so that it
does not matter when it is read. The invariant adds `RowsOK` (what the backend has
stored is true of the chain and never taken back), `Plan` (what each `await` of a
fetch relies on having asked before) and `LoadingOK` (a page that does not poll
has the one fetch, in the first slot). `SchemeRoundTrip` is what `SchemeTrue` rests
on: the name the page shows is that of the algorithm stored, through two
conversions.

`Browser_proofs`, second part, on `WalletTab`: `TypeOK`, `ActiveWasStored`, `ReadyIsLoaded`,
`GoneForGood` and `RedirectJustified` for any wallets, any number of
functions under way and any other tabs, from `TabAssumption`. The invariant says
what a suspended function may hold (`Holds`): a function that still has its page
belongs to that kind of page (`Belongs`), so that what it sets fits the state it
finds; the wallets it lists, deletes or sends from are ones the browser has had;
and what it is about to save is either rotating or was deployed for it alone and
never stored (`SavedApart` keeps two deployments from saving the same). `ShowsHad`
says the same of the page, and `store = {} => emptied` carries the redirection.
`ActiveWasStored` is not inductive without these: `handleDelete` makes active
what its page listed some awaits ago. `GoneForGood` adds a lemma for each group of
actions (`NotHeld...`): a function is started with, goes on with or shows a wallet
that it already held or has just read from the store, so a wallet that is in neither
place stays out of both; `WriteLeavesGone` is the one step that stores.

The theorems also state properties that no run repeats: the `TypeOK` of every
module, `OneExecutionPerNonce`, `RowsAreFinal`, `StoredNotBehind`,
`RowsAreWallets` and `ScansOnlyNew`.

Every safety invariant and every action property of a passing run is proved.
Model-checked only: the liveness properties (`EveryCallReturns`, `AckedIsMined`,
`MinedIsResolved`, `BlocksAreIndexed`, `ShutdownEnds`, `DeployEnds`,
`EventuallyFresh`, `NotStranded`, `LoadingEnds`, `PageSettles`), which need
fairness and `ENABLED`; and the violations of section 3.

## 5. Plan

Done, in this order: the payer client, the wallets, the relay, the rotating
signer, wallet creation, the indexer with the lifecycle, the swap, the explorer
with its queries, the wallet's pages and their storage. Left:

1. `FalconDecode`: the bit-level decoders of `falcon_decode.go` as functions on
   reduced sizes against a reference (what is decoded is what was encoded, and
   every truncated or non-canonical input is refused), and the NTT against
   polynomial multiplication for a small prime.
2. A refinement that states what `SendTransaction` promises its callers, which
   `Relay` and `WalletCreate` rely on, as an abstract specification of its own.

## 6. Not modelled

Cryptography (key generation, the precompiles, NTT arithmetic on chain), JSON and
ABI encoding, layout and the formatting of numbers and times, the balances and
prices the wallet polls for display, the reads that `chain.go` passes on to the
node and `migrate.go`, which answers 501. The JavaScript beside the WASM modules
is generated by wasm-bindgen: `WalletTab` models whether a module is loaded. A
write to IndexedDB that fails is not modelled on the wallet's pages. Neither are
the contract bindings, the devnet and deployment scripts, and vendored libraries.
Database contents other than what a property is about are left out; so are block
reorganisations, which the devnet does not have.
