------------------------------- MODULE Relay -------------------------------
(***************************************************************************)
(* How the backend relays what owners sign: the client asks for the        *)
(* message, signs, and posts the signature; handleExecute,                 *)
(* handleExecuteBatch or handleSwap sends the transaction, stores it as    *)
(* pending, waits for its receipt, updates the row and answers; meanwhile  *)
(* the indexer updates pending rows of its own accord.                     *)
(*                                                                         *)
(* The three handlers differ in the calldata they pack, which is not       *)
(* modelled.  SendTransaction is seen through what PayerClient shows of    *)
(* it: a transaction whose hash is returned is in the pool, under a nonce  *)
(* of its own, so the pool is mined in the order of acceptance.            *)
(***************************************************************************)
EXTENDS Naturals, Sequences, SequencesExt, FiniteSets

CONSTANTS
    Requests,    \* what owners click: one signature and one transaction each
    Wallets,
    WalletOf,    \* the wallet each request is for
    None,
    MaxFaults    \* bound: crashes, database errors, lost replies, lost transactions

ASSUME RelayAssumption ==
    /\ WalletOf \in [Requests -> Wallets]
    /\ None \notin Requests \cup {"pending", "success", "failed"}
    /\ MaxFaults \in Nat

VARIABLES
    phase,        \* the next step of each request, in its client or its handler
    signedNonce,  \* the wallet nonce its owner signed
    found,        \* the receipt's status its handler read, or None
    response,     \* what the client was told, or None
    rows,         \* table transactions: the status stored, or None
    todo,         \* indexer: pending rows read and not yet looked up
    current,      \* indexer: the row it is about to update, or None
    wire,         \* transactions of failed sends that may still arrive
    pool,         \* accepted transactions, in the order they will be mined
    receipt,      \* on chain: the status each transaction got, or None
    walletNonce,  \* on chain: the wallets' nonces
    unrecorded,   \* history: transactions a fault kept out of the database
    faults

handlerVars == <<phase, signedNonce, found, response>>
indexerVars == <<todo, current>>
chainVars == <<wire, pool, receipt, walletNonce>>
vars == <<handlerVars, rows, indexerVars, chainVars, unrecorded, faults>>

Phases == {"message", "post", "send", "insert", "wait", "update", "respond", "done"}
Statuses == {"success", "failed"}

\* Where the backend holds a request: what a restart interrupts.
InHandler == {"send", "insert", "wait", "update", "respond"}

Init ==
    /\ phase = [r \in Requests |-> "message"]
    /\ signedNonce = [r \in Requests |-> 0]
    /\ found = [r \in Requests |-> None]
    /\ response = [r \in Requests |-> None]
    /\ rows = [r \in Requests |-> None]
    /\ todo = {} /\ current = None
    /\ wire = {} /\ pool = <<>>
    /\ receipt = [r \in Requests |-> None]
    /\ walletNonce = [w \in Wallets |-> 0]
    /\ unrecorded = {} /\ faults = 0

Go(r, next) == phase' = [phase EXCEPT ![r] = next]

Fault == faults < MaxFaults /\ faults' = faults + 1

---------------------------------------------------------------------------
(* A request.                                                              *)

\* handleExecuteMessage or handleSwapMessage: the hash for the wallet's latest
\* nonce, which the owner then signs.
Message(r) ==
    /\ phase[r] = "message"
    /\ signedNonce' = [signedNonce EXCEPT ![r] = walletNonce[WalletOf[r]]]
    /\ Go(r, "post")
    /\ UNCHANGED <<found, response, rows, indexerVars, chainVars, unrecorded, faults>>

\* The POST arrives and EstimateGas passes: the signature verifies in the latest
\* state.  SendTransaction holds its mutex.
Estimate(r) ==
    /\ phase[r] = "post"
    /\ \A q \in Requests : phase[q] # "send"
    /\ signedNonce[r] = walletNonce[WalletOf[r]]
    /\ Go(r, "send")
    /\ UNCHANGED <<signedNonce, found, response, rows, indexerVars, chainVars,
                   unrecorded, faults>>

\* The wallet's row cannot be read, the call would revert, or the node refuses.
Refuse(r) ==
    /\ phase[r] \in {"post", "send"}
    /\ response' = [response EXCEPT ![r] = "error"]
    /\ Go(r, "done")
    /\ UNCHANGED <<signedNonce, found, rows, indexerVars, chainVars, unrecorded, faults>>

\* Variant: nothing is stored before the receipt is there.
SendUnrecorded(r) ==
    /\ phase[r] = "send"
    /\ pool' = Append(pool, r)
    /\ Go(r, "wait")
    /\ UNCHANGED <<signedNonce, found, response, rows, indexerVars, wire, receipt,
                   walletNonce, unrecorded, faults>>

Send(r) ==
    /\ phase[r] = "send"
    /\ pool' = Append(pool, r)
    /\ Go(r, "insert")
    /\ UNCHANGED <<signedNonce, found, response, rows, indexerVars, wire, receipt,
                   walletNonce, unrecorded, faults>>

\* SendTransaction returns an error for a transaction that got through or that
\* still will; the client is told it failed.
SendReplyLost(r) ==
    /\ phase[r] = "send" /\ Fault
    /\ wire' = wire \cup {r}
    /\ unrecorded' = unrecorded \cup {r}
    /\ response' = [response EXCEPT ![r] = "error"]
    /\ Go(r, "done")
    /\ UNCHANGED <<signedNonce, found, rows, indexerVars, pool, receipt, walletNonce>>

\* InsertTransaction; an error is logged and the handler carries on.
Insert(r) ==
    /\ phase[r] = "insert"
    /\ \/ /\ rows' = [rows EXCEPT ![r] = "pending"]
          /\ UNCHANGED <<unrecorded, faults>>
       \/ /\ Fault
          /\ unrecorded' = unrecorded \cup {r}
          /\ UNCHANGED rows
    /\ Go(r, "wait")
    /\ UNCHANGED <<signedNonce, found, response, indexerVars, chainVars>>

ReceiptFound(r) ==
    /\ phase[r] = "wait" /\ receipt[r] # None
    /\ found' = [found EXCEPT ![r] = receipt[r]]
    /\ Go(r, "update")
    /\ UNCHANGED <<signedNonce, response, rows, indexerVars, chainVars, unrecorded, faults>>

\* Variant: a transaction without a receipt is reported and stored as failed.
ReceiptTimeoutFails(r) ==
    /\ phase[r] = "wait"
    /\ found' = [found EXCEPT ![r] = "failed"]
    /\ Go(r, "update")
    /\ UNCHANGED <<signedNonce, response, rows, indexerVars, chainVars, unrecorded, faults>>

\* The request's context expires, perhaps between two polls of a mined one.
ReceiptTimeout(r) ==
    /\ phase[r] = "wait"
    /\ Go(r, "respond")
    /\ UNCHANGED <<signedNonce, found, response, rows, indexerVars, chainVars,
                   unrecorded, faults>>

\* UPDATE ... WHERE tx_hash = ?: nothing happens to a row that is not there.
UpdateTransactionStatus(r, status) ==
    rows' = [rows EXCEPT ![r] = IF @ = None THEN None ELSE status]

\* The handler's update; its error is ignored.
Update(r) ==
    /\ phase[r] = "update"
    /\ \/ UpdateTransactionStatus(r, found[r]) /\ UNCHANGED faults
       \/ Fault /\ UNCHANGED rows
    /\ Go(r, "respond")
    /\ UNCHANGED <<signedNonce, found, response, indexerVars, chainVars, unrecorded>>

\* `success` is false only after a receipt that says so.
Respond(r) ==
    /\ phase[r] = "respond"
    /\ response' = [response EXCEPT ![r] = IF found[r] = "failed" THEN "failed" ELSE "success"]
    /\ Go(r, "done")
    /\ UNCHANGED <<signedNonce, found, rows, indexerVars, chainVars, unrecorded, faults>>

---------------------------------------------------------------------------
(* The indexer's updatePendingTransactions.                                *)

GetPendingTransactions ==
    /\ todo = {} /\ current = None
    /\ todo' = {r \in Requests : rows[r] = "pending"}
    /\ UNCHANGED <<handlerVars, rows, current, chainVars, unrecorded, faults>>

\* A receipt is there: it is what the row will be updated with.
Lookup(r) ==
    /\ current = None /\ r \in todo /\ receipt[r] # None
    /\ current' = r
    /\ todo' = todo \ {r}
    /\ UNCHANGED <<handlerVars, rows, chainVars, unrecorded, faults>>

\* Not mined yet, or the RPC failed.
Skip(r) ==
    /\ current = None /\ r \in todo
    /\ todo' = todo \ {r}
    /\ UNCHANGED <<handlerVars, rows, current, chainVars, unrecorded, faults>>

\* Variant: whatever is mined counts as a success.
WriteAlwaysSuccess ==
    /\ current # None
    /\ UpdateTransactionStatus(current, "success")
    /\ current' = None
    /\ UNCHANGED <<handlerVars, todo, chainVars, unrecorded, faults>>

\* Variant: only successes are written.
WriteOnlySuccess ==
    /\ current # None
    /\ IF receipt[current] = "success" THEN UpdateTransactionStatus(current, "success")
                                       ELSE UNCHANGED rows
    /\ current' = None
    /\ UNCHANGED <<handlerVars, todo, chainVars, unrecorded, faults>>

\* The indexer's update; its error is logged.
Write ==
    /\ current # None
    /\ \/ UpdateTransactionStatus(current, receipt[current]) /\ UNCHANGED faults
       \/ Fault /\ UNCHANGED rows
    /\ current' = None
    /\ UNCHANGED <<handlerVars, todo, chainVars, unrecorded>>

---------------------------------------------------------------------------
(* The chain, and what goes wrong.                                         *)

\* The next transaction is mined: it executes if the wallet still has the nonce
\* that was signed and the call itself does not fail; otherwise it reverts.
Mine ==
    /\ pool # <<>>
    /\ LET r == Head(pool)  w == WalletOf[r] IN
         \/ /\ signedNonce[r] = walletNonce[w]
            /\ walletNonce' = [walletNonce EXCEPT ![w] = @ + 1]
            /\ receipt' = [receipt EXCEPT ![r] = "success"]
         \/ /\ receipt' = [receipt EXCEPT ![r] = "failed"]
            /\ UNCHANGED walletNonce
    /\ pool' = Tail(pool)
    /\ UNCHANGED <<handlerVars, rows, indexerVars, wire, unrecorded, faults>>

\* The transaction of a failed send reaches the pool after all.
Arrive(r) ==
    /\ r \in wire
    /\ wire' = wire \ {r}
    /\ pool' = Append(pool, r)
    /\ UNCHANGED <<handlerVars, rows, indexerVars, receipt, walletNonce, unrecorded, faults>>

\* The node loses a transaction, or a late one takes its nonce.
Vanish(i) ==
    /\ Fault
    /\ pool' = RemoveAt(pool, i)
    /\ UNCHANGED <<handlerVars, rows, indexerVars, wire, receipt, walletNonce, unrecorded>>

\* The backend restarts: handlers and the indexer's work are gone, the database
\* and the clients' signatures are not.
Crash ==
    /\ Fault
    /\ phase' = [r \in Requests |-> IF phase[r] \in InHandler THEN "done" ELSE phase[r]]
    /\ \E left \in SUBSET {r \in Requests : phase[r] = "send"} : wire' = wire \cup left
    /\ unrecorded' = unrecorded \cup {r \in Requests : phase[r] \in {"send", "insert"}}
    /\ todo' = {} /\ current' = None
    /\ UNCHANGED <<signedNonce, found, response, rows, pool, receipt, walletNonce>>

Handler(r) ==
    \/ Message(r) \/ Estimate(r) \/ Refuse(r) \/ Send(r) \/ SendReplyLost(r)
    \/ Insert(r) \/ ReceiptFound(r) \/ ReceiptTimeout(r) \/ Update(r) \/ Respond(r)

Indexer == GetPendingTransactions \/ (\E r \in todo : Lookup(r) \/ Skip(r)) \/ Write

Next ==
    \/ \E r \in Requests : Handler(r)
    \/ Indexer
    \/ Mine
    \/ \E r \in wire : Arrive(r)
    \/ \E i \in 1..Len(pool) : Vanish(i)
    \/ Crash

Spec == Init /\ [][Next]_vars

\* The indexer polls every two seconds for as long as the backend runs, and the
\* node does not fail the lookup of the same receipt for ever.  Nothing is
\* assumed of the clients, the handlers or the miner.
Fairness ==
    /\ WF_vars(Indexer)
    /\ \A r \in Requests : SF_vars(Lookup(r))

FairSpec == Spec /\ Fairness

---------------------------------------------------------------------------
(* Properties.                                                             *)

\* The type of every variable; a row is only updated from a receipt that was read.
TypeOK ==
    /\ phase \in [Requests -> Phases]
    /\ signedNonce \in [Requests -> Nat]
    /\ found \in [Requests -> Statuses \cup {None}]
    /\ response \in [Requests -> Statuses \cup {"error", None}]
    /\ rows \in [Requests -> Statuses \cup {"pending", None}]
    /\ \A r \in Requests : phase[r] = "update" => found[r] = receipt[r] /\ found[r] # None
    /\ current # None => receipt[current] # None
    /\ todo \subseteq Requests /\ current \in Requests \cup {None}
    /\ wire \subseteq Requests /\ pool \in Seq(Requests)
    /\ receipt \in [Requests -> Statuses \cup {None}]
    /\ walletNonce \in [Wallets -> Nat]
    /\ unrecorded \subseteq Requests /\ faults \in 0..MaxFaults

\* A row that is no longer pending says what the chain says, whichever of the
\* handler and the indexer wrote it last, and whatever a restart left behind.
RowsAgreeWithChain ==
    \A r \in Requests : rows[r] \in Statuses => rows[r] = receipt[r]

\* A transaction the backend put on chain or told a client about is in the
\* database, unless a fault hit its handler before it was stored.
RelayedIsRecorded ==
    \A r \in Requests :
      (receipt[r] # None \/ response[r] \in Statuses)
        => rows[r] # None \/ phase[r] = "insert" \/ r \in unrecorded

\* `success: false` is final: the transaction is mined and has failed, so the
\* client may sign again without paying twice.
FailureMeansFailed ==
    \A r \in Requests : response[r] = "failed" => receipt[r] = "failed"

\* `success: true` means the transaction was executed (it is what the backend's
\* specification says of the answer; a timeout answers the same).
SuccessMeansExecuted ==
    \A r \in Requests : response[r] = "success" => receipt[r] = "success"

\* Requests that were given the same message, because the second asked before
\* the first was mined, never both execute.
OneExecutionPerNonce ==
    \A q, r \in Requests :
      /\ WalletOf[q] = WalletOf[r] /\ signedNonce[q] = signedNonce[r]
      /\ receipt[q] = "success" /\ receipt[r] = "success"
      => q = r

\* What the database has said once of a mined transaction it does not take back.
RowsAreFinal ==
    [][\A r \in Requests : rows[r] \in Statuses => rows'[r] = rows[r]]_vars

\* Whatever the handler missed (a timeout, a failed update, a restart), the
\* indexer resolves the pending row of every mined transaction.
MinedIsResolved ==
    \A r \in Requests :
      (rows[r] = "pending" /\ receipt[r] # None) ~> rows[r] \in Statuses
===========================================================================
