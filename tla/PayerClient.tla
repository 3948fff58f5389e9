---------------------------- MODULE PayerClient ----------------------------
(***************************************************************************)
(* The payer account of backend/chain/client.go: the one Ethereum account  *)
(* from which the backend sends every transaction (wallet deployments,     *)
(* funding, execute, executeBatch, swap).                                  *)
(*                                                                         *)
(* Each HTTP handler is a goroutine that calls SendTransaction under the   *)
(* mutex nonceMu and then polls for the receipt.  The client caches the    *)
(* next account nonce; the node keeps the account's transactions.  Between *)
(* any two RPCs the node may mine, a request the client gave up on may     *)
(* still arrive, the node may lose its pool, and the process may restart.  *)
(***************************************************************************)
EXTENDS Naturals, Sequences, FiniteSets

CONSTANTS
    Handlers,    \* the goroutines serving HTTP requests
    None,        \* "nobody holds the mutex"
    Prices,      \* the gas prices SuggestGasPrice may return
    MaxCalls,    \* bound: calls of SendTransaction
    MaxDrops,    \* bound: times the node loses its pool
    MaxCrashes   \* bound: restarts of the backend

ASSUME PayerAssumption ==
    /\ None \notin Handlers
    /\ Prices \subseteq Nat
    /\ MaxCalls \in Nat /\ MaxDrops \in Nat /\ MaxCrashes \in Nat

VARIABLES
    (* Client (client.go:22-31) *)
    nonceMu,     \* the handler holding the mutex, or None
    nonce,       \* the cached next nonce
    nonceReady,  \* whether the cache is to be used
    (* handlers *)
    pc,          \* where in SendTransaction / WaitForReceipt each handler is
    call,        \* the identity of the handler's current call
    gasPrice,    \* the gas price it was suggested
    (* node, external *)
    ledger,      \* executable transactions; the one with nonce n is ledger[n+1]
    head,        \* how many of them are mined
    queued,      \* transactions whose nonce is beyond the end of the ledger
    wire,        \* requests whose caller gave up but that may still arrive
    (* history and bounds *)
    calls,       \* calls made so far
    acked,       \* transactions SendTransaction returned without an error
    rejects,     \* refusals in a row since an acceptance or a disturbance
    drops, crashes

clientVars == <<nonceMu, nonce, nonceReady>>
handlerVars == <<pc, call, gasPrice>>
nodeVars == <<ledger, head, queued, wire>>
vars == <<clientVars, handlerVars, nodeVars, calls, acked, rejects, drops, crashes>>

PC == {"idle", "lock", "nonce", "prepare", "send", "wait"}

\* The steps a handler takes while it holds the mutex.
Critical == {"nonce", "prepare", "send"}

Tx == [id : Nat, nonce : Nat, price : Nat]

\* The transaction the handler has signed with the cached nonce.
Signed(h) == [id |-> call[h], nonce |-> nonce, price |-> gasPrice[h]]

---------------------------------------------------------------------------
(* The node, external: what the account's transaction pool does.           *)

\* eth_getTransactionCount(payer, "pending")
PendingNonceAt == Len(ledger)

\* The transactions the pool holds or has mined under nonce n.
Occupants(n) ==
    {q \in queued : q.nonce = n}
        \cup (IF n < Len(ledger) THEN {ledger[n + 1]} ELSE {})

\* A mined nonce is "too low"; an occupied one needs a higher gas price.
Admissible(tx) ==
    /\ tx.nonce >= head
    /\ \A o \in Occupants(tx.nonce) : tx.price > o.price

\* The pool takes the transaction, in place of the one with its nonce if any.
Admit(tx) ==
    /\ ledger' = IF tx.nonce < Len(ledger)
                 THEN [ledger EXCEPT ![tx.nonce + 1] = tx]
                 ELSE IF tx.nonce = Len(ledger) THEN Append(ledger, tx)
                 ELSE ledger
    /\ queued' = {q \in queued : q.nonce # tx.nonce}
                     \cup (IF tx.nonce > Len(ledger) THEN {tx} ELSE {})

Mined(id) == \E i \in 1..head : ledger[i].id = id

Init ==
    /\ nonceMu = None /\ nonce = 0 /\ nonceReady = FALSE
    /\ pc = [h \in Handlers |-> "idle"]
    /\ call = [h \in Handlers |-> 0]
    /\ gasPrice = [h \in Handlers |-> 0]
    /\ ledger = <<>> /\ head = 0 /\ queued = {} /\ wire = {}
    /\ calls = 0 /\ acked = {} /\ rejects = 0 /\ drops = 0 /\ crashes = 0

---------------------------------------------------------------------------
(* SendTransaction.                                                        *)

\* A handler calls SendTransaction and blocks on nonceMu.
Call(h) ==
    /\ pc[h] = "idle" /\ calls < MaxCalls
    /\ calls' = calls + 1
    /\ call' = [call EXCEPT ![h] = calls + 1]
    /\ pc' = [pc EXCEPT ![h] = "lock"]
    /\ UNCHANGED <<clientVars, gasPrice, nodeVars, acked, rejects, drops, crashes>>

Lock(h) ==
    /\ pc[h] = "lock" /\ nonceMu = None
    /\ nonceMu' = h
    /\ pc' = [pc EXCEPT ![h] = IF nonceReady THEN "prepare" ELSE "nonce"]
    /\ UNCHANGED <<nonce, nonceReady, call, gasPrice, nodeVars, calls, acked,
                   rejects, drops, crashes>>

\* The deferred Unlock, with the handler going on to step `next`.
Unlock(h, next) ==
    /\ nonceMu' = None
    /\ pc' = [pc EXCEPT ![h] = next]

FetchNonce(h) ==
    /\ pc[h] = "nonce"
    /\ nonce' = PendingNonceAt
    /\ nonceReady' = TRUE
    /\ pc' = [pc EXCEPT ![h] = "prepare"]
    /\ UNCHANGED <<nonceMu, call, gasPrice, nodeVars, calls, acked, rejects,
                   drops, crashes>>

\* SuggestGasPrice, EstimateGas and signing succeed.
Prepare(h) ==
    /\ pc[h] = "prepare"
    /\ \E p \in Prices : gasPrice' = [gasPrice EXCEPT ![h] = p]
    /\ pc' = [pc EXCEPT ![h] = "send"]
    /\ UNCHANGED <<clientVars, call, nodeVars, calls, acked, rejects, drops, crashes>>

\* Variant: the error path leaves the mutex locked.
PrepareFailsLocked(h) ==
    /\ pc[h] \in {"nonce", "prepare"}
    /\ pc' = [pc EXCEPT ![h] = "idle"]
    /\ UNCHANGED <<clientVars, call, gasPrice, nodeVars, calls, acked,
                   rejects, drops, crashes>>

\* PendingNonceAt, SuggestGasPrice, EstimateGas (the call would revert) or
\* signing fails: the error is returned and the cached nonce is kept.
PrepareFails(h) ==
    /\ pc[h] \in {"nonce", "prepare"}
    /\ Unlock(h, "idle")
    /\ UNCHANGED <<nonce, nonceReady, call, gasPrice, nodeVars, calls, acked,
                   rejects, drops, crashes>>

\* Variant: nonce++ is forgotten.
SendAcceptedSameNonce(h) ==
    /\ pc[h] = "send" /\ Admissible(Signed(h))
    /\ Admit(Signed(h))
    /\ acked' = acked \cup {Signed(h)}
    /\ rejects' = 0
    /\ Unlock(h, "wait")
    /\ UNCHANGED <<nonce, nonceReady, call, gasPrice, head, wire, calls, drops, crashes>>

\* eth_sendRawTransaction succeeds and the caller learns of it.
SendAccepted(h) ==
    /\ pc[h] = "send" /\ Admissible(Signed(h))
    /\ Admit(Signed(h))
    /\ nonce' = nonce + 1
    /\ acked' = acked \cup {Signed(h)}
    /\ rejects' = 0
    /\ Unlock(h, "wait")
    /\ UNCHANGED <<nonceReady, call, gasPrice, head, wire, calls, drops, crashes>>

\* Variant: the cache is not reset.
SendRejectedNoReset(h) ==
    /\ pc[h] = "send" /\ ~Admissible(Signed(h))
    /\ rejects' = rejects + 1
    /\ Unlock(h, "idle")
    /\ UNCHANGED <<nonce, nonceReady, call, gasPrice, nodeVars, calls, acked, drops, crashes>>

\* Variant: a refusal is taken for "already known" and reported as a success.
SendRejectedSwallowed(h) ==
    /\ pc[h] = "send" /\ ~Admissible(Signed(h))
    /\ nonceReady' = FALSE
    /\ acked' = acked \cup {Signed(h)}
    /\ rejects' = rejects + 1
    /\ Unlock(h, "wait")
    /\ UNCHANGED <<nonce, call, gasPrice, nodeVars, calls, drops, crashes>>

\* The node refuses the transaction.
SendRejected(h) ==
    /\ pc[h] = "send" /\ ~Admissible(Signed(h))
    /\ nonceReady' = FALSE
    /\ rejects' = rejects + 1
    /\ Unlock(h, "idle")
    /\ UNCHANGED <<nonce, call, gasPrice, nodeVars, calls, acked, drops, crashes>>

\* The node takes the transaction and the caller gets an error.
SendReplyLost(h) ==
    /\ pc[h] = "send" /\ Admissible(Signed(h))
    /\ Admit(Signed(h))
    /\ nonceReady' = FALSE
    /\ Unlock(h, "idle")
    /\ UNCHANGED <<nonce, call, gasPrice, head, wire, calls, acked, rejects,
                   drops, crashes>>

\* Variant: the nonce counts as used although the send failed.
SendTimedOutBurnsNonce(h) ==
    /\ pc[h] = "send"
    /\ wire' = wire \cup {Signed(h)}
    /\ nonce' = nonce + 1
    /\ Unlock(h, "idle")
    /\ UNCHANGED <<nonceReady, call, gasPrice, ledger, head, queued, calls, acked,
                   rejects, drops, crashes>>

\* The caller gets an error and the node has not seen the request, which may
\* still arrive (the deadline passed) or may never (the connection failed).
SendTimedOut(h) ==
    /\ pc[h] = "send"
    /\ wire' = wire \cup {Signed(h)}
    /\ nonceReady' = FALSE
    /\ Unlock(h, "idle")
    /\ UNCHANGED <<nonce, call, gasPrice, ledger, head, queued, calls, acked,
                   rejects, drops, crashes>>

---------------------------------------------------------------------------
(* WaitForReceipt.                                                         *)

ReceiptFound(h) ==
    /\ pc[h] = "wait" /\ Mined(call[h])
    /\ pc' = [pc EXCEPT ![h] = "idle"]
    /\ UNCHANGED <<clientVars, call, gasPrice, nodeVars, calls, acked, rejects,
                   drops, crashes>>

\* The request's context expires, perhaps between two polls of a mined one.
ReceiptTimeout(h) ==
    /\ pc[h] = "wait"
    /\ pc' = [pc EXCEPT ![h] = "idle"]
    /\ UNCHANGED <<clientVars, call, gasPrice, nodeVars, calls, acked, rejects,
                   drops, crashes>>

---------------------------------------------------------------------------
(* The node's own steps and the backend's restart.                         *)

Mine ==
    /\ head < Len(ledger)
    /\ head' = head + 1
    /\ UNCHANGED <<clientVars, handlerVars, ledger, queued, wire, calls, acked,
                   rejects, drops, crashes>>

\* A request whose caller gave up arrives, and is taken or refused.
Deliver(tx) ==
    /\ tx \in wire
    /\ wire' = wire \ {tx}
    /\ IF Admissible(tx) THEN Admit(tx) ELSE UNCHANGED <<ledger, queued>>
    /\ rejects' = 0
    /\ UNCHANGED <<clientVars, handlerVars, head, calls, acked, drops, crashes>>

\* A queued transaction becomes executable once the hole before it is filled.
Promote(tx) ==
    /\ tx \in queued /\ tx.nonce = Len(ledger)
    /\ ledger' = Append(ledger, tx)
    /\ queued' = queued \ {tx}
    /\ UNCHANGED <<clientVars, handlerVars, head, wire, calls, acked, rejects,
                   drops, crashes>>

\* The node restarts without its pool: what is not mined is gone.
DropPool ==
    /\ drops < MaxDrops
    /\ drops' = drops + 1
    /\ ledger' = SubSeq(ledger, 1, head)
    /\ queued' = {}
    /\ rejects' = 0
    /\ UNCHANGED <<clientVars, handlerVars, head, wire, calls, acked, crashes>>

\* The backend restarts: NewClient starts with an empty cache.  A request that
\* was being sent may or may not have left.
Crash ==
    /\ crashes < MaxCrashes
    /\ crashes' = crashes + 1
    /\ nonceMu' = None /\ nonce' = 0 /\ nonceReady' = FALSE
    /\ pc' = [h \in Handlers |-> "idle"]
    /\ \E left \in SUBSET {h \in Handlers : pc[h] = "send"} :
          wire' = wire \cup {Signed(h) : h \in left}
    /\ UNCHANGED <<call, gasPrice, ledger, head, queued, calls, acked, rejects, drops>>

SendTransaction(h) ==
    \/ Lock(h) \/ FetchNonce(h) \/ Prepare(h) \/ PrepareFails(h)
    \/ SendAccepted(h) \/ SendRejected(h) \/ SendReplyLost(h) \/ SendTimedOut(h)

WaitForReceipt(h) == ReceiptFound(h) \/ ReceiptTimeout(h)

Next ==
    \/ \E h \in Handlers : Call(h) \/ SendTransaction(h) \/ WaitForReceipt(h)
    \/ Mine
    \/ \E tx \in wire : Deliver(tx)
    \/ \E tx \in queued : Promote(tx)
    \/ DropPool
    \/ Crash

Spec == Init /\ [][Next]_vars

(* Every RPC carries the request's deadline, so a handler inside             *)
(* SendTransaction never stalls; sync.Mutex hands the lock over in arrival   *)
(* order once a waiter starves; the node keeps mining and promoting.         *)
(* Nothing is promised of a late request, a restart or a pool loss.          *)
Fairness ==
    /\ \A h \in Handlers :
          /\ SF_vars(Lock(h))
          /\ WF_vars(SendTransaction(h))
          /\ WF_vars(WaitForReceipt(h))
    /\ WF_vars(Mine)
    /\ WF_vars(\E tx \in queued : Promote(tx))

FairSpec == Spec /\ Fairness

---------------------------------------------------------------------------
(* Properties.                                                             *)

\* The type of every variable.
TypeOK ==
    /\ nonceMu \in Handlers \cup {None}
    /\ nonce \in Nat /\ nonceReady \in BOOLEAN
    /\ pc \in [Handlers -> PC]
    /\ call \in [Handlers -> Nat]
    /\ gasPrice \in [Handlers -> Nat]
    /\ ledger \in Seq(Tx) /\ head \in 0..Len(ledger)
    /\ queued \subseteq Tx /\ wire \subseteq Tx /\ acked \subseteq Tx
    /\ calls \in Nat /\ rejects \in Nat /\ drops \in Nat /\ crashes \in Nat

\* A late request with a higher price took the nonce of an acknowledged
\* transaction: the node's replacement rule, out of the client's hands.
Displaced(a) ==
    /\ a.nonce < Len(ledger)
    /\ ledger[a.nonce + 1].price > a.price
    /\ ledger[a.nonce + 1] \notin acked

\* Two calls of SendTransaction that both returned a transaction never used the
\* same account nonce, whatever failed, arrived late or restarted in between
\* (as long as the node keeps its pool): neither response names a transaction
\* the other one ousted.
AckedNoncesUnique ==
    drops = 0 => \A a, b \in acked : a.nonce = b.nonce => a = b

\* A transaction whose hash was returned is still the one holding its nonce,
\* unless a request the client had given up on arrived with a higher price.
AckedSurvives ==
    drops = 0 =>
      \A a \in acked :
        /\ a.nonce < Len(ledger)
        /\ ledger[a.nonce + 1] = a \/ Displaced(a)

\* The cache never runs ahead of the node, so no transaction is stuck behind a
\* hole in the nonces.  Failed gas estimates, lost replies and restarts between
\* reading and incrementing the cache must not consume a nonce.
NoNonceGap ==
    drops = 0 =>
      /\ queued = {}
      /\ nonceReady => nonce <= Len(ledger)

\* "Reset nonce on error" repairs a stale cache at once: unless something is
\* delivered late again, a refused send is never followed by a second refusal.
HealsAfterOneReject == drops = 0 => rejects <= 1

\* A handler that called SendTransaction gets out of it.
EveryCallReturns ==
    \A h \in Handlers : pc[h] = "lock" ~> pc[h] \in {"idle", "wait"}

\* A transaction whose hash was returned is mined, unless the node lost it or a
\* late request with a higher price took its nonce.
AckedIsMined ==
    \A c \in 1..MaxCalls :
      (\E a \in acked : a.id = c)
        ~> \/ Mined(c)
           \/ drops > 0
           \/ \E a \in acked : a.id = c /\ Displaced(a)
===========================================================================
