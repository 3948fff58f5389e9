------------------------------ MODULE Indexer ------------------------------
(***************************************************************************)
(* The chain indexer through the life of the backend's process.  Every two *)
(* seconds poll reads the chain's height and the highest block it has      *)
(* marked, goes through the blocks between them in chunks, and then looks  *)
(* up the receipts of pending transactions, all under one context of ten   *)
(* seconds.  On a signal main stops the indexer, waits for it, gives the   *)
(* handlers ten seconds, closes the database and ends.                     *)
(*                                                                         *)
(* Handlers are those of module Relay reduced to what they leave in the    *)
(* table: they may be killed, or time out, with their row still pending.   *)
(* processWalletCreatedLog does nothing, so that scanning a block is       *)
(* having read its logs.                                                   *)
(***************************************************************************)
EXTENDS Naturals

CONSTANTS
    Txs,        \* transactions, one for each request
    None,
    ChunkSize,  \* blocks per FilterLogs: 100 in the code
    MaxBlock,   \* bound: the chain's height
    MaxFaults   \* bound: failed calls, expired polls, crashes, signals

ASSUME IndexerAssumption ==
    /\ None \notin {"pending", "resolved"}
    /\ ChunkSize \in Nat \ {0} /\ MaxBlock \in Nat /\ MaxFaults \in Nat

Blocks == 1..MaxBlock

VARIABLES
    main,      \* the process: serving, stopping, draining, exited
    pc,        \* the indexer's goroutine: its next call
    expired,   \* whether the context of the current poll has ended
    latest,    \* poll: the chain's height as read
    from,      \* poll: the first block of the next chunk
    next,      \* indexRange: the next block to mark
    todo,      \* updatePendingTransactions: rows read and not looked up
    marked,    \* table indexed_blocks
    rows,      \* table transactions: None, pending or resolved
    handler,   \* the handler of each transaction
    head,      \* on chain: the height
    mined,     \* on chain: transactions with a receipt
    scanned,   \* history: blocks whose logs were read
    missed,    \* history: blocks a call failed for while its poll had time
    faults

pollVars == <<expired, latest, from, next, todo>>
chainVars == <<head, mined>>
historyVars == <<scanned, missed>>
vars == <<main, pc, pollVars, marked, rows, handler, chainVars, historyVars, faults>>

Calls == {"BlockNumber", "GetLastIndexedBlock", "FilterLogs", "InsertIndexedBlock",
          "GetPendingTransactions", "TransactionReceipt"}

Init ==
    /\ main = "serving" /\ pc = "select"
    /\ expired = FALSE /\ latest = 0 /\ from = 1 /\ next = 1 /\ todo = {}
    /\ marked = {} /\ rows = [t \in Txs |-> None]
    /\ handler = [t \in Txs |-> "idle"]
    /\ head = 0 /\ mined = {}
    /\ scanned = {} /\ missed = {} /\ faults = 0

Fault == faults < MaxFaults /\ faults' = faults + 1

\* A call under the poll's context fails because that has ended, or by itself.
CallFails == IF expired THEN UNCHANGED faults ELSE Fault

\* A chunk: from..chunkEnd.
chunkEnd == IF from + ChunkSize - 1 > latest THEN latest ELSE from + ChunkSize - 1

---------------------------------------------------------------------------
(* run and poll.                                                           *)

Tick ==
    /\ pc = "select"
    /\ pc' = "BlockNumber" /\ expired' = FALSE
    /\ UNCHANGED <<main, latest, from, next, todo, marked, rows, handler, chainVars,
                   historyVars, faults>>

\* Variant: the loop looks at stopCh only after a poll that ran out of time.
ReturnUnexpired ==
    /\ pc = "select" /\ main = "stopping" /\ expired
    /\ pc' = "done"
    /\ UNCHANGED <<main, pollVars, marked, rows, handler, chainVars, historyVars, faults>>

\* stopCh is closed; run returns and closes doneCh.
Return ==
    /\ pc = "select" /\ main = "stopping"
    /\ pc' = "done"
    /\ UNCHANGED <<main, pollVars, marked, rows, handler, chainVars, historyVars, faults>>

\* The ten seconds of the current poll are over.
Expire ==
    /\ pc \in Calls /\ ~expired
    /\ expired' = TRUE
    /\ Fault
    /\ UNCHANGED <<main, pc, latest, from, next, todo, marked, rows, handler, chainVars,
                   historyVars>>

BlockNumber ==
    /\ pc = "BlockNumber"
    /\ \/ /\ ~expired
          /\ latest' = head /\ pc' = "GetLastIndexedBlock"
          /\ UNCHANGED faults
       \/ CallFails /\ pc' = "select" /\ UNCHANGED latest
    /\ UNCHANGED <<main, expired, from, next, todo, marked, rows, handler, chainVars, historyVars>>

\* The highest block marked, 0 for an empty table.
IsLastIndexed(b) == b \in marked \cup {0} /\ \A c \in marked : c <= b

\* Variant: one block is kept back.
GetLastIndexedBehind ==
    /\ pc = "GetLastIndexedBlock"
    /\ \E b \in 0..MaxBlock :
         /\ IsLastIndexed(b)
         /\ from' = b + 1
         /\ pc' = IF b + 1 >= latest THEN "GetPendingTransactions" ELSE "FilterLogs"
    /\ UNCHANGED <<main, expired, latest, next, todo, marked, rows, handler, chainVars,
                   historyVars, faults>>

\* Variant: a poll that finds no new block does nothing.
GetLastIndexedIdle ==
    /\ pc = "GetLastIndexedBlock"
    /\ \E b \in 0..MaxBlock :
         /\ IsLastIndexed(b)
         /\ from' = b + 1
         /\ pc' = IF b >= latest THEN "select" ELSE "FilterLogs"
    /\ UNCHANGED <<main, expired, latest, next, todo, marked, rows, handler, chainVars,
                   historyVars, faults>>

\* The database is not under the poll's context.
GetLastIndexedBlock ==
    /\ pc = "GetLastIndexedBlock"
    /\ \/ /\ \E b \in 0..MaxBlock :
               /\ IsLastIndexed(b)
               /\ from' = b + 1
               /\ pc' = IF b >= latest THEN "GetPendingTransactions" ELSE "FilterLogs"
          /\ UNCHANGED faults
       \/ Fault /\ pc' = "select" /\ UNCHANGED from
    /\ UNCHANGED <<main, expired, latest, next, todo, marked, rows, handler, chainVars, historyVars>>

\* Where poll's loop continues after a chunk that ends at block b.
NextChunk(b) ==
    /\ from' = b + 1
    /\ pc' = IF b + 1 <= latest THEN "FilterLogs" ELSE "GetPendingTransactions"

\* Variant: the error does not keep the chunk from being marked.
FilterLogsMarksAnyway ==
    /\ pc = "FilterLogs"
    /\ \/ ~expired /\ scanned' = scanned \cup (from..chunkEnd) /\ UNCHANGED faults
       \/ CallFails /\ UNCHANGED scanned
    /\ next' = from /\ pc' = "InsertIndexedBlock"
    /\ UNCHANGED <<main, expired, latest, from, todo, marked, rows, handler, chainVars, missed>>

\* indexRange reads the logs of a chunk, or logs the error and leaves the chunk.
FilterLogs ==
    /\ pc = "FilterLogs"
    /\ \/ /\ ~expired
          /\ scanned' = scanned \cup (from..chunkEnd)
          /\ next' = from /\ pc' = "InsertIndexedBlock"
          /\ UNCHANGED <<from, missed, faults>>
       \/ /\ CallFails
          /\ missed' = IF expired THEN missed ELSE missed \cup (from..chunkEnd)
          /\ NextChunk(chunkEnd)
          /\ UNCHANGED <<next, scanned>>
    /\ UNCHANGED <<main, expired, latest, todo, marked, rows, handler, chainVars>>

\* Marks one block of the chunk; a failed insert is ignored.
InsertIndexedBlock ==
    /\ pc = "InsertIndexedBlock"
    /\ \/ marked' = marked \cup {next} /\ UNCHANGED <<missed, faults>>
       \/ Fault /\ missed' = missed \cup {next} /\ UNCHANGED marked
    /\ IF next < chunkEnd
       THEN next' = next + 1 /\ UNCHANGED <<pc, from>>
       ELSE NextChunk(chunkEnd) /\ UNCHANGED next
    /\ UNCHANGED <<main, expired, latest, todo, rows, handler, chainVars, scanned>>

---------------------------------------------------------------------------
(* updatePendingTransactions, against the rows of the handlers.            *)

GetPendingTransactions ==
    /\ pc = "GetPendingTransactions"
    /\ \/ todo' = {t \in Txs : rows[t] = "pending"} /\ pc' = "TransactionReceipt" /\ UNCHANGED faults
       \/ Fault /\ pc' = "select" /\ UNCHANGED todo
    /\ UNCHANGED <<main, expired, latest, from, next, marked, rows, handler, chainVars, historyVars>>

\* The receipt of one row, and its update; either may fail and the next row
\* follows.  (Relay takes them apart, beside the handler's own update.)
TransactionReceipt(t) ==
    /\ pc = "TransactionReceipt" /\ t \in todo
    /\ todo' = todo \ {t}
    /\ \/ t \in mined /\ ~expired /\ rows' = [rows EXCEPT ![t] = "resolved"] /\ UNCHANGED faults
       \/ t \notin mined /\ UNCHANGED <<rows, faults>>
       \/ CallFails /\ UNCHANGED rows
    /\ UNCHANGED <<main, pc, expired, latest, from, next, marked, handler, chainVars, historyVars>>

PollEnds ==
    /\ pc = "TransactionReceipt" /\ todo = {}
    /\ pc' = "select"
    /\ UNCHANGED <<main, pollVars, marked, rows, handler, chainVars, historyVars, faults>>

\* A handler sends its transaction; none starts once the listeners are closed.
SendTransaction(t) ==
    /\ main \in {"serving", "stopping"} /\ handler[t] = "idle"
    /\ handler' = [handler EXCEPT ![t] = "insert"]
    /\ UNCHANGED <<main, pc, pollVars, marked, rows, chainVars, historyVars, faults>>

InsertTransaction(t) ==
    /\ handler[t] = "insert"
    /\ \/ rows' = [rows EXCEPT ![t] = "pending"] /\ UNCHANGED faults
       \/ Fault /\ UNCHANGED rows
    /\ handler' = [handler EXCEPT ![t] = "wait"]
    /\ UNCHANGED <<main, pc, pollVars, marked, chainVars, historyVars>>

\* The receipt came and the row, if there is one, is updated; or its time is up.
HandlerEnds(t) ==
    /\ handler[t] = "wait"
    /\ handler' = [handler EXCEPT ![t] = "done"]
    /\ \/ t \in mined /\ rows' = [rows EXCEPT ![t] = IF @ = None THEN None ELSE "resolved"]
       \/ UNCHANGED rows
    /\ UNCHANGED <<main, pc, pollVars, marked, chainVars, historyVars, faults>>

\* A block, with some of the transactions that were sent.
Mine ==
    /\ head < MaxBlock
    /\ head' = head + 1
    /\ \E ts \in SUBSET {t \in Txs \ mined : handler[t] # "idle"} : mined' = mined \cup ts
    /\ UNCHANGED <<main, pc, pollVars, marked, rows, handler, historyVars, faults>>

---------------------------------------------------------------------------
(* main.                                                                   *)

\* SIGINT or SIGTERM: indexer.Stop closes stopCh and waits for doneCh.
Signal ==
    /\ main = "serving" /\ Fault
    /\ main' = "stopping"
    /\ UNCHANGED <<pc, pollVars, marked, rows, handler, chainVars, historyVars>>

\* Stop returns, and the HTTP server is shut down.
Stopped ==
    /\ main = "stopping" /\ pc = "done"
    /\ main' = "draining"
    /\ UNCHANGED <<pc, pollVars, marked, rows, handler, chainVars, historyVars, faults>>

\* What the end of the process does to its goroutines.
Kill ==
    /\ main' = "exited" /\ pc' = "done"
    /\ handler' = [t \in Txs |-> IF handler[t] \in {"insert", "wait"} THEN "done" ELSE handler[t]]

\* Shutdown returns, when no handler is left or after ten seconds; the database
\* is closed and the process ends with whatever handlers are left.
Exit ==
    /\ main = "draining"
    /\ Kill
    /\ UNCHANGED <<pollVars, marked, rows, chainVars, historyVars, faults>>

Crash ==
    /\ main # "exited" /\ Fault
    /\ Kill
    /\ UNCHANGED <<pollVars, marked, rows, chainVars, historyVars>>

\* The process is started again, on the same database.
Start ==
    /\ main = "exited"
    /\ main' = "serving" /\ pc' = "select"
    /\ UNCHANGED <<pollVars, marked, rows, handler, chainVars, historyVars, faults>>

Poll ==
    \/ BlockNumber \/ GetLastIndexedBlock \/ FilterLogs \/ InsertIndexedBlock
    \/ GetPendingTransactions \/ (\E t \in Txs : TransactionReceipt(t)) \/ PollEnds

Next ==
    \/ Tick \/ Return \/ Expire \/ Poll
    \/ \E t \in Txs : SendTransaction(t) \/ InsertTransaction(t) \/ HandlerEnds(t)
    \/ Mine
    \/ Signal \/ Stopped \/ Exit \/ Crash \/ Start

Spec == Init /\ [][Next]_vars

\* The goroutine runs and its ticker fires; select chooses at random between a
\* tick and a closed stopCh, so it does not pass over the latter for ever; main
\* goes through the shutdown.  Handlers, the chain and the operator may stop.
Fairness ==
    /\ WF_vars(Tick) /\ WF_vars(Poll) /\ SF_vars(Return)
    /\ WF_vars(Stopped) /\ WF_vars(Exit)

FairSpec == Spec /\ Fairness

---------------------------------------------------------------------------
(* Properties.                                                             *)

\* The type of every variable; a goroutine that runs past Stop would find the
\* database closed, so none does.
TypeOK ==
    /\ main \in {"serving", "stopping", "draining", "exited"}
    /\ pc \in Calls \cup {"select", "done"}
    /\ main \in {"draining", "exited"} => pc = "done"
    /\ expired \in BOOLEAN
    /\ latest \in 0..head
    /\ from \in 1..(MaxBlock + 1) /\ next \in 1..(MaxBlock + 1)
    /\ todo \subseteq Txs
    /\ marked \subseteq Blocks /\ scanned \subseteq Blocks /\ missed \subseteq Blocks
    /\ rows \in [Txs -> {None, "pending", "resolved"}]
    /\ handler \in [Txs -> {"idle", "insert", "wait", "done"}]
    /\ head \in 0..MaxBlock
    /\ mined \subseteq Txs
    /\ faults \in 0..MaxFaults

\* The table of blocks can be trusted: a marked block is on the chain and its logs
\* were read; and as the next poll starts behind the highest marked block, a block
\* below it that is not marked, which is never looked at again, is one for which a
\* call failed by itself: the end of a poll's time, a crash or a shutdown in the
\* middle of a chunk lose nothing.
MarksAreComplete ==
    /\ \A b \in marked : b \in scanned /\ b <= head
    /\ \A b \in Blocks : (\E c \in marked : b < c) => b \in marked \cup missed

\* A poll scans no block that is marked already ("to avoid re-processing").
ScansOnlyNew == pc = "FilterLogs" => (from..latest) \cap marked = {}

\* While the process runs, each block is marked or passed over by a failure.
BlocksAreIndexed ==
    \A b \in Blocks : b <= head ~> b \in marked \cup missed \/ main = "exited"

\* A mined transaction whose handler gave up, or was killed by a shutdown, gets
\* its status from the indexer, whether there are new blocks or not.
MinedIsResolved ==
    \A t \in Txs : t \in mined /\ rows[t] = "pending" ~> rows[t] # "pending" \/ main = "exited"

\* A signal ends the process, whatever the indexer and the handlers are doing.
ShutdownEnds == main = "stopping" ~> main = "exited"
============================================================================
