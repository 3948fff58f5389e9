--------------------------- MODULE Indexer_proofs ---------------------------
(* The marks of the indexer are complete, for any chain and any faults.    *)
EXTENDS Indexer, TLAPS

\* Every block below k is marked, or a call failed for it.
Covered(k) == \A b \in Blocks : b < k => b \in marked \cup missed

\* Where a poll is in its range: it goes through blocks above every mark, and has
\* left none behind it, unless its time is up and it will mark nothing more.
Place ==
    /\ pc = "FilterLogs" =>
         /\ from <= latest /\ \A c \in marked : c < from
         /\ expired \/ Covered(from)
    /\ pc = "InsertIndexedBlock" =>
         /\ from <= latest /\ from <= next /\ next <= chunkEnd
         /\ from..chunkEnd \subseteq scanned
         /\ \A c \in marked : c < next
         /\ Covered(next)

\* The inductive invariant.
IInv == TypeOK /\ MarksAreComplete /\ Place

\* A chunk is not empty and ends within the chain as read.
LEMMA ChunkEnd ==
    ASSUME TypeOK, from <= latest
    PROVE  chunkEnd \in Nat /\ from <= chunkEnd /\ chunkEnd <= latest /\ chunkEnd <= head
           /\ from \in Nat /\ latest \in Nat /\ head \in Nat /\ head <= MaxBlock
<1>1. /\ from \in Nat /\ from >= 1 /\ latest \in Nat /\ latest <= head /\ head \in Nat
      /\ head <= MaxBlock
  BY IndexerAssumption DEF TypeOK
<1>. QED  BY <1>1, IndexerAssumption DEF chunkEnd

LEMMA InitInv == Init => IInv
<1>. SUFFICES ASSUME Init PROVE IInv
  OBVIOUS
<1>1. expired \in BOOLEAN
  BY DEF Init
<1>2. latest = 0 /\ head = 0 /\ from = 1 /\ next = 1 /\ faults = 0
  BY DEF Init
<1>3. /\ latest \in 0..head /\ head \in 0..MaxBlock /\ faults \in 0..MaxFaults
      /\ from \in 1..(MaxBlock + 1) /\ next \in 1..(MaxBlock + 1)
  BY <1>2, IndexerAssumption
<1>4. TypeOK
  BY <1>1, <1>3 DEF Init, TypeOK, Calls
<1>5. MarksAreComplete /\ Place
  BY DEF Init, MarksAreComplete, Place
<1>. QED  BY <1>4, <1>5 DEF IInv

\* What a step between two chunks establishes.
LEMMA NextChunkPlace ==
    ASSUME IInv, from <= latest, NextChunk(chunkEnd), latest' = latest, head' = head,
           marked' \subseteq Blocks, \A c \in marked' : c <= chunkEnd,
           expired' \/ \A b \in Blocks : b <= chunkEnd => b \in marked' \cup missed'
    PROVE  /\ Place'
           /\ pc' \in {"FilterLogs", "GetPendingTransactions"}
           /\ from' \in 1..(MaxBlock + 1)
<1>1. /\ chunkEnd \in Nat /\ chunkEnd <= latest /\ chunkEnd <= head
      /\ head <= MaxBlock /\ latest \in Nat /\ head \in Nat /\ MaxBlock \in Nat
  BY ChunkEnd, IndexerAssumption DEF IInv
<1>2. from' = chunkEnd + 1
  BY DEF NextChunk
<1>3. pc' = "FilterLogs" => chunkEnd + 1 <= latest
  BY DEF NextChunk
<1>4. pc' \in {"FilterLogs", "GetPendingTransactions"}
  BY DEF NextChunk
<1>5. from' \in 1..(MaxBlock + 1)
  BY <1>1, <1>2
<1>6. \A c \in marked' : c < from'
  BY <1>1, <1>2 DEF Blocks
<1>7. expired' \/ Covered(from)'
  BY <1>1, <1>2 DEF Covered, Blocks
<1>8. Place'
  BY <1>2, <1>3, <1>4, <1>6, <1>7 DEF Place
<1>. QED  BY <1>4, <1>5, <1>8

LEMMA NextInv == IInv /\ [Next]_vars => IInv'
<1>. SUFFICES ASSUME IInv, [Next]_vars
              PROVE  IInv'
  OBVIOUS
<1>. USE IndexerAssumption
<1>1. CASE pc' = pc /\ UNCHANGED <<marked, missed, scanned, from, next, latest, head>>
           /\ (expired => expired') /\ TypeOK'
  <2>1. chunkEnd' = chunkEnd
    BY <1>1 DEF chunkEnd
  <2>2. MarksAreComplete'
    BY <1>1 DEF IInv, MarksAreComplete
  <2>3. \A k : Covered(k)' = Covered(k)
    BY <1>1 DEF Covered
  <2>4. Place'
    BY <1>1, <2>1, <2>3 DEF IInv, Place
  <2>. QED  BY <1>1, <2>2, <2>4 DEF IInv
<1>2. CASE pc' \notin {"FilterLogs", "InsertIndexedBlock"}
           /\ UNCHANGED <<marked, missed, scanned>> /\ TypeOK' /\ head' >= head
  <2>1. MarksAreComplete'
    BY <1>2 DEF IInv, MarksAreComplete, TypeOK, Blocks
  <2>. QED  BY <1>2, <2>1 DEF IInv, Place
<1>3. CASE Tick
  <2>1. expired' \in BOOLEAN
    BY <1>3 DEF Tick
  <2>2. /\ pc = "select" /\ pc' = "BlockNumber"
        /\ UNCHANGED <<main, latest, from, next, todo, marked, rows, handler, head, mined,
                       scanned, missed, faults>>
    BY <1>3 DEF Tick, historyVars, chainVars
  <2>3. TypeOK'
    BY <2>1, <2>2 DEF IInv, TypeOK, Calls
  <2>4. head' >= head
    BY <2>2 DEF IInv, TypeOK
  <2>. QED  BY <1>2, <2>2, <2>3, <2>4
<1>4. CASE Return
  BY <1>2, <1>4 DEF Return, IInv, TypeOK, Calls, historyVars, chainVars, pollVars
<1>5. CASE Expire
  BY <1>1, <1>5 DEF Expire, IInv, TypeOK, Calls, historyVars, chainVars, Fault
<1>6. CASE BlockNumber
  BY <1>2, <1>6 DEF BlockNumber, IInv, TypeOK, Calls, historyVars, chainVars, Fault, CallFails
<1>7. CASE GetLastIndexedBlock
  <2>1. TypeOK'
    BY <1>7 DEF GetLastIndexedBlock, IInv, TypeOK, Calls, historyVars, chainVars, Fault
  <2>2. MarksAreComplete'
    BY <1>7 DEF GetLastIndexedBlock, IInv, MarksAreComplete, historyVars, chainVars
  <2>3. CASE pc' # "FilterLogs"
    BY <1>7, <2>1, <2>2, <2>3 DEF GetLastIndexedBlock, IInv, Place
  <2>4. CASE pc' = "FilterLogs"
    <3>1. PICK b \in 0..MaxBlock : IsLastIndexed(b) /\ from' = b + 1 /\ b < latest
      BY <1>7, <2>4 DEF GetLastIndexedBlock, IInv, TypeOK
    <3>2. \A c \in marked : c < b + 1
      BY <3>1 DEF IsLastIndexed, IInv, TypeOK, Blocks
    <3>3. Covered(b + 1)
      BY <3>1 DEF Covered, IsLastIndexed, IInv, MarksAreComplete, TypeOK, Blocks
    <3>4. UNCHANGED <<marked, missed, latest>>
      BY <1>7 DEF GetLastIndexedBlock, historyVars
    <3>5. Covered(from)'
      BY <3>1, <3>3, <3>4 DEF Covered
    <3>6. from' <= latest'
      BY <3>1, <3>4 DEF IInv, TypeOK
    <3>. QED  BY <2>1, <2>2, <2>4, <3>1, <3>2, <3>4, <3>5, <3>6 DEF IInv, Place
  <2>. QED  BY <2>3, <2>4
<1>8. CASE FilterLogs
  <2>0. from <= latest /\ (\A c \in marked : c < from) /\ (expired \/ Covered(from))
    BY <1>8 DEF FilterLogs, IInv, Place
  <2>1. /\ chunkEnd \in Nat /\ from <= chunkEnd /\ chunkEnd <= latest /\ chunkEnd <= head
        /\ from \in Nat /\ head \in Nat /\ head <= MaxBlock /\ from >= 1
    BY <2>0, ChunkEnd DEF IInv, TypeOK
  <2>2. from..chunkEnd \subseteq Blocks
    BY <2>1 DEF Blocks
  <2>3. UNCHANGED <<main, expired, latest, todo, marked, rows, handler, head, mined>>
    BY <1>8 DEF FilterLogs, chainVars
  <2>4. CASE ~expired /\ scanned' = scanned \cup (from..chunkEnd) /\ next' = from
             /\ pc' = "InsertIndexedBlock" /\ UNCHANGED <<from, missed, faults>>
    <3>0. main \notin {"draining", "exited"}
      BY <1>8 DEF FilterLogs, IInv, TypeOK
    <3>1. TypeOK'
      BY <2>2, <2>3, <2>4, <3>0 DEF IInv, TypeOK, Calls
    <3>2. MarksAreComplete'
      BY <2>3, <2>4 DEF IInv, MarksAreComplete
    <3>3. chunkEnd' = chunkEnd
      BY <2>3, <2>4 DEF chunkEnd
    <3>4. Covered(next)'
      BY <2>0, <2>3, <2>4 DEF Covered
    <3>5. Place'
      BY <2>0, <2>1, <2>3, <2>4, <3>3, <3>4 DEF Place
    <3>. QED  BY <3>1, <3>2, <3>5 DEF IInv
  <2>5. CASE /\ CallFails
             /\ missed' = IF expired THEN missed ELSE missed \cup (from..chunkEnd)
             /\ NextChunk(chunkEnd)
             /\ UNCHANGED <<next, scanned>>
    <3>1. \A c \in marked' : c <= chunkEnd
      BY <2>0, <2>1, <2>3 DEF IInv, TypeOK, Blocks
    <3>2. ASSUME ~expired, NEW b \in Blocks, b <= chunkEnd
          PROVE  b \in marked' \cup missed'
      <4>1. b < from => b \in marked \cup missed
        BY <2>0, <3>2 DEF Covered
      <4>2. ~(b < from) => b \in from..chunkEnd
        BY <2>1, <3>2 DEF Blocks
      <4>. QED  BY <2>3, <2>5, <3>2, <4>1, <4>2
    <3>3. expired' = expired
      BY <2>3
    <3>4. expired' \/ \A b \in Blocks : b <= chunkEnd => b \in marked' \cup missed'
      BY <3>2, <3>3
    <3>5. marked' \subseteq Blocks
      BY <2>3 DEF IInv, TypeOK
    <3>6. /\ Place'
          /\ pc' \in {"FilterLogs", "GetPendingTransactions"}
          /\ from' \in 1..(MaxBlock + 1)
      BY <2>0, <2>3, <2>5, <3>1, <3>4, <3>5, NextChunkPlace
    <3>7. missed' \subseteq Blocks /\ missed \subseteq missed'
      BY <2>2, <2>5 DEF IInv, TypeOK
    <3>8. faults' \in 0..MaxFaults
      BY <2>5 DEF CallFails, Fault, IInv, TypeOK
    <3>9. main \notin {"draining", "exited"}
      BY <1>8 DEF FilterLogs, IInv, TypeOK
    <3>10. TypeOK'
      BY <2>3, <2>5, <3>5, <3>6, <3>7, <3>8, <3>9 DEF IInv, TypeOK, Calls
    <3>11. MarksAreComplete'
      BY <2>3, <2>5, <3>7 DEF IInv, MarksAreComplete
    <3>. QED  BY <3>6, <3>10, <3>11 DEF IInv
  <2>. QED  BY <1>8, <2>4, <2>5 DEF FilterLogs
<1>9. CASE InsertIndexedBlock
  <2>0. /\ from <= latest /\ from <= next /\ next <= chunkEnd
        /\ from..chunkEnd \subseteq scanned
        /\ \A c \in marked : c < next
        /\ Covered(next)
    BY <1>9 DEF InsertIndexedBlock, IInv, Place
  <2>1. /\ chunkEnd \in Nat /\ chunkEnd <= latest /\ chunkEnd <= head /\ from \in Nat
        /\ head \in Nat /\ head <= MaxBlock /\ from >= 1 /\ next \in Nat /\ latest \in Nat
    BY <2>0, ChunkEnd DEF IInv, TypeOK
  <2>2. next \in Blocks /\ next \in scanned /\ next <= head
    BY <2>0, <2>1 DEF Blocks
  <2>3. UNCHANGED <<main, expired, latest, todo, rows, handler, head, mined, scanned>>
    BY <1>9 DEF InsertIndexedBlock, chainVars
  <2>4. /\ marked \subseteq marked' /\ marked' \subseteq marked \cup {next}
        /\ missed \subseteq missed' /\ missed' \subseteq missed \cup {next}
        /\ next \in marked' \cup missed'
        /\ faults' \in 0..MaxFaults
    BY <1>9 DEF InsertIndexedBlock, Fault, IInv, TypeOK
  <2>5. marked' \subseteq Blocks /\ missed' \subseteq Blocks
    BY <2>2, <2>4 DEF IInv, TypeOK
  <2>6. \A c \in marked' : c <= next
    BY <2>0, <2>1, <2>4 DEF IInv, TypeOK, Blocks
  <2>7. \A b \in Blocks : b <= next => b \in marked' \cup missed'
    BY <2>0, <2>1, <2>4 DEF Covered, Blocks
  <2>8. MarksAreComplete'
    <3>1. \A b \in marked' : b \in scanned' /\ b <= head'
      BY <2>2, <2>3, <2>4 DEF IInv, MarksAreComplete
    <3>2. ASSUME NEW b \in Blocks, NEW c \in marked', b < c
          PROVE  b \in marked' \cup missed'
      BY <2>1, <2>5, <2>6, <2>7, <3>2 DEF Blocks
    <3>. QED  BY <3>1, <3>2 DEF MarksAreComplete
  <2>9. main \notin {"draining", "exited"}
    BY <1>9 DEF InsertIndexedBlock, IInv, TypeOK
  <2>10. CASE next < chunkEnd
    <3>1. next' = next + 1 /\ UNCHANGED <<pc, from>>
      BY <1>9, <2>10 DEF InsertIndexedBlock
    <3>2. next' \in 1..(MaxBlock + 1)
      BY <2>1, <2>10, <3>1
    <3>3. TypeOK'
      BY <2>3, <2>4, <2>5, <2>9, <3>1, <3>2 DEF IInv, TypeOK, Calls
    <3>4. chunkEnd' = chunkEnd
      BY <2>3, <3>1 DEF chunkEnd
    <3>5. \A c \in marked' : c < next'
      BY <2>1, <2>5, <2>6, <3>1 DEF Blocks
    <3>6. Covered(next)'
      BY <2>1, <2>7, <3>1 DEF Covered, Blocks
    <3>7. from <= next' /\ next' <= chunkEnd
      BY <2>0, <2>1, <2>10, <3>1
    <3>8. pc' = "InsertIndexedBlock"
      BY <1>9, <3>1 DEF InsertIndexedBlock
    <3>9. Place'
      BY <2>0, <2>3, <3>1, <3>4, <3>5, <3>6, <3>7, <3>8 DEF Place
    <3>. QED  BY <2>8, <3>3, <3>9 DEF IInv
  <2>11. CASE ~(next < chunkEnd)
    <3>1. NextChunk(chunkEnd) /\ next' = next
      BY <1>9, <2>11 DEF InsertIndexedBlock
    <3>2. next = chunkEnd
      BY <2>0, <2>1, <2>11
    <3>3. /\ Place'
          /\ pc' \in {"FilterLogs", "GetPendingTransactions"}
          /\ from' \in 1..(MaxBlock + 1)
      BY <2>0, <2>3, <2>5, <2>6, <2>7, <3>1, <3>2, NextChunkPlace
    <3>4. TypeOK'
      BY <2>3, <2>4, <2>5, <2>9, <3>1, <3>3 DEF IInv, TypeOK, Calls
    <3>. QED  BY <2>8, <3>3, <3>4 DEF IInv
  <2>. QED  BY <2>10, <2>11
<1>10. CASE GetPendingTransactions
  BY <1>2, <1>10 DEF GetPendingTransactions, IInv, TypeOK, Calls, historyVars, chainVars, Fault
<1>11. ASSUME NEW t \in Txs, TransactionReceipt(t)
       PROVE  IInv'
  BY <1>2, <1>11 DEF TransactionReceipt, IInv, TypeOK, historyVars, chainVars, Fault, CallFails
<1>12. CASE PollEnds
  BY <1>2, <1>12 DEF PollEnds, IInv, TypeOK, Calls, historyVars, chainVars, pollVars
<1>13. ASSUME NEW t \in Txs, SendTransaction(t)
       PROVE  IInv'
  BY <1>1, <1>13 DEF SendTransaction, IInv, TypeOK, historyVars, chainVars, pollVars
<1>14. ASSUME NEW t \in Txs, InsertTransaction(t)
       PROVE  IInv'
  BY <1>1, <1>14 DEF InsertTransaction, IInv, TypeOK, historyVars, chainVars, pollVars, Fault
<1>15. ASSUME NEW t \in Txs, HandlerEnds(t)
       PROVE  IInv'
  BY <1>1, <1>15 DEF HandlerEnds, IInv, TypeOK, historyVars, chainVars, pollVars
<1>16. CASE Mine
  <2>1. /\ pc' = pc /\ head' = head + 1 /\ head < MaxBlock
        /\ UNCHANGED <<main, expired, latest, from, next, todo, marked, rows, handler, scanned,
                       missed, faults>>
    BY <1>16 DEF Mine, pollVars, historyVars
  <2>2. mined' \subseteq Txs
    BY <1>16 DEF Mine, IInv, TypeOK
  <2>3. TypeOK'
    BY <2>1, <2>2 DEF IInv, TypeOK
  <2>4. MarksAreComplete'
    BY <2>1 DEF IInv, TypeOK, MarksAreComplete, Blocks
  <2>5. chunkEnd' = chunkEnd
    BY <2>1 DEF chunkEnd
  <2>6. \A k : Covered(k)' = Covered(k)
    BY <2>1 DEF Covered
  <2>7. Place'
    BY <2>1, <2>5, <2>6 DEF IInv, Place
  <2>. QED  BY <2>3, <2>4, <2>7 DEF IInv
<1>17. CASE Signal
  BY <1>1, <1>17 DEF Signal, IInv, TypeOK, historyVars, chainVars, pollVars, Fault
<1>18. CASE Stopped
  BY <1>1, <1>18 DEF Stopped, IInv, TypeOK, historyVars, chainVars, pollVars
<1>19. CASE Exit
  BY <1>2, <1>19 DEF Exit, Kill, IInv, TypeOK, historyVars, chainVars, pollVars
<1>20. CASE Crash
  BY <1>2, <1>20 DEF Crash, Kill, IInv, TypeOK, historyVars, chainVars, pollVars, Fault
<1>21. CASE Start
  BY <1>2, <1>21 DEF Start, IInv, TypeOK, historyVars, chainVars, pollVars
<1>22. CASE UNCHANGED vars
  BY <1>1, <1>22 DEF vars, IInv, TypeOK, historyVars, chainVars, pollVars
<1>. QED
  BY <1>3, <1>4, <1>5, <1>6, <1>7, <1>8, <1>9, <1>10, <1>11, <1>12, <1>13, <1>14, <1>15, <1>16,
     <1>17, <1>18, <1>19, <1>20, <1>21, <1>22
  DEF Next, Poll

LEMMA Inductive == Spec => []IInv
BY InitInv, NextInv, PTL DEF Spec

\* The variables keep their types, and no poll runs on a closed database.
THEOREM TypeCorrect == Spec => []TypeOK
<1>1. IInv => TypeOK
  BY DEF IInv
<1>. QED  BY <1>1, Inductive, PTL

\* Marks are never ahead of the logs read, and only a failed call leaves a hole.
THEOREM Complete == Spec => []MarksAreComplete
<1>1. IInv => MarksAreComplete
  BY DEF IInv
<1>. QED  BY <1>1, Inductive, PTL

\* No block is scanned after it was marked.
THEOREM OnlyNew == Spec => []ScansOnlyNew
<1>1. IInv => ScansOnlyNew
  BY DEF IInv, Place, ScansOnlyNew, TypeOK, Blocks
<1>. QED  BY <1>1, Inductive, PTL
=============================================================================
