---------------------------- MODULE Relay_proofs ----------------------------
(***************************************************************************)
(* Proofs about the relay, its transaction table and the indexer, for any  *)
(* number of requests, wallets and faults.                                 *)
(***************************************************************************)
EXTENDS Relay, SequenceTheorems, TLAPS

Pooled == Range(pool)

\* A transaction is in one place: with its client or handler, on the wire, in
\* the pool, or mined.
Placed ==
    /\ \A r \in Requests : phase[r] \in {"message", "post", "send"} => r \notin wire \cup Pooled
    /\ wire \cap Pooled = {}
    /\ IsInjective(pool)
    /\ \A r \in Requests :
         receipt[r] # None => /\ phase[r] \notin {"message", "post", "send"}
                              /\ r \notin wire \cup Pooled

\* Nobody has a receipt but from the chain.
FoundIsReceipt == \A r \in Requests : found[r] # None => found[r] = receipt[r]

\* A row is inserted once, by a handler that then waits.
NoRowYet ==
    \A r \in Requests : phase[r] \in {"message", "post", "send", "insert"} => rows[r] = None

\* From the moment a transaction may be mined, somebody is about to store it, has
\* stored it, or has failed to.
Known(r) == rows[r] # None \/ phase[r] = "insert" \/ r \in unrecorded

Recorded ==
    /\ \A r \in wire : r \in unrecorded
    /\ \A r \in Pooled : Known(r)
    /\ \A r \in Requests : phase[r] \in {"wait", "update", "respond"} => Known(r)
    /\ RelayedIsRecorded

\* The nonce that an executed transaction was signed for is used up.
NonceUsed ==
    \A r \in Requests : receipt[r] = "success" => signedNonce[r] < walletNonce[WalletOf[r]]

\* The inductive invariant.
IInv ==
    /\ TypeOK
    /\ Placed
    /\ FoundIsReceipt
    /\ FailureMeansFailed
    /\ NoRowYet
    /\ RowsAgreeWithChain
    /\ Recorded
    /\ NonceUsed
    /\ OneExecutionPerNonce

---------------------------------------------------------------------------
(* The pool as a sequence.                                                 *)

\* Appending a transaction adds it to the pool.
LEMMA Appending ==
    ASSUME NEW s \in Seq(Requests), NEW r \in Requests
    PROVE  /\ Append(s, r) \in Seq(Requests)
           /\ Range(Append(s, r)) = Range(s) \cup {r}
<1>1. /\ Append(s, r) \in Seq(Requests)
      /\ Len(Append(s, r)) = Len(s) + 1
      /\ \A i \in 1..Len(s) : Append(s, r)[i] = s[i]
      /\ Append(s, r)[Len(s) + 1] = r
  OBVIOUS
<1>2. DOMAIN s = 1..Len(s) /\ DOMAIN Append(s, r) = 1..(Len(s) + 1) /\ Len(s) \in Nat
  BY <1>1
<1> QED
  BY <1>1, <1>2 DEF Range, IsInjective

\* A sequence without repetitions keeps none when one is appended that is new.
LEMMA AppendingNew ==
    ASSUME NEW s \in Seq(Requests), NEW r \in Requests,
           r \notin Range(s),
           IsInjective(s)
    PROVE  IsInjective(Append(s, r))
<1>1. /\ Append(s, r) \in Seq(Requests)
      /\ Len(Append(s, r)) = Len(s) + 1
      /\ \A i \in 1..Len(s) : Append(s, r)[i] = s[i]
      /\ Append(s, r)[Len(s) + 1] = r
  OBVIOUS
<1>2. DOMAIN s = 1..Len(s) /\ DOMAIN Append(s, r) = 1..(Len(s) + 1) /\ Len(s) \in Nat
  BY <1>1
<1> QED
  BY <1>1, <1>2 DEF Range, IsInjective

\* Mining takes the head out.
LEMMA Taking ==
    ASSUME NEW s \in Seq(Requests), s # <<>>,
           IsInjective(s)
    PROVE  /\ Head(s) \in Requests /\ Head(s) \in Range(s)
           /\ Tail(s) \in Seq(Requests)
           /\ Range(Tail(s)) = Range(s) \ {Head(s)}
           /\ IsInjective(Tail(s))
<1>1. /\ Tail(s) \in Seq(Requests) /\ Len(Tail(s)) = Len(s) - 1
      /\ \A i \in 1..(Len(s) - 1) : Tail(s)[i] = s[i + 1]
      /\ Head(s) = s[1]
  OBVIOUS
<1>2. DOMAIN s = 1..Len(s) /\ DOMAIN Tail(s) = 1..(Len(s) - 1) /\ Len(s) \in Nat /\ Len(s) >= 1
  BY <1>1
<1>3. Head(s) \in Requests /\ 1 \in DOMAIN s /\ Head(s) \in Range(s)
  BY <1>1, <1>2 DEF Range
<1>4. \A i \in DOMAIN Tail(s) : i + 1 \in DOMAIN s /\ Tail(s)[i] = s[i + 1] /\ i + 1 # 1
  BY <1>1, <1>2
<1>5. \A i \in DOMAIN s : i # 1 => i - 1 \in DOMAIN Tail(s) /\ Tail(s)[i - 1] = s[i]
  BY <1>1, <1>2
<1>6. Range(Tail(s)) = Range(s) \ {Head(s)}
  <2>1. \A i \in DOMAIN s : s[i] = Head(s) => i = 1
    BY <1>1, <1>3 DEF IsInjective
  <2>2. \A i \in DOMAIN Tail(s) : Tail(s)[i] \in Range(s) \ {Head(s)}
    BY <1>4, <2>1 DEF Range
  <2>3. \A i \in DOMAIN s : s[i] # Head(s) => s[i] \in Range(Tail(s))
    <3> TAKE i \in DOMAIN s
    <3> HAVE s[i] # Head(s)
    <3>1. i # 1
      BY <1>1
    <3>2. i - 1 \in DOMAIN Tail(s) /\ Tail(s)[i - 1] = s[i]
      BY <1>5, <3>1
    <3> QED
      BY <3>2 DEF Range
  <2> QED
    BY <2>2, <2>3 DEF Range
<1>7. IsInjective(Tail(s))
  BY <1>2, <1>4 DEF IsInjective
<1> QED
  BY <1>1, <1>3, <1>6, <1>7

\* What the node loses is out, and nothing else changes.
LEMMA Removing ==
    ASSUME NEW s \in Seq(Requests), NEW k \in 1..Len(s),
           IsInjective(s)
    PROVE  /\ RemoveAt(s, k) \in Seq(Requests)
           /\ Range(RemoveAt(s, k)) \subseteq Range(s)
           /\ IsInjective(RemoveAt(s, k))
<1> DEFINE a == SubSeq(s, 1, k - 1)
           b == SubSeq(s, k + 1, Len(s))
           place(i) == IF i < k THEN i ELSE i + 1
<1>1. /\ a \in Seq(Requests) /\ Len(a) = k - 1 /\ \A i \in 1..(k - 1) : a[i] = s[i]
  OBVIOUS
<1>2. /\ b \in Seq(Requests) /\ Len(b) = Len(s) - k
      /\ \A i \in 1..(Len(s) - k) : b[i] = s[k + i]
  OBVIOUS
<1>3. RemoveAt(s, k) = a \o b
  BY DEF RemoveAt
<1>4. /\ a \o b \in Seq(Requests) /\ Len(a \o b) = Len(s) - 1
      /\ \A i \in 1..(Len(s) - 1) : (a \o b)[i] = IF i < k THEN a[i] ELSE b[i - (k - 1)]
  <2> HIDE DEF a, b
  <2>1. /\ a \o b \in Seq(Requests) /\ Len(a \o b) = Len(a) + Len(b)
        /\ \A i \in 1..(Len(a) + Len(b)) :
             (a \o b)[i] = IF i <= Len(a) THEN a[i] ELSE b[i - Len(a)]
    BY <1>1, <1>2, ConcatProperties
  <2>2. Len(a) + Len(b) = Len(s) - 1 /\ \A i \in Nat : i <= Len(a) <=> i < k
    BY <1>1, <1>2
  <2> QED
    BY <1>1, <2>1, <2>2
<1> HIDE DEF a, b
<1>5. \A i \in 1..(Len(s) - 1) : (a \o b)[i] = s[place(i)] /\ place(i) \in 1..Len(s)
  BY <1>1, <1>2, <1>4
<1> DEFINE t == a \o b
<1>6. /\ t \in Seq(Requests) /\ Len(t) = Len(s) - 1
      /\ \A i \in 1..(Len(s) - 1) : t[i] = s[place(i)] /\ place(i) \in 1..Len(s)
  BY <1>4, <1>5
<1>7. Len(s) \in Nat /\ k \in Nat
  OBVIOUS
<1> HIDE DEF a, b, t
<1>8. DOMAIN s = 1..Len(s) /\ DOMAIN t = 1..(Len(s) - 1)
  BY <1>6
<1>9. \A i, j \in Nat : place(i) = place(j) => i = j
  BY <1>7
<1> HIDE DEF place
<1>10. IsInjective(t)
  BY <1>6, <1>7, <1>8, <1>9 DEF IsInjective
<1>11. Range(t) \subseteq Range(s)
  BY <1>6, <1>8 DEF Range
<1>12. RemoveAt(s, k) = t
  BY <1>3 DEF t
<1> QED
  BY <1>6, <1>10, <1>11, <1>12

---------------------------------------------------------------------------
(* The steps of a request that leave the pool and the table alone.         *)

LEMMA PoolType == ASSUME TypeOK PROVE Pooled \subseteq Requests
BY DEF TypeOK, Pooled, Range

LEMMA InitInv == Init => IInv
<1> SUFFICES ASSUME Init PROVE IInv
  OBVIOUS
<1> USE RelayAssumption DEF Init
<1>1. TypeOK
  BY DEF TypeOK, Phases
<1>2. Placed /\ Recorded
  BY DEF Placed, Recorded, Known, Pooled, RelayedIsRecorded, Statuses, Range, IsInjective
<1>3. FoundIsReceipt /\ FailureMeansFailed /\ NoRowYet /\ RowsAgreeWithChain
  BY DEF FoundIsReceipt, FailureMeansFailed, NoRowYet, RowsAgreeWithChain, Statuses
<1>4. NonceUsed /\ OneExecutionPerNonce
  BY DEF NonceUsed, OneExecutionPerNonce
<1> QED
  BY <1>1, <1>2, <1>3, <1>4 DEF IInv

LEMMA MessageKeeps == ASSUME IInv, NEW r \in Requests, Message(r) PROVE IInv'
<1> USE RelayAssumption DEF Message, Go, indexerVars, chainVars
<1>0. TypeOK
  BY DEF IInv
<1>1. TypeOK'
  <2>1. WalletOf[r] \in Wallets
    OBVIOUS
  <2> QED
    BY <1>0, <2>1 DEF TypeOK, Phases
<1>2. \A q \in Requests : /\ phase'[q] = IF q = r THEN "post" ELSE phase[q]
                          /\ q # r => signedNonce'[q] = signedNonce[q]
  BY <1>0 DEF TypeOK
<1>3. receipt[r] = None
  BY DEF IInv, Placed
<1>4. Placed' /\ Recorded' /\ NoRowYet'
  BY <1>2 DEF IInv, Placed, Recorded, Known, Pooled, RelayedIsRecorded, NoRowYet
<1>5. FoundIsReceipt' /\ FailureMeansFailed' /\ RowsAgreeWithChain'
  BY DEF IInv, FoundIsReceipt, FailureMeansFailed, RowsAgreeWithChain
<1>6. NonceUsed' /\ OneExecutionPerNonce'
  BY <1>2, <1>3 DEF IInv, NonceUsed, OneExecutionPerNonce
<1> QED
  BY <1>1, <1>4, <1>5, <1>6 DEF IInv

\* Estimating, refusing, finding a receipt, timing out and answering: only the
\* handler's own state changes.
LEMMA QuietKeeps ==
    ASSUME IInv, NEW r \in Requests,
           Estimate(r) \/ Refuse(r) \/ ReceiptFound(r) \/ ReceiptTimeout(r) \/ Respond(r)
    PROVE  IInv'
<1> USE RelayAssumption
                DEF Estimate, Refuse, ReceiptFound, ReceiptTimeout, Respond, Go,
                    indexerVars, chainVars
<1>0. TypeOK
  BY DEF IInv
<1>1. UNCHANGED <<signedNonce, rows, indexerVars, chainVars, unrecorded, faults>>
  OBVIOUS
<1>2. TypeOK'
  <2>1. /\ phase' \in [Requests -> Phases]
        /\ found' \in [Requests -> Statuses \cup {None}]
        /\ response' \in [Requests -> Statuses \cup {"error", None}]
    BY <1>0 DEF TypeOK, Phases, Statuses
  <2>2. \A q \in Requests : phase'[q] = "update" => found'[q] = receipt[q] /\ found'[q] # None
    BY <1>0 DEF TypeOK
  <2> QED
    BY <1>0, <1>1, <2>1, <2>2 DEF TypeOK, indexerVars, chainVars
<1>3. \A q \in Requests \ {r} : phase'[q] = phase[q] /\ found'[q] = found[q] /\ response'[q] = response[q]
  BY <1>0 DEF TypeOK
<1>4. \/ phase[r] \in {"post", "send"} /\ phase'[r] \in {"send", "done"}
                /\ response'[r] \in {response[r], "error"}
      \/ phase[r] \in {"wait", "respond"} /\ phase'[r] \in {"update", "respond", "done"}
  BY <1>0 DEF TypeOK
<1>5. Placed' /\ NoRowYet'
  BY <1>1, <1>3, <1>4 DEF IInv, Placed, NoRowYet, Pooled
<1>6. Recorded'
  <2>1. \A q \in Requests : Known(q) => Known(q)'
    BY <1>1, <1>3, <1>4 DEF Known
  <2>2. phase[r] \in {"wait", "respond"} => Known(r)
    BY DEF IInv, Recorded
  <2>3. RelayedIsRecorded <=> \A q \in Requests :
                                receipt[q] # None \/ response[q] \in Statuses => Known(q)
    BY DEF RelayedIsRecorded, Known
  <2>4. RelayedIsRecorded' <=> \A q \in Requests :
                                 receipt'[q] # None \/ response'[q] \in Statuses => Known(q)'
    BY DEF RelayedIsRecorded, Known
  <2> HIDE DEF Known
  <2>5. RelayedIsRecorded'
    BY <1>1, <1>3, <1>4, <2>1, <2>2, <2>3, <2>4 DEF IInv, Recorded, Statuses
  <2> QED
    BY <1>0, <1>1, <1>3, <1>4, <2>1, <2>2, <2>5, PoolType DEF IInv, Recorded, Pooled
<1>7. FoundIsReceipt'
  BY <1>0, <1>1 DEF IInv, TypeOK, FoundIsReceipt
<1>8. FailureMeansFailed'
  BY <1>0, <1>1 DEF IInv, TypeOK, FoundIsReceipt, FailureMeansFailed
<1>9. RowsAgreeWithChain' /\ NonceUsed' /\ OneExecutionPerNonce'
  BY <1>1 DEF IInv, RowsAgreeWithChain, NonceUsed, OneExecutionPerNonce
<1> QED
  BY <1>2, <1>5, <1>6, <1>7, <1>8, <1>9 DEF IInv

---------------------------------------------------------------------------
(* Sending.                                                                *)

LEMMA SendKeeps == ASSUME IInv, NEW r \in Requests, Send(r) PROVE IInv'
<1> USE RelayAssumption DEF Send, Go, indexerVars
<1>0. TypeOK /\ Pooled \subseteq Requests /\ pool \in Seq(Requests)
  BY PoolType DEF IInv, TypeOK
<1>1. UNCHANGED <<signedNonce, found, response, rows, todo, current, wire, receipt,
                  walletNonce, unrecorded, faults>>
  OBVIOUS
<1>2. /\ \A q \in Requests : phase'[q] = IF q = r THEN "insert" ELSE phase[q]
      /\ phase[r] = "send"
  BY <1>0 DEF TypeOK
<1>3. Pooled' = Pooled \cup {r} /\ pool' \in Seq(Requests)
  <2>1. pool' = Append(pool, r)
    OBVIOUS
  <2> HIDE DEF Send
  <2> QED
    BY <1>0, <2>1, Appending, Zenon DEF Pooled
<1>4. r \notin wire \cup Pooled /\ receipt[r] = None /\ rows[r] = None
  BY <1>2 DEF IInv, Placed, NoRowYet
<1>5. IsInjective(pool')
  BY <1>0, <1>4, AppendingNew DEF IInv, Placed, Pooled
<1>6. TypeOK'
  BY <1>0, <1>1, <1>3 DEF TypeOK, Phases
<1>7. Placed' /\ NoRowYet'
  BY <1>1, <1>2, <1>3, <1>4, <1>5 DEF IInv, Placed, NoRowYet
<1>8. \A q \in Requests : Known(q) => Known(q)'
  BY <1>1, <1>2 DEF Known
<1>9. Known(r)'
  BY <1>2 DEF Known
<1>10. RelayedIsRecorded'
  BY <1>1, <1>2 DEF IInv, Recorded, RelayedIsRecorded
<1>11. Recorded'
  <2> HIDE DEF Send
  <2> QED
    BY <1>0, <1>1, <1>2, <1>3, <1>8, <1>9, <1>10 DEF IInv, Recorded
<1>12. (FoundIsReceipt /\ FailureMeansFailed /\ RowsAgreeWithChain /\ NonceUsed
         /\ OneExecutionPerNonce)'
  BY <1>1 DEF IInv, FoundIsReceipt, FailureMeansFailed, RowsAgreeWithChain, NonceUsed,
              OneExecutionPerNonce
<1> QED
  BY <1>6, <1>7, <1>11, <1>12 DEF IInv

LEMMA SendReplyLostKeeps == ASSUME IInv, NEW r \in Requests, SendReplyLost(r) PROVE IInv'
<1> USE RelayAssumption DEF SendReplyLost, Go, indexerVars, Fault
<1>0. TypeOK /\ Pooled \subseteq Requests
  BY PoolType DEF IInv
<1>1. /\ UNCHANGED <<signedNonce, found, rows, todo, current, pool, receipt, walletNonce>>
      /\ wire' = wire \cup {r} /\ unrecorded' = unrecorded \cup {r}
  OBVIOUS
<1>2. /\ \A q \in Requests : phase'[q] = IF q = r THEN "done" ELSE phase[q]
      /\ \A q \in Requests : response'[q] = IF q = r THEN "error" ELSE response[q]
      /\ phase[r] = "send"
  BY <1>0 DEF TypeOK
<1>3. r \notin Pooled /\ receipt[r] = None
  BY <1>2 DEF IInv, Placed
<1>4. TypeOK'
  <2>1. faults' \in 0..MaxFaults
    BY <1>0 DEF TypeOK
  <2> QED
    BY <1>0, <1>1, <2>1 DEF TypeOK, Phases
<1>5. Placed' /\ NoRowYet'
  BY <1>1, <1>2, <1>3 DEF IInv, Placed, NoRowYet, Pooled
<1>6. \A q \in Requests : Known(q) => Known(q)'
  BY <1>1, <1>2 DEF Known
<1>7. RelayedIsRecorded'
  BY <1>1, <1>2 DEF IInv, Recorded, RelayedIsRecorded
<1>8. Recorded'
  <2> HIDE DEF SendReplyLost
  <2> QED
    BY <1>0, <1>1, <1>2, <1>6, <1>7 DEF IInv, Recorded, Pooled
<1>9. (FoundIsReceipt /\ FailureMeansFailed /\ RowsAgreeWithChain /\ NonceUsed
        /\ OneExecutionPerNonce)'
  BY <1>1, <1>2 DEF IInv, FoundIsReceipt, FailureMeansFailed, RowsAgreeWithChain, NonceUsed,
              OneExecutionPerNonce
<1> QED
  BY <1>4, <1>5, <1>8, <1>9 DEF IInv

---------------------------------------------------------------------------
(* The table.                                                              *)

\* What every write to the table keeps: rows appear and are resolved, and never
\* vanish.
LEMMA TableKeeps ==
    ASSUME IInv, TypeOK', Placed', FoundIsReceipt',
           UNCHANGED <<signedNonce, found, response, wire, pool, receipt, walletNonce>>,
           unrecorded \subseteq unrecorded',
           \A q \in Requests : phase[q] = "insert" /\ phase'[q] # "insert"
                                 => rows'[q] # None \/ q \in unrecorded',
           \A q \in Requests : phase'[q] \in {"wait", "update", "respond"} =>
                                 phase[q] \in {"insert", "wait", "update", "respond"},
           \A q \in Requests : phase'[q] \in {"message", "post", "send", "insert"} =>
                                 phase[q] = phase'[q] /\ rows'[q] = rows[q],
           \A q \in Requests : rows[q] # None => rows'[q] # None,
           \A q \in Requests : rows'[q] \in Statuses => rows'[q] = receipt[q]
    PROVE  IInv'
<1>1. TypeOK /\ Pooled' \subseteq Requests /\ Pooled' = Pooled
  BY PoolType DEF IInv, Pooled
<1>2. \A q \in Requests : Known(q) => Known(q)'
  BY DEF Known
<1>3. RelayedIsRecorded'
  <2>1. \A q \in Requests : receipt[q] # None \/ response[q] \in Statuses => Known(q)
    BY DEF IInv, Recorded, RelayedIsRecorded, Known
  <2>2. \A q \in Requests : receipt'[q] # None \/ response'[q] \in Statuses => Known(q)'
    BY <1>2, <2>1
  <2> QED
    BY <2>2 DEF RelayedIsRecorded, Known
<1>4. Recorded'
  <2>1. \A q \in Requests : phase'[q] \in {"wait", "update", "respond"} => Known(q)'
    BY <1>2 DEF IInv, Recorded, Known
  <2> QED
    BY <1>1, <1>2, <1>3, <2>1 DEF IInv, Recorded
<1>5. NoRowYet' /\ RowsAgreeWithChain'
  BY DEF IInv, NoRowYet, RowsAgreeWithChain
<1>6. (FailureMeansFailed /\ NonceUsed /\ OneExecutionPerNonce)'
  BY DEF IInv, FailureMeansFailed, NonceUsed, OneExecutionPerNonce
<1> QED
  BY <1>4, <1>5, <1>6 DEF IInv

LEMMA InsertKeeps == ASSUME IInv, NEW r \in Requests, Insert(r) PROVE IInv'
<1> USE RelayAssumption DEF Insert, Go, indexerVars, chainVars, Fault
<1>0. TypeOK
  BY DEF IInv
<1>1. \A q \in Requests : phase'[q] = IF q = r THEN "wait" ELSE phase[q]
  BY <1>0 DEF TypeOK
<1>2. /\ \A q \in Requests : rows'[q] = rows[q] \/ (q = r /\ rows'[q] = "pending")
      /\ rows'[r] = "pending" \/ r \in unrecorded'
  BY <1>0 DEF TypeOK
<1>3. TypeOK'
  <2>1. faults' \in 0..MaxFaults
    BY <1>0 DEF TypeOK
  <2>2. phase' \in [Requests -> Phases] /\ rows' \in [Requests -> Statuses \cup {"pending", None}]
    BY <1>0 DEF TypeOK, Phases
  <2> QED
    BY <1>0, <1>1, <2>1, <2>2 DEF TypeOK
<1>4. "pending" \notin Statuses
  BY DEF Statuses
<1>5. \A q \in Requests : rows[q] # None => rows'[q] # None
  BY <1>2 DEF IInv, NoRowYet
<1>6. \A q \in Requests : rows'[q] \in Statuses => rows'[q] = receipt[q]
  BY <1>2, <1>4 DEF IInv, RowsAgreeWithChain
<1>7. Placed' /\ FoundIsReceipt'
  BY <1>1 DEF IInv, Placed, Pooled, FoundIsReceipt
<1>8. rows'[r] # None \/ r \in unrecorded'
  BY <1>2
<1> HIDE DEF Insert
<1>9. /\ UNCHANGED <<signedNonce, found, response, wire, pool, receipt, walletNonce>>
      /\ unrecorded \subseteq unrecorded' /\ phase[r] = "insert"
  BY DEF Insert
<1> QED
  BY <1>1, <1>2, <1>3, <1>5, <1>6, <1>7, <1>8, <1>9, TableKeeps

LEMMA UpdateKeeps == ASSUME IInv, NEW r \in Requests, Update(r) PROVE IInv'
<1> USE RelayAssumption
<1>0. TypeOK
  BY DEF IInv
<1>1. /\ UNCHANGED <<signedNonce, found, response, wire, pool, receipt, walletNonce,
                     unrecorded, todo, current>>
      /\ faults' \in 0..MaxFaults
      /\ phase' = [phase EXCEPT ![r] = "respond"] /\ phase[r] = "update"
      /\ rows' = rows \/ rows' = [rows EXCEPT ![r] = IF @ = None THEN None ELSE receipt[r]]
  BY <1>0 DEF Update, Go, indexerVars, chainVars, Fault, UpdateTransactionStatus, TypeOK
<1>2. receipt[r] \in Statuses
  BY <1>0, <1>1 DEF TypeOK
<1>3. \A q \in Requests : phase'[q] = IF q = r THEN "respond" ELSE phase[q]
  BY <1>0, <1>1 DEF TypeOK
<1>4. /\ \A q \in Requests : rows'[q] = rows[q]
                              \/ (q = r /\ rows[r] # None /\ rows'[r] = receipt[r])
      /\ rows' \in [Requests -> Statuses \cup {"pending", None}]
  BY <1>0, <1>1, <1>2 DEF TypeOK
<1>5. None \notin Statuses
  BY DEF Statuses
<1>6. TypeOK'
  BY <1>0, <1>1, <1>3, <1>4 DEF TypeOK, Phases
<1>7. Placed' /\ FoundIsReceipt'
  BY <1>1, <1>3 DEF IInv, Placed, Pooled, FoundIsReceipt
<1>8. \A q \in Requests : rows'[q] \in Statuses => rows'[q] = receipt[q]
  BY <1>4 DEF IInv, RowsAgreeWithChain
<1> QED
  BY <1>1, <1>2, <1>3, <1>4, <1>5, <1>6, <1>7, <1>8, TableKeeps

\* The indexer's steps.
LEMMA IndexerKeeps == ASSUME IInv, Indexer PROVE IInv'
<1> USE RelayAssumption
<1>0. TypeOK
  BY DEF IInv
<1>1. /\ UNCHANGED <<phase, signedNonce, found, response, wire, pool, receipt, walletNonce,
                     unrecorded>>
      /\ faults' \in 0..MaxFaults
  BY <1>0 DEF Indexer, GetPendingTransactions, Lookup, Skip, Write, handlerVars, chainVars,
              Fault, TypeOK
<1>2. /\ todo' \subseteq Requests /\ current' \in Requests \cup {None}
      /\ current' # None => receipt[current'] # None
  BY <1>0 DEF Indexer, GetPendingTransactions, Lookup, Skip, Write, TypeOK
<1>3. \/ rows' = rows
      \/ /\ current \in Requests /\ receipt[current] \in Statuses
         /\ rows' = [rows EXCEPT ![current] = IF @ = None THEN None ELSE receipt[current]]
  BY <1>0 DEF Indexer, GetPendingTransactions, Lookup, Skip, Write, UpdateTransactionStatus,
              TypeOK
<1>4. /\ \A q \in Requests : rows'[q] = rows[q]
                              \/ (rows[q] # None /\ rows'[q] = receipt[q] /\ receipt[q] \in Statuses)
      /\ rows' \in [Requests -> Statuses \cup {"pending", None}]
  BY <1>0, <1>3 DEF TypeOK
<1>5. None \notin Statuses
  BY DEF Statuses
<1>6. TypeOK'
  BY <1>0, <1>1, <1>2, <1>4 DEF TypeOK
<1>7. Placed' /\ FoundIsReceipt'
  BY <1>1 DEF IInv, Placed, Pooled, FoundIsReceipt
<1>8. \A q \in Requests : rows'[q] \in Statuses => rows'[q] = receipt[q]
  BY <1>4 DEF IInv, RowsAgreeWithChain
<1>9. \A q \in Requests : phase'[q] \in {"message", "post", "send", "insert"} => rows'[q] = rows[q]
  BY <1>1, <1>4 DEF IInv, NoRowYet
<1> QED
  BY <1>1, <1>4, <1>5, <1>6, <1>7, <1>8, <1>9, TableKeeps

---------------------------------------------------------------------------
(* The chain, and what goes wrong.                                         *)

LEMMA MineKeeps == ASSUME IInv, Mine PROVE IInv'
<1> USE RelayAssumption
<1>0. TypeOK /\ Pooled \subseteq Requests /\ pool \in Seq(Requests)
  BY PoolType DEF IInv, TypeOK
<1> DEFINE r == Head(pool)
           wallet == WalletOf[r]
<1>1. /\ r \in Requests /\ r \in Pooled
      /\ pool' \in Seq(Requests) /\ Pooled' = Pooled \ {r}
      /\ IsInjective(pool')
  <2>1. pool # <<>> /\ pool' = Tail(pool)
    BY DEF Mine
  <2>2. IsInjective(pool)
    BY DEF IInv, Placed
  <2> QED
    BY <1>0, <2>1, <2>2, Taking, Zenon DEF Pooled
<1>2. /\ UNCHANGED <<phase, signedNonce, found, response, rows, todo, current, wire,
                     unrecorded, faults>>
      /\ \/ /\ signedNonce[r] = walletNonce[wallet]
            /\ walletNonce' = [walletNonce EXCEPT ![wallet] = @ + 1]
            /\ receipt' = [receipt EXCEPT ![r] = "success"]
         \/ /\ receipt' = [receipt EXCEPT ![r] = "failed"]
            /\ walletNonce' = walletNonce
  BY DEF Mine, handlerVars, indexerVars
<1> HIDE DEF r
<1>3. wallet \in Wallets
  BY <1>1
<1>4. /\ \A q \in Requests : q # r => receipt'[q] = receipt[q]
      /\ receipt'[r] \in Statuses
  BY <1>0, <1>1, <1>2 DEF TypeOK, Statuses
<1>5. /\ receipt[r] = None /\ phase[r] \notin {"message", "post", "send"} /\ r \notin wire
      /\ found[r] = None /\ response[r] # "failed" /\ rows[r] \notin Statuses
      /\ Known(r)
  <2>1. receipt[r] = None /\ phase[r] \notin {"message", "post", "send"} /\ r \notin wire
    BY <1>1 DEF IInv, Placed
  <2>2. found[r] = None /\ response[r] # "failed" /\ rows[r] \notin Statuses
    BY <1>1, <2>1 DEF IInv, FoundIsReceipt, FailureMeansFailed, RowsAgreeWithChain, Statuses
  <2> QED
    BY <1>1, <2>1, <2>2 DEF IInv, Recorded
<1>6. \A v \in Wallets : /\ walletNonce[v] \in Nat /\ walletNonce'[v] \in Nat
                         /\ walletNonce'[v] >= walletNonce[v]
  <2>1. walletNonce \in [Wallets -> Nat]
    BY <1>0 DEF TypeOK
  <2>2. walletNonce' = walletNonce \/ walletNonce' = [walletNonce EXCEPT ![wallet] = @ + 1]
    BY <1>2
  <2> QED
    BY <1>3, <2>1, <2>2
<1>7. TypeOK'
  <2>1. receipt' \in [Requests -> Statuses \cup {None}]
    BY <1>0, <1>1, <1>2 DEF TypeOK, Statuses
  <2>2. walletNonce' \in [Wallets -> Nat]
    BY <1>0, <1>2, <1>3, <1>6 DEF TypeOK
  <2>3. \A q \in Requests : phase[q] = "update" => q # r
    BY <1>0, <1>5 DEF TypeOK
  <2>4. current # r \/ current = None
    BY <1>0, <1>1, <1>5 DEF TypeOK
  <2> QED
    BY <1>0, <1>1, <1>2, <1>4, <2>1, <2>2, <2>3, <2>4 DEF TypeOK
<1>8. Placed' /\ NoRowYet'
  BY <1>1, <1>2, <1>4, <1>5 DEF IInv, Placed, NoRowYet
<1>9. (FoundIsReceipt /\ FailureMeansFailed /\ RowsAgreeWithChain)'
  BY <1>2, <1>4, <1>5 DEF IInv, FoundIsReceipt, FailureMeansFailed, RowsAgreeWithChain
<1>10. Recorded'
  BY <1>0, <1>1, <1>2, <1>4, <1>5 DEF IInv, Recorded, Known, RelayedIsRecorded
<1>11. NonceUsed' /\ OneExecutionPerNonce'
  <2>1. CASE receipt' = [receipt EXCEPT ![r] = "failed"]
    <3>1. \A q \in Requests : receipt'[q] = "success" => q # r /\ receipt[q] = "success"
      BY <1>0, <1>1, <2>1 DEF TypeOK
    <3>2. \A q \in Requests : signedNonce[q] \in Nat /\ WalletOf[q] \in Wallets
      BY <1>0 DEF TypeOK
    <3>3. NonceUsed'
      BY <1>2, <1>6, <3>1, <3>2 DEF IInv, NonceUsed
    <3> QED
      BY <1>2, <3>1, <3>3 DEF IInv, OneExecutionPerNonce
  <2>2. CASE /\ signedNonce[r] = walletNonce[wallet]
             /\ walletNonce' = [walletNonce EXCEPT ![wallet] = @ + 1]
    <3>1. \A q \in Requests : receipt'[q] = "success" /\ q # r => receipt[q] = "success"
      BY <1>4
    <3>2. \A q \in Requests : signedNonce[q] \in Nat /\ WalletOf[q] \in Wallets
      BY <1>0 DEF TypeOK
    <3>3. walletNonce'[wallet] = walletNonce[wallet] + 1
      BY <1>0, <1>3, <2>2 DEF TypeOK
    <3>4. \A q \in Requests :
            receipt'[q] = "success" /\ q # r => signedNonce[q] < walletNonce[WalletOf[q]]
      BY <3>1 DEF IInv, NonceUsed
    <3>5. NonceUsed'
      <4>1. signedNonce'[r] < walletNonce'[WalletOf[r]]
        BY <1>1, <1>2, <1>3, <1>6, <2>2, <3>3
      <4>2. \A q \in Requests :
              receipt'[q] = "success" /\ q # r => signedNonce'[q] < walletNonce'[WalletOf[q]]
        BY <1>2, <1>6, <3>2, <3>4
      <4> QED
        BY <4>1, <4>2 DEF NonceUsed
    <3>6. \A q \in Requests :
            receipt'[q] = "success" /\ q # r /\ WalletOf[q] = wallet
              => signedNonce[q] # signedNonce[r]
      BY <1>3, <1>6, <2>2, <3>2, <3>4
    <3>7. OneExecutionPerNonce'
      BY <1>2, <3>1, <3>6 DEF IInv, OneExecutionPerNonce
    <3> QED
      BY <3>5, <3>7
  <2> QED
    BY <1>2, <2>1, <2>2
<1> QED
  BY <1>7, <1>8, <1>9, <1>10, <1>11 DEF IInv

LEMMA ArriveKeeps == ASSUME IInv, NEW r \in wire, Arrive(r) PROVE IInv'
<1> USE RelayAssumption
<1>0. TypeOK /\ Pooled \subseteq Requests /\ pool \in Seq(Requests) /\ r \in Requests
  BY PoolType DEF IInv, TypeOK
<1>1. /\ UNCHANGED <<phase, signedNonce, found, response, rows, todo, current, receipt,
                     walletNonce, unrecorded, faults>>
      /\ wire' = wire \ {r} /\ pool' = Append(pool, r)
  BY DEF Arrive, handlerVars, indexerVars
<1>2. /\ r \notin Pooled /\ receipt[r] = None /\ r \in unrecorded
      /\ phase[r] \notin {"message", "post", "send"}
  BY <1>0 DEF IInv, Placed, Recorded
<1>3. Pooled' = Pooled \cup {r} /\ pool' \in Seq(Requests)
  BY <1>0, <1>1, Appending, Zenon DEF Pooled
<1>4. IsInjective(pool')
  <2>1. IsInjective(pool)
    BY DEF IInv, Placed
  <2> QED
    BY <1>0, <1>1, <1>2, <2>1, AppendingNew, Zenon DEF Pooled
<1>5. TypeOK'
  BY <1>0, <1>1, <1>3 DEF TypeOK
<1>6. Placed' /\ NoRowYet'
  BY <1>1, <1>2, <1>3, <1>4 DEF IInv, Placed, NoRowYet
<1>7. Recorded'
  BY <1>1, <1>2, <1>3 DEF IInv, Recorded, Known, RelayedIsRecorded
<1>8. (FoundIsReceipt /\ FailureMeansFailed /\ RowsAgreeWithChain /\ NonceUsed
        /\ OneExecutionPerNonce)'
  BY <1>1 DEF IInv, FoundIsReceipt, FailureMeansFailed, RowsAgreeWithChain, NonceUsed,
              OneExecutionPerNonce
<1> QED
  BY <1>5, <1>6, <1>7, <1>8 DEF IInv

LEMMA VanishKeeps == ASSUME IInv, NEW k \in 1..Len(pool), Vanish(k) PROVE IInv'
<1> USE RelayAssumption
<1>0. TypeOK /\ Pooled \subseteq Requests /\ pool \in Seq(Requests)
  BY PoolType DEF IInv, TypeOK
<1>1. /\ UNCHANGED <<phase, signedNonce, found, response, rows, todo, current, wire, receipt,
                     walletNonce, unrecorded>>
      /\ pool' = RemoveAt(pool, k)
  BY DEF Vanish, handlerVars, indexerVars
<1>2. faults' \in 0..MaxFaults
  BY <1>0 DEF Vanish, Fault, TypeOK
<1>3. /\ pool' \in Seq(Requests) /\ Pooled' \subseteq Pooled
      /\ IsInjective(pool')
  <2>1. IsInjective(pool)
    BY DEF IInv, Placed
  <2> QED
    BY <1>0, <1>1, <2>1, Removing, Zenon DEF Pooled
<1>4. TypeOK'
  BY <1>0, <1>1, <1>2, <1>3 DEF TypeOK
<1>5. Placed' /\ NoRowYet'
  BY <1>1, <1>3 DEF IInv, Placed, NoRowYet
<1>6. Recorded'
  BY <1>1, <1>3 DEF IInv, Recorded, Known, RelayedIsRecorded
<1>7. (FoundIsReceipt /\ FailureMeansFailed /\ RowsAgreeWithChain /\ NonceUsed
        /\ OneExecutionPerNonce)'
  BY <1>1 DEF IInv, FoundIsReceipt, FailureMeansFailed, RowsAgreeWithChain, NonceUsed,
              OneExecutionPerNonce
<1> QED
  BY <1>4, <1>5, <1>6, <1>7 DEF IInv

LEMMA CrashKeeps == ASSUME IInv, Crash PROVE IInv'
<1> USE RelayAssumption
<1>0. TypeOK /\ Pooled \subseteq Requests
  BY PoolType DEF IInv
<1>1. PICK left \in SUBSET {r \in Requests : phase[r] = "send"} : wire' = wire \cup left
  BY DEF Crash
<1>2. /\ UNCHANGED <<signedNonce, found, response, rows, pool, receipt, walletNonce>>
      /\ unrecorded' = unrecorded \cup {r \in Requests : phase[r] \in {"send", "insert"}}
      /\ todo' = {} /\ current' = None
      /\ phase' = [r \in Requests |-> IF phase[r] \in InHandler THEN "done" ELSE phase[r]]
  BY DEF Crash
<1>3. faults' \in 0..MaxFaults
  BY <1>0 DEF Crash, Fault, TypeOK
<1>4. \A r \in Requests :
        \/ phase'[r] = "done"
        \/ phase'[r] = phase[r] /\ phase[r] \in {"message", "post"}
  BY <1>0, <1>2 DEF TypeOK, Phases, InHandler
<1>5. \A r \in left : /\ r \in Requests /\ r \in unrecorded' /\ r \notin Pooled
                      /\ receipt[r] = None /\ phase'[r] = "done"
  <2>1. \A r \in left : r \in Requests /\ phase[r] = "send"
    BY <1>1
  <2>2. \A r \in left : r \in unrecorded' /\ phase'[r] = "done"
    BY <1>2, <2>1 DEF InHandler
  <2> QED
    BY <2>1, <2>2 DEF IInv, Placed
<1>6. TypeOK'
  <2>1. phase' \in [Requests -> Phases]
    BY <1>0, <1>2 DEF TypeOK, Phases
  <2>2. unrecorded' \subseteq Requests /\ wire' \subseteq Requests
    BY <1>0, <1>1, <1>2 DEF TypeOK
  <2>3. \A r \in Requests : phase'[r] # "update"
    BY <1>4
  <2> QED
    BY <1>0, <1>2, <1>3, <2>1, <2>2, <2>3 DEF TypeOK
<1>7. Placed' /\ NoRowYet'
  BY <1>1, <1>2, <1>4, <1>5 DEF IInv, Placed, NoRowYet, Pooled
<1>8. \A r \in Requests : Known(r) => Known(r)'
  BY <1>2 DEF Known
<1>9. RelayedIsRecorded'
  <2>1. \A q \in Requests : receipt[q] # None \/ response[q] \in Statuses => Known(q)
    BY DEF IInv, Recorded, RelayedIsRecorded, Known
  <2>2. \A q \in Requests : receipt'[q] # None \/ response'[q] \in Statuses => Known(q)'
    BY <1>2, <1>8, <2>1
  <2> QED
    BY <2>2 DEF RelayedIsRecorded, Known
<1>10. Recorded'
  <2>1. \A r \in wire' : r \in unrecorded'
    BY <1>1, <1>2, <1>5 DEF IInv, Recorded
  <2>2. \A r \in Pooled' : Known(r)'
    BY <1>0, <1>2, <1>8 DEF IInv, Recorded, Pooled
  <2> QED
    BY <1>4, <1>9, <2>1, <2>2 DEF Recorded
<1>11. (FoundIsReceipt /\ FailureMeansFailed /\ RowsAgreeWithChain /\ NonceUsed
         /\ OneExecutionPerNonce)'
  BY <1>2 DEF IInv, FoundIsReceipt, FailureMeansFailed, RowsAgreeWithChain, NonceUsed,
              OneExecutionPerNonce
<1> QED
  BY <1>6, <1>7, <1>10, <1>11 DEF IInv

---------------------------------------------------------------------------
(* The theorems.                                                           *)

LEMMA Inductive == Spec => []IInv
<1>1. ASSUME IInv, [Next]_vars PROVE IInv'
  <2>1. ASSUME NEW r \in Requests, Handler(r) PROVE IInv'
    BY <1>1, <2>1, MessageKeeps, QuietKeeps, SendKeeps, SendReplyLostKeeps, InsertKeeps,
       UpdateKeeps DEF Handler
  <2>2. CASE UNCHANGED vars
    BY <1>1, <2>2 DEF vars, handlerVars, indexerVars, chainVars, IInv, TypeOK, Placed, Pooled,
       FoundIsReceipt, FailureMeansFailed, NoRowYet, RowsAgreeWithChain, Recorded, Known,
       RelayedIsRecorded, NonceUsed, OneExecutionPerNonce
  <2> QED
    BY <1>1, <2>1, <2>2, IndexerKeeps, MineKeeps, ArriveKeeps, VanishKeeps, CrashKeeps DEF Next
<1> QED
  BY InitInv, <1>1, PTL DEF Spec

\* The variables keep their types, and a row is updated only from a receipt.
THEOREM TypeCorrect == Spec => []TypeOK
<1>1. IInv => TypeOK
  BY DEF IInv
<1> QED
  BY <1>1, Inductive, PTL

\* The table agrees with the chain about every transaction that is not pending.
THEOREM Agrees == Spec => []RowsAgreeWithChain
<1>1. IInv => RowsAgreeWithChain
  BY DEF IInv
<1> QED
  BY <1>1, Inductive, PTL

\* What was relayed is in the table unless a fault kept it out.
THEOREM Recording == Spec => []RelayedIsRecorded
<1>1. IInv => RelayedIsRecorded
  BY DEF IInv, Recorded
<1> QED
  BY <1>1, Inductive, PTL

\* A client that is told its operation failed can rely on it.
THEOREM FailureIsFinal == Spec => []FailureMeansFailed
<1>1. IInv => FailureMeansFailed
  BY DEF IInv
<1> QED
  BY <1>1, Inductive, PTL

\* Of the requests signed for one nonce of a wallet, one executes at most.
THEOREM OnceExecuted == Spec => []OneExecutionPerNonce
<1>1. IInv => OneExecutionPerNonce
  BY DEF IInv
<1> QED
  BY <1>1, Inductive, PTL

\* The table never takes back what it said of a mined transaction.
THEOREM RowsFinal == Spec => RowsAreFinal
<1>1. ASSUME IInv, IInv', [Next]_vars
      PROVE  [\A r \in Requests : rows[r] \in Statuses => rows'[r] = rows[r]]_vars
  <2> SUFFICES ASSUME Next, NEW r \in Requests, rows[r] \in Statuses PROVE rows'[r] = rows[r]
    BY <1>1
  <2>1. rows[r] = receipt[r] /\ TypeOK /\ None \notin Statuses
    BY <1>1, RelayAssumption DEF IInv, RowsAgreeWithChain, Statuses
  <2>2. CASE \E q \in Requests : Insert(q)
    BY <1>1, <2>1, <2>2 DEF Insert, IInv, NoRowYet, TypeOK
  <2>3. CASE \E q \in Requests : Update(q)
    BY <2>1, <2>3 DEF Update, UpdateTransactionStatus, TypeOK
  <2>4. CASE Write
    BY <2>1, <2>4 DEF Write, UpdateTransactionStatus, TypeOK
  <2>5. CASE UNCHANGED rows
    BY <2>5
  <2> QED
    BY <2>2, <2>3, <2>4, <2>5
       DEF Next, Handler, Indexer, Message, Estimate, Refuse, Send, SendReplyLost,
           ReceiptFound, ReceiptTimeout, Respond, GetPendingTransactions, Lookup, Skip,
           Mine, Arrive, Vanish, Crash, handlerVars
<1> QED
  BY <1>1, Inductive, PTL DEF Spec, RowsAreFinal
===========================================================================
