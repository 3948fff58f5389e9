------------------------- MODULE PayerClient_proofs -------------------------
(***************************************************************************)
(* Proofs about the payer client, for any number of handlers, calls, node  *)
(* restarts and backend restarts.                                          *)
(***************************************************************************)
EXTENDS PayerClient, TLAPS

(* The mutex: the handler inside the critical section is the one holding it, *)
(* and past the nonce step the cache is valid.                               *)
Mutex ==
    \A h \in Handlers :
      /\ pc[h] \in Critical <=> nonceMu = h
      /\ pc[h] \in {"prepare", "send"} => nonceReady

\* A handler's call is still under way and has not reached the node.
Unsent(h) == pc[h] \in Critical \cup {"lock"}

(* Every call has an identity of its own, so a request given up on is never *)
(* mistaken for one that was acknowledged.                                  *)
Identities ==
    /\ \A tx \in wire \cup acked : tx.id <= calls
    /\ \A h \in Handlers : Unsent(h) =>
         /\ call[h] <= calls
         /\ \A tx \in wire \cup acked : tx.id # call[h]
         /\ \A g \in Handlers \ {h} : Unsent(g) => call[g] # call[h]
    /\ wire \cap acked = {}

\* The position of a transaction in the ledger is its nonce.
LedgerNonces == \A i \in 1..Len(ledger) : ledger[i].nonce = i - 1

(* While the node keeps its pool the cache and the late requests are never *)
(* ahead of it, a valid cache is beyond every acknowledged nonce, and once *)
(* a send was refused a valid cache is exact.                              *)
CacheFollowsNode ==
    drops = 0 =>
      /\ queued = {}
      /\ \A tx \in wire : tx.nonce <= Len(ledger)
      /\ nonceReady => nonce <= Len(ledger)
      /\ nonceReady => \A a \in acked : a.nonce < nonce
      /\ nonceReady /\ rejects > 0 => nonce = Len(ledger)

\* What holds as long as the node keeps its pool.
PoolKept ==
    CacheFollowsNode /\ AckedNoncesUnique /\ AckedSurvives /\ HealsAfterOneReject

\* The inductive invariant.
IInv == TypeOK /\ Mutex /\ Identities /\ LedgerNonces /\ PoolKept

---------------------------------------------------------------------------
(* What the node's pool does to a well-typed ledger.                        *)

\* Admitting a transaction keeps the ledger and the queue well typed and
\* never shortens the ledger.
LEMMA AdmitType ==
    ASSUME TypeOK, NEW tx \in Tx, Admit(tx)
    PROVE  /\ ledger' \in Seq(Tx)
           /\ queued' \subseteq Tx
           /\ Len(ledger') >= Len(ledger)
<1>1. tx.nonce \in Nat /\ Len(ledger) \in Nat
  BY DEF TypeOK, Tx
<1>2. CASE tx.nonce < Len(ledger)
  <2>1. ledger' = [ledger EXCEPT ![tx.nonce + 1] = tx]
    BY <1>2 DEF Admit
  <2>2. tx.nonce + 1 \in 1..Len(ledger)
    BY <1>1, <1>2
  <2>3. ledger' \in Seq(Tx) /\ Len(ledger') = Len(ledger)
    BY <2>1, <2>2 DEF TypeOK
  <2> QED
    BY <1>1, <2>3 DEF Admit, TypeOK
<1>3. CASE tx.nonce = Len(ledger)
  <2>1. ledger' = Append(ledger, tx)
    BY <1>1, <1>3 DEF Admit
  <2> QED
    BY <1>1, <2>1 DEF Admit, TypeOK
<1>4. CASE tx.nonce > Len(ledger)
  BY <1>1, <1>4 DEF Admit, TypeOK
<1> QED
  BY <1>1, <1>2, <1>3, <1>4

\* A signed transaction is a transaction.
LEMMA SignedType ==
    ASSUME TypeOK, NEW h \in Handlers
    PROVE  Signed(h) \in Tx
BY DEF TypeOK, Signed, Tx

\* The initial state is well typed.
LEMMA InitType == Init => TypeOK
<1> SUFFICES ASSUME Init PROVE TypeOK
  OBVIOUS
<1>1. ledger \in Seq(Tx) /\ head \in 0..Len(ledger)
  BY DEF Init
<1> QED
  BY <1>1 DEF Init, TypeOK, PC

\* Every step keeps the types.
LEMMA StepType == TypeOK /\ [Next]_vars => TypeOK'
<1> SUFFICES ASSUME TypeOK, [Next]_vars PROVE TypeOK'
  OBVIOUS
<1> USE PayerAssumption DEF clientVars, handlerVars, nodeVars
<1>1. ASSUME NEW h \in Handlers, Call(h) PROVE TypeOK'
  BY <1>1 DEF Call, TypeOK, PC
<1>2. ASSUME NEW h \in Handlers, SendTransaction(h) PROVE TypeOK'
  <2> Signed(h) \in Tx
    BY SignedType
  <2>1. CASE Lock(h)
    BY <2>1 DEF Lock, TypeOK, PC
  <2>2. CASE FetchNonce(h)
    BY <2>2 DEF FetchNonce, PendingNonceAt, TypeOK, PC
  <2>3. CASE Prepare(h)
    <3>1. PICK p \in Prices : gasPrice' = [gasPrice EXCEPT ![h] = p]
      BY <2>3 DEF Prepare
    <3>2. gasPrice' \in [Handlers -> Nat]
      BY <3>1 DEF TypeOK
    <3> QED
      BY <2>3, <3>2 DEF Prepare, TypeOK, PC
  <2>4. CASE PrepareFails(h)
    BY <2>4 DEF PrepareFails, Unlock, TypeOK, PC
  <2>5. CASE SendAccepted(h)
    <3>1. /\ ledger' \in Seq(Tx) /\ queued' \subseteq Tx
          /\ Len(ledger') >= Len(ledger)
      BY <2>5, AdmitType DEF SendAccepted
    <3>2. head \in 0..Len(ledger')
      BY <3>1 DEF TypeOK
    <3>3. acked \cup {Signed(h)} \subseteq Tx
      BY DEF TypeOK
    <3> QED
      BY <2>5, <3>1, <3>2, <3>3 DEF SendAccepted, Unlock, TypeOK, PC
  <2>6. CASE SendRejected(h)
    <3>1. pc' \in [Handlers -> PC] /\ rejects' \in Nat
      BY <2>6 DEF SendRejected, Unlock, TypeOK, PC
    <3>3. nonceReady' \in BOOLEAN
      BY <2>6 DEF SendRejected
    <3>2. nonceMu' = None /\ UNCHANGED <<nonce, call, gasPrice, nodeVars, calls,
                                         acked, drops, crashes>>
      BY <2>6 DEF SendRejected, Unlock
    <3> QED
      BY <3>1, <3>2, <3>3 DEF TypeOK
  <2>7. CASE SendReplyLost(h)
    <3>1. /\ ledger' \in Seq(Tx) /\ queued' \subseteq Tx
          /\ Len(ledger') >= Len(ledger)
      BY <2>7, AdmitType DEF SendReplyLost
    <3>2. head \in 0..Len(ledger')
      BY <3>1 DEF TypeOK
    <3>3. acked \cup {Signed(h)} \subseteq Tx
      BY DEF TypeOK
    <3> QED
      BY <2>7, <3>1, <3>2, <3>3 DEF SendReplyLost, Unlock, TypeOK, PC
  <2>8. CASE SendTimedOut(h)
    BY <2>8 DEF SendTimedOut, Unlock, TypeOK, PC
  <2> QED
    BY <1>2, <2>1, <2>2, <2>3, <2>4, <2>5, <2>6, <2>7, <2>8 DEF SendTransaction
<1>3. ASSUME NEW h \in Handlers, WaitForReceipt(h) PROVE TypeOK'
  BY <1>3 DEF WaitForReceipt, ReceiptFound, ReceiptTimeout, TypeOK, PC
<1>4. CASE Mine
  BY <1>4 DEF Mine, TypeOK
<1>5. ASSUME NEW tx \in wire, Deliver(tx) PROVE TypeOK'
  <2>1. tx \in Tx
    BY DEF TypeOK
  <2>2. /\ ledger' \in Seq(Tx) /\ queued' \subseteq Tx
        /\ Len(ledger') >= Len(ledger)
    <3>1. CASE Admissible(tx)
      BY <1>5, <2>1, <3>1, AdmitType DEF Deliver
    <3>2. CASE ~Admissible(tx)
      BY <1>5, <3>2 DEF Deliver, TypeOK
    <3> QED
      BY <3>1, <3>2
  <2> QED
    BY <1>5, <2>2 DEF Deliver, TypeOK
<1>6. ASSUME NEW tx \in queued, Promote(tx) PROVE TypeOK'
  BY <1>6 DEF Promote, TypeOK
<1>7. CASE DropPool
  BY <1>7 DEF DropPool, TypeOK
<1>8. CASE Crash
  <2>1. PICK left \in SUBSET {h \in Handlers : pc[h] = "send"} :
          wire' = wire \cup {Signed(h) : h \in left}
    BY <1>8 DEF Crash
  <2>2. wire' \subseteq Tx
    BY <2>1, SignedType DEF TypeOK
  <2>3. pc' \in [Handlers -> PC]
    BY <1>8 DEF Crash, PC
  <2>5. nonceReady' \in BOOLEAN
    BY <1>8 DEF Crash
  <2>6. crashes' \in Nat
    BY <1>8 DEF Crash, TypeOK
  <2>4. /\ nonceMu' = None /\ nonce' = 0
        /\ UNCHANGED <<call, gasPrice, ledger, head, queued, calls, acked, rejects, drops>>
    BY <1>8 DEF Crash
  <2> QED
    BY <2>2, <2>3, <2>4, <2>5, <2>6 DEF TypeOK
<1>9. CASE UNCHANGED vars
  BY <1>9 DEF vars, TypeOK
<1> QED
  BY <1>1, <1>2, <1>3, <1>4, <1>5, <1>6, <1>7, <1>8, <1>9 DEF Next

\* Every variable always has its type.
THEOREM TypeCorrect == Spec => []TypeOK
BY InitType, StepType, PTL DEF Spec

---------------------------------------------------------------------------
(* The conjuncts of the inductive invariant, one lemma each.                *)

\* Lock and the deferred Unlock exclude one handler from the other's section.
LEMMA StepMutex == TypeOK /\ Mutex /\ [Next]_vars => Mutex'
<1> SUFFICES ASSUME TypeOK, Mutex, [Next]_vars PROVE Mutex'
  OBVIOUS
<1> USE PayerAssumption DEF clientVars, handlerVars, nodeVars, Critical
<1>1. ASSUME NEW h \in Handlers, Call(h) PROVE Mutex'
  BY <1>1 DEF Call, Mutex, TypeOK
<1>2. ASSUME NEW h \in Handlers, SendTransaction(h) PROVE Mutex'
  <2>1. CASE Lock(h)
    BY <2>1 DEF Lock, Mutex, TypeOK
  <2>2. CASE FetchNonce(h)
    BY <2>2 DEF FetchNonce, Mutex, TypeOK
  <2>3. CASE Prepare(h)
    BY <2>3 DEF Prepare, Mutex, TypeOK
  <2>4. CASE \/ PrepareFails(h) \/ SendAccepted(h) \/ SendRejected(h)
             \/ SendReplyLost(h) \/ SendTimedOut(h)
    <3>1. Unlock(h, "idle") \/ Unlock(h, "wait")
      BY <2>4 DEF PrepareFails, SendAccepted, SendRejected, SendReplyLost, SendTimedOut
    <3>2. nonceMu = h
      BY <2>4 DEF PrepareFails, SendAccepted, SendRejected, SendReplyLost,
                  SendTimedOut, Mutex
    <3>3. \A g \in Handlers \ {h} : pc[g] \notin Critical
      BY <3>2 DEF Mutex
    <3>4. \A g \in Handlers : pc'[g] \notin Critical
      BY <3>1, <3>3 DEF Unlock, TypeOK
    <3> QED
      BY <3>1, <3>4 DEF Unlock, Mutex
  <2> QED
    BY <1>2, <2>1, <2>2, <2>3, <2>4 DEF SendTransaction
<1>3. ASSUME NEW h \in Handlers, WaitForReceipt(h) PROVE Mutex'
  BY <1>3 DEF WaitForReceipt, ReceiptFound, ReceiptTimeout, Mutex, TypeOK
<1>4. CASE Mine
  BY <1>4 DEF Mine, Mutex
<1>5. ASSUME NEW tx \in wire, Deliver(tx) PROVE Mutex'
  BY <1>5 DEF Deliver, Mutex
<1>6. ASSUME NEW tx \in queued, Promote(tx) PROVE Mutex'
  BY <1>6 DEF Promote, Mutex
<1>7. CASE DropPool
  BY <1>7 DEF DropPool, Mutex
<1>8. CASE Crash
  BY <1>8 DEF Crash, Mutex
<1>9. CASE UNCHANGED vars
  BY <1>9 DEF vars, Mutex
<1> QED
  BY <1>1, <1>2, <1>3, <1>4, <1>5, <1>6, <1>7, <1>8, <1>9 DEF Next

\* Each call keeps an identity that no other request bears.
LEMMA StepIdentities == TypeOK /\ Identities /\ [Next]_vars => Identities'
<1> SUFFICES ASSUME TypeOK, Identities, [Next]_vars PROVE Identities'
  OBVIOUS
<1> USE PayerAssumption DEF clientVars, handlerVars, nodeVars, Critical
<1>0. ASSUME UNCHANGED <<call, calls>>, wire' \subseteq wire, UNCHANGED acked,
             \A g \in Handlers : Unsent(g)' => Unsent(g)
      PROVE  Identities'
  BY <1>0 DEF Identities
<1>1. ASSUME NEW h \in Handlers, Call(h) PROVE Identities'
  <2>1. calls' = calls + 1 /\ call'[h] = calls + 1
    BY <1>1 DEF Call, TypeOK
  <2>2. \A g \in Handlers \ {h} : call'[g] = call[g] /\ (Unsent(g)' => Unsent(g))
    BY <1>1 DEF Call, TypeOK, Unsent
  <2>3. wire' = wire /\ acked' = acked
    BY <1>1 DEF Call
  <2>4. calls \in Nat /\ call \in [Handlers -> Nat]
    BY DEF TypeOK
  <2>5. \A tx \in wire' \cup acked' : tx.id <= calls /\ tx.id \in Nat
    BY <2>3 DEF Identities, TypeOK, Tx
  <2>6. \A g \in Handlers \ {h} : Unsent(g)' => call'[g] <= calls
    BY <2>2 DEF Identities
  <2> QED
    BY <2>1, <2>2, <2>3, <2>4, <2>5, <2>6 DEF Identities
<1>2. ASSUME NEW h \in Handlers, SendTransaction(h) PROVE Identities'
  <2>1. CASE Lock(h) \/ FetchNonce(h) \/ Prepare(h) \/ PrepareFails(h)
             \/ SendRejected(h) \/ SendReplyLost(h)
    <3>1. \A g \in Handlers : Unsent(g)' => Unsent(g)
      BY <2>1 DEF Lock, FetchNonce, Prepare, PrepareFails, SendRejected,
                  SendReplyLost, Unlock, Unsent, TypeOK
    <3>2. UNCHANGED <<call, calls, wire, acked>>
      BY <2>1 DEF Lock, FetchNonce, Prepare, PrepareFails, SendRejected, SendReplyLost
    <3> QED
      BY <3>1, <3>2, <1>0
  <2>2. CASE SendAccepted(h) \/ SendTimedOut(h)
    <3>1. /\ pc[h] = "send" /\ Unsent(h)
          /\ \A g \in Handlers : Unsent(g)' => Unsent(g) /\ g # h
      BY <2>2 DEF SendAccepted, SendTimedOut, Unlock, Unsent, TypeOK
    <3>2. UNCHANGED <<call, calls>>
      BY <2>2 DEF SendAccepted, SendTimedOut
    <3>3. \/ wire' = wire \cup {Signed(h)} /\ acked' = acked
          \/ wire' = wire /\ acked' = acked \cup {Signed(h)}
      BY <2>2 DEF SendAccepted, SendTimedOut
    <3>4. Signed(h).id = call[h]
      BY DEF Signed
    <3>5. call[h] <= calls /\ \A tx \in wire \cup acked : tx.id # call[h]
      BY <3>1 DEF Identities
    <3>6. wire' \cap acked' = {}
      BY <3>3, <3>4, <3>5 DEF Identities
    <3>7. \A tx \in wire' \cup acked' : tx \in wire \cup acked \/ tx = Signed(h)
      BY <3>3
    <3>8. \A tx \in wire' \cup acked' : tx.id <= calls'
      BY <3>2, <3>4, <3>5, <3>7 DEF Identities
    <3>9. ASSUME NEW g \in Handlers, Unsent(g)'
          PROVE  /\ call'[g] <= calls'
                 /\ \A tx \in wire' \cup acked' : tx.id # call'[g]
                 /\ \A k \in Handlers \ {g} : Unsent(k)' => call'[k] # call'[g]
      BY <3>1, <3>2, <3>4, <3>7, <3>9 DEF Identities
    <3> QED
      BY <3>6, <3>8, <3>9 DEF Identities
  <2> QED
    BY <1>2, <2>1, <2>2 DEF SendTransaction
<1>3. ASSUME NEW h \in Handlers, WaitForReceipt(h) PROVE Identities'
  BY <1>0, <1>3 DEF WaitForReceipt, ReceiptFound, ReceiptTimeout, Unsent, TypeOK
<1>4. CASE Mine
  BY <1>0, <1>4 DEF Mine, Unsent
<1>5. ASSUME NEW tx \in wire, Deliver(tx) PROVE Identities'
  BY <1>0, <1>5 DEF Deliver, Unsent
<1>6. ASSUME NEW tx \in queued, Promote(tx) PROVE Identities'
  BY <1>0, <1>6 DEF Promote, Unsent
<1>7. CASE DropPool
  BY <1>0, <1>7 DEF DropPool, Unsent
<1>8. CASE Crash
  <2>1. PICK left \in SUBSET {h \in Handlers : pc[h] = "send"} :
          wire' = wire \cup {Signed(h) : h \in left}
    BY <1>8 DEF Crash
  <2>2. \A g \in Handlers : ~Unsent(g)'
    BY <1>8 DEF Crash, Unsent
  <2>3. \A h \in left : /\ Signed(h).id = call[h] /\ call[h] <= calls
                        /\ Signed(h) \notin acked
    BY DEF Signed, Identities, Unsent
  <2>4. UNCHANGED <<calls, acked>>
    BY <1>8 DEF Crash
  <2> QED
    BY <2>1, <2>2, <2>3, <2>4 DEF Identities
<1>9. CASE UNCHANGED vars
  BY <1>0, <1>9 DEF vars, Unsent
<1> QED
  BY <1>1, <1>2, <1>3, <1>4, <1>5, <1>6, <1>7, <1>8, <1>9 DEF Next

\* Admitting a transaction puts it at its nonce and moves no other one.
LEMMA AdmitLedger ==
    ASSUME TypeOK, LedgerNonces, NEW tx \in Tx, Admit(tx)
    PROVE  /\ LedgerNonces'
           /\ \A n \in Nat : n < Len(ledger) /\ n # tx.nonce
                             => ledger'[n + 1] = ledger[n + 1]
           /\ tx.nonce <= Len(ledger) =>
                /\ tx.nonce < Len(ledger') /\ ledger'[tx.nonce + 1] = tx
                /\ queued' \subseteq queued
<1>1. tx.nonce \in Nat /\ Len(ledger) \in Nat /\ ledger \in Seq(Tx)
  BY DEF TypeOK, Tx
<1>2. CASE tx.nonce < Len(ledger)
  <2>1. ledger' = [ledger EXCEPT ![tx.nonce + 1] = tx]
    BY <1>2 DEF Admit
  <2>2. tx.nonce + 1 \in 1..Len(ledger) /\ Len(ledger') = Len(ledger)
    BY <1>1, <1>2, <2>1
  <2>3. \A i \in 1..Len(ledger) : ledger'[i] = IF i = tx.nonce + 1 THEN tx ELSE ledger[i]
    BY <1>1, <2>1, <2>2
  <2>4. LedgerNonces'
    BY <1>1, <2>2, <2>3 DEF LedgerNonces
  <2> QED
    BY <1>1, <1>2, <2>2, <2>3, <2>4 DEF Admit
<1>3. CASE tx.nonce = Len(ledger)
  <2>1. ledger' = Append(ledger, tx)
    BY <1>1, <1>3 DEF Admit
  <2>2. /\ Len(ledger') = Len(ledger) + 1 /\ ledger'[Len(ledger) + 1] = tx
        /\ \A i \in 1..Len(ledger) : ledger'[i] = ledger[i]
    BY <1>1, <2>1
  <2>3. LedgerNonces'
    BY <1>1, <1>3, <2>2 DEF LedgerNonces
  <2> QED
    BY <1>1, <1>3, <2>2, <2>3 DEF Admit
<1>4. CASE tx.nonce > Len(ledger)
  BY <1>1, <1>4 DEF Admit, LedgerNonces
<1> QED
  BY <1>1, <1>2, <1>3, <1>4

\* Wherever a transaction is admitted, mined, promoted or lost, the ledger
\* stays indexed by nonce.
LEMMA StepLedger == TypeOK /\ LedgerNonces /\ [Next]_vars => LedgerNonces'
<1> SUFFICES ASSUME TypeOK, LedgerNonces, [Next]_vars PROVE LedgerNonces'
  OBVIOUS
<1> USE DEF clientVars, handlerVars, nodeVars
<1>0. ASSUME UNCHANGED ledger PROVE LedgerNonces'
  BY <1>0 DEF LedgerNonces
<1>1. ASSUME NEW h \in Handlers, Call(h) PROVE LedgerNonces'
  BY <1>0, <1>1 DEF Call
<1>2. ASSUME NEW h \in Handlers, SendTransaction(h) PROVE LedgerNonces'
  <2>1. CASE UNCHANGED ledger
    BY <1>0, <2>1
  <2>2. CASE SendAccepted(h) \/ SendReplyLost(h)
    BY <2>2, SignedType, AdmitLedger DEF SendAccepted, SendReplyLost
  <2> QED
    BY <1>2, <2>1, <2>2 DEF SendTransaction, Lock, FetchNonce, Prepare,
       PrepareFails, SendRejected, SendTimedOut
<1>3. ASSUME NEW h \in Handlers, WaitForReceipt(h) PROVE LedgerNonces'
  BY <1>0, <1>3 DEF WaitForReceipt, ReceiptFound, ReceiptTimeout
<1>4. CASE Mine \/ Crash \/ UNCHANGED vars
  BY <1>0, <1>4 DEF Mine, Crash, vars
<1>5. ASSUME NEW tx \in wire, Deliver(tx) PROVE LedgerNonces'
  <2>1. tx \in Tx
    BY DEF TypeOK
  <2> QED
    BY <1>0, <1>5, <2>1, AdmitLedger DEF Deliver
<1>6. ASSUME NEW tx \in queued, Promote(tx) PROVE LedgerNonces'
  <2>1. ledger \in Seq(Tx) /\ tx \in Tx /\ tx.nonce = Len(ledger)
        /\ ledger' = Append(ledger, tx)
    BY <1>6 DEF TypeOK, Promote
  <2>2. /\ Len(ledger') = Len(ledger) + 1 /\ ledger'[Len(ledger) + 1] = tx
        /\ \A i \in 1..Len(ledger) : ledger'[i] = ledger[i]
    BY <2>1
  <2> QED
    BY <2>1, <2>2 DEF LedgerNonces
<1>7. CASE DropPool
  <2>1. ledger \in Seq(Tx) /\ head \in 0..Len(ledger) /\ ledger' = SubSeq(ledger, 1, head)
    BY <1>7 DEF DropPool, TypeOK
  <2>2. Len(ledger') = head /\ \A i \in 1..head : ledger'[i] = ledger[i]
    BY <2>1
  <2> QED
    BY <2>1, <2>2 DEF LedgerNonces
<1> QED
  BY <1>1, <1>2, <1>3, <1>4, <1>5, <1>6, <1>7 DEF Next

\* An accepted send takes a nonce beyond every acknowledged one.
LEMMA AcceptedKeepsPool ==
    ASSUME IInv, drops = 0, NEW h \in Handlers, SendAccepted(h)
    PROVE  PoolKept'
<1> DEFINE tx == Signed(h)
<1>1. tx \in Tx /\ tx.nonce = nonce /\ tx.id = call[h] /\ nonce \in Nat /\ Len(ledger) \in Nat
  BY SignedType DEF IInv, TypeOK, Signed
<1>2. /\ nonceReady /\ nonce <= Len(ledger) /\ queued = {}
      /\ \A a \in acked : a.nonce < nonce
      /\ \A w \in wire : w.nonce <= Len(ledger)
  BY DEF IInv, Mutex, PoolKept, CacheFollowsNode, SendAccepted
<1>3. /\ Admit(tx) /\ nonce' = nonce + 1 /\ acked' = acked \cup {tx}
      /\ wire' = wire /\ drops' = drops /\ rejects' = 0
  BY DEF SendAccepted
<1>4. /\ nonce < Len(ledger') /\ ledger'[nonce + 1] = tx /\ queued' = {}
      /\ Len(ledger') \in Nat /\ Len(ledger') >= Len(ledger)
      /\ \A n \in Nat : n < Len(ledger) /\ n # nonce => ledger'[n + 1] = ledger[n + 1]
  BY <1>1, <1>2, <1>3, AdmitLedger, AdmitType DEF IInv
<1>5. \A a \in acked : a.nonce \in Nat /\ a.nonce < nonce /\ a.nonce < Len(ledger)
                       /\ ledger'[a.nonce + 1] = ledger[a.nonce + 1]
  <2> TAKE a \in acked
  <2>1. a.nonce \in Nat
    BY DEF IInv, TypeOK, Tx
  <2>2. a.nonce < nonce /\ a.nonce < Len(ledger)
    BY <1>1, <1>2, <2>1
  <2> QED
    BY <1>1, <1>4, <2>1, <2>2
<1>6. CacheFollowsNode'
  <2>1. \A a \in acked' : a.nonce < nonce + 1
    BY <1>1, <1>3, <1>5
  <2>2. \A w \in wire' : w.nonce <= Len(ledger')
    BY <1>1, <1>2, <1>3, <1>4 DEF IInv, TypeOK, Tx
  <2>3. nonce' <= Len(ledger')
    BY <1>1, <1>3, <1>4
  <2> QED
    BY <1>3, <1>4, <2>1, <2>2, <2>3 DEF CacheFollowsNode
<1>7. AckedNoncesUnique'
  BY <1>1, <1>3, <1>5 DEF AckedNoncesUnique, IInv, PoolKept
<1>8. AckedSurvives'
  <2>1. tx.nonce < Len(ledger') /\ ledger'[tx.nonce + 1] = tx
    BY <1>1, <1>4
  <2>2. ASSUME NEW a \in acked
        PROVE  a.nonce < Len(ledger') /\ (ledger'[a.nonce + 1] = a \/ Displaced(a)')
    <3>1. a.nonce + 1 \in 1..Len(ledger) /\ ledger[a.nonce + 1].nonce # nonce
      BY <1>1, <1>5 DEF IInv, LedgerNonces
    <3>2. ledger[a.nonce + 1] # tx
      BY <1>1, <3>1
    <3>3. ledger[a.nonce + 1] = a \/ Displaced(a)
      BY DEF IInv, PoolKept, AckedSurvives
    <3>4. a.nonce < Len(ledger')
      BY <1>1, <1>4, <1>5
    <3> QED
      BY <1>3, <1>5, <3>2, <3>3, <3>4 DEF Displaced
  <2> QED
    BY <1>3, <2>1, <2>2 DEF AckedSurvives
<1>9. HealsAfterOneReject'
  BY <1>3 DEF HealsAfterOneReject
<1> QED
  BY <1>6, <1>7, <1>8, <1>9 DEF PoolKept

\* A transaction the pool admits without an acknowledgement (a lost reply, a
\* late request) ousts an acknowledged one only by a higher price.
LEMMA UnackedKeepsSurvivors ==
    ASSUME IInv, drops = 0, NEW tx \in Tx, tx \notin acked, Admissible(tx),
           tx.nonce <= Len(ledger), Admit(tx), acked' = acked
    PROVE  /\ AckedSurvives' /\ queued' = {}
           /\ Len(ledger') \in Nat /\ Len(ledger') >= Len(ledger)
<1>1. tx.nonce \in Nat /\ Len(ledger) \in Nat /\ queued = {}
  BY DEF IInv, TypeOK, Tx, PoolKept, CacheFollowsNode
<1>2. /\ tx.nonce < Len(ledger') /\ ledger'[tx.nonce + 1] = tx /\ queued' = {}
      /\ Len(ledger') \in Nat /\ Len(ledger') >= Len(ledger)
      /\ \A n \in Nat : n < Len(ledger) /\ n # tx.nonce => ledger'[n + 1] = ledger[n + 1]
  BY <1>1, AdmitLedger, AdmitType DEF IInv
<1>3. ASSUME NEW a \in acked
      PROVE  a.nonce < Len(ledger') /\ (ledger'[a.nonce + 1] = a \/ Displaced(a)')
  <2>1. /\ a.nonce \in Nat /\ a.price \in Nat /\ a.nonce < Len(ledger)
        /\ ledger[a.nonce + 1] = a \/ Displaced(a)
    BY DEF IInv, TypeOK, Tx, PoolKept, AckedSurvives
  <2>2. a.nonce < Len(ledger')
    BY <1>1, <1>2, <2>1
  <2>3. CASE a.nonce # tx.nonce
    BY <1>2, <2>1, <2>2, <2>3 DEF Displaced
  <2>4. CASE a.nonce = tx.nonce
    <3>1. ledger[a.nonce + 1] \in Occupants(tx.nonce)
      BY <2>1, <2>4 DEF Occupants
    <3>2. tx.price > ledger[a.nonce + 1].price
      BY <3>1 DEF Admissible
    <3>0. ledger[a.nonce + 1] \in Tx
      BY <1>1, <2>1 DEF IInv, TypeOK
    <3>3. ledger[a.nonce + 1].price >= a.price
      BY <2>1, <3>0 DEF Displaced, Tx
    <3>4. ledger[a.nonce + 1].price \in Nat /\ tx.price \in Nat
      BY <3>0 DEF Tx
    <3>5. tx.price > a.price
      BY <2>1, <3>2, <3>3, <3>4
    <3> QED
      BY <1>2, <2>2, <2>4, <3>5 DEF Displaced
  <2> QED
    BY <2>3, <2>4
<1> QED
  BY <1>2, <1>3 DEF AckedSurvives

\* A refused send finds the cache stale, and leaves it to be read again.
LEMMA RejectedKeepsPool ==
    ASSUME IInv, drops = 0, NEW h \in Handlers, SendRejected(h)
    PROVE  PoolKept'
<1>1. /\ nonceReady' = FALSE /\ drops' = drops /\ rejects' = rejects + 1
      /\ UNCHANGED <<ledger, queued, wire, acked>>
  BY DEF SendRejected, nodeVars
<1>2. nonceReady /\ queued = {} /\ rejects \in Nat /\ rejects <= 1
  BY DEF IInv, TypeOK, Mutex, PoolKept, CacheFollowsNode, HealsAfterOneReject, SendRejected
<1>3. rejects = 0
  <2> SUFFICES ASSUME rejects > 0 PROVE FALSE
    BY <1>2
  <2>1. nonce = Len(ledger)
    BY <1>2 DEF IInv, PoolKept, CacheFollowsNode
  <2>2. Occupants(Signed(h).nonce) = {} /\ Signed(h).nonce >= head
    BY <1>2, <2>1 DEF Occupants, Signed, IInv, TypeOK
  <2> QED
    BY <2>2 DEF SendRejected, Admissible
<1>4. CacheFollowsNode'
  BY <1>1 DEF IInv, PoolKept, CacheFollowsNode
<1>5. AckedNoncesUnique' /\ AckedSurvives'
  BY <1>1 DEF IInv, PoolKept, AckedNoncesUnique, AckedSurvives, Displaced
<1> QED
  BY <1>1, <1>3, <1>4, <1>5 DEF PoolKept, HealsAfterOneReject

\* No step disturbs what holds while the node keeps its pool.
LEMMA StepPool == IInv /\ [Next]_vars => PoolKept'
<1> SUFFICES ASSUME IInv, [Next]_vars, drops' = 0 PROVE PoolKept'
  BY DEF PoolKept, CacheFollowsNode, AckedNoncesUnique, AckedSurvives, HealsAfterOneReject
<1> USE DEF clientVars, handlerVars, nodeVars
<1>a. drops \in Nat
  BY DEF IInv, TypeOK
<1>0. ASSUME UNCHANGED <<nonce, ledger, queued, acked, rejects, drops>>,
             nonceReady' => nonceReady, \A w \in wire' : w.nonce <= Len(ledger)
      PROVE  PoolKept'
  BY <1>0 DEF IInv, PoolKept, CacheFollowsNode, AckedNoncesUnique, AckedSurvives,
              HealsAfterOneReject, Displaced
<1>b. drops = 0 => \A w \in wire : w.nonce <= Len(ledger)
  BY DEF IInv, PoolKept, CacheFollowsNode
<1>1. ASSUME NEW h \in Handlers, Call(h) PROVE PoolKept'
  BY <1>0, <1>b, <1>1 DEF Call
<1>2. ASSUME NEW h \in Handlers, SendTransaction(h) PROVE PoolKept'
  <2>1. CASE Lock(h) \/ Prepare(h) \/ PrepareFails(h)
    BY <1>0, <1>b, <2>1 DEF Lock, Prepare, PrepareFails
  <2>2. CASE FetchNonce(h)
    <3>1. nonce' = Len(ledger) /\ UNCHANGED <<ledger, queued, wire, acked, rejects, drops>>
      BY <2>2 DEF FetchNonce, PendingNonceAt
    <3>2. \A a \in acked : a.nonce < Len(ledger)
      BY <3>1 DEF IInv, PoolKept, AckedSurvives
    <3>3. CacheFollowsNode'
      BY <1>b, <3>1, <3>2 DEF IInv, TypeOK, PoolKept, CacheFollowsNode
    <3> QED
      BY <3>1, <3>3 DEF IInv, PoolKept, AckedNoncesUnique, AckedSurvives,
                        HealsAfterOneReject, Displaced
  <2>3. CASE SendAccepted(h)
    BY <2>3, AcceptedKeepsPool DEF SendAccepted
  <2>4. CASE SendRejected(h)
    BY <2>4, RejectedKeepsPool DEF SendRejected
  <2>5. CASE SendReplyLost(h) \/ SendTimedOut(h)
    <3>1. /\ drops = 0 /\ nonceReady' = FALSE /\ acked' = acked /\ rejects' = rejects
          /\ pc[h] = "send"
      BY <2>5 DEF SendReplyLost, SendTimedOut
    <3>2. Signed(h) \in Tx /\ Signed(h).nonce = nonce /\ Signed(h).id = call[h]
      BY SignedType DEF IInv, Signed
    <3>3. Signed(h) \notin acked
      BY <3>1, <3>2 DEF IInv, Identities, Unsent, Critical
    <3>4. nonceReady /\ nonce <= Len(ledger)
      BY <3>1 DEF IInv, Mutex, PoolKept, CacheFollowsNode
    <3>5. CASE SendTimedOut(h)
      BY <1>0, <1>b, <3>1, <3>2, <3>4, <3>5 DEF SendTimedOut
    <3>6. CASE SendReplyLost(h)
      <4>1. Admissible(Signed(h)) /\ Admit(Signed(h)) /\ wire' = wire
        BY <3>6 DEF SendReplyLost
      <4>2. /\ AckedSurvives' /\ queued' = {}
            /\ Len(ledger') \in Nat /\ Len(ledger') >= Len(ledger)
        BY <3>1, <3>2, <3>3, <3>4, <4>1, UnackedKeepsSurvivors
      <4>3. \A w \in wire' : w.nonce <= Len(ledger')
        BY <1>b, <3>1, <4>1, <4>2 DEF IInv, TypeOK, Tx
      <4>4. CacheFollowsNode'
        BY <3>1, <4>2, <4>3 DEF CacheFollowsNode
      <4> QED
        BY <3>1, <4>2, <4>4 DEF IInv, PoolKept, AckedNoncesUnique, HealsAfterOneReject
    <3> QED
      BY <2>5, <3>5, <3>6
  <2> QED
    BY <1>2, <2>1, <2>2, <2>3, <2>4, <2>5 DEF SendTransaction
<1>3. ASSUME NEW h \in Handlers, WaitForReceipt(h) PROVE PoolKept'
  BY <1>0, <1>b, <1>3 DEF WaitForReceipt, ReceiptFound, ReceiptTimeout
<1>4. CASE Mine
  BY <1>0, <1>b, <1>4 DEF Mine
<1>5. ASSUME NEW tx \in wire, Deliver(tx) PROVE PoolKept'
  <2>1. /\ drops = 0 /\ wire' = wire \ {tx} /\ rejects' = 0
        /\ UNCHANGED <<nonce, nonceReady, acked>>
    BY <1>5 DEF Deliver
  <2>2. tx \in Tx /\ tx \notin acked /\ tx.nonce <= Len(ledger)
    BY <1>b, <2>1 DEF IInv, TypeOK, Identities
  <2>3. /\ AckedSurvives' /\ queued' = {}
        /\ Len(ledger') \in Nat /\ Len(ledger') >= Len(ledger)
    <3>1. CASE Admissible(tx)
      BY <1>5, <2>1, <2>2, <3>1, UnackedKeepsSurvivors DEF Deliver
    <3>2. CASE ~Admissible(tx)
      BY <1>5, <2>1, <3>2 DEF Deliver, IInv, TypeOK, PoolKept, CacheFollowsNode,
                              AckedSurvives, Displaced
    <3> QED
      BY <3>1, <3>2
  <2>4. \A w \in wire' : w.nonce <= Len(ledger')
    BY <1>b, <2>1, <2>3 DEF IInv, TypeOK, Tx
  <2>5. nonceReady' => nonce' <= Len(ledger')
    BY <2>1, <2>3 DEF IInv, TypeOK, PoolKept, CacheFollowsNode
  <2>6. nonceReady' => \A a \in acked' : a.nonce < nonce'
    BY <2>1 DEF IInv, PoolKept, CacheFollowsNode
  <2>7. CacheFollowsNode'
    BY <2>1, <2>3, <2>4, <2>5, <2>6 DEF CacheFollowsNode
  <2> QED
    BY <2>1, <2>3, <2>7 DEF IInv, PoolKept, AckedNoncesUnique, HealsAfterOneReject
<1>6. ASSUME NEW tx \in queued, Promote(tx) PROVE PoolKept'
  BY <1>6 DEF Promote, IInv, PoolKept, CacheFollowsNode
<1>7. CASE DropPool
  BY <1>a, <1>7 DEF DropPool
<1>8. CASE Crash
  <2>1. PICK left \in SUBSET {h \in Handlers : pc[h] = "send"} :
          wire' = wire \cup {Signed(h) : h \in left}
    BY <1>8 DEF Crash
  <2>2. /\ drops = 0 /\ nonceReady' = FALSE
        /\ UNCHANGED <<ledger, queued, acked, rejects, drops>>
    BY <1>8 DEF Crash
  <2>3. \A h \in left : Signed(h).nonce <= Len(ledger)
    BY <2>2 DEF Signed, IInv, Mutex, PoolKept, CacheFollowsNode
  <2>4. \A w \in wire' : w.nonce <= Len(ledger')
    BY <1>b, <2>1, <2>2, <2>3
  <2>5. CacheFollowsNode'
    BY <2>2, <2>4 DEF IInv, PoolKept, CacheFollowsNode
  <2> QED
    BY <2>2, <2>5 DEF IInv, PoolKept, AckedNoncesUnique, AckedSurvives,
                      HealsAfterOneReject, Displaced
<1>9. CASE UNCHANGED vars
  BY <1>0, <1>b, <1>9 DEF vars
<1> QED
  BY <1>1, <1>2, <1>3, <1>4, <1>5, <1>6, <1>7, <1>8, <1>9 DEF Next

---------------------------------------------------------------------------
(* The theorems.                                                           *)

\* The inductive invariant holds in every reachable state.
LEMMA Inductive == Spec => []IInv
<1>1. Init => IInv
  <2> SUFFICES ASSUME Init PROVE IInv
    OBVIOUS
  <2>1. TypeOK
    BY InitType
  <2>2. Mutex /\ Identities
    BY PayerAssumption DEF Init, Mutex, Identities, Unsent, Critical
  <2>3. LedgerNonces /\ PoolKept
    BY DEF Init, LedgerNonces, PoolKept, CacheFollowsNode, AckedNoncesUnique,
           AckedSurvives, HealsAfterOneReject
  <2> QED
    BY <2>1, <2>2, <2>3 DEF IInv
<1>2. IInv /\ [Next]_vars => IInv'
  BY StepType, StepMutex, StepIdentities, StepLedger, StepPool DEF IInv
<1> QED
  BY <1>1, <1>2, PTL DEF Spec

\* Two successful calls of SendTransaction never share an account nonce.
THEOREM AckedUnique == Spec => []AckedNoncesUnique
<1>1. IInv => AckedNoncesUnique
  BY DEF IInv, PoolKept
<1> QED
  BY <1>1, Inductive, PTL

\* An acknowledged transaction keeps its nonce unless a late request of the
\* same account with a higher price takes it.
THEOREM AckedSurvive == Spec => []AckedSurvives
<1>1. IInv => AckedSurvives
  BY DEF IInv, PoolKept
<1> QED
  BY <1>1, Inductive, PTL

\* No failure between reading and incrementing the cached nonce leaves a hole.
THEOREM NoGap == Spec => []NoNonceGap
<1>1. IInv => NoNonceGap
  BY DEF IInv, PoolKept, CacheFollowsNode, NoNonceGap
<1> QED
  BY <1>1, Inductive, PTL

\* One refused send is enough to repair a stale cache.
THEOREM Heals == Spec => []HealsAfterOneReject
<1>1. IInv => HealsAfterOneReject
  BY DEF IInv, PoolKept
<1> QED
  BY <1>1, Inductive, PTL
===========================================================================
