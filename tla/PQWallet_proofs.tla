-------------------------- MODULE PQWallet_proofs --------------------------
(***************************************************************************)
(* Proofs about the smart wallets, for any wallets, keys and operations.   *)
(***************************************************************************)
EXTENDS PQWallet, TLAPS

(* The nonce is the length of the history; a wallet that is not initialized *)
(* has neither a history nor a key.                                        *)
NonceCounts ==
    \A w \in Wallets :
      /\ nonce[w] = Len(executed[w])
      /\ ~initialized[w] =>
           executed[w] = <<>> /\ publicKey[w] = NoKey /\ currentSigner[w] = NoKey

\* RotationChain for one wallet.
Chained(w) ==
    /\ \A i \in 1..Len(executed[w]) :
         executed[w][i].sig.key = IF i = 1 THEN publicKey[w] ELSE executed[w][i - 1].next
    /\ currentSigner[w] = IF Len(executed[w]) = 0 THEN publicKey[w]
                          ELSE executed[w][Len(executed[w])].next

\* The inductive invariant.
IInv == TypeOK /\ NonceCounts /\ ExecutedAsSigned /\ RotationChain

---------------------------------------------------------------------------
(* Both execute functions: a signature by the controlling key for the       *)
(* current nonce, committed.                                               *)
Committed(w, op, next, s) ==
    /\ initialized[w]
    /\ s \in signatures
    /\ w \in EphWallets <=> next # NoKey
    /\ s.digest = Digest(op, nonce[w], next)
    /\ s.key = IF w \in EphWallets THEN currentSigner[w] ELSE publicKey[w]
    /\ currentSigner' = IF w \in EphWallets THEN [currentSigner EXCEPT ![w] = next]
                                            ELSE currentSigner
    /\ Commit(w, op, next, s)
    /\ UNCHANGED <<keyVars, signatures>>

\* Every step creates a wallet, signs, commits an execution or stutters.
LEMMA Steps ==
    ASSUME TypeOK, [Next]_vars
    PROVE  \/ \E w \in Wallets, pk \in Keys, p \in Addresses : CreateWallet(w, pk, p)
           \/ \E k \in Keys, op \in Ops, n \in 0..MaxNonce, next \in Signers \cup {NoKey} :
                Sign(k, op, n, next)
           \/ \E w \in Wallets, op \in Ops, next \in Signers \cup {NoKey}, s \in signatures :
                Committed(w, op, next, s)
           \/ UNCHANGED vars
<1>1. ASSUME NEW sender \in Addresses, NEW w \in Wallets, NEW op \in Ops,
             NEW s \in signatures, Execute(sender, w, op, s)
      PROVE  Committed(w, op, NoKey, s)
  BY <1>1, WalletAssumption DEF Execute, Committed
<1>2. ASSUME NEW sender \in Addresses, NEW w \in Wallets, NEW op \in Ops,
             NEW s \in signatures, NEW next \in Signers \cup {NoKey},
             ExecuteRotating(sender, w, op, next, s)
      PROVE  Committed(w, op, next, s)
  BY <1>2 DEF ExecuteRotating, Committed
<1> QED
  BY <1>1, <1>2 DEF Next

\* What a committed execution appends.
LEMMA CommitAppends ==
    ASSUME TypeOK, NEW w \in Wallets, NEW op \in Ops,
           NEW next \in Signers \cup {NoKey}, NEW s \in signatures, Commit(w, op, next, s)
    PROVE  /\ executed' \in [Wallets -> Seq(Executions)]
           /\ nonce' \in [Wallets -> Nat] /\ nonce'[w] = nonce[w] + 1
           /\ Len(executed'[w]) = Len(executed[w]) + 1
           /\ executed'[w][Len(executed[w]) + 1] = [op |-> op, next |-> next, sig |-> s]
           /\ \A i \in 1..Len(executed[w]) : executed'[w][i] = executed[w][i]
           /\ \A v \in Wallets \ {w} : executed'[v] = executed[v] /\ nonce'[v] = nonce[v]
<1> DEFINE e == [op |-> op, next |-> next, sig |-> s]
<1>1. e \in Executions /\ executed[w] \in Seq(Executions)
  BY DEF Executions, TypeOK
<1>2. executed'[w] = Append(executed[w], e)
  BY DEF Commit, TypeOK
<1>3. executed' \in [Wallets -> Seq(Executions)]
  BY <1>1 DEF Commit, TypeOK
<1>4. nonce' \in [Wallets -> Nat] /\ nonce'[w] = nonce[w] + 1
  BY DEF Commit, TypeOK
<1>5. \A v \in Wallets \ {w} : executed'[v] = executed[v] /\ nonce'[v] = nonce[v]
  BY DEF Commit, TypeOK
<1> QED
  BY <1>1, <1>2, <1>3, <1>4, <1>5

\* Every step keeps the types; a rotation installs a signer.
LEMMA StepType == IInv /\ [Next]_vars => TypeOK'
<1> SUFFICES ASSUME IInv, [Next]_vars PROVE TypeOK'
  OBVIOUS
<1> USE WalletAssumption DEF keyVars
<1>0. TypeOK
  BY DEF IInv
<1>1. ASSUME NEW w \in Wallets, NEW pk \in Keys, NEW p \in Addresses, CreateWallet(w, pk, p) PROVE TypeOK'
  <2>1. /\ pk \in IF w \in EphWallets THEN Signers ELSE PQKeys
        /\ initialized' = [initialized EXCEPT ![w] = TRUE]
        /\ publicKey' = [publicKey EXCEPT ![w] = pk]
        /\ payer' = [payer EXCEPT ![w] = p]
        /\ currentSigner' = IF w \in EphWallets
                            THEN [currentSigner EXCEPT ![w] = pk] ELSE currentSigner
        /\ UNCHANGED <<nonce, signatures, executed>>
    BY <1>1 DEF CreateWallet, Initialize
  <2>2. currentSigner' \in [Wallets -> Signers \cup {NoKey}]
    BY <1>0, <2>1 DEF TypeOK
  <2>3. \A v \in Wallets : initialized'[v] =>
          IF v \in EphWallets THEN currentSigner'[v] \in Signers ELSE publicKey'[v] \in PQKeys
    BY <1>0, <2>1 DEF TypeOK
  <2>4. /\ initialized' \in [Wallets -> BOOLEAN]
        /\ publicKey' \in [Wallets -> Keys \cup {NoKey}]
        /\ payer' \in [Wallets -> Addresses \cup {NoKey}]
    BY <1>0, <2>1 DEF TypeOK
  <2> QED
    BY <1>0, <2>1, <2>2, <2>3, <2>4 DEF TypeOK
<1>2. ASSUME NEW k \in Keys, NEW op \in Ops, NEW n \in 0..MaxNonce,
             NEW next \in Signers \cup {NoKey}, Sign(k, op, n, next)
      PROVE  TypeOK'
  <2>1. [key |-> k, digest |-> Digest(op, n, next)] \in Signatures
    BY DEF Signatures, Digests, Digest
  <2> QED
    BY <1>0, <1>2, <2>1 DEF Sign, TypeOK
<1>3. ASSUME NEW w \in Wallets, NEW op \in Ops, NEW next \in Signers \cup {NoKey},
             NEW s \in signatures, Committed(w, op, next, s)
      PROVE  TypeOK'
  <2>1. executed' \in [Wallets -> Seq(Executions)] /\ nonce' \in [Wallets -> Nat]
    BY <1>0, <1>3, CommitAppends DEF Committed
  <2>2. w \in EphWallets => next \in Signers
    BY <1>3 DEF Committed
  <2>3. currentSigner' \in [Wallets -> Signers \cup {NoKey}]
    BY <1>0, <1>3 DEF Committed, TypeOK
  <2>4. \A v \in Wallets : initialized'[v] =>
          IF v \in EphWallets THEN currentSigner'[v] \in Signers ELSE publicKey'[v] \in PQKeys
    BY <1>0, <1>3, <2>2 DEF Committed, TypeOK
  <2> QED
    BY <1>0, <1>3, <2>1, <2>3, <2>4 DEF Committed, TypeOK
<1>4. CASE UNCHANGED vars
  BY <1>0, <1>4 DEF vars, TypeOK
<1> QED
  BY <1>0, <1>1, <1>2, <1>3, <1>4, Steps

\* Creating a wallet: its history is empty.
LEMMA CreateKeeps ==
    ASSUME IInv, NEW w \in Wallets, NEW pk \in Keys, NEW p \in Addresses, CreateWallet(w, pk, p)
    PROVE  (NonceCounts /\ ExecutedAsSigned /\ RotationChain)'
<1>1. /\ ~initialized[w] /\ executed[w] = <<>>
      /\ UNCHANGED <<nonce, signatures, executed>>
      /\ \A v \in Wallets : initialized'[v] = IF v = w THEN TRUE ELSE initialized[v]
      /\ \A v \in Wallets : publicKey'[v] = IF v = w THEN pk ELSE publicKey[v]
      /\ \A v \in Wallets : v # w => currentSigner'[v] = currentSigner[v]
      /\ w \in EphWallets => currentSigner'[w] = pk
  BY DEF CreateWallet, Initialize, IInv, TypeOK, NonceCounts, Wallets
<1>2. NonceCounts'
  BY <1>1 DEF IInv, NonceCounts
<1>4. ExecutedAsSigned'
  BY <1>1 DEF IInv, ExecutedAsSigned
<1>5. RotationChain'
  <2> SUFFICES ASSUME NEW v \in EphWallets, initialized'[v]
               PROVE  Chained(v)'
    BY DEF RotationChain, Chained
  <2>1. CASE v = w
    <3>1. v \in Wallets
      BY DEF Wallets
    <3>2. executed'[v] = <<>> /\ currentSigner'[v] = publicKey'[v]
      BY <1>1, <2>1, <3>1
    <3> QED
      BY <3>2 DEF Chained
  <2>2. CASE v # w
    <3>1. v \in Wallets
      BY DEF Wallets
    <3>2. initialized[v]
      BY <1>1, <2>2, <3>1
    <3>3. Chained(v)
      BY <3>2 DEF IInv, RotationChain, Chained
    <3>4. /\ executed'[v] = executed[v] /\ publicKey'[v] = publicKey[v]
          /\ currentSigner'[v] = currentSigner[v]
      BY <1>1, <2>2, <3>1
    <3> QED
      BY <3>3, <3>4 DEF Chained
  <2> QED
    BY <2>1, <2>2
<1> QED
  BY <1>2, <1>4, <1>5

\* Signing adds a signature.
LEMMA SignKeeps ==
    ASSUME IInv, NEW k \in Keys, NEW op \in Ops, NEW n \in 0..MaxNonce,
           NEW next \in Signers \cup {NoKey}, Sign(k, op, n, next)
    PROVE  (NonceCounts /\ ExecutedAsSigned /\ RotationChain)'
<1> DEFINE s == [key |-> k, digest |-> Digest(op, n, next)]
<1>1. /\ signatures' = signatures \cup {s}
      /\ UNCHANGED <<initialized, publicKey, payer, nonce, currentSigner, executed>>
  BY DEF Sign, keyVars
<1>3. NonceCounts' /\ RotationChain'
  BY <1>1 DEF IInv, NonceCounts, RotationChain
<1>5. ExecutedAsSigned'
  BY <1>1 DEF IInv, ExecutedAsSigned
<1> QED
  BY <1>3, <1>5

\* Executing: the signature is the controlling key's, for the current nonce.
LEMMA CommitKeeps ==
    ASSUME IInv, NEW w \in Wallets, NEW op \in Ops, NEW next \in Signers \cup {NoKey},
           NEW s \in signatures, Committed(w, op, next, s)
    PROVE  (NonceCounts /\ ExecutedAsSigned /\ RotationChain)'
<1> DEFINE len == Len(executed[w])
           e == [op |-> op, next |-> next, sig |-> s]
<1>1. /\ nonce'[w] = nonce[w] + 1 /\ Len(executed'[w]) = len + 1
      /\ executed'[w][len + 1] = e
      /\ \A i \in 1..len : executed'[w][i] = executed[w][i]
      /\ \A v \in Wallets \ {w} : executed'[v] = executed[v] /\ nonce'[v] = nonce[v]
  BY CommitAppends DEF Committed, IInv
<1>2. /\ initialized[w] /\ s.digest = Digest(op, nonce[w], next)
      /\ UNCHANGED <<initialized, publicKey, payer, signatures>>
  BY DEF Committed, keyVars
<1>3. nonce[w] = len /\ len \in Nat
  BY DEF IInv, NonceCounts, TypeOK
<1>4. w \in PQWallets => s.key = publicKey[w]
  BY WalletAssumption DEF Committed
<1>5. \A v \in EphWallets : currentSigner'[v] = IF v = w THEN next ELSE currentSigner[v]
  BY DEF Committed, IInv, TypeOK, Wallets
<1>6. NonceCounts'
  <2>1. \A v \in Wallets \ {w} : currentSigner'[v] = currentSigner[v]
    BY DEF Committed, IInv, TypeOK
  <2> QED
    BY <1>1, <1>2, <1>3, <2>1 DEF IInv, NonceCounts
<1>8. ExecutedAsSigned'
  <2> SUFFICES ASSUME NEW v \in Wallets, NEW i \in 1..Len(executed'[v])
               PROVE  /\ executed'[v][i].sig \in signatures
                      /\ executed'[v][i].sig.digest
                           = Digest(executed'[v][i].op, i - 1, executed'[v][i].next)
                      /\ v \in PQWallets => executed'[v][i].sig.key = publicKey[v]
    BY <1>2 DEF ExecutedAsSigned
  <2>1. CASE v = w /\ i = len + 1
    BY <1>1, <1>2, <1>3, <1>4, <2>1
  <2>2. CASE v = w /\ i # len + 1
    <3>1. i \in 1..len
      BY <1>1, <1>3, <2>2
    <3>2. executed'[v][i] = executed[w][i] /\ i \in 1..Len(executed[w])
      BY <1>1, <2>2, <3>1
    <3>3. /\ executed[w][i].sig \in signatures
          /\ executed[w][i].sig.digest = Digest(executed[w][i].op, i - 1, executed[w][i].next)
          /\ w \in PQWallets => executed[w][i].sig.key = publicKey[w]
      BY <3>2 DEF IInv, ExecutedAsSigned
    <3> QED
      BY <2>2, <3>2, <3>3
  <2>3. CASE v # w
    <3>1. executed'[v] = executed[v] /\ i \in 1..Len(executed[v])
      BY <1>1, <2>3
    <3>2. /\ executed[v][i].sig \in signatures
          /\ executed[v][i].sig.digest = Digest(executed[v][i].op, i - 1, executed[v][i].next)
          /\ v \in PQWallets => executed[v][i].sig.key = publicKey[v]
      BY <3>1 DEF IInv, ExecutedAsSigned
    <3> QED
      BY <3>1, <3>2
  <2> QED
    BY <2>1, <2>2, <2>3
<1>9. RotationChain'
  <2> SUFFICES ASSUME NEW v \in EphWallets, initialized'[v]
               PROVE  Chained(v)'
    BY DEF RotationChain, Chained
  <2>1. CASE v # w
    <3>1. v \in Wallets \ {w}
      BY <2>1 DEF Wallets
    <3>2. Chained(v)
      BY <1>2 DEF IInv, RotationChain, Chained
    <3>3. /\ executed'[v] = executed[v] /\ publicKey'[v] = publicKey[v]
          /\ currentSigner'[v] = currentSigner[v]
      BY <1>1, <1>2, <1>5, <2>1, <3>1
    <3> QED
      BY <3>2, <3>3 DEF Chained
  <2>2. CASE v = w
    <3>1. s.key = IF len = 0 THEN publicKey[w] ELSE executed[w][len].next
      BY <1>2, <2>2 DEF Committed, IInv, RotationChain
    <3>2. currentSigner'[v] = executed'[v][Len(executed'[v])].next
      BY <1>1, <1>5, <2>2
    <3>3. ASSUME NEW i \in 1..len + 1
          PROVE  executed'[w][i].sig.key =
                   IF i = 1 THEN publicKey[w] ELSE executed'[w][i - 1].next
      <4>1. CASE i = len + 1
        <5>1. executed'[w][i].sig.key = s.key
          BY <1>1, <4>1
        <5>2. i # 1 => len \in 1..len /\ i - 1 = len /\ len # 0
          BY <1>3, <4>1
        <5>3. i = 1 => len = 0
          BY <1>3, <4>1
        <5> QED
          BY <1>1, <3>1, <5>1, <5>2, <5>3
      <4>2. CASE i # len + 1
        <5>1. i \in 1..len /\ (i # 1 => i - 1 \in 1..len)
          BY <1>3, <4>2
        <5> QED
          <6>1. Chained(v)
            BY <1>2, <2>2 DEF IInv, RotationChain, Chained
          <6>2. executed[w][i].sig.key = IF i = 1 THEN publicKey[w] ELSE executed[w][i - 1].next
            BY <2>2, <5>1, <6>1 DEF Chained
          <6>3. executed'[w][i] = executed[w][i] /\ (i # 1 => executed'[w][i - 1] = executed[w][i - 1])
            BY <1>1, <5>1
          <6> QED
            BY <1>2, <6>2, <6>3
      <4> QED
        BY <4>1, <4>2
    <3> QED
      BY <1>1, <1>2, <1>3, <2>2, <3>2, <3>3 DEF Chained
  <2> QED
    BY <2>1, <2>2
<1> QED
  BY <1>6, <1>8, <1>9

\* The invariant holds initially and is inductive.
LEMMA InitInv == Init => IInv
<1> SUFFICES ASSUME Init PROVE IInv
  OBVIOUS
<1> USE WalletAssumption DEF Init
<1>1. TypeOK
  BY DEF TypeOK, Wallets
<1>2. NonceCounts
  BY DEF NonceCounts, Wallets
<1>3. ExecutedAsSigned /\ RotationChain
  BY DEF ExecutedAsSigned, RotationChain, Wallets
<1> QED
  BY <1>1, <1>2, <1>3 DEF IInv

LEMMA NextInv == IInv /\ [Next]_vars => IInv'
<1> SUFFICES ASSUME IInv, [Next]_vars PROVE IInv'
  OBVIOUS
<1>0. TypeOK /\ TypeOK'
  BY StepType DEF IInv
<1>1. ASSUME UNCHANGED vars
      PROVE  (NonceCounts /\ ExecutedAsSigned /\ RotationChain)'
  BY <1>1 DEF IInv, vars, keyVars, NonceCounts, ExecutedAsSigned, RotationChain
<1>2. (NonceCounts /\ ExecutedAsSigned /\ RotationChain)'
  BY <1>0, <1>1, Steps, CreateKeeps, SignKeeps, CommitKeeps
<1> QED
  BY <1>0, <1>2 DEF IInv

LEMMA Inductive == Spec => []IInv
BY InitInv, NextInv, PTL DEF Spec

---------------------------------------------------------------------------
(* The theorems.                                                           *)

\* The variables always have their types.
THEOREM TypeCorrect == Spec => []TypeOK
<1>1. IInv => TypeOK
  BY DEF IInv
<1> QED
  BY <1>1, Inductive, PTL

\* Whatever a wallet executed was signed for that place, by the key the wallet was
\* created with or, if it rotates, the one its predecessor named.
THEOREM Authorised == Spec => []ExecutedAsSigned
<1>1. IInv => ExecutedAsSigned
  BY DEF IInv
<1> QED
  BY <1>1, Inductive, PTL

\* No wallet executes a signature twice: the nonce says for which place it was made.
\* Two wallets execute the same one only in that place and under the same key.
THEOREM NoReplay == Spec => []SignatureUsedOnce
<1>1. ASSUME IInv, NEW w \in Wallets, NEW i \in 1..Len(executed[w])
      PROVE  /\ executed[w][i].sig.digest.nonce = i - 1
             /\ executed[w][i].sig.key = Controller(w, i)
             /\ i \in Nat
  <2>1. /\ executed[w][i].sig.digest
             = Digest(executed[w][i].op, i - 1, executed[w][i].next)
        /\ w \in PQWallets => executed[w][i].sig.key = publicKey[w]
    BY <1>1, Zenon DEF IInv, ExecutedAsSigned
  <2>2. Len(executed[w]) \in Nat /\ TypeOK
    BY <1>1 DEF IInv, TypeOK
  <2>3. initialized[w]
    BY <1>1, <2>2 DEF IInv, NonceCounts
  <2>4. CASE w \in PQWallets
    BY <2>1, <2>2, <2>4 DEF Digest, Controller
  <2>5. CASE w \in EphWallets
    <3>1. executed[w][i].sig.key = Controller(w, i)
      <4>1. Chained(w)
        BY <1>1, <2>3, <2>5 DEF IInv, RotationChain, Chained
      <4>2. executed[w][i].sig.key = IF i = 1 THEN publicKey[w] ELSE executed[w][i - 1].next
        BY <4>1 DEF Chained
      <4>3. w \notin PQWallets
        BY <2>5, WalletAssumption
      <4> QED
        BY <4>2, <4>3 DEF Controller
    <3> QED
      BY <2>1, <2>2, <3>1 DEF Digest
  <2> QED
    BY <2>4, <2>5 DEF Wallets
<1>2. ASSUME IInv, NEW w \in Wallets, NEW v \in Wallets,
             NEW i \in 1..Len(executed[w]), NEW j \in 1..Len(executed[v]),
             executed[w][i].sig = executed[v][j].sig
      PROVE  i = j /\ Controller(w, i) = Controller(v, j)
  <2>1. i - 1 = j - 1 /\ Controller(w, i) = Controller(v, j) /\ i \in Nat /\ j \in Nat
    <3> HIDE DEF IInv
    <3> QED
      BY <1>1, <1>2, Zenon
  <2> QED
    BY <2>1
<1>3. IInv => SignatureUsedOnce
  BY <1>2 DEF SignatureUsedOnce
<1> QED
  BY <1>3, Inductive, PTL

\* Each operation of a rotating wallet is signed by the signer its predecessor
\* named.
THEOREM Rotates == Spec => []RotationChain
<1>1. IInv => RotationChain
  BY DEF IInv
<1> QED
  BY <1>1, Inductive, PTL

---------------------------------------------------------------------------
(* The refinement.                                                         *)

AbsController ==
    [w \in Wallets |-> IF w \in EphWallets THEN currentSigner[w] ELSE publicKey[w]]

Op(e) == [op |-> e.op, next |-> e.next]

AbsAuthorised ==
    {<<s.key, s.digest.nonce,
       [op |-> s.digest.op, next |-> s.digest.next]>> : s \in signatures}

AbsDone == [w \in Wallets |-> [i \in 1..Len(executed[w]) |-> Op(executed[w][i])]]

LEMMA FunIsSeq ==
    ASSUME NEW S, NEW n \in Nat, NEW f \in [1..n -> S]
    PROVE  f \in Seq(S) /\ Len(f) = n
OBVIOUS

\* Mapping a history entry by entry keeps its length.
LEMMA MapSeq ==
    ASSUME NEW h \in Seq(Executions)
    PROVE  /\ [i \in 1..Len(h) |-> Op(h[i])] \in Seq(Abs!Operations)
           /\ Len([i \in 1..Len(h) |-> Op(h[i])]) = Len(h)
<1>1. ASSUME NEW i \in 1..Len(h) PROVE Op(h[i]) \in Abs!Operations
  <2>1. h[i] \in Executions
    OBVIOUS
  <2> QED
    BY <2>1 DEF Op, Abs!Operations, Executions, Keys
<1>2. [i \in 1..Len(h) |-> Op(h[i])] \in [1..Len(h) -> Abs!Operations] /\ Len(h) \in Nat
  BY <1>1
<1> QED
  BY <1>2, FunIsSeq

\* It commutes with appending to the history.
LEMMA MapAppend ==
    ASSUME NEW h \in Seq(Executions), NEW e \in Executions
    PROVE  [i \in 1..Len(Append(h, e)) |-> Op(Append(h, e)[i])]
             = Append([i \in 1..Len(h) |-> Op(h[i])], Op(e))
<1> DEFINE m == [i \in 1..Len(h) |-> Op(h[i])]
           l == [i \in 1..Len(Append(h, e)) |-> Op(Append(h, e)[i])]
           r == Append(m, Op(e))
<1>1. m \in Seq(Abs!Operations) /\ Len(m) = Len(h) /\ Op(e) \in Abs!Operations
  <2>1. Op(e) \in Abs!Operations
    BY DEF Op, Abs!Operations, Executions, Keys
  <2> QED
    BY <2>1, MapSeq
<1>2. Append(h, e) \in Seq(Executions) /\ Len(Append(h, e)) = Len(h) + 1
  OBVIOUS
<1>3. l \in Seq(Abs!Operations) /\ Len(l) = Len(h) + 1
  BY <1>2, MapSeq
<1>4. r \in Seq(Abs!Operations) /\ Len(r) = Len(h) + 1
  <2> HIDE DEF m
  <2> QED
    BY <1>1
<1>5. ASSUME NEW i \in 1..Len(h) + 1 PROVE l[i] = r[i]
  <2>1. l[i] = Op(Append(h, e)[i])
    BY <1>2
  <2>2. CASE i = Len(h) + 1
    <3>1. Append(h, e)[i] = e
      BY <2>2
    <3>2. r[i] = Op(e)
      <4> HIDE DEF m
      <4> QED
        BY <1>1, <2>2
    <3> QED
      BY <2>1, <3>1, <3>2
  <2>3. CASE i \in 1..Len(h)
    <3>1. Append(h, e)[i] = h[i]
      BY <2>3
    <3>2. r[i] = m[i]
      <4> HIDE DEF m
      <4> QED
        BY <1>1, <2>3
    <3> QED
      BY <2>1, <2>3, <3>1, <3>2
  <2> QED
    BY <2>2, <2>3
<1> HIDE DEF l, r
<1>6. l = r
  BY <1>3, <1>4, <1>5
<1> QED
  BY <1>6 DEF l, r

\* Every step of the contracts is a step of the abstract wallet or none.
LEMMA StepRefines == IInv /\ [Next]_vars => [Abs!Next]_(Abs!vars)
<1> SUFFICES ASSUME IInv, [Next]_vars PROVE [Abs!Next]_(Abs!vars)
  OBVIOUS
<1> USE DEF Abs!vars, Abs!Next
<1>1. ASSUME UNCHANGED vars PROVE UNCHANGED Abs!vars
  BY <1>1 DEF vars, keyVars
<1>2. ASSUME NEW k \in Keys, NEW op \in Ops, NEW n \in 0..MaxNonce,
             NEW next \in Signers \cup {NoKey}, Sign(k, op, n, next)
      PROVE  Abs!Authorise
  <2>1. /\ signatures \subseteq signatures' /\ executed' = executed
        /\ UNCHANGED <<publicKey, currentSigner>>
    BY <1>2 DEF Sign, keyVars
  <2>2. signatures' \subseteq Signatures
    BY StepType DEF TypeOK
  <2>3. AbsAuthorised \subseteq AbsAuthorised'
    BY <2>1 DEF AbsAuthorised
  <2>4. AbsAuthorised' \subseteq Keys \X Nat \X Abs!Operations
    BY <2>2 DEF AbsAuthorised, Signatures, Digests, Abs!Operations, Keys
  <2> QED
    BY <2>1, <2>3, <2>4 DEF Abs!Authorise, AbsAuthorised
<1>3. ASSUME NEW w \in Wallets, NEW op \in Ops, NEW next \in Signers \cup {NoKey},
             NEW s \in signatures, Committed(w, op, next, s)
      PROVE  Abs!Perform(w)
  <2> DEFINE e == [op |-> op, next |-> next, sig |-> s]
  <2>1. executed[w] \in Seq(Executions) /\ e \in Executions /\ signatures' = signatures
    BY <1>3 DEF IInv, TypeOK, Executions, Committed
  <2>2. executed' = [executed EXCEPT ![w] = Append(executed[w], e)]
    BY <1>3 DEF Committed, Commit
  <2>3. /\ Op(e) \in Abs!Operations /\ Op(e).next = next
        /\ <<AbsController[w], Len(executed[w]), Op(e)>> \in AbsAuthorised
    <3>1. s.key = AbsController[w]
      BY <1>3 DEF Committed, AbsController
    <3>2. s.digest.nonce = Len(executed[w]) /\ s.digest.op = op /\ s.digest.next = next
      BY <1>3 DEF Committed, Digest, IInv, NonceCounts
    <3> QED
      BY <1>3, <3>1, <3>2 DEF Op, Abs!Operations, AbsAuthorised, Keys
  <2>4. AbsDone \in [Wallets -> Seq(Abs!Operations)] /\ Len(AbsDone[w]) = Len(executed[w])
    BY MapSeq DEF AbsDone, IInv, TypeOK
  <2>5. AbsDone' = [AbsDone EXCEPT ![w] = Append(AbsDone[w], Op(e))]
    <3>1. \A v \in Wallets \ {w} : AbsDone'[v] = AbsDone[v]
      BY <2>2 DEF AbsDone, IInv, TypeOK
    <3>2. AbsDone'[w] = Append(AbsDone[w], Op(e))
      BY <2>1, <2>2, MapAppend DEF AbsDone, IInv, TypeOK
    <3> QED
      BY <3>1, <3>2, <2>4 DEF AbsDone
  <2>6. AbsController' = IF next = NoKey THEN AbsController
                         ELSE [AbsController EXCEPT ![w] = next]
    <3>1. /\ publicKey' = publicKey
          /\ currentSigner' = IF next = NoKey THEN currentSigner
                              ELSE [currentSigner EXCEPT ![w] = next]
          /\ w \in EphWallets <=> next # NoKey
          /\ currentSigner \in [Wallets -> Signers \cup {NoKey}]
      BY <1>3 DEF Committed, keyVars, IInv, TypeOK
    <3>2. CASE next = NoKey
      BY <3>1, <3>2 DEF AbsController
    <3>3. CASE next # NoKey
      BY <3>1, <3>3 DEF AbsController
    <3> QED
      BY <3>2, <3>3
  <2> QED
    BY <2>1, <2>3, <2>4, <2>5, <2>6 DEF Abs!Perform, AbsAuthorised, AbsDone, AbsController, Op
<1>4. ASSUME NEW w \in Wallets, NEW pk \in Keys, NEW p \in Addresses, CreateWallet(w, pk, p)
      PROVE  Abs!Create(w)
  <2>1. /\ UNCHANGED <<signatures, executed>>
        /\ publicKey' = [publicKey EXCEPT ![w] = pk]
        /\ currentSigner' = IF w \in EphWallets
                            THEN [currentSigner EXCEPT ![w] = pk] ELSE currentSigner
    BY <1>4 DEF CreateWallet, Initialize
  <2>2. AbsController[w] = NoKey
    BY <1>4 DEF CreateWallet, AbsController, IInv, NonceCounts
  <2>3. AbsController' = [AbsController EXCEPT ![w] = pk]
    BY <2>1 DEF AbsController, IInv, TypeOK
  <2> QED
    BY <2>1, <2>2, <2>3 DEF Abs!Create, AbsController
<1> QED
  BY <1>1, <1>2, <1>3, <1>4, Steps DEF IInv

\* The contracts implement the abstract wallet: at any time one key controls a wallet,
\* it performs exactly the operations that key authorised, each in its place, and
\* passes to another key only as authorised.
THEOREM Implements == Spec => ImplementsAbstractWallet
<1>1. Init => Abs!Init
  BY DEF Init, Abs!Init
<1>2. QED
  BY <1>1, StepRefines, Inductive, PTL DEF Spec, ImplementsAbstractWallet, Abs!Spec
===========================================================================
