------------------------------ MODULE PQWallet ------------------------------
(***************************************************************************)
(* The smart wallets of contracts/src: PQWalletBase with its four post-    *)
(* quantum verifiers (Falcon and Dilithium, direct or NTT) and the         *)
(* EphemeralECDSAWallet that rotates its signer, created by                *)
(* PQWalletFactory.                                                        *)
(*                                                                         *)
(* A transaction is atomic: one that fails a require, or whose inner call  *)
(* fails, leaves no trace and is therefore no step of this module.  The    *)
(* hash an owner signs is a record of what is hashed; a signature verifies *)
(* for exactly the digest and key it was made with.  A PQ key stands for   *)
(* the public key with the verifyKey computed from it, which is what the   *)
(* verifiers read; a signer for an address somebody has the key of.        *)
(***************************************************************************)
EXTENDS Naturals, Sequences, FiniteSets

CONSTANTS
    PQWallets,    \* wallets with a post-quantum key (algorithms 0..3)
    EphWallets,   \* wallets with a rotating ECDSA signer (algorithm 4)
    PQKeys,       \* key pairs of the wallets' post-quantum scheme
    Signers,      \* ECDSA key pairs, by their addresses
    NoKey,        \* the zero address; also "no next signer"
    Addresses,    \* every account that may send a transaction
    Ops,          \* calls and batches a wallet may be asked to make
    MaxNonce,     \* bound: operations executed per wallet
    MaxSigned     \* bound: signatures made

Wallets == PQWallets \cup EphWallets
Keys == PQKeys \cup Signers

ASSUME WalletAssumption ==
    /\ PQWallets \cap EphWallets = {}
    /\ PQKeys \cap Signers = {}
    /\ NoKey \notin Keys
    /\ MaxNonce \in Nat /\ MaxSigned \in Nat

VARIABLES
    initialized,     \* PQWalletBase.sol:9-13, per wallet
    publicKey,
    payer,
    nonce,
    currentSigner,   \* EphemeralECDSAWallet.sol:18
    signatures,      \* every signature owners have made
    executed         \* history: what each wallet executed, with the signature

keyVars == <<initialized, publicKey, payer>>
vars == <<keyVars, nonce, currentSigner, signatures, executed>>

\* keccak256(to, value, data, nonce, chainid [, nextSigner]): execute and
\* executeBatch hash different encodings, so they are different members of Ops.
\* The wallet's own address is not part of it.
Digest(op, n, next) == [op |-> op, nonce |-> n, next |-> next]

Digests == [op : Ops, nonce : Nat, next : Signers \cup {NoKey}]
Signatures == [key : Keys, digest : Digests]
Executions == [op : Ops, next : Signers \cup {NoKey}, sig : Signatures]

Init ==
    /\ initialized = [w \in Wallets |-> FALSE]
    /\ publicKey = [w \in Wallets |-> NoKey]
    /\ payer = [w \in Wallets |-> NoKey]
    /\ nonce = [w \in Wallets |-> 0]
    /\ currentSigner = [w \in Wallets |-> NoKey]
    /\ signatures = {}
    /\ executed = [w \in Wallets |-> <<>>]

---------------------------------------------------------------------------
\* initialize stores the key and the payer; a rotating wallet takes the key as its
\* first signer.
Initialize(w, pk, p) ==
    /\ pk \in IF w \in EphWallets THEN Signers ELSE PQKeys
    /\ initialized' = [initialized EXCEPT ![w] = TRUE]
    /\ publicKey' = [publicKey EXCEPT ![w] = pk]
    /\ payer' = [payer EXCEPT ![w] = p]
    /\ currentSigner' = IF w \in EphWallets
                        THEN [currentSigner EXCEPT ![w] = pk] ELSE currentSigner
    /\ UNCHANGED <<nonce, signatures, executed>>

\* Variant: a second initialize is not refused.
CreateWalletAgain(w, pk, p) == Initialize(w, pk, p)

\* createWallet deploys and initializes in one transaction, for whoever calls it, with
\* any key of the right length, one that other wallets have included, and any payer.
\* initialize refuses a second time.
CreateWallet(w, pk, p) == ~initialized[w] /\ Initialize(w, pk, p)

\* Somebody signs, for whatever nonce he was told (it may be behind or ahead), and
\* with an ECDSA key for whatever next signer.
Sign(k, op, n, next) ==
    /\ next # NoKey => k \in Signers
    /\ Cardinality(signatures) < MaxSigned
    /\ signatures' = signatures \cup {[key |-> k, digest |-> Digest(op, n, next)]}
    /\ UNCHANGED <<keyVars, nonce, currentSigner, executed>>

\* The nonce moves on and the execution is committed.
Commit(w, op, next, s) ==
    /\ nonce' = [nonce EXCEPT ![w] = @ + 1]
    /\ executed' = [executed EXCEPT ![w] =
                      Append(@, [op |-> op, next |-> next, sig |-> s])]

\* Variant: the digest the contract checks leaves out the nonce.
ExecuteAnyNonce(sender, w, op, s) ==
    /\ w \in PQWallets
    /\ initialized[w] /\ sender = payer[w]
    /\ \E n \in 0..MaxNonce : s.digest = Digest(op, n, NoKey)
    /\ s.key = publicKey[w]
    /\ Commit(w, op, NoKey, s)
    /\ UNCHANGED <<keyVars, currentSigner, signatures>>

\* execute and executeBatch of PQWalletBase; _verify checks the signature over
\* the digest with the key stored at initialization.
Execute(sender, w, op, s) ==
    /\ w \in PQWallets
    /\ initialized[w] /\ sender = payer[w]
    /\ s.digest = Digest(op, nonce[w], NoKey) /\ s.key = publicKey[w]
    /\ Commit(w, op, NoKey, s)
    /\ UNCHANGED <<keyVars, currentSigner, signatures>>

\* Variant: the next signer is not part of the signed digest.
ExecuteRotatingUnbound(sender, w, op, next, s) ==
    /\ w \in EphWallets
    /\ initialized[w] /\ sender = payer[w]
    /\ next # NoKey
    /\ s.digest = Digest(op, nonce[w], s.digest.next) /\ s.key = currentSigner[w]
    /\ currentSigner' = [currentSigner EXCEPT ![w] = next]
    /\ Commit(w, op, next, s)
    /\ UNCHANGED <<keyVars, signatures>>

\* execute and executeBatch of EphemeralECDSAWallet: `next` is the signer that
\* follows the ECDSA signature in the submitted bytes.
ExecuteRotating(sender, w, op, next, s) ==
    /\ w \in EphWallets
    /\ initialized[w] /\ sender = payer[w]
    /\ next # NoKey
    /\ s.digest = Digest(op, nonce[w], next) /\ s.key = currentSigner[w]
    /\ currentSigner' = [currentSigner EXCEPT ![w] = next]
    /\ Commit(w, op, next, s)
    /\ UNCHANGED <<keyVars, signatures>>

\* Anyone may submit any operation with any signature ever made.
Next ==
    \/ \E w \in Wallets, pk \in Keys, p \in Addresses : CreateWallet(w, pk, p)
    \/ \E k \in Keys, op \in Ops, n \in 0..MaxNonce, next \in Signers \cup {NoKey} :
         Sign(k, op, n, next)
    \/ \E sender \in Addresses, w \in Wallets, op \in Ops, s \in signatures :
         /\ nonce[w] < MaxNonce
         /\ \/ Execute(sender, w, op, s)
            \/ \E next \in Signers \cup {NoKey} : ExecuteRotating(sender, w, op, next, s)

Spec == Init /\ [][Next]_vars

---------------------------------------------------------------------------
(* Properties.                                                             *)

\* The type of every variable; an initialized rotating wallet always has a signer.
TypeOK ==
    /\ initialized \in [Wallets -> BOOLEAN]
    /\ publicKey \in [Wallets -> Keys \cup {NoKey}]
    /\ payer \in [Wallets -> Addresses \cup {NoKey}]
    /\ nonce \in [Wallets -> Nat]
    /\ currentSigner \in [Wallets -> Signers \cup {NoKey}]
    /\ \A w \in Wallets : initialized[w] =>
         IF w \in EphWallets THEN currentSigner[w] \in Signers ELSE publicKey[w] \in PQKeys
    /\ signatures \subseteq Signatures
    /\ executed \in [Wallets -> Seq(Executions)]

\* The key that controls a wallet at the i-th place of its history: the one it was
\* created with or, if its signer rotates, the one the operation before named.
Controller(w, i) ==
    IF w \in PQWallets \/ i = 1 THEN publicKey[w] ELSE executed[w][i - 1].next

\* A wallet executes no signature twice, whoever submits it and as whatever operation;
\* and of two wallets that execute the same one, both do so at the same place and
\* while the same key controls them.  (The digest does not name the wallet, and any
\* number of wallets can be created with one key: on each of them a signature counts.)
SignatureUsedOnce ==
    \A w, v \in Wallets : \A i \in 1..Len(executed[w]), j \in 1..Len(executed[v]) :
      executed[w][i].sig = executed[v][j].sig => i = j /\ Controller(w, i) = Controller(v, j)

\* The i-th operation a wallet executed is one that was signed for that very place,
\* with the next signer that was submitted along with it, and on a wallet that does
\* not rotate by the key it was created with.
ExecutedAsSigned ==
    \A w \in Wallets : \A i \in 1..Len(executed[w]) :
      LET e == executed[w][i] IN
        /\ e.sig \in signatures
        /\ e.sig.digest = Digest(e.op, i - 1, e.next)
        /\ w \in PQWallets => e.sig.key = publicKey[w]

\* A rotating wallet is a chain: each operation is signed by the signer the
\* previous one named, the first by the key the wallet was created with, and
\* the current signer is the last one named.
RotationChain ==
    \A w \in EphWallets : initialized[w] =>
      LET n == Len(executed[w]) IN
        /\ \A i \in 1..n :
             executed[w][i].sig.key = IF i = 1 THEN publicKey[w] ELSE executed[w][i - 1].next
        /\ currentSigner[w] = IF n = 0 THEN publicKey[w] ELSE executed[w][n].next

\* A key's authorisations are its signatures.
Abs ==
    INSTANCE AbstractWallet WITH
      Nobody <- NoKey,
      controller <- [w \in Wallets |-> IF w \in EphWallets THEN currentSigner[w] ELSE publicKey[w]],
      authorised <- {<<s.key, s.digest.nonce,
                       [op |-> s.digest.op, next |-> s.digest.next]>> : s \in signatures},
      done <- [w \in Wallets |->
                 [i \in 1..Len(executed[w]) |->
                    [op |-> executed[w][i].op, next |-> executed[w][i].next]]]

\* The contracts implement the abstract wallet.
ImplementsAbstractWallet == Abs!Spec
===========================================================================
