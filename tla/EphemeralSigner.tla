-------------------------- MODULE EphemeralSigner --------------------------
(***************************************************************************)
(* The rotating signer from end to end: pages of the wallet UI that read   *)
(* the key index from IndexedDB, sign and bump it, the backend that        *)
(* relays, and the EphemeralECDSAWallet whose signer rotates on chain.     *)
(*                                                                         *)
(* One wallet with its seed.  Key i is the one derived from the seed and   *)
(* i, and the chain's signer is given by its index.  The backend is seen   *)
(* as Relay has it, without its database: a posted signature is refused,   *)
(* or goes into a transaction that is mined, late or not, or lost.         *)
(***************************************************************************)
EXTENDS Naturals, FiniteSets

CONSTANTS
    SigningPages,  \* mounted send and swap pages, in whatever tabs
    None,
    MaxSigned      \* bound: signatures made

\* By key `key`, over a digest with this nonce and next signer; `id` stands for
\* the operation.
Signatures == [id : Nat, key : Nat, nonce : Nat, next : Nat]

ASSUME SignerAssumption == None \notin Nat \cup Signatures /\ MaxSigned \in Nat

VARIABLES
    stored,      \* IndexedDB: ephemeralIndex of the wallet
    step,        \* what each page does next
    held,        \* the index in each page's copy of the wallet, or None
    signature,   \* the signature each page has made and not yet posted, or None
    posted,      \* signatures that have left the browser
    requests,    \* posted signatures the backend has not decided on
    pool,        \* signatures in transactions that are not mined
    signer,      \* on chain: the index of currentSigner
    nonce,       \* on chain: the wallet's nonce
    used,        \* history: signatures of executed operations
    made,        \* history: signatures made
    overlapped   \* history: whether two pages were ever mounted at once

pageVars == <<stored, step, held, signature, made, overlapped>>
chainVars == <<signer, nonce, used>>
signerVars == <<pageVars, posted, requests, pool, chainVars>>

Steps == {"closed", "ready", "save", "post", "answer"}

SignerInit ==
    /\ stored = 0
    /\ step = [p \in SigningPages |-> "closed"]
    /\ held = [p \in SigningPages |-> None]
    /\ signature = [p \in SigningPages |-> None]
    /\ posted = {} /\ requests = {} /\ pool = {}
    /\ signer = 0 /\ nonce = 0 /\ used = {}
    /\ made = 0 /\ overlapped = FALSE

Go(p, next) == step' = [step EXCEPT ![p] = next]

---------------------------------------------------------------------------
(* A page: handleSend or handleSwap.                                       *)

\* The page is mounted and loads the wallet.  A handler outlives the page when the
\* user navigates within the tab, so the page it belongs to is not closed by that.
Open(p) ==
    /\ step[p] = "closed"
    /\ held' = [held EXCEPT ![p] = stored]
    /\ overlapped' = (overlapped \/ \E q \in SigningPages \ {p} : step[q] # "closed")
    /\ Go(p, "ready")
    /\ UNCHANGED <<stored, signature, made, posted, requests, pool, chainVars>>

\* Variant: the next signer is the one in use.
SignedSameKey(p) ==
    [id |-> made + 1, key |-> held[p], nonce |-> nonce, next |-> held[p]]

\* ecdsaSignWithRotation with the key of the page's index, naming the key after
\* it, over the message for the wallet's latest nonce.
Signed(p) ==
    [id |-> made + 1, key |-> held[p], nonce |-> nonce, next |-> held[p] + 1]

\* The user clicks, the backend gives the message and the page signs it; without
\* an answer the page is ready again and nothing has changed.  Until the
\* handler returns the button is disabled.
SignOperation(p) ==
    /\ step[p] = "ready" /\ made < MaxSigned
    /\ signature' = [signature EXCEPT ![p] = Signed(p)]
    /\ made' = made + 1
    /\ Go(p, "save")
    /\ UNCHANGED <<stored, held, overlapped, posted, requests, pool, chainVars>>

\* Variant: the bump stays in the page.
SaveInMemory(p) ==
    /\ step[p] = "save"
    /\ held' = [held EXCEPT ![p] = @ + 1]
    /\ Go(p, "post")
    /\ UNCHANGED <<stored, signature, made, overlapped, posted, requests, pool, chainVars>>

\* The bumped index is saved over whatever is stored, and kept by the page.
Save(p) ==
    /\ step[p] = "save"
    /\ stored' = held[p] + 1
    /\ held' = [held EXCEPT ![p] = @ + 1]
    /\ Go(p, "post")
    /\ UNCHANGED <<signature, made, overlapped, posted, requests, pool, chainVars>>

\* IndexedDB fails: the error is shown and the signature is thrown away.
SaveFails(p) ==
    /\ step[p] = "save"
    /\ signature' = [signature EXCEPT ![p] = None]
    /\ Go(p, "ready")
    /\ UNCHANGED <<stored, held, made, overlapped, posted, requests, pool, chainVars>>

\* execute or apiSwap: the signature leaves the browser.
Post(p) ==
    /\ step[p] = "post"
    /\ posted' = posted \cup {signature[p]}
    /\ requests' = requests \cup {signature[p]}
    /\ signature' = [signature EXCEPT ![p] = None]
    /\ Go(p, "answer")
    /\ UNCHANGED <<stored, held, made, overlapped, pool, chainVars>>

\* A result or an error, of the backend or of the network: either is only shown.
Answer(p) ==
    /\ step[p] = "answer"
    /\ Go(p, "ready")
    /\ UNCHANGED <<stored, held, signature, made, overlapped, posted, requests, pool, chainVars>>

\* The tab is closed or reloaded, in the middle of anything.
Close(p) ==
    /\ step[p] # "closed"
    /\ held' = [held EXCEPT ![p] = None]
    /\ signature' = [signature EXCEPT ![p] = None]
    /\ Go(p, "closed")
    /\ UNCHANGED <<stored, made, overlapped, posted, requests, pool, chainVars>>

---------------------------------------------------------------------------
(* The backend and the chain.                                              *)

\* The wallet accepts the signature in the latest state.
Valid(s) == s.key = signer /\ s.nonce = nonce

\* EstimateGas passes and the transaction is sent.
Accept(s) ==
    /\ s \in requests /\ Valid(s)
    /\ requests' = requests \ {s}
    /\ pool' = pool \cup {s}
    /\ UNCHANGED <<pageVars, posted, chainVars>>

\* The request does not arrive, EstimateGas reverts, or an RPC fails.
Refuse(s) ==
    /\ s \in requests
    /\ requests' = requests \ {s}
    /\ UNCHANGED <<pageVars, posted, pool, chainVars>>

\* Variant: the operation is executed and the signer stays.
ExecuteUnrotated(s) ==
    /\ s \in pool /\ Valid(s)
    /\ pool' = pool \ {s}
    /\ nonce' = nonce + 1
    /\ used' = used \cup {s}
    /\ UNCHANGED <<pageVars, posted, requests, signer>>

\* The transaction is mined and the wallet rotates.
Execute(s) ==
    /\ s \in pool /\ Valid(s)
    /\ pool' = pool \ {s}
    /\ signer' = s.next
    /\ nonce' = nonce + 1
    /\ used' = used \cup {s}
    /\ UNCHANGED <<pageVars, posted, requests>>

\* The transaction is lost, or mined and reverted, because the signature is no
\* longer valid or because the inner call fails: the rotation is undone with it.
Revert(s) ==
    /\ s \in pool
    /\ pool' = pool \ {s}
    /\ UNCHANGED <<pageVars, posted, requests, chainVars>>

SignerNext ==
    \/ \E p \in SigningPages : Open(p) \/ SignOperation(p) \/ Save(p) \/ SaveFails(p) \/ Post(p)
                          \/ Answer(p) \/ Close(p)
    \/ \E s \in requests : Accept(s) \/ Refuse(s)
    \/ \E s \in pool : Execute(s) \/ Revert(s)

SignerSpec == SignerInit /\ [][SignerNext]_signerVars

---------------------------------------------------------------------------
(* Properties.                                                             *)

\* The type of every variable; a page holds a signature only until it posts it.
SignerTypeOK ==
    /\ stored \in Nat /\ signer \in Nat /\ nonce \in Nat /\ made \in Nat
    /\ step \in [SigningPages -> Steps]
    /\ held \in [SigningPages -> Nat \cup {None}]
    /\ \A p \in SigningPages : (held[p] = None) <=> (step[p] = "closed")
    /\ signature \in [SigningPages -> Signatures \cup {None}]
    /\ \A p \in SigningPages : (signature[p] # None) <=> (step[p] \in {"save", "post"})
    /\ posted \subseteq Signatures /\ requests \subseteq posted
    /\ pool \subseteq posted /\ used \subseteq posted
    /\ overlapped \in BOOLEAN

\* As long as pages are not mounted side by side, no two signatures by one key
\* leave the browser, whatever fails, is closed or is retried: the index is
\* saved before the signature is posted.
KeyExposedOnce ==
    ~overlapped => \A s, t \in posted : s.key = t.key => s = t

\* The browser never falls behind the chain's rotation, so it never signs with a
\* key the wallet has retired.
StoredNotBehind ==
    ~overlapped =>
      /\ signer <= stored
      /\ \A p \in SigningPages : step[p] # "closed" => held[p] = stored

\* On chain a key is used for one operation only, even if pages that overlap
\* have signed several with it.
KeyExecutesOnce ==
    \A s, t \in used : s.key = t.key => s = t

\* The chain's signer is the key whose index is the wallet's nonce: whatever the
\* browser has stored, the nonce tells which key the wallet expects.
SignerIsNonce == signer = nonce

\* Each ECDSA key pair is single-use (the wallet contract's comment).
KeyPairSingleUse ==
    \A s, t \in posted : s.key = t.key => s = t

\* When nothing is under way, ephemeralIndex is the wallet's current key index
\* (the comment of its declaration).
IndexIsCurrent ==
    (requests = {} /\ pool = {} /\ \A p \in SigningPages : step[p] \in {"closed", "ready"})
      => stored = signer
===========================================================================
