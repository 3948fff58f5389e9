--------------------------- MODULE Browser_proofs ---------------------------
(***************************************************************************)
(* Proofs about the wallet in the browser.  The rotating signer: what is   *)
(* signed and posted, for any number of pages and signatures.  The tab:    *)
(* what it stores and where it leads, for any wallets, any number of       *)
(* functions under way, and any other tabs.                                *)
(***************************************************************************)
EXTENDS EphemeralSigner, WalletTab, WellFoundedInduction, TLAPS

---------------------------------------------------------------------------
(* The rotating signer.                                                    *)

\* Every signature names the key after its own.
NamesNext ==
    /\ \A p \in SigningPages : step[p] \in {"save", "post"} => signature[p].next = signature[p].key + 1
    /\ \A s \in posted : s.next = s.key + 1

\* The keys of executed operations are behind the signer.
UsedAreBehind == \A s \in used : s.key < signer

(* While pages do not overlap: there is one page; what it holds is what is  *)
(* stored; the signature it is about to post is by the key it saved past;   *)
(* and everything posted before is by earlier keys.                         *)
OnePage == \A p, q \in SigningPages : step[p] # "closed" /\ step[q] # "closed" => p = q

SavedPast ==
    \A p \in SigningPages :
      /\ step[p] = "save" => signature[p].key = stored
      /\ step[p] = "post" => /\ stored = signature[p].key + 1
                             /\ \A s \in posted : s.key < signature[p].key

KeysSaved ==
    /\ OnePage
    /\ SavedPast
    /\ \A p \in SigningPages : step[p] # "closed" => held[p] = stored
    /\ \A s \in posted : s.key < stored
    /\ \A s, t \in posted : s.key = t.key => s = t
    /\ signer <= stored

\* The inductive invariant.
SignerInv ==
    /\ SignerTypeOK
    /\ SignerIsNonce
    /\ NamesNext
    /\ UsedAreBehind
    /\ KeyExecutesOnce
    /\ ~overlapped => KeysSaved

LEMMA SignerInitInv == SignerInit => SignerInv
<1> SUFFICES ASSUME SignerInit PROVE SignerInv
  OBVIOUS
<1> USE SignerAssumption DEF SignerInit
<1>1. SignerTypeOK
  BY DEF SignerTypeOK, Steps
<1>2. SignerIsNonce /\ NamesNext /\ UsedAreBehind /\ KeyExecutesOnce
  BY DEF SignerIsNonce, NamesNext, UsedAreBehind, KeyExecutesOnce
<1>3. KeysSaved
  BY DEF KeysSaved, OnePage, SavedPast
<1> QED
  BY <1>1, <1>2, <1>3 DEF SignerInv

---------------------------------------------------------------------------
(* A page's steps.                                                         *)

LEMMA OpenKeeps == ASSUME SignerInv, NEW p \in SigningPages, Open(p) PROVE SignerInv'
<1> USE SignerAssumption DEF Open, Go, pageVars, chainVars
<1>0. SignerTypeOK
  BY DEF SignerInv
<1>1. SignerTypeOK'
  BY <1>0 DEF SignerTypeOK, Steps
<1>2. (SignerIsNonce /\ NamesNext /\ UsedAreBehind /\ KeyExecutesOnce)'
  BY <1>0 DEF SignerInv, SignerTypeOK, SignerIsNonce, NamesNext, UsedAreBehind, KeyExecutesOnce
<1>3. ASSUME ~overlapped' PROVE KeysSaved'
  <2>1. ~overlapped /\ \A q \in SigningPages \ {p} : step[q] = "closed"
    BY <1>3, <1>0 DEF SignerTypeOK
  <2>2. KeysSaved
    BY <2>1 DEF SignerInv
  <2>3. /\ \A q \in SigningPages : step'[q] = IF q = p THEN "ready" ELSE "closed"
        /\ held'[p] = stored
    BY <1>0, <2>1 DEF SignerTypeOK
  <2>4. OnePage' /\ SavedPast'
    BY <2>3 DEF OnePage, SavedPast
  <2>5. \A q \in SigningPages : step'[q] # "closed" => held'[q] = stored'
    BY <2>3
  <2> QED
    BY <2>2, <2>4, <2>5 DEF KeysSaved
<1> QED
  BY <1>1, <1>2, <1>3 DEF SignerInv

LEMMA SignOperationKeeps == ASSUME SignerInv, NEW p \in SigningPages, SignOperation(p) PROVE SignerInv'
<1> USE SignerAssumption DEF SignOperation, Go, chainVars
<1>0. SignerTypeOK /\ step[p] = "ready" /\ held[p] \in Nat
  BY DEF SignerInv, SignerTypeOK
<1>1. Signed(p) \in Signatures /\ Signed(p) # None
  BY <1>0 DEF SignerTypeOK, Signed, Signatures
<1>2. SignerTypeOK'
  BY <1>0, <1>1 DEF SignerTypeOK, Steps
<1>3. /\ Signed(p).next = Signed(p).key + 1 /\ Signed(p).key = held[p]
      /\ \A q \in SigningPages : step'[q] = IF q = p THEN "save" ELSE step[q]
      /\ \A q \in SigningPages : signature'[q] = IF q = p THEN Signed(p) ELSE signature[q]
  BY <1>0 DEF Signed, SignerTypeOK
<1>4. (SignerIsNonce /\ UsedAreBehind /\ KeyExecutesOnce)'
  BY DEF SignerInv, SignerIsNonce, UsedAreBehind, KeyExecutesOnce
<1>5. NamesNext'
  BY <1>3 DEF SignerInv, NamesNext
<1>6. ASSUME ~overlapped' PROVE KeysSaved'
  <2>1. KeysSaved
    BY <1>6 DEF SignerInv
  <2>2. OnePage'
    BY <1>0, <1>3, <2>1 DEF KeysSaved, OnePage
  <2>3. SavedPast'
    BY <1>0, <1>3, <2>1 DEF KeysSaved, SavedPast
  <2> QED
    BY <1>0, <1>3, <2>1, <2>2, <2>3 DEF KeysSaved
<1> QED
  BY <1>2, <1>4, <1>5, <1>6 DEF SignerInv

LEMMA SaveKeeps == ASSUME SignerInv, NEW p \in SigningPages, Save(p) PROVE SignerInv'
<1> USE SignerAssumption DEF Save, Go, chainVars
<1>0. SignerTypeOK /\ step[p] = "save" /\ held[p] \in Nat
  BY DEF SignerInv, SignerTypeOK
<1>1. SignerTypeOK'
  BY <1>0 DEF SignerTypeOK, Steps
<1>2. /\ stored' = held[p] + 1 /\ held'[p] = held[p] + 1
      /\ \A q \in SigningPages : step'[q] = IF q = p THEN "post" ELSE step[q]
  BY <1>0 DEF SignerTypeOK
<1>3. (SignerIsNonce /\ UsedAreBehind /\ KeyExecutesOnce)'
  BY DEF SignerInv, SignerIsNonce, UsedAreBehind, KeyExecutesOnce
<1>4. NamesNext'
  BY <1>0, <1>2 DEF SignerInv, NamesNext
<1>5. ASSUME ~overlapped' PROVE KeysSaved'
  <2>1. KeysSaved
    BY <1>5 DEF SignerInv
  <2>2. held[p] = stored /\ signature[p].key = stored /\ stored' = stored + 1
    BY <1>0, <1>2, <2>1 DEF KeysSaved, SavedPast
  <2>3. stored \in Nat /\ signer \in Nat /\ \A s \in posted : s.key \in Nat
    BY <1>0 DEF SignerTypeOK, Signatures
  <2>4. OnePage'
    BY <1>0, <1>2, <2>1 DEF KeysSaved, OnePage
  <2>5. \A q \in SigningPages : q # p => step[q] = "closed"
    BY <1>0, <2>1 DEF KeysSaved, OnePage
  <2>6. SavedPast'
    BY <1>2, <2>1, <2>2, <2>5 DEF KeysSaved, SavedPast
  <2>7. \A q \in SigningPages : step'[q] # "closed" => held'[q] = stored'
    BY <1>2, <2>5
  <2>8. (\A s \in posted : s.key < stored') /\ signer' <= stored'
    BY <2>1, <2>2, <2>3 DEF KeysSaved
  <2> QED
    BY <2>1, <2>4, <2>6, <2>7, <2>8 DEF KeysSaved
<1> QED
  BY <1>1, <1>3, <1>4, <1>5 DEF SignerInv

\* Dropping a signature and leaving the page ready or closed.
LEMMA DropKeeps ==
    ASSUME SignerInv, NEW p \in SigningPages, SaveFails(p) \/ Answer(p) \/ Close(p)
    PROVE  SignerInv'
<1> USE SignerAssumption DEF SaveFails, Answer, Close, Go, chainVars
<1>0. SignerTypeOK
  BY DEF SignerInv
<1>1. SignerTypeOK'
  BY <1>0 DEF SignerTypeOK, Steps
<1>2. /\ step'[p] \in {"ready", "closed"}
      /\ \A q \in SigningPages : q # p =>
           step'[q] = step[q] /\ signature'[q] = signature[q] /\ held'[q] = held[q]
      /\ step'[p] = "ready" => held'[p] = held[p] /\ step[p] # "closed"
      /\ UNCHANGED <<stored, posted, requests, pool, signer, nonce, used, overlapped>>
  BY <1>0 DEF SignerTypeOK
<1>3. (SignerIsNonce /\ UsedAreBehind /\ KeyExecutesOnce)'
  BY <1>2 DEF SignerInv, SignerIsNonce, UsedAreBehind, KeyExecutesOnce
<1>4. NamesNext'
  BY <1>2 DEF SignerInv, NamesNext
<1>5. ASSUME ~overlapped' PROVE KeysSaved'
  <2>1. KeysSaved
    BY <1>2, <1>5 DEF SignerInv
  <2>2. OnePage'
    BY <1>2, <2>1 DEF KeysSaved, OnePage
  <2>3. SavedPast'
    BY <1>2, <2>1 DEF KeysSaved, SavedPast
  <2>4. \A q \in SigningPages : step'[q] # "closed" => held'[q] = stored'
    BY <1>2, <2>1 DEF KeysSaved
  <2> QED
    BY <1>2, <2>1, <2>2, <2>3, <2>4 DEF KeysSaved
<1> QED
  BY <1>1, <1>3, <1>4, <1>5 DEF SignerInv

LEMMA PostKeeps == ASSUME SignerInv, NEW p \in SigningPages, Post(p) PROVE SignerInv'
<1> USE SignerAssumption DEF Post, Go, chainVars
<1> DEFINE s == signature[p]
<1>0. SignerTypeOK /\ step[p] = "post" /\ s \in Signatures
  BY DEF SignerInv, SignerTypeOK
<1>1. SignerTypeOK'
  BY <1>0 DEF SignerTypeOK, Steps
<1>2. /\ posted' = posted \cup {s}
      /\ \A q \in SigningPages : step'[q] = IF q = p THEN "answer" ELSE step[q]
      /\ \A q \in SigningPages : q # p => signature'[q] = signature[q]
  BY <1>0 DEF SignerTypeOK
<1>3. (SignerIsNonce /\ UsedAreBehind /\ KeyExecutesOnce)'
  BY DEF SignerInv, SignerIsNonce, UsedAreBehind, KeyExecutesOnce
<1>4. NamesNext'
  BY <1>0, <1>2 DEF SignerInv, NamesNext
<1>5. ASSUME ~overlapped' PROVE KeysSaved'
  <2>1. KeysSaved
    BY <1>5 DEF SignerInv
  <2>2. stored = s.key + 1 /\ \A t \in posted : t.key < s.key
    BY <1>0, <2>1 DEF KeysSaved, SavedPast
  <2>3. s.key \in Nat /\ \A t \in posted : t.key \in Nat
    BY <1>0 DEF SignerTypeOK, Signatures
  <2>4. \A q \in SigningPages : q # p => step[q] = "closed"
    BY <1>0, <2>1 DEF KeysSaved, OnePage
  <2>5. OnePage' /\ SavedPast'
    BY <1>2, <2>4 DEF OnePage, SavedPast
  <2>6. \A t \in posted' : t.key < stored
    BY <1>2, <2>2, <2>3
  <2>7. \A t, u \in posted' : t.key = u.key => t = u
    <3>1. \A t \in posted : t.key # s.key
      BY <2>2, <2>3
    <3> HIDE DEF s
    <3> QED
      BY <1>2, <2>1, <3>1 DEF KeysSaved
  <2>8. \A q \in SigningPages : step'[q] # "closed" => held'[q] = stored'
    BY <1>0, <1>2, <2>1 DEF KeysSaved
  <2> QED
    BY <2>1, <2>5, <2>6, <2>7, <2>8 DEF KeysSaved
<1> QED
  BY <1>1, <1>3, <1>4, <1>5 DEF SignerInv

---------------------------------------------------------------------------
(* The backend's and the chain's steps.                                    *)

LEMMA RelayKeeps ==
    ASSUME SignerInv,
           \/ \E s \in requests : Accept(s) \/ Refuse(s)
           \/ \E s \in pool : Revert(s)
           \/ UNCHANGED signerVars
    PROVE  SignerInv'
<1> USE DEF Accept, Refuse, Revert, signerVars, pageVars, chainVars
<1>1. SignerTypeOK'
  BY DEF SignerInv, SignerTypeOK
<1>2. UNCHANGED <<pageVars, chainVars, posted>>
  OBVIOUS
<1>3. (SignerIsNonce /\ NamesNext /\ UsedAreBehind /\ KeyExecutesOnce)'
  BY <1>2 DEF SignerInv, SignerIsNonce, NamesNext, UsedAreBehind, KeyExecutesOnce
<1>4. ~overlapped' => KeysSaved'
  BY <1>2 DEF SignerInv, KeysSaved, OnePage, SavedPast
<1> QED
  BY <1>1, <1>3, <1>4 DEF SignerInv

LEMMA ExecuteKeeps == ASSUME SignerInv, NEW s \in pool, Execute(s) PROVE SignerInv'
<1> USE DEF Execute, pageVars
<1>1. SignerTypeOK /\ s \in posted /\ s.key = signer /\ s.next = s.key + 1
  BY DEF SignerInv, SignerTypeOK, Valid, NamesNext
<1>2. signer' = signer + 1 /\ nonce' = nonce + 1 /\ used' = used \cup {s}
  BY <1>1
<1>3. signer \in Nat /\ \A t \in used : t.key \in Nat
  BY <1>1 DEF SignerTypeOK, Signatures
<1>4. SignerTypeOK'
  BY <1>1, <1>2 DEF SignerTypeOK
<1>5. SignerIsNonce' /\ NamesNext'
  BY <1>2 DEF SignerInv, SignerIsNonce, NamesNext
<1>6. UsedAreBehind'
  BY <1>1, <1>2, <1>3 DEF SignerInv, UsedAreBehind
<1>7. KeyExecutesOnce'
  <2>1. \A t \in used : t.key # s.key
    BY <1>1, <1>3 DEF SignerInv, UsedAreBehind
  <2> QED
    BY <1>2, <2>1 DEF SignerInv, KeyExecutesOnce
<1>8. ASSUME ~overlapped' PROVE KeysSaved'
  <2>1. KeysSaved
    BY <1>8 DEF SignerInv
  <2>2. signer' <= stored
    <3>1. s.key < stored /\ stored \in Nat
      BY <1>1, <2>1 DEF KeysSaved, SignerTypeOK
    <3> QED
      BY <1>1, <1>2, <1>3, <3>1
  <2> QED
    BY <2>1, <2>2 DEF KeysSaved, OnePage, SavedPast
<1> QED
  BY <1>4, <1>5, <1>6, <1>7, <1>8 DEF SignerInv

LEMMA SignerInvariance == SignerSpec => []SignerInv
<1>1. SignerInv /\ [SignerNext]_signerVars => SignerInv'
  BY OpenKeeps, SignOperationKeeps, SaveKeeps, DropKeeps, PostKeeps, RelayKeeps, ExecuteKeeps DEF SignerNext
<1> QED
  BY <1>1, SignerInitInv, PTL DEF SignerSpec

---------------------------------------------------------------------------
(* The theorems.                                                           *)

\* The variables always have their types.
THEOREM SignerTypeCorrect == SignerSpec => []SignerTypeOK
<1>1. SignerInv => SignerTypeOK
  BY DEF SignerInv
<1> QED
  BY <1>1, SignerInvariance, PTL

\* SigningPages that do not overlap never let two signatures by one key leave the
\* browser.
THEOREM ExposedOnce == SignerSpec => []KeyExposedOnce
<1>1. SignerInv => KeyExposedOnce
  BY DEF SignerInv, KeysSaved, KeyExposedOnce
<1> QED
  BY <1>1, SignerInvariance, PTL

\* Nor does what they have stored fall behind the chain.
THEOREM NotBehind == SignerSpec => []StoredNotBehind
<1>1. SignerInv => StoredNotBehind
  BY DEF SignerInv, KeysSaved, StoredNotBehind
<1> QED
  BY <1>1, SignerInvariance, PTL

\* However many pages overlap, a key executes one operation at most.
THEOREM ExecutesOnce == SignerSpec => []KeyExecutesOnce
<1>1. SignerInv => KeyExecutesOnce
  BY DEF SignerInv
<1> QED
  BY <1>1, SignerInvariance, PTL

\* And the wallet's nonce, which the backend sends with each message, is the index of
\* its signer.
THEOREM SignerFollows == SignerSpec => []SignerIsNonce
<1>1. SignerInv => SignerIsNonce
  BY DEF SignerInv
<1> QED
  BY <1>1, SignerInvariance, PTL

---------------------------------------------------------------------------
(* The tab.                                                                *)

\* Every wallet the browser has had.
Had == store \cup deleted

---------------------------------------------------------------------------
(* The invariant.                                                          *)

\* A function that was called from the page that is mounted belongs to it.
Belongs(fn) ==
    \/ fn = "load" /\ page \in {"dashboard", "send"}
    \/ fn \in {"reload", "delete"} /\ page = "settings"
    \/ fn \in {"count", "deploy"} /\ page = "create"
    \/ fn = "send" /\ page = "send"

\* What a function holds: wallets the browser has had, but for one that is deployed and
\* not yet saved.
Holds(c) ==
    /\ c.mounted => Belongs(c.fn)
    /\ c.listed \subseteq Had
    /\ c.fn = "delete" => c.wallet \in Had
    /\ c.fn = "send" => c.wallet \in Had \cup {Null}
    /\ c.at = "delete" => c.fn = "delete"
    /\ c.at = "put" => c.fn = "deploy" \/ (c.fn = "send" /\ c.wallet \in Ephemeral)
    /\ c.fn = "deploy" /\ c.at = "put" => c.wallet \in created \ Had
    /\ c.fn = "deploy" /\ c.at = "done" => c.wallet \in Had

CallsHold == \A s \in Slots : calls[s] # Null => Holds(calls[s])

\* Two deployments save different wallets.
Saving(s) == calls[s] # Null /\ calls[s].fn = "deploy" /\ calls[s].at = "put"
SavedApart ==
    \A r, s \in Slots : r # s /\ Saving(r) /\ Saving(s) => calls[r].wallet # calls[s].wallet

\* A page shows wallets the browser has had.
ShowsHad ==
    /\ page \in WalletPages => view.wallet \in Had \cup {Null}
    /\ page = "settings" => view.all \subseteq Had

\* The tab: its page, what runs, and the module.
TabOK ==
    /\ page \in Pages
    /\ page \in {"dashboard", "send"} => view \in WalletViews
    /\ page = "settings" => view \in SettingsViews
    /\ page = "create" => view \in CreateViews
    /\ page = "migrate" => view \in MigrateViews
    /\ calls \in [Slots -> Calls \cup {Null}]
    /\ pq \in {"none", "loading", "ready", "failed"}
    /\ ReadyIsLoaded /\ CallsHold /\ SavedApart /\ ShowsHad

\* The browser: what is stored, and what is remembered of it.
StorageOK ==
    /\ store \subseteq Addresses /\ deleted \subseteq Addresses /\ created \subseteq Addresses
    /\ active \in Addresses \cup {Null}
    /\ timers \in Nat
    /\ emptied \in BOOLEAN
    /\ ActiveWasStored
    /\ Had \subseteq created
    /\ store = {} => emptied

IInv == TabOK /\ StorageOK

---------------------------------------------------------------------------
(* Lemmas.                                                                 *)

\* A set of numbers that is not empty has a first one.
LEMMA FirstIn ==
    ASSUME NEW S, S \subseteq Nat, S # {}
    PROVE  First(S) \in S
<1>1. PICK x \in S : \A y \in S : ~(<<y, x>> \in OpToRel(<, Nat))
  BY WFMin, NatLessThanWellFounded
<1>2. ASSUME NEW y \in S PROVE x <= y
  <2>1. x \in Nat /\ y \in Nat
    BY <1>1
  <2>2. ~(y < x)
    BY <1>1, <2>1 DEF OpToRel
  <2>. QED  BY <2>1, <2>2
<1>. QED  BY <1>2 DEF First

\* What a page has when it is mounted, and what it calls.
Opening(p, c) ==
    /\ c.listed = {} /\ c.at \in {"get", "all", "list"}
    /\ \/ c.fn = "load" /\ p \in {"dashboard", "send"}
       \/ c.fn = "reload" /\ p = "settings"
       \/ c.fn = "count" /\ p = "create"

\* A page that is mounted shows nothing yet, and calls a function that holds nothing.
LEMMA Opens ==
    ASSUME NEW p \in Pages, NEW a \in Addresses \cup {Null}
    PROVE  /\ p \in {"dashboard", "send"} => InitialView(p) \in WalletViews
           /\ p = "settings" => InitialView(p) \in SettingsViews /\ InitialView(p).all = {}
           /\ p = "create" => InitialView(p) \in CreateViews
           /\ p = "migrate" => InitialView(p) \in MigrateViews
           /\ p \in WalletPages => InitialView(p).wallet = Null
           /\ p \in {"create", "migrate"} => InitialView(p).pq = "loading"
           /\ OnMount(p, a) \in Calls \cup {Null}
           /\ OnMount(p, a) # Null => Opening(p, OnMount(p, a))
<1>1. CASE p \in {"dashboard", "send"}
  <2>1. InitialView(p) = [loading |-> TRUE, wallet |-> Null, sending |-> FALSE]
    BY <1>1 DEF InitialView
  <2>2. InitialView(p) \in WalletViews /\ InitialView(p).wallet = Null
    BY <2>1 DEF WalletViews
  <2>3. OnMount(p, a) = Lookup("load", a)
    BY <1>1 DEF OnMount
  <2>4. OnMount(p, a) \in Calls /\ Opening(p, OnMount(p, a))
    BY <1>1, <2>3 DEF Lookup, Call, Calls, Functions, Awaits, Opening
  <2>. QED  BY <1>1, <2>2, <2>4
<1>2. CASE p = "settings"
  <2>1. InitialView(p) = [loading |-> TRUE, wallet |-> Null, all |-> {}]
    BY <1>2 DEF InitialView
  <2>2. InitialView(p) \in SettingsViews /\ InitialView(p).wallet = Null /\ InitialView(p).all = {}
    BY <2>1 DEF SettingsViews
  <2>3. OnMount(p, a) = Call("reload", "list", Null)
    BY <1>2 DEF OnMount
  <2>4. /\ Call("reload", "list", Null) \in Calls /\ Call("reload", "list", Null).fn = "reload"
        /\ Call("reload", "list", Null).at = "list" /\ Call("reload", "list", Null).listed = {}
    BY DEF Call, Calls, Functions, Awaits
  <2>5. OnMount(p, a) \in Calls /\ Opening(p, OnMount(p, a))
    BY <1>2, <2>3, <2>4 DEF Opening
  <2>. QED  BY <1>2, <2>2, <2>5
<1>3. CASE p = "create"
  <2>1. InitialView(p) = [step |-> "select", rotating |-> FALSE, error |-> "none", pq |-> "loading"]
    BY <1>3 DEF InitialView
  <2>2. InitialView(p) \in CreateViews /\ InitialView(p).pq = "loading"
    BY <2>1 DEF CreateViews
  <2>3. OnMount(p, a) = Call("count", "all", Null)
    BY <1>3 DEF OnMount
  <2>4. /\ Call("count", "all", Null) \in Calls /\ Call("count", "all", Null).fn = "count"
        /\ Call("count", "all", Null).at = "all" /\ Call("count", "all", Null).listed = {}
    BY DEF Call, Calls, Functions, Awaits
  <2>5. OnMount(p, a) \in Calls /\ Opening(p, OnMount(p, a))
    BY <1>3, <2>3, <2>4 DEF Opening
  <2>. QED  BY <1>3, <2>2, <2>5 DEF WalletPages
<1>4. CASE p = "migrate"
  <2>1. InitialView(p) = [pq |-> "loading", generated |-> FALSE]
    BY <1>4 DEF InitialView
  <2>2. InitialView(p) \in MigrateViews /\ InitialView(p).pq = "loading"
    BY <2>1 DEF MigrateViews
  <2>3. OnMount(p, a) = Null
    BY <1>4 DEF OnMount
  <2>. QED  BY <1>4, <2>2, <2>3 DEF WalletPages
<1>. QED  BY <1>1, <1>2, <1>3, <1>4 DEF Pages

\* The invariant holds when the tab is loaded first.
LEMMA InitIInv == Init => IInv
<1> SUFFICES ASSUME Init PROVE IInv
  OBVIOUS
<1>1. page \in Pages /\ active \in Addresses \cup {Null} /\ view = InitialView(page)
  BY DEF Init
<1>2. /\ page \in {"dashboard", "send"} => view \in WalletViews
      /\ page = "settings" => view \in SettingsViews /\ view.all = {}
      /\ page = "create" => view \in CreateViews
      /\ page = "migrate" => view \in MigrateViews
      /\ page \in WalletPages => view.wallet = Null
      /\ page \in {"create", "migrate"} => view.pq = "loading"
      /\ OnMount(page, active) \in Calls \cup {Null}
      /\ OnMount(page, active) # Null => Opening(page, OnMount(page, active))
  BY <1>1, Opens
<1>3. /\ calls \in [Slots -> Calls \cup {Null}]
      /\ \A s \in Slots : calls[s] # Null => Opening(page, calls[s])
  BY <1>2 DEF Init
<1>4. CallsHold
  BY <1>3 DEF CallsHold, Holds, Belongs, Opening
<1>5. SavedApart
  BY <1>3 DEF SavedApart, Saving, Opening
<1>6. ReadyIsLoaded /\ ShowsHad
  BY <1>2 DEF ReadyIsLoaded, ShowsHad, WalletPages
<1>7. pq \in {"none", "loading", "ready", "failed"}
  BY DEF Init
<1>8. StorageOK
  BY DEF Init, StorageOK, ActiveWasStored, Had
<1>. QED  BY <1>1, <1>2, <1>3, <1>4, <1>5, <1>6, <1>7, <1>8 DEF IInv, TabOK

\* A function goes on as c, while the wallets that the browser has had become more, but
\* for those that are about to be saved.
LEMMA GoesOn ==
    ASSUME TabOK, page' = page, Had \subseteq Had', created \subseteq created',
           NEW s \in Slots, NEW c \in Calls \cup {Null},
           calls' = [calls EXCEPT ![s] = c],
           c # Null => Holds(c)',
           \A r \in Slots \ {s} : Saving(r) =>
               calls[r].wallet \notin Had' /\ (c.fn = "deploy" /\ c.at = "put" => calls[r].wallet # c.wallet)
    PROVE  calls' \in [Slots -> Calls \cup {Null}] /\ CallsHold' /\ SavedApart'
<1>1. calls' \in [Slots -> Calls \cup {Null}] /\ calls'[s] = c /\ \A r \in Slots \ {s} : calls'[r] = calls[r]
  BY DEF TabOK
<1>2. ASSUME NEW r \in Slots, calls'[r] # Null, r # s PROVE Holds(calls[r])'
  <2>1. PICK d : d = calls[r]
    OBVIOUS
  <2>2. d # Null /\ Holds(d) /\ calls'[r] = d
    BY <1>1, <1>2, <2>1 DEF TabOK, CallsHold
  <2>3. d.fn = "deploy" /\ d.at = "put" => d.wallet \notin Had'
    BY <1>2, <2>1, <2>2 DEF Saving
  <2>4. Holds(d)'
    BY <2>2, <2>3 DEF Holds, Belongs
  <2>. QED  BY <2>2, <2>4
<1>3. CallsHold'
  BY <1>1, <1>2 DEF CallsHold
<1>4. SavedApart'
  BY <1>1 DEF TabOK, SavedApart, Saving
<1>. QED  BY <1>1, <1>3, <1>4

\* The same, while the browser's wallets stay what they are and c saves nothing new.
LEMMA CallGoesOn ==
    ASSUME TabOK, UNCHANGED <<page, store, deleted, created>>,
           NEW s \in Slots, NEW c \in Calls \cup {Null},
           calls' = [calls EXCEPT ![s] = c],
           c # Null => Holds(c) /\ ~(c.fn = "deploy" /\ c.at = "put")
    PROVE  calls' \in [Slots -> Calls \cup {Null}] /\ CallsHold' /\ SavedApart'
<1>1. calls' \in [Slots -> Calls \cup {Null}] /\ calls'[s] = c /\ \A r \in Slots \ {s} : calls'[r] = calls[r]
  BY DEF TabOK
<1>2. \A d : Holds(d)' <=> Holds(d)
  BY DEF Holds, Belongs, Had
<1>3. CallsHold'
  BY <1>1, <1>2 DEF TabOK, CallsHold
<1>4. SavedApart'
  BY <1>1 DEF TabOK, SavedApart, Saving
<1>. QED  BY <1>1, <1>3, <1>4

\* The same, for a function that returns.
LEMMA Returns ==
    ASSUME TabOK, UNCHANGED <<page, store, deleted, created>>, NEW s \in Slots, Return(s)
    PROVE  calls' \in [Slots -> Calls \cup {Null}] /\ CallsHold' /\ SavedApart'
BY CallGoesOn DEF Return

\* A free slot takes a call that is started.
LEMMA Starts ==
    ASSUME TabOK, UNCHANGED <<page, store, deleted, created>>, NEW c \in Calls, Start(c), Holds(c),
           ~(c.fn = "deploy" /\ c.at = "put")
    PROVE  calls' \in [Slots -> Calls \cup {Null}] /\ CallsHold' /\ SavedApart'
<1>1. First(FreeSlots) \in Slots
  BY FirstIn, TabAssumption DEF Start, FreeSlots
<1>. QED  BY <1>1, CallGoesOn DEF Start

\* What a function is when it waits for the next thing.
LEMMA AwaitsAs ==
    ASSUME TabOK, NEW s \in Slots, NEW c \in Calls, c = calls[s],
           NEW at \in Awaits, NEW w \in Addresses \cup {Null}, Await(s, at, w)
    PROVE  \E d \in Calls :
             /\ calls' = [calls EXCEPT ![s] = d]
             /\ d.at = at /\ d.wallet = w
             /\ d.fn = c.fn /\ d.listed = c.listed /\ d.mounted = c.mounted
<1> DEFINE d == [c EXCEPT !.at = at, !.wallet = w]
<1>1. calls' = [calls EXCEPT ![s] = d]
  BY DEF Await, TabOK
<1>2. /\ d \in Calls /\ d.at = at /\ d.wallet = w
      /\ d.fn = c.fn /\ d.listed = c.listed /\ d.mounted = c.mounted
  BY DEF Calls
<1>. QED  BY <1>1, <1>2

\* The page stays as it is.
LEMMA SamePage ==
    ASSUME TabOK, UNCHANGED mounted, Had \subseteq Had',
           calls' \in [Slots -> Calls \cup {Null}] /\ CallsHold' /\ SavedApart'
    PROVE  TabOK'
<1>1. ShowsHad'
  BY DEF TabOK, mounted, ShowsHad
<1>2. ReadyIsLoaded'
  BY DEF TabOK, mounted, ReadyIsLoaded
<1>. QED  BY <1>1, <1>2 DEF TabOK, mounted

\* The storage stays as it is.
LEMMA SameStorage ==
    ASSUME StorageOK, UNCHANGED <<storage, history, timers>>
    PROVE  StorageOK'
BY DEF StorageOK, storage, history, ActiveWasStored, Had

\* The view of a page that is mounted, and what the page calls.
LEMMA Mounts ==
    ASSUME NEW p \in Pages, NEW a \in Addresses \cup {Null}, page' = p, view' = InitialView(p)
    PROVE  /\ page' \in {"dashboard", "send"} => view' \in WalletViews
           /\ page' = "settings" => view' \in SettingsViews
           /\ page' = "create" => view' \in CreateViews
           /\ page' = "migrate" => view' \in MigrateViews
           /\ ReadyIsLoaded' /\ ShowsHad'
           /\ OnMount(p, a) \in Calls \cup {Null}
           /\ OnMount(p, a) # Null =>
                Holds(OnMount(p, a))' /\ ~(OnMount(p, a).fn = "deploy" /\ OnMount(p, a).at = "put")
<1>1. ReadyIsLoaded' /\ ShowsHad'
  BY Opens DEF ReadyIsLoaded, ShowsHad, WalletPages
<1>2. OnMount(p, a) # Null =>
          Holds(OnMount(p, a))' /\ ~(OnMount(p, a).fn = "deploy" /\ OnMount(p, a).at = "put")
  BY Opens DEF Holds, Belongs, Opening
<1>. QED  BY <1>1, <1>2, Opens

\* A function whose page is left goes on without it.
LEMMA Leaves ==
    ASSUME NEW c \in Calls, Holds(c), UNCHANGED <<store, deleted, created>>, c # Null
    PROVE  /\ Leave(c) \in Calls /\ Holds(Leave(c))'
           /\ Leave(c).fn = c.fn /\ Leave(c).at = c.at /\ Leave(c).wallet = c.wallet
<1>1. Leave(c) = [c EXCEPT !.mounted = FALSE]
  BY DEF Leave
<1>2. /\ Leave(c) \in Calls /\ ~Leave(c).mounted
      /\ Leave(c).fn = c.fn /\ Leave(c).at = c.at
      /\ Leave(c).wallet = c.wallet /\ Leave(c).listed = c.listed
  BY <1>1 DEF Calls
<1>3. Holds(Leave(c))'
  BY <1>2 DEF Holds, Had
<1>. QED  BY <1>2, <1>3

\* Going to another page leaves the functions of the old one to go on without it.
LEMMA Pushed ==
    ASSUME TabOK, active \in Addresses \cup {Null}, UNCHANGED <<store, deleted, created>>,
           NEW p \in Pages, NEW s \in Slots, Push(p, s)
    PROVE  TabOK'
<1>1. CASE p = page
  BY <1>1, Returns, SamePage DEF Push, mounted, Had
<1>2. CASE p # page
  <2>1. PICK a \in Addresses \cup {Null} : a = active
    OBVIOUS
  <2>2. /\ page' = p /\ view' = InitialView(p) /\ pq' = InitPQ(p)
        /\ calls' = [r \in Slots |-> IF r = s THEN OnMount(p, a) ELSE Leave(calls[r])]
    BY <1>2, <2>1 DEF Push
  <2>3. /\ OnMount(p, a) \in Calls \cup {Null}
        /\ OnMount(p, a) # Null => Holds(OnMount(p, a))' /\ ~(OnMount(p, a).fn = "deploy" /\ OnMount(p, a).at = "put")
    BY <2>2, Mounts
  <2>4. ASSUME NEW r \in Slots, r # s
        PROVE  \/ calls[r] = Null /\ calls'[r] = Null
               \/ /\ calls[r] # Null /\ calls'[r] \in Calls /\ Holds(calls[r])'
                  /\ calls'[r].fn = calls[r].fn /\ calls'[r].at = calls[r].at
                  /\ calls'[r].wallet = calls[r].wallet
    <3>1. PICK c : c = calls[r]
      OBVIOUS
    <3>2. calls'[r] = Leave(c)
      BY <2>2, <2>4, <3>1
    <3>3. CASE c = Null
      BY <3>1, <3>2, <3>3 DEF Leave
    <3>4. CASE c # Null
      <4>1. c \in Calls /\ Holds(c)
        BY <3>1, <3>4 DEF TabOK, CallsHold
      <4>. QED  BY <3>1, <3>2, <3>4, <4>1, Leaves
    <3>. QED  BY <3>3, <3>4
  <2>5. calls'[s] = OnMount(p, a)
    BY <2>2
  <2>6. calls' \in [Slots -> Calls \cup {Null}]
    BY <2>2, <2>3, <2>4, <2>5
  <2>7. CallsHold'
    BY <2>3, <2>4, <2>5 DEF CallsHold
  <2>8. SavedApart'
    BY <2>3, <2>4, <2>5 DEF TabOK, SavedApart, Saving
  <2>9. pq' \in {"none", "loading", "ready", "failed"}
    BY <2>2 DEF InitPQ, TabOK
  <2>. QED  BY <2>2, <2>6, <2>7, <2>8, <2>9, Mounts DEF TabOK
<1>. QED  BY <1>1, <1>2

---------------------------------------------------------------------------
(* Each step keeps the invariant.                                          *)

\* A write is carried out: only a wallet that is deployed and not yet saved, or a
\* rotating one, is put.
LEMMA WriteKeeps ==
    ASSUME IInv, NEW s \in Slots, Write(s)
    PROVE  IInv'
<1>1. PICK c \in Calls : c = calls[s] /\ c # Null /\ Holds(c)
  BY DEF Write, IInv, TabOK, CallsHold
<1>2. c.wallet \in Addresses \cup {Null} /\ c.fn \in Functions
  BY DEF Calls
<1>3. "done" \in Awaits
  BY DEF Awaits
<1>4. PICK d \in Calls :
        /\ calls' = [calls EXCEPT ![s] = d]
        /\ d.at = "done" /\ d.wallet = c.wallet
        /\ d.fn = c.fn /\ d.listed = c.listed /\ d.mounted = c.mounted
  BY <1>1, <1>2, <1>3, AwaitsAs DEF Write, IInv
<1>5. UNCHANGED mounted /\ page' = page /\ created' = created /\ active' = active /\ timers' = timers
  BY DEF Write, mounted
<1>6. CASE c.at = "put" /\ Put(c.wallet)
  <2>1. store' = store \cup {c.wallet} /\ deleted' = deleted /\ emptied' = emptied
    BY <1>6 DEF Put
  <2>2. c.wallet \in Addresses /\ c.wallet \in created
    <3>1. \/ c.fn = "deploy" /\ c.wallet \in created
          \/ c.wallet \in Had \cup {Null} /\ c.wallet \in Ephemeral
      BY <1>1, <1>6 DEF Holds
    <3>2. Ephemeral \subseteq Nat /\ Null \notin Nat
      BY TabAssumption
    <3>3. c.wallet \in created
      BY <3>1, <3>2 DEF IInv, StorageOK
    <3>. QED  BY <3>3 DEF IInv, StorageOK
  <2>3. Had' = Had \cup {c.wallet}
    BY <2>1 DEF Had
  <2>4. Holds(d)'
    BY <1>1, <1>4, <1>5, <1>6, <2>3 DEF Holds, Belongs
  <2>5. ASSUME NEW r \in Slots \ {s}, Saving(r) PROVE calls[r].wallet \notin Had'
    <3>1. calls[r].wallet \notin Had
      BY <2>5 DEF Saving, IInv, TabOK, CallsHold, Holds
    <3>2. calls[r].wallet # c.wallet
      <4>1. CASE c.fn = "deploy"
        BY <1>1, <1>6, <2>5, <4>1 DEF Saving, IInv, TabOK, SavedApart
      <4>2. CASE c.fn # "deploy"
        <5>1. c.wallet \in Had \cup {Null} /\ c.wallet \in Ephemeral
          BY <1>1, <1>6, <4>2 DEF Holds
        <5>. QED  BY <3>1, <5>1, TabAssumption
      <4>. QED  BY <4>1, <4>2
    <3>. QED  BY <2>3, <3>1, <3>2
  <2>6. TabOK'
    BY <1>4, <1>5, <2>3, <2>4, <2>5, GoesOn, SamePage DEF IInv
  <2>7. StorageOK'
    BY <1>5, <2>1, <2>2, <2>3 DEF IInv, StorageOK, ActiveWasStored, Had
  <2>. QED  BY <2>6, <2>7 DEF IInv
<1>7. CASE c.at = "delete" /\ Remove(c.wallet)
  <2>1. /\ store' = store \ {c.wallet} /\ deleted' = deleted \cup {c.wallet}
        /\ emptied' = (emptied \/ store' = {})
    BY <1>7 DEF Remove
  <2>2. c.wallet \in Had
    BY <1>1, <1>7 DEF Holds
  <2>3. Had' = Had
    BY <2>1, <2>2 DEF Had
  <2>4. Holds(d)'
    BY <1>1, <1>4, <1>5, <1>7, <2>3 DEF Holds, Belongs
  <2>5. ASSUME NEW r \in Slots \ {s}, Saving(r) PROVE calls[r].wallet \notin Had'
    BY <2>3, <2>5 DEF Saving, IInv, TabOK, CallsHold, Holds
  <2>6. TabOK'
    BY <1>4, <1>5, <2>3, <2>4, <2>5, GoesOn, SamePage DEF IInv
  <2>7. c.wallet \in Addresses
    BY <2>2 DEF IInv, StorageOK, Had
  <2>8. StorageOK'
    BY <1>5, <2>1, <2>3, <2>7 DEF IInv, StorageOK, ActiveWasStored, Had
  <2>. QED  BY <2>6, <2>8 DEF IInv
<1>. QED  BY <1>1, <1>6, <1>7 DEF Write

\* A page shows the wallet it has looked up.
LEMMA ShowingKeeps ==
    ASSUME TabOK, UNCHANGED <<store, deleted, created>>, NEW s \in Slots,
           NEW c \in Calls, c = calls[s], Holds(c), c.fn \in {"load", "reload"},
           NEW w \in Addresses \cup {Null}, w \in Had \cup {Null}, Showing(s, w)
    PROVE  TabOK' /\ page' = page
<1>1. page' = page /\ pq' = pq /\ Had' = Had
  BY DEF Showing, Had
<1>2. calls' \in [Slots -> Calls \cup {Null}] /\ CallsHold' /\ SavedApart'
  BY Returns DEF Showing
<1>3. CASE ~c.mounted
  <2>1. view' = view
    BY <1>3 DEF Showing, IfMounted
  <2>. QED  BY <1>1, <1>2, <2>1, SamePage DEF mounted
<1>4. CASE c.mounted
  <2>1. view' = [view EXCEPT !.wallet = w, !.loading = FALSE]
    BY <1>4 DEF Showing, IfMounted
  <2>2. CASE c.fn = "load"
    <3>1. page \in {"dashboard", "send"}
      BY <1>4, <2>2 DEF Holds, Belongs
    <3>2. view' \in WalletViews /\ view'.wallet = w
      BY <2>1, <3>1 DEF TabOK, WalletViews
    <3>3. ReadyIsLoaded' /\ ShowsHad'
      BY <1>1, <3>1, <3>2 DEF ReadyIsLoaded, ShowsHad
    <3>. QED  BY <1>1, <1>2, <3>1, <3>2, <3>3 DEF TabOK
  <2>3. CASE c.fn = "reload"
    <3>1. page = "settings"
      BY <1>4, <2>3 DEF Holds, Belongs
    <3>2. view' \in SettingsViews /\ view'.wallet = w /\ view'.all = view.all
      BY <2>1, <3>1 DEF TabOK, SettingsViews
    <3>3. ReadyIsLoaded' /\ ShowsHad'
      BY <1>1, <3>1, <3>2 DEF TabOK, ReadyIsLoaded, ShowsHad
    <3>. QED  BY <1>1, <1>2, <3>1, <3>2, <3>3 DEF TabOK
  <2>. QED  BY <2>2, <2>3
<1>. QED  BY <1>1, <1>3, <1>4

\* A page has what it looked up: it shows it, or without a wallet another page may be
\* opened.
LEMMA FinishKeeps ==
    ASSUME TabOK, active \in Addresses \cup {Null}, UNCHANGED <<store, deleted, created>>,
           NEW s \in Slots, calls[s] # Null, calls[s].fn \in {"load", "reload"},
           NEW w \in Addresses \cup {Null}, w \in Had \cup {Null}, Finish(s, w)
    PROVE  TabOK' /\ (w # Null => page' = page)
<1>1. PICK c \in Calls : c = calls[s] /\ Holds(c)
  BY DEF TabOK, CallsHold
<1>2. \/ w = Null /\ Push("create", s)
      \/ Showing(s, w)
  BY <1>1 DEF Finish, Show, ShowSettings
<1>3. "create" \in Pages
  BY DEF Pages
<1>. QED  BY <1>1, <1>2, <1>3, Pushed, ShowingKeeps

\* The active wallet is looked up; nobody is sent to another page by one that is there.
LEMMA LookUpKeeps ==
    ASSUME IInv, NEW s \in Slots, LookUp(s)
    PROVE  IInv' /\ page' = page
<1>1. PICK c \in Calls : c = calls[s] /\ c # Null /\ Holds(c) /\ c.fn \in {"load", "reload"} /\ c.at = "get"
  BY DEF LookUp, At, IInv, TabOK, CallsHold
<1>2. UNCHANGED <<storage, timers, history>> /\ UNCHANGED <<store, deleted, created>>
  BY DEF LookUp, storage, history
<1>3. StorageOK'
  BY <1>2, SameStorage DEF IInv
<1>4. CASE c.wallet \in store
  <2>1. c.wallet \in Addresses /\ c.wallet \in Had /\ c.wallet # Null
    BY <1>4, TabAssumption DEF IInv, StorageOK, Had
  <2>2. Finish(s, c.wallet)
    BY <1>1, <1>4 DEF LookUp
  <2>. QED  BY <1>1, <1>2, <1>3, <2>1, <2>2, FinishKeeps DEF IInv, StorageOK
<1>5. CASE c.wallet \notin store
  <2>1. Await(s, "all", Null) /\ UNCHANGED mounted
    BY <1>1, <1>5 DEF LookUp
  <2>2. PICK d \in Calls :
          /\ calls' = [calls EXCEPT ![s] = d]
          /\ d.at = "all" /\ d.wallet = Null
          /\ d.fn = c.fn /\ d.listed = c.listed /\ d.mounted = c.mounted
    BY <1>1, <2>1, AwaitsAs DEF Awaits, IInv
  <2>3. Holds(d) /\ ~(d.fn = "deploy" /\ d.at = "put")
    BY <1>1, <2>2 DEF Holds, Belongs
  <2>4. page' = page /\ Had' = Had
    BY <1>2, <2>1 DEF mounted, Had
  <2>5. TabOK'
    BY <1>2, <2>1, <2>2, <2>3, <2>4, CallGoesOn, SamePage DEF IInv
  <2>. QED  BY <1>3, <2>4, <2>5 DEF IInv
<1>. QED  BY <1>4, <1>5

\* All wallets are listed; another page is opened only if there is none.
LEMMA FallbackKeeps ==
    ASSUME IInv, NEW s \in Slots, Fallback(s)
    PROVE  IInv' /\ (page' = page \/ emptied)
<1>1. calls[s] # Null /\ calls[s].fn \in {"load", "reload"}
  BY DEF Fallback, At
<1>2. PICK w : w = IF store = {} THEN Null ELSE First(store)
  OBVIOUS
<1>3. active' = (IF w = Null THEN active ELSE w) /\ Finish(s, w)
  BY <1>2 DEF Fallback
<1>4. UNCHANGED <<store, deleted, created>> /\ emptied' = emptied /\ timers' = timers /\ Had' = Had
  BY DEF Fallback, history, Had
<1>5. store \subseteq Nat
  BY TabAssumption DEF IInv, StorageOK
<1>6. store # {} => w \in store
  BY <1>2, <1>5, FirstIn
<1>7. w \in Addresses \cup {Null} /\ w \in Had \cup {Null}
  BY <1>2, <1>6 DEF IInv, StorageOK, Had
<1>8. store # {} => w # Null
  BY <1>5, <1>6, TabAssumption
<1>9. TabOK' /\ (w # Null => page' = page)
  BY <1>1, <1>3, <1>4, <1>7, FinishKeeps DEF IInv, StorageOK
<1>10. store = {} => emptied
  BY DEF IInv, StorageOK
<1>11. StorageOK'
  BY <1>3, <1>4, <1>7 DEF IInv, StorageOK, ActiveWasStored, Had
<1>. QED  BY <1>8, <1>9, <1>10, <1>11 DEF IInv

\* The settings have listed the wallets.
LEMMA ListKeeps ==
    ASSUME IInv, NEW s \in Slots, List(s)
    PROVE  IInv'
<1>1. PICK c \in Calls : c = calls[s] /\ c # Null /\ Holds(c) /\ c.fn = "reload"
  BY DEF List, At, IInv, TabOK, CallsHold
<1>2. UNCHANGED <<storage, timers, history>> /\ UNCHANGED <<page, store, deleted, created>> /\ pq' = pq
  BY DEF List, storage, history
<1>3. StorageOK'
  BY <1>2, SameStorage DEF IInv
<1>4. store \subseteq Addresses /\ store \subseteq Had /\ Had' = Had
  BY <1>2 DEF IInv, StorageOK, Had
<1>5. active \in Addresses \cup {Null}
  BY DEF IInv, StorageOK
<1>6. PICK d : d = [Lookup("reload", active) EXCEPT !.listed = store, !.mounted = c.mounted]
  OBVIOUS
<1>7. /\ d \in Calls /\ d.fn = "reload" /\ d.at \in {"get", "all"}
      /\ d.listed = store /\ d.mounted = c.mounted
  <2>1. /\ Lookup("reload", active) \in Calls /\ Lookup("reload", active).fn = "reload"
        /\ Lookup("reload", active).at \in {"get", "all"}
    BY <1>5 DEF Lookup, Call, Calls, Functions, Awaits
  <2>. QED  BY <1>1, <1>4, <1>6, <2>1 DEF Calls
<1>8. Holds(d) /\ ~(d.fn = "deploy" /\ d.at = "put")
  BY <1>1, <1>4, <1>7 DEF Holds
<1>9. calls' = [calls EXCEPT ![s] = d]
  BY <1>1, <1>6 DEF List
<1>10. calls' \in [Slots -> Calls \cup {Null}] /\ CallsHold' /\ SavedApart'
  BY <1>2, <1>7, <1>8, <1>9, CallGoesOn DEF IInv
<1>11. CASE ~c.mounted
  <2>1. view' = view
    BY <1>1, <1>11 DEF List, IfMounted
  <2>. QED  BY <1>2, <1>3, <1>4, <1>10, <2>1, SamePage DEF IInv, mounted
<1>12. CASE c.mounted
  <2>1. page = "settings" /\ view' = [view EXCEPT !.all = store]
    BY <1>1, <1>12 DEF List, IfMounted, Holds, Belongs
  <2>2. view' \in SettingsViews /\ view'.all = store /\ view'.wallet = view.wallet
    BY <1>4, <2>1 DEF IInv, TabOK, SettingsViews
  <2>3. ReadyIsLoaded' /\ ShowsHad'
    BY <1>2, <1>4, <2>1, <2>2 DEF IInv, TabOK, ReadyIsLoaded, ShowsHad
  <2>. QED  BY <1>2, <1>3, <1>10, <2>1, <2>2, <2>3 DEF IInv, TabOK
<1>. QED  BY <1>11, <1>12

\* The rows of the settings are wallets the browser has had.
LEMMA RowsHad ==
    ASSUME IInv, NEW w \in Rows
    PROVE  page = "settings" /\ view \in SettingsViews /\ w \in Addresses /\ w \in Had /\ view.all \subseteq Had
<1>1. page = "settings" /\ w \in view.all
  BY DEF Rows
<1>2. view \in SettingsViews /\ view.all \subseteq Had
  BY <1>1 DEF IInv, TabOK, ShowsHad
<1>. QED  BY <1>1, <1>2 DEF SettingsViews

\* Another row becomes the active wallet.
LEMMA SetActiveKeeps ==
    ASSUME IInv, NEW w, SetActive(w)
    PROVE  IInv'
<1>1. w \in Rows /\ active' = w /\ Start(Call("reload", "list", Null))
  BY DEF SetActive
<1>2. /\ UNCHANGED <<page, store, deleted, created>> /\ UNCHANGED mounted
      /\ emptied' = emptied /\ timers' = timers /\ Had' = Had
  BY DEF SetActive, history, mounted, Had
<1>3. page = "settings" /\ w \in Addresses /\ w \in Had
  BY <1>1, RowsHad
<1>4. PICK c : c = Call("reload", "list", Null)
  OBVIOUS
<1>5. c \in Calls /\ c.fn = "reload" /\ c.at = "list" /\ c.listed = {}
  BY <1>4 DEF Call, Calls, Functions, Awaits
<1>6. Holds(c) /\ ~(c.fn = "deploy" /\ c.at = "put")
  BY <1>3, <1>5 DEF Holds, Belongs
<1>7. TabOK'
  BY <1>1, <1>2, <1>4, <1>5, <1>6, Starts, SamePage DEF IInv
<1>8. StorageOK'
  BY <1>1, <1>2, <1>3 DEF IInv, StorageOK, ActiveWasStored, Had
<1>. QED  BY <1>7, <1>8 DEF IInv

\* A row is to be deleted.
LEMMA DeleteKeeps ==
    ASSUME IInv, NEW w, Delete(w)
    PROVE  IInv'
<1>1. w \in Rows /\ Start([Call("delete", "delete", w) EXCEPT !.listed = view.all])
  BY DEF Delete
<1>2. /\ UNCHANGED <<page, store, deleted, created>> /\ UNCHANGED mounted
      /\ UNCHANGED <<storage, timers, history>> /\ Had' = Had
  BY DEF Delete, history, mounted, storage, Had
<1>3. page = "settings" /\ view \in SettingsViews /\ w \in Addresses /\ w \in Had /\ view.all \subseteq Had
  BY <1>1, RowsHad
<1>4. PICK c : c = [Call("delete", "delete", w) EXCEPT !.listed = view.all]
  OBVIOUS
<1>5. c \in Calls /\ c.fn = "delete" /\ c.at = "delete" /\ c.listed = view.all /\ c.wallet = w
  BY <1>3, <1>4 DEF Call, Calls, Functions, Awaits, SettingsViews
<1>6. Holds(c) /\ ~(c.fn = "deploy" /\ c.at = "put")
  BY <1>3, <1>5 DEF Holds, Belongs
<1>7. TabOK'
  BY <1>1, <1>2, <1>4, <1>5, <1>6, Starts, SamePage DEF IInv
<1>. QED  BY <1>2, <1>7, SameStorage DEF IInv

\* A wallet is deleted, and the first of the others becomes active.
LEMMA DeletedKeeps ==
    ASSUME IInv, NEW s \in Slots, Deleted(s)
    PROVE  IInv'
<1>1. PICK c \in Calls : c = calls[s] /\ c # Null /\ Holds(c) /\ c.fn = "delete"
  BY DEF Deleted, At, IInv, TabOK, CallsHold
<1>2. /\ UNCHANGED <<page, store, deleted, created>> /\ UNCHANGED mounted
      /\ emptied' = emptied /\ timers' = timers /\ Had' = Had
  BY DEF Deleted, history, mounted, Had
<1>3. PICK remaining : remaining = c.listed \ {c.wallet}
  OBVIOUS
<1>4. active' = IF remaining = {} THEN active ELSE First(remaining)
  BY <1>1, <1>3 DEF Deleted
<1>5. remaining \subseteq Had /\ remaining \subseteq Addresses
  BY <1>1, <1>3 DEF Holds, Calls
<1>6. active' = active \/ active' \in Had \cap Addresses
  BY <1>4, <1>5, FirstIn, TabAssumption
<1>7. StorageOK'
  BY <1>2, <1>6 DEF IInv, StorageOK, ActiveWasStored, Had
<1>8. PICK d : d = [Call("reload", "list", Null) EXCEPT !.mounted = c.mounted]
  OBVIOUS
<1>9. d \in Calls /\ d.fn = "reload" /\ d.at = "list" /\ d.listed = {} /\ d.mounted = c.mounted
  BY <1>1, <1>8 DEF Call, Calls, Functions, Awaits
<1>10. Holds(d) /\ ~(d.fn = "deploy" /\ d.at = "put")
  BY <1>1, <1>9 DEF Holds, Belongs
<1>11. calls' = [calls EXCEPT ![s] = d]
  BY <1>1, <1>8 DEF Deleted
<1>12. TabOK'
  BY <1>2, <1>9, <1>10, <1>11, CallGoesOn, SamePage DEF IInv
<1>. QED  BY <1>7, <1>12 DEF IInv

\* The page to create a wallet shows something else, or was left.
LEMMA CreateView ==
    ASSUME TabOK, UNCHANGED <<page, pq>>, Had \subseteq Had',
           calls' \in [Slots -> Calls \cup {Null}] /\ CallsHold' /\ SavedApart',
           view' = view \/ (page = "create" /\ view' \in CreateViews /\ view'.pq = view.pq)
    PROVE  TabOK'
<1>1. CASE view' = view
  BY <1>1, SamePage DEF mounted
<1>2. CASE page = "create" /\ view' \in CreateViews /\ view'.pq = view.pq
  <2>1. ReadyIsLoaded' /\ ShowsHad'
    BY <1>2 DEF TabOK, ReadyIsLoaded, ShowsHad, WalletPages
  <2>. QED  BY <1>2, <2>1 DEF TabOK
<1>. QED  BY <1>1, <1>2

\* The number of wallets is shown.
LEMMA CountKeeps ==
    ASSUME IInv, NEW s \in Slots, Count(s)
    PROVE  IInv'
<1>1. PICK c \in Calls : c = calls[s] /\ c # Null /\ Holds(c) /\ c.fn = "count"
  BY DEF Count, At, IInv, TabOK, CallsHold
<1>2. /\ UNCHANGED <<page, store, deleted, created>> /\ UNCHANGED <<page, pq>>
      /\ UNCHANGED <<storage, timers, history>> /\ Had' = Had /\ Return(s)
  BY DEF Count, history, storage, Had
<1>3. c.mounted => page = "create"
  BY <1>1 DEF Holds, Belongs
<1>4. PICK error \in {"none", "limit", "deploy"} :
        view' = view \/ (page = "create" /\ view' = [view EXCEPT !.error = error])
  <2>1. CASE ~c.mounted
    BY <1>1, <2>1 DEF Count, IfMounted
  <2>2. CASE c.mounted
    <3>1. view \in CreateViews
      BY <1>3, <2>2 DEF IInv, TabOK
    <3>2. view' = [view EXCEPT !.error = IF Cardinality(store) >= Limit THEN "limit" ELSE view.error]
      BY <1>1, <2>2 DEF Count, IfMounted
    <3>3. CASE Cardinality(store) >= Limit
      BY <1>3, <2>2, <3>2, <3>3
    <3>4. CASE ~(Cardinality(store) >= Limit)
      BY <1>3, <2>2, <3>1, <3>2, <3>4 DEF CreateViews
    <3>. QED  BY <3>3, <3>4
  <2>. QED  BY <2>1, <2>2
<1>5. view' = view \/ (page = "create" /\ view' \in CreateViews /\ view'.pq = view.pq)
  BY <1>4 DEF IInv, TabOK, CreateViews
<1>6. TabOK'
  BY <1>2, <1>5, Returns, CreateView DEF IInv
<1>. QED  BY <1>2, <1>6, SameStorage DEF IInv

\* A key is generated.
LEMMA GenerateKeeps ==
    ASSUME IInv, NEW rotating \in BOOLEAN, Generate(rotating)
    PROVE  IInv'
<1>1. /\ UNCHANGED <<page, store, deleted, created>> /\ UNCHANGED <<page, pq>> /\ calls' = calls
      /\ UNCHANGED <<storage, timers, history>> /\ Had' = Had
  BY DEF Generate, history, storage, Had
<1>2. page = "create" /\ view' = [view EXCEPT !.step = "keygen", !.rotating = rotating]
  BY DEF Generate, CanGenerate
<1>3. view' \in CreateViews /\ view'.pq = view.pq
  BY <1>2 DEF IInv, TabOK, CreateViews
<1>4. \A d : Holds(d)' <=> Holds(d)
  BY <1>1 DEF Holds, Belongs, Had
<1>5. calls' \in [Slots -> Calls \cup {Null}] /\ CallsHold' /\ SavedApart'
  BY <1>1, <1>4 DEF IInv, TabOK, CallsHold, SavedApart, Saving
<1>6. TabOK'
  BY <1>1, <1>2, <1>3, <1>5, CreateView DEF IInv
<1>. QED  BY <1>1, <1>6, SameStorage DEF IInv

\* A wallet is to be deployed.
LEMMA DeployKeeps ==
    ASSUME IInv, Deploy
    PROVE  IInv'
<1>1. /\ UNCHANGED <<page, store, deleted, created>> /\ UNCHANGED <<page, pq>>
      /\ UNCHANGED <<storage, timers, history>> /\ Had' = Had
  BY DEF Deploy, history, storage, Had
<1>2. page = "create" /\ view' = [view EXCEPT !.step = "deploying", !.error = "none"]
  BY DEF Deploy, CanDeploy
<1>3. view \in CreateViews /\ view' \in CreateViews /\ view'.pq = view.pq
  BY <1>2 DEF IInv, TabOK, CreateViews
<1>4. PICK c : c = [Call("deploy", "create", Null) EXCEPT !.rotating = view.rotating]
  OBVIOUS
<1>5. view.rotating \in BOOLEAN
  BY <1>3 DEF CreateViews
<1>6. c \in Calls /\ c.fn = "deploy" /\ c.at = "create" /\ c.listed = {}
  BY <1>4, <1>5 DEF Call, Calls, Functions, Awaits
<1>7. Holds(c) /\ ~(c.fn = "deploy" /\ c.at = "put")
  BY <1>2, <1>6 DEF Holds, Belongs
<1>8. Start(c)
  BY <1>4 DEF Deploy
<1>9. TabOK'
  BY <1>1, <1>2, <1>3, <1>6, <1>7, <1>8, Starts, CreateView DEF IInv
<1>. QED  BY <1>1, <1>9, SameStorage DEF IInv

\* A wallet is deployed, one that the browser never had, or that has failed.
LEMMA CreatedKeeps ==
    ASSUME IInv, NEW s \in Slots, Created(s)
    PROVE  IInv'
<1>1. PICK c \in Calls : c = calls[s] /\ c # Null /\ Holds(c) /\ c.fn = "deploy" /\ c.at = "create"
  BY DEF Created, At, IInv, TabOK, CallsHold
<1>2. /\ store' = store /\ active' = active /\ page' = page /\ pq' = pq /\ timers' = timers
      /\ deleted' = deleted /\ emptied' = emptied /\ Had' = Had
  BY DEF Created, storage, Had
<1>3. CASE \E w \in Addresses \ created : created' = created \cup {w} /\ Await(s, "put", w) /\ UNCHANGED view
  <2>1. PICK w \in Addresses \ created : created' = created \cup {w} /\ Await(s, "put", w) /\ UNCHANGED view
    BY <1>3
  <2>2. PICK d \in Calls :
          /\ calls' = [calls EXCEPT ![s] = d]
          /\ d.at = "put" /\ d.wallet = w
          /\ d.fn = c.fn /\ d.listed = c.listed /\ d.mounted = c.mounted
    BY <1>1, <2>1, AwaitsAs DEF Awaits, IInv
  <2>3. w \in created' /\ w \notin Had
    BY <2>1 DEF IInv, StorageOK
  <2>4. Holds(d)'
    BY <1>1, <1>2, <2>2, <2>3 DEF Holds, Belongs
  <2>5. ASSUME NEW r \in Slots \ {s}, Saving(r)
        PROVE  calls[r].wallet \notin Had' /\ calls[r].wallet # d.wallet
    <3>1. calls[r].wallet \in created \ Had
      BY <2>5 DEF Saving, IInv, TabOK, CallsHold, Holds
    <3>. QED  BY <1>2, <2>1, <2>2, <3>1
  <2>6. created \subseteq created'
    BY <2>1
  <2>7. TabOK'
    <3>1. calls' \in [Slots -> Calls \cup {Null}] /\ CallsHold' /\ SavedApart'
      BY <1>2, <2>2, <2>4, <2>5, <2>6, GoesOn DEF IInv
    <3>. QED  BY <1>2, <2>1, <3>1, SamePage DEF IInv, mounted
  <2>8. StorageOK'
    BY <1>2, <2>1 DEF IInv, StorageOK, ActiveWasStored, Had
  <2>. QED  BY <2>7, <2>8 DEF IInv
<1>4. CASE IfMounted(s, [view EXCEPT !.step = "keygen", !.error = "deploy"]) /\ Return(s) /\ UNCHANGED created
  <2>1. c.mounted => page = "create"
    BY <1>1 DEF Holds, Belongs
  <2>2. view' = view \/ (page = "create" /\ view' = [view EXCEPT !.step = "keygen", !.error = "deploy"])
    BY <1>1, <1>4, <2>1 DEF IfMounted
  <2>3. view' = view \/ (page = "create" /\ view' \in CreateViews /\ view'.pq = view.pq)
    BY <2>2 DEF IInv, TabOK, CreateViews
  <2>4. TabOK'
    BY <1>2, <1>4, <2>3, Returns, CreateView DEF IInv
  <2>5. StorageOK'
    BY <1>2, <1>4 DEF IInv, StorageOK, ActiveWasStored, Had
  <2>. QED  BY <2>4, <2>5 DEF IInv
<1>. QED  BY <1>3, <1>4 DEF Created

\* The wallet that was saved becomes the active one.
LEMMA SavedKeeps ==
    ASSUME IInv, NEW s \in Slots, Saved(s)
    PROVE  IInv'
<1>1. PICK c \in Calls : c = calls[s] /\ c # Null /\ Holds(c) /\ c.fn = "deploy" /\ c.at = "done"
  BY DEF Saved, At, IInv, TabOK, CallsHold
<1>2. /\ UNCHANGED <<page, store, deleted, created>> /\ UNCHANGED <<page, pq>>
      /\ emptied' = emptied /\ timers' = timers + 1 /\ Had' = Had /\ Return(s) /\ active' = c.wallet
  BY <1>1 DEF Saved, history, Had
<1>3. c.wallet \in Had
  BY <1>1 DEF Holds
<1>4. c.wallet \in Addresses
  BY <1>3 DEF IInv, StorageOK, Had
<1>5. StorageOK'
  BY <1>2, <1>3, <1>4 DEF IInv, StorageOK, ActiveWasStored, Had
<1>6. view' = view \/ (page = "create" /\ view' = [view EXCEPT !.step = "done"])
  BY <1>1 DEF Saved, IfMounted, Holds, Belongs
<1>7. view' = view \/ (page = "create" /\ view' \in CreateViews /\ view'.pq = view.pq)
  BY <1>6 DEF IInv, TabOK, CreateViews
<1>8. TabOK'
  BY <1>2, <1>7, Returns, CreateView DEF IInv
<1>. QED  BY <1>5, <1>8 DEF IInv

\* The page to send shows whether it is sending, or was left.
LEMMA SendView ==
    ASSUME TabOK, UNCHANGED <<page, pq>>, Had \subseteq Had',
           calls' \in [Slots -> Calls \cup {Null}] /\ CallsHold' /\ SavedApart',
           NEW sending \in BOOLEAN,
           view' = view \/ (page = "send" /\ view' = [view EXCEPT !.sending = sending])
    PROVE  TabOK'
<1>1. CASE view' = view
  BY <1>1, SamePage DEF mounted
<1>2. CASE page = "send" /\ view' = [view EXCEPT !.sending = sending]
  <2>1. view' \in WalletViews /\ view'.wallet = view.wallet
    BY <1>2 DEF TabOK, WalletViews
  <2>2. ReadyIsLoaded' /\ ShowsHad'
    BY <1>2, <2>1 DEF TabOK, ReadyIsLoaded, ShowsHad, WalletPages
  <2>. QED  BY <1>2, <2>1, <2>2 DEF TabOK
<1>. QED  BY <1>1, <1>2

\* Something is to be sent, with the wallet that is shown.
LEMMA SendKeeps ==
    ASSUME IInv, Send
    PROVE  IInv'
<1>1. /\ UNCHANGED <<page, store, deleted, created>> /\ UNCHANGED <<page, pq>>
      /\ UNCHANGED <<storage, timers, history>> /\ Had' = Had
  BY DEF Send, history, storage, Had
<1>2. page = "send" /\ view' = [view EXCEPT !.sending = TRUE]
  BY DEF Send, CanSend
<1>3. view \in WalletViews /\ view.wallet \in Had \cup {Null}
  BY <1>2 DEF IInv, TabOK, ShowsHad, WalletPages
<1>4. PICK c : c = Call("send", "message", view.wallet)
  OBVIOUS
<1>5. c \in Calls /\ c.fn = "send" /\ c.at = "message" /\ c.listed = {} /\ c.wallet = view.wallet
  BY <1>3, <1>4 DEF Call, Calls, Functions, Awaits, WalletViews
<1>6. Holds(c) /\ ~(c.fn = "deploy" /\ c.at = "put")
  BY <1>2, <1>3, <1>5 DEF Holds, Belongs
<1>7. Start(c)
  BY <1>4 DEF Send
<1>8. calls' \in [Slots -> Calls \cup {Null}] /\ CallsHold' /\ SavedApart'
  BY <1>1, <1>5, <1>6, <1>7, Starts DEF IInv
<1>9. TabOK'
  BY <1>1, <1>2, <1>8, SendView DEF IInv
<1>. QED  BY <1>1, <1>9, SameStorage DEF IInv

\* Sending has ended, well or not.
LEMMA SentKeeps ==
    ASSUME IInv, NEW s \in Slots, calls[s] # Null, calls[s].fn = "send", Sent(s),
           UNCHANGED <<storage, page, pq, timers, history>>
    PROVE  IInv'
<1>1. PICK c \in Calls : c = calls[s] /\ Holds(c) /\ c.fn = "send"
  BY DEF IInv, TabOK, CallsHold
<1>2. /\ UNCHANGED <<page, store, deleted, created>> /\ UNCHANGED <<page, pq>>
      /\ UNCHANGED <<storage, timers, history>> /\ Had' = Had /\ Return(s)
  BY DEF Sent, history, storage, Had
<1>3. view' = view \/ (page = "send" /\ view' = [view EXCEPT !.sending = FALSE])
  BY <1>1 DEF Sent, IfMounted, Holds, Belongs
<1>4. calls' \in [Slots -> Calls \cup {Null}] /\ CallsHold' /\ SavedApart'
  BY <1>2, Returns DEF IInv
<1>5. TabOK'
  BY <1>2, <1>3, <1>4, SendView DEF IInv
<1>. QED  BY <1>2, <1>5, SameStorage DEF IInv

\* Sending waits for the next thing: only a rotating wallet is saved.
LEMMA SendGoesOn ==
    ASSUME IInv, NEW s \in Slots, calls[s] # Null, calls[s].fn = "send",
           NEW at \in Awaits, NEW w, Await(s, at, w),
           \/ at = "put" /\ w = calls[s].wallet /\ w \in Ephemeral
           \/ at = "execute" /\ w = Null,
           UNCHANGED <<storage, page, view, pq, timers, history>>
    PROVE  IInv'
<1>1. PICK c \in Calls : c = calls[s] /\ Holds(c) /\ c.fn = "send"
  BY DEF IInv, TabOK, CallsHold
<1>2. /\ UNCHANGED <<page, store, deleted, created>> /\ UNCHANGED mounted
      /\ UNCHANGED <<storage, timers, history>> /\ Had' = Had
  BY DEF mounted, history, storage, Had
<1>3. w \in Addresses \cup {Null} /\ w \in Had \cup {Null}
  BY <1>1 DEF Holds, Calls
<1>4. PICK d \in Calls :
        /\ calls' = [calls EXCEPT ![s] = d]
        /\ d.at = at /\ d.wallet = w
        /\ d.fn = c.fn /\ d.listed = c.listed /\ d.mounted = c.mounted
  BY <1>1, <1>3, AwaitsAs DEF IInv
<1>5. Holds(d) /\ ~(d.fn = "deploy" /\ d.at = "put")
  BY <1>1, <1>3, <1>4 DEF Holds, Belongs
<1>6. TabOK'
  BY <1>2, <1>4, <1>5, CallGoesOn, SamePage DEF IInv
<1>. QED  BY <1>2, <1>6, SameStorage DEF IInv

\* The message is signed, by a rotating wallet after its next index is saved.
LEMMA SignKeeps ==
    ASSUME IInv, NEW s \in Slots, Sign(s)
    PROVE  IInv'
<1>1. calls[s] # Null /\ calls[s].fn = "send"
  BY DEF Sign, At
<1>2. UNCHANGED <<storage, page, pq, timers, history>>
  BY DEF Sign
<1>3. "put" \in Awaits /\ "execute" \in Awaits
  BY DEF Awaits
<1>4. PICK w : w = calls[s].wallet
  OBVIOUS
<1>5. CASE w \in Ephemeral /\ Await(s, "put", w) /\ UNCHANGED view
  BY <1>1, <1>2, <1>3, <1>4, <1>5, SendGoesOn
<1>6. CASE Await(s, "execute", Null) /\ UNCHANGED view
  BY <1>1, <1>2, <1>3, <1>6, SendGoesOn
<1>7. CASE Sent(s)
  BY <1>1, <1>2, <1>7, SentKeeps
<1>. QED  BY <1>4, <1>5, <1>6, <1>7 DEF Sign

\* The rotating wallet is saved.
LEMMA RotatedKeeps ==
    ASSUME IInv, NEW s \in Slots, Rotated(s)
    PROVE  IInv'
<1>1. calls[s] # Null /\ calls[s].fn = "send" /\ "execute" \in Awaits /\ Await(s, "execute", Null)
  BY DEF Rotated, At, Awaits
<1>2. UNCHANGED <<storage, page, view, pq, timers, history>>
  BY DEF Rotated, mounted
<1>. QED  BY <1>1, <1>2, SendGoesOn

\* The backend has executed the operation, or failed.
LEMMA ExecutedKeeps ==
    ASSUME IInv, NEW s \in Slots, Executed(s)
    PROVE  IInv'
<1>1. calls[s] # Null /\ calls[s].fn = "send" /\ Sent(s)
  BY DEF Executed, At
<1>. QED  BY <1>1, SentKeeps DEF Executed

---------------------------------------------------------------------------
\* The calls stay as they are, on the same page of the same browser.
LEMMA SameCalls ==
    ASSUME TabOK, calls' = calls, UNCHANGED <<page, store, deleted, created>>
    PROVE  calls' \in [Slots -> Calls \cup {Null}] /\ CallsHold' /\ SavedApart'
<1>1. \A d : Holds(d)' <=> Holds(d)
  BY DEF Holds, Belongs, Had
<1>. QED  BY <1>1 DEF TabOK, CallsHold, SavedApart, Saving

\* The module is loaded, or that fails.
LEMMA PqKeeps ==
    ASSUME IInv, PqLoads \/ PqAwaited \/ GenerateForMigration
    PROVE  IInv'
<1>1. /\ UNCHANGED <<page, store, deleted, created>> /\ calls' = calls
      /\ UNCHANGED <<storage, timers, history>> /\ Had' = Had
  BY DEF PqLoads, PqAwaited, GenerateForMigration, history, storage, Had
<1>2. calls' \in [Slots -> Calls \cup {Null}] /\ CallsHold' /\ SavedApart'
  BY <1>1, SameCalls DEF IInv
<1>3. CASE PqLoads
  <2>1. view' = view /\ pq = "loading" /\ pq' \in {"ready", "failed"}
    BY <1>3 DEF PqLoads
  <2>2. ReadyIsLoaded' /\ ShowsHad'
    BY <1>1, <2>1 DEF IInv, TabOK, ReadyIsLoaded, ShowsHad
  <2>3. TabOK'
    BY <1>1, <1>2, <2>1, <2>2 DEF IInv, TabOK
  <2>. QED  BY <1>1, <2>3, SameStorage DEF IInv
<1>4. CASE PqAwaited
  <2>1. /\ pq' = pq /\ page \in {"create", "migrate"} /\ view' = [view EXCEPT !.pq = pq]
        /\ pq = "ready" \/ (pq = "failed" /\ page = "create")
    BY <1>4 DEF PqAwaited
  <2>2. page = "create" => view' \in CreateViews /\ view'.pq = pq
    BY <2>1 DEF IInv, TabOK, CreateViews
  <2>3. page = "migrate" => view' \in MigrateViews /\ view'.pq = pq
    BY <2>1 DEF IInv, TabOK, MigrateViews
  <2>4. ReadyIsLoaded' /\ ShowsHad'
    BY <1>1, <2>1, <2>2, <2>3 DEF ReadyIsLoaded, ShowsHad, WalletPages
  <2>5. TabOK'
    BY <1>1, <1>2, <2>1, <2>2, <2>3, <2>4 DEF IInv, TabOK
  <2>. QED  BY <1>1, <2>5, SameStorage DEF IInv
<1>5. CASE GenerateForMigration
  <2>1. pq' = pq /\ page = "migrate" /\ view' = [view EXCEPT !.generated = TRUE]
    BY <1>5 DEF GenerateForMigration
  <2>2. view' \in MigrateViews /\ view'.pq = view.pq
    BY <2>1 DEF IInv, TabOK, MigrateViews
  <2>3. ReadyIsLoaded' /\ ShowsHad'
    BY <1>1, <2>1, <2>2 DEF IInv, TabOK, ReadyIsLoaded, ShowsHad, WalletPages
  <2>4. TabOK'
    BY <1>1, <1>2, <2>1, <2>2, <2>3 DEF IInv, TabOK
  <2>. QED  BY <1>1, <2>4, SameStorage DEF IInv
<1>. QED  BY <1>3, <1>4, <1>5

\* A timer of the create page fires.
LEMMA TimerKeeps ==
    ASSUME IInv, TimerFires
    PROVE  IInv'
<1>1. /\ UNCHANGED <<store, deleted, created>> /\ active' = active /\ emptied' = emptied
      /\ timers > 0 /\ timers' = timers - 1 /\ Had' = Had
  BY DEF TimerFires, storage, history, Had
<1>2. First(FreeSlots) \in Slots /\ "dashboard" \in Pages
  BY FirstIn, TabAssumption DEF TimerFires, FreeSlots, Pages
<1>3. TabOK'
  BY <1>1, <1>2, Pushed DEF TimerFires, IInv, StorageOK
<1>4. timers' \in Nat
  BY <1>1 DEF IInv, StorageOK
<1>5. StorageOK'
  BY <1>1, <1>4 DEF IInv, StorageOK, ActiveWasStored, Had
<1>. QED  BY <1>3, <1>5 DEF IInv

\* A link is followed.
LEMMA NavigateKeeps ==
    ASSUME IInv, NEW p \in Pages, Navigate(p)
    PROVE  IInv'
<1>1. UNCHANGED <<store, deleted, created>> /\ UNCHANGED <<storage, timers, history>>
  BY DEF Navigate, storage, history
<1>2. First(FreeSlots) \in Slots
  BY FirstIn, TabAssumption DEF Navigate, FreeSlots
<1>3. TabOK'
  BY <1>1, <1>2, Pushed DEF Navigate, IInv, StorageOK
<1>. QED  BY <1>1, <1>3, SameStorage DEF IInv

\* The tab is loaded anew.
LEMMA LoadKeeps ==
    ASSUME IInv, NEW a \in Addresses \cup {Null}, a # Null => a \in Had, Load(a)
    PROVE  IInv'
<1>1. PICK p \in Pages : p = page
  BY DEF IInv, TabOK
<1>2. /\ page' = p /\ view' = InitialView(p) /\ store' = store /\ deleted' = deleted
      /\ created' = created /\ active' = a /\ timers' = 0 /\ emptied' = (store = {}) /\ Had' = Had
      /\ pq' = (IF p \in PqPages THEN "loading" ELSE "none")
      /\ calls' = [s \in Slots |-> IF s = 1 THEN OnMount(p, a) ELSE Null]
  BY <1>1 DEF Load, Had
<1>3. /\ page' \in {"dashboard", "send"} => view' \in WalletViews
      /\ page' = "settings" => view' \in SettingsViews
      /\ page' = "create" => view' \in CreateViews
      /\ page' = "migrate" => view' \in MigrateViews
      /\ ReadyIsLoaded' /\ ShowsHad'
      /\ OnMount(p, a) \in Calls \cup {Null}
      /\ OnMount(p, a) # Null =>
           Holds(OnMount(p, a))' /\ ~(OnMount(p, a).fn = "deploy" /\ OnMount(p, a).at = "put")
  BY <1>2, Mounts
<1>4. calls' \in [Slots -> Calls \cup {Null}]
  BY <1>2, <1>3
<1>5. CallsHold'
  BY <1>2, <1>3 DEF CallsHold
<1>6. SavedApart'
  BY <1>2, <1>3 DEF SavedApart, Saving
<1>7. TabOK'
  BY <1>2, <1>3, <1>4, <1>5, <1>6 DEF TabOK
<1>8. StorageOK'
  BY <1>2 DEF IInv, StorageOK, ActiveWasStored, Had
<1>. QED  BY <1>7, <1>8 DEF IInv

\* The calls of this tab hold what they held, when another tab has saved a wallet that
\* none of them is about to save.
LEMMA OthersKeepCalls ==
    ASSUME TabOK, UNCHANGED <<mounted, calls>>, Had \subseteq Had', created \subseteq created',
           \A r \in Slots : Saving(r) => calls[r].wallet \notin Had'
    PROVE  TabOK'
<1>1. calls' = calls /\ page' = page
  BY DEF mounted
<1>2. ASSUME NEW r \in Slots, calls'[r] # Null PROVE Holds(calls[r])'
  <2>1. PICK d : d = calls[r]
    OBVIOUS
  <2>2. d # Null /\ Holds(d) /\ calls'[r] = d
    BY <1>1, <1>2, <2>1 DEF TabOK, CallsHold
  <2>3. d.fn = "deploy" /\ d.at = "put" => d.wallet \notin Had'
    BY <2>1, <2>2 DEF Saving
  <2>4. Holds(d)'
    BY <1>1, <2>2, <2>3 DEF Holds, Belongs
  <2>. QED  BY <2>2, <2>4
<1>3. CallsHold'
  BY <1>2 DEF CallsHold
<1>4. calls' \in [Slots -> Calls \cup {Null}] /\ SavedApart'
  BY <1>1 DEF TabOK, SavedApart, Saving
<1>. QED  BY <1>3, <1>4, SamePage

\* Another tab saves, deletes or chooses a wallet.
LEMMA OtherTabKeeps ==
    ASSUME IInv, OtherTab
    PROVE  IInv'
<1>1. UNCHANGED <<mounted, calls>> /\ timers' = timers
  BY DEF OtherTab
<1>2. ASSUME NEW r \in Slots, Saving(r) PROVE calls[r].wallet \in created \ Had
  BY <1>2 DEF Saving, IInv, TabOK, CallsHold, Holds
<1>3. CASE \E w \in Addresses \ created : Put(w) /\ created' = created \cup {w} /\ UNCHANGED active
  <2>1. PICK w \in Addresses \ created : Put(w) /\ created' = created \cup {w} /\ UNCHANGED active
    BY <1>3
  <2>2. Had' = Had \cup {w}
    BY <2>1 DEF Put, Had
  <2>3. TabOK'
    BY <1>1, <1>2, <2>1, <2>2, OthersKeepCalls DEF IInv
  <2>4. StorageOK'
    BY <1>1, <2>1, <2>2 DEF Put, IInv, StorageOK, ActiveWasStored, Had
  <2>. QED  BY <2>3, <2>4 DEF IInv
<1>4. CASE \E w \in Ephemeral \cap deleted : Put(w) /\ UNCHANGED <<active, created>>
  <2>1. PICK w \in Ephemeral \cap deleted : Put(w) /\ UNCHANGED <<active, created>>
    BY <1>4
  <2>2. Had' = Had
    BY <2>1 DEF Put, Had
  <2>3. TabOK'
    BY <1>1, <1>2, <2>1, <2>2, OthersKeepCalls DEF IInv
  <2>4. StorageOK'
    BY <1>1, <2>1, <2>2 DEF Put, IInv, StorageOK, ActiveWasStored, Had
  <2>. QED  BY <2>3, <2>4 DEF IInv
<1>5. CASE \E w \in store : Remove(w) /\ UNCHANGED <<active, created>>
  <2>1. PICK w \in store : Remove(w) /\ UNCHANGED <<active, created>>
    BY <1>5
  <2>2. Had' = Had
    BY <2>1 DEF Remove, Had
  <2>3. TabOK'
    BY <1>1, <1>2, <2>1, <2>2, OthersKeepCalls DEF IInv
  <2>4. StorageOK'
    BY <1>1, <2>1, <2>2 DEF Remove, IInv, StorageOK, ActiveWasStored, Had
  <2>. QED  BY <2>3, <2>4 DEF IInv
<1>6. CASE \E w \in store \cup deleted : active' = w /\ UNCHANGED <<store, history>>
  <2>1. PICK w \in store \cup deleted : active' = w /\ UNCHANGED <<store, history>>
    BY <1>6
  <2>2. /\ store' = store /\ deleted' = deleted /\ created' = created /\ emptied' = emptied
        /\ Had' = Had /\ w \in Had
    BY <2>1 DEF history, Had
  <2>3. TabOK'
    BY <1>1, <1>2, <2>2, OthersKeepCalls DEF IInv
  <2>4. StorageOK'
    BY <1>1, <2>1, <2>2 DEF IInv, StorageOK, ActiveWasStored, Had
  <2>. QED  BY <2>3, <2>4 DEF IInv
<1>. QED  BY <1>3, <1>4, <1>5, <1>6 DEF OtherTab

---------------------------------------------------------------------------
(* The theorems.                                                           *)

\* Every step keeps the invariant.
LEMMA NextKeeps ==
    ASSUME IInv, [Next]_vars
    PROVE  IInv'
<1>1. active \in Addresses \cup {Null} /\ (active # Null => active \in Had)
  BY DEF IInv, StorageOK, ActiveWasStored, Had
<1>2. CASE User
  <2>1. ASSUME NEW w \in Addresses, SetActive(w) \/ Delete(w) PROVE IInv'
    BY <2>1, SetActiveKeeps, DeleteKeeps
  <2>2. ASSUME NEW w \in Addresses, SwitchWallet(w) PROVE IInv'
    BY <2>2, LoadKeeps DEF SwitchWallet, Had
  <2>3. ASSUME Load(active) PROVE IInv'
    <3>1. PICK a \in Addresses \cup {Null} : a = active
      BY <1>1
    <3>. QED  BY <1>1, <2>3, <3>1, LoadKeeps
  <2>4. ASSUME NEW p \in Pages, Navigate(p) PROVE IInv'
    BY <2>4, NavigateKeeps
  <2>5. ASSUME NEW rotating \in BOOLEAN, Generate(rotating) PROVE IInv'
    BY <2>5, GenerateKeeps
  <2>6. ASSUME Deploy \/ Send \/ GenerateForMigration PROVE IInv'
    BY <2>6, DeployKeeps, SendKeeps, PqKeeps
  <2>. QED  BY <1>2, <2>1, <2>2, <2>3, <2>4, <2>5, <2>6 DEF User
<1>3. CASE \E s \in Slots : Resume(s)
  <2>1. PICK s \in Slots : Resume(s)
    BY <1>3
  <2>2. CASE Write(s) \/ LookUp(s) \/ Fallback(s) \/ List(s) \/ Deleted(s)
    BY <2>2, WriteKeeps, LookUpKeeps, FallbackKeeps, ListKeeps, DeletedKeeps
  <2>3. CASE Count(s) \/ Created(s) \/ Saved(s)
    BY <2>3, CountKeeps, CreatedKeeps, SavedKeeps
  <2>4. CASE Sign(s) \/ Rotated(s) \/ Executed(s)
    BY <2>4, SignKeeps, RotatedKeeps, ExecutedKeeps
  <2>. QED  BY <2>1, <2>2, <2>3, <2>4 DEF Resume
<1>4. CASE TimerFires \/ PqLoads \/ PqAwaited \/ OtherTab
  BY <1>4, TimerKeeps, PqKeeps, OtherTabKeeps
<1>5. CASE UNCHANGED vars
  <2>1. /\ UNCHANGED <<mounted, calls>> /\ UNCHANGED <<storage, timers, history>>
        /\ UNCHANGED <<page, store, deleted, created>> /\ Had' = Had
    BY <1>5 DEF vars, mounted, storage, history, Had
  <2>2. TabOK'
    BY <2>1, SameCalls, SamePage DEF IInv
  <2>. QED  BY <2>1, <2>2, SameStorage DEF IInv
<1>. QED  BY <1>2, <1>3, <1>4, <1>5 DEF Next

\* The invariant always holds.
THEOREM Invariance == Spec => []IInv
<1>1. IInv /\ [Next]_vars => IInv'
  BY NextKeeps
<1>. QED  BY <1>1, InitIInv, PTL DEF Spec

\* Every variable keeps its type, and each page the state of its kind, although the
\* functions of a page go on after it was left.
THEOREM TypeCorrect == Spec => []TypeOK
<1>1. IInv => TypeOK
  BY DEF IInv, TabOK, StorageOK, TypeOK
<1>. QED  BY <1>1, Invariance, PTL

\* getActiveWallet, handleDelete, handleDeploy and other tabs only make wallets active
\* that were stored.
THEOREM ActiveIsStored == Spec => []ActiveWasStored
<1>1. IInv => ActiveWasStored
  BY DEF IInv, StorageOK
<1>. QED  BY <1>1, Invariance, PTL

\* No page takes the module for loaded before it is.
THEOREM ReadyMeansLoaded == Spec => []ReadyIsLoaded
<1>1. IInv => ReadyIsLoaded
  BY DEF IInv, TabOK
<1>. QED  BY <1>1, Invariance, PTL

\* A link or a timer opens a page without ending a function.
LEMMA NobodyRedirected ==
    ASSUME TabOK, NEW p, FreeSlots # {}, Push(p, First(FreeSlots))
    PROVE  ~Redirected
<1>1. PICK s \in Slots : s = First(FreeSlots) /\ calls[s] = Null
  BY FirstIn, TabAssumption DEF FreeSlots
<1>2. CASE p = page
  BY <1>2 DEF Push, Redirected, mounted
<1>3. CASE p # page
  <2>1. ASSUME NEW r \in Slots, calls[r] # Null PROVE calls'[r].fn = calls[r].fn
    <3>1. calls[r] \in Calls /\ r # s
      BY <1>1, <2>1 DEF TabOK
    <3>2. calls'[r] = [calls[r] EXCEPT !.mounted = FALSE]
      BY <1>1, <1>3, <2>1, <3>1 DEF Push, Leave
    <3>. QED  BY <3>1, <3>2 DEF Calls
  <2>. QED  BY <2>1 DEF Redirected
<1>. QED  BY <1>2, <1>3

\* A page that finds no wallet opens the page to create one, and only after the store
\* was empty, whatever other pages and tabs did between its reads.
THEOREM RedirectsWithCause == Spec => RedirectJustified
<1>1. ASSUME IInv, [Next]_vars PROVE Redirected => emptied
  <2>1. CASE page' = page
    BY <2>1 DEF Redirected
  <2>2. ASSUME NEW s \in Slots, Resume(s) PROVE page' = page \/ emptied
    <3>1. CASE LookUp(s) \/ Fallback(s)
      BY <1>1, <3>1, LookUpKeeps, FallbackKeeps
    <3>2. CASE ~(LookUp(s) \/ Fallback(s))
      BY <2>2, <3>2 DEF Resume, Write, List, Deleted, Count, Created, Saved, Sign, Rotated, Executed, mounted
    <3>. QED  BY <3>1, <3>2
  <2>3. ASSUME NEW p \in Pages, Navigate(p) PROVE ~Redirected
    BY <1>1, <2>3, NobodyRedirected DEF Navigate, IInv
  <2>4. ASSUME TimerFires PROVE ~Redirected
    BY <1>1, <2>4, NobodyRedirected DEF TimerFires, IInv
  <2>5. ASSUME User PROVE page' = page \/ \E p \in Pages : Navigate(p)
    BY <2>5 DEF User, SetActive, Delete, SwitchWallet, Load, Generate, Deploy, Send, GenerateForMigration, mounted
  <2>6. ASSUME PqLoads \/ PqAwaited \/ OtherTab \/ UNCHANGED vars PROVE page' = page
    BY <2>6 DEF PqLoads, PqAwaited, OtherTab, mounted, vars
  <2>. QED  BY <1>1, <2>1, <2>2, <2>3, <2>4, <2>5, <2>6 DEF Next
<1>2. IInv /\ [Next]_vars => [Redirected => emptied]_vars
  BY <1>1
<1>. QED  BY <1>2, Invariance, PTL DEF Spec, RedirectJustified

---------------------------------------------------------------------------
(* What is gone.                                                           *)

\* A function goes on as c, without the wallet, or returns.
LEMMA NotHeldAfter ==
    ASSUME TabOK, NEW w, ~HeldToSend(w), page' = "send" => view'.wallet # w,
           NEW s \in Slots, NEW c \in Calls \cup {Null}, calls' = [calls EXCEPT ![s] = c],
           c # Null /\ c.fn = "send" => c.wallet # w
    PROVE  ~HeldToSend(w)'
<1>1. calls'[s] = c /\ \A r \in Slots \ {s} : calls'[r] = calls[r]
  BY DEF TabOK
<1>. QED  BY <1>1 DEF HeldToSend

\* The page is as it was for who sends, and a function goes on with what it had.
LEMMA NotHeldAwaiting ==
    ASSUME TabOK, NEW w, ~HeldToSend(w), w # Null, page' = "send" => view'.wallet # w,
           NEW s \in Slots, calls[s] # Null,
           NEW at \in Awaits, NEW v, v \in {calls[s].wallet, Null}, Await(s, at, v)
    PROVE  ~HeldToSend(w)'
<1>1. PICK c \in Calls : c = calls[s]
  BY DEF TabOK
<1>2. v \in Addresses \cup {Null}
  BY <1>1 DEF Calls
<1>3. PICK d \in Calls : calls' = [calls EXCEPT ![s] = d] /\ d.wallet = v /\ d.fn = c.fn
  BY <1>1, <1>2, AwaitsAs
<1>4. d.fn = "send" => d.wallet # w
  BY <1>1, <1>3 DEF HeldToSend
<1>. QED  BY <1>3, <1>4, NotHeldAfter

\* A function is started that does not send the wallet.
LEMMA NotHeldStarting ==
    ASSUME TabOK, NEW w, ~HeldToSend(w), page' = "send" => view'.wallet # w,
           NEW c \in Calls, Start(c), c.fn = "send" => c.wallet # w
    PROVE  ~HeldToSend(w)'
<1>1. First(FreeSlots) \in Slots
  BY FirstIn, TabAssumption DEF Start, FreeSlots
<1>. QED  BY <1>1, NotHeldAfter DEF Start

\* A page that is opened has no wallet yet, and sends none.
LEMMA NotHeldOpening ==
    ASSUME NEW w, w # Null, NEW p \in Pages, NEW a \in Addresses \cup {Null}
    PROVE  /\ p = "send" => InitialView(p).wallet # w
           /\ OnMount(p, a) \in Calls \cup {Null}
           /\ OnMount(p, a) # Null => OnMount(p, a).fn # "send"
<1>1. p = "send" => InitialView(p).wallet = Null
  BY Opens DEF WalletPages
<1>2. OnMount(p, a) \in Calls \cup {Null} /\ (OnMount(p, a) # Null => Opening(p, OnMount(p, a)))
  BY Opens
<1>3. OnMount(p, a) # Null => OnMount(p, a).fn # "send"
  BY <1>2 DEF Opening
<1>. QED  BY <1>1, <1>2, <1>3

\* Another page is opened, and functions go on without theirs.
LEMMA NotHeldPushing ==
    ASSUME TabOK, active \in Addresses \cup {Null}, NEW w, ~HeldToSend(w), w # Null,
           NEW p \in Pages, NEW s \in Slots, Push(p, s)
    PROVE  ~HeldToSend(w)'
<1>1. CASE p = page
  <2>1. Return(s) /\ page' = page /\ view' = view
    BY <1>1 DEF Push, mounted
  <2>2. page' = "send" => view'.wallet # w
    BY <2>1 DEF HeldToSend
  <2>. QED  BY <2>1, <2>2, NotHeldAfter DEF Return
<1>2. CASE p # page
  <2>1. PICK a \in Addresses \cup {Null} : a = active
    OBVIOUS
  <2>2. /\ page' = p /\ view' = InitialView(p)
        /\ calls' = [r \in Slots |-> IF r = s THEN OnMount(p, a) ELSE Leave(calls[r])]
    BY <1>2, <2>1 DEF Push
  <2>3. page' = "send" => view'.wallet # w
    BY <2>2, NotHeldOpening
  <2>4. calls'[s] # Null => calls'[s].fn # "send"
    BY <2>2, NotHeldOpening
  <2>5. ASSUME NEW r \in Slots, r # s, calls'[r] # Null, calls'[r].fn = "send" PROVE calls'[r].wallet # w
    <3>1. PICK c \in Calls \cup {Null} : c = calls[r]
      BY DEF TabOK
    <3>2. calls'[r] = Leave(c)
      BY <2>2, <2>5, <3>1
    <3>3. c # Null /\ c \in Calls
      BY <2>5, <3>2 DEF Leave
    <3>4. Leave(c) = [c EXCEPT !.mounted = FALSE]
      BY <3>3 DEF Leave
    <3>5. Leave(c).fn = c.fn /\ Leave(c).wallet = c.wallet
      BY <3>3, <3>4 DEF Calls
    <3>6. c.fn = "send" => c.wallet # w
      BY <3>1, <3>3 DEF HeldToSend
    <3>. QED  BY <2>5, <3>2, <3>5, <3>6
  <2>. QED  BY <2>3, <2>4, <2>5 DEF HeldToSend
<1>. QED  BY <1>1, <1>2

\* A page has looked up another wallet, or none.
LEMMA NotHeldFinishing ==
    ASSUME TabOK, active \in Addresses \cup {Null}, NEW w, ~HeldToSend(w), w # Null,
           NEW s \in Slots, calls[s] # Null, calls[s].fn \in {"load", "reload"},
           NEW v, v # w, Finish(s, v)
    PROVE  ~HeldToSend(w)'
<1>1. \/ v = Null /\ Push("create", s)
      \/ Showing(s, v)
  BY DEF Finish, Show, ShowSettings
<1>2. CASE Push("create", s)
  BY <1>2, NotHeldPushing DEF Pages
<1>3. CASE Showing(s, v)
  <2>1. /\ page' = page /\ Return(s)
        /\ view' = view \/ view' = [view EXCEPT !.wallet = v, !.loading = FALSE]
    BY <1>3 DEF Showing, IfMounted
  <2>2. page' = "send" => view'.wallet # w
    <3>1. page = "send" => view \in WalletViews /\ view.wallet # w
      BY DEF TabOK, HeldToSend
    <3>. QED  BY <2>1, <3>1 DEF WalletViews
  <2>. QED  BY <2>1, <2>2, NotHeldAfter DEF Return
<1>. QED  BY <1>1, <1>2, <1>3

\* What the functions of the settings and of the page to create a wallet do.
LEMMA NotHeldElsewhere ==
    ASSUME IInv, NEW w, ~HeldToSend(w), w # Null,
           NEW s \in Slots, List(s) \/ Deleted(s) \/ Count(s) \/ Created(s) \/ Saved(s)
    PROVE  ~HeldToSend(w)'
<1>1. PICK c \in Calls : c = calls[s] /\ c # Null /\ Holds(c) /\ c.fn \in {"reload", "delete", "count", "deploy"}
  BY DEF List, Deleted, Count, Created, Saved, At, IInv, TabOK, CallsHold
<1>2. page' = page /\ (page = "send" => view' = view)
  BY <1>1 DEF List, Deleted, Count, Created, Saved, IfMounted, mounted, Holds, Belongs
<1>3. page' = "send" => view'.wallet # w
  BY <1>2 DEF HeldToSend
<1>4. CASE List(s) \/ Deleted(s)
  <2>1. active \in Addresses \cup {Null} /\ store \subseteq Addresses
    BY DEF IInv, StorageOK
  <2>2. PICK d : d = IF List(s) THEN [Lookup("reload", active) EXCEPT !.listed = store, !.mounted = c.mounted]
                     ELSE [Call("reload", "list", Null) EXCEPT !.mounted = c.mounted]
    OBVIOUS
  <2>3. c.mounted \in BOOLEAN
    BY <1>1 DEF Calls
  <2>4. d \in Calls /\ d.fn = "reload"
    <3>1. /\ Lookup("reload", active) \in Calls /\ Lookup("reload", active).fn = "reload"
          /\ Call("reload", "list", Null) \in Calls /\ Call("reload", "list", Null).fn = "reload"
      BY <2>1 DEF Lookup, Call, Calls, Functions, Awaits
    <3>2. CASE List(s)
      BY <2>1, <2>2, <2>3, <3>1, <3>2 DEF Calls
    <3>3. CASE ~List(s)
      BY <2>2, <2>3, <3>1, <3>3 DEF Calls
    <3>. QED  BY <3>2, <3>3
  <2>5. calls' = [calls EXCEPT ![s] = d]
    BY <1>1, <1>4, <2>2 DEF List, Deleted, At
  <2>. QED  BY <1>3, <2>4, <2>5, NotHeldAfter DEF IInv
<1>5. CASE Count(s) \/ Saved(s)
  BY <1>3, <1>5, NotHeldAfter DEF Count, Saved, Return, IInv
<1>6. CASE Created(s)
  <2>1. CASE Return(s)
    BY <1>3, <2>1, NotHeldAfter DEF Return, IInv
  <2>2. ASSUME NEW v \in Addresses, Await(s, "put", v) PROVE ~HeldToSend(w)'
    <3>1. PICK d \in Calls : calls' = [calls EXCEPT ![s] = d] /\ d.fn = c.fn
      BY <1>1, <2>2, AwaitsAs DEF Awaits, IInv
    <3>2. d.fn # "send"
      BY <1>1, <3>1
    <3>. QED  BY <1>3, <3>1, <3>2, NotHeldAfter DEF IInv
  <2>. QED  BY <1>6, <2>1, <2>2 DEF Created
<1>. QED  BY <1>4, <1>5, <1>6

\* What is sent is what the page shows.
LEMMA NotHeldSending ==
    ASSUME IInv, NEW w, ~HeldToSend(w), w # Null, Send
    PROVE  ~HeldToSend(w)'
<1>1. page = "send" /\ page' = page /\ view \in WalletViews /\ view.wallet # w
  BY DEF Send, CanSend, IInv, TabOK, HeldToSend
<1>2. view' = [view EXCEPT !.sending = TRUE]
  BY DEF Send
<1>3. view'.wallet # w
  BY <1>1, <1>2 DEF WalletViews
<1>4. PICK c : c = Call("send", "message", view.wallet)
  OBVIOUS
<1>5. c \in Calls /\ c.wallet # w
  BY <1>1, <1>4 DEF Call, Calls, Functions, Awaits, WalletViews
<1>6. Start(c)
  BY <1>4 DEF Send
<1>. QED  BY <1>3, <1>5, <1>6, NotHeldStarting DEF IInv

\* Sending goes on with the wallet it has, or ends.
LEMMA NotHeldSent ==
    ASSUME IInv, NEW w, ~HeldToSend(w), w # Null,
           NEW s \in Slots, Sign(s) \/ Rotated(s) \/ Executed(s)
    PROVE  ~HeldToSend(w)'
<1>1. calls[s] # Null /\ page' = page
  BY DEF Sign, Rotated, Executed, At, mounted
<1>2. view' = view \/ view' = [view EXCEPT !.sending = FALSE]
  BY DEF Sign, Rotated, Executed, Sent, IfMounted, mounted
<1>3. page' = "send" => view'.wallet # w
  <2>1. page = "send" => view \in WalletViews /\ view.wallet # w
    BY DEF IInv, TabOK, HeldToSend
  <2>. QED  BY <1>1, <1>2, <2>1 DEF WalletViews
<1>4. \/ Return(s)
      \/ \E at \in {"put", "execute"}, v \in {calls[s].wallet, Null} : Await(s, at, v)
  BY DEF Sign, Rotated, Executed, Sent
<1>5. CASE Return(s)
  BY <1>3, <1>5, NotHeldAfter DEF Return, IInv
<1>6. ASSUME NEW at \in {"put", "execute"}, NEW v \in {calls[s].wallet, Null}, Await(s, at, v)
      PROVE  ~HeldToSend(w)'
  <2>1. at \in Awaits
    BY DEF Awaits
  <2>. QED  BY <1>1, <1>3, <1>6, <2>1, NotHeldAwaiting DEF IInv
<1>. QED  BY <1>4, <1>5, <1>6

\* The tab is loaded anew.
LEMMA NotHeldLoading ==
    ASSUME IInv, NEW w, w # Null, NEW a \in Addresses \cup {Null}, Load(a)
    PROVE  ~HeldToSend(w)'
<1>1. PICK p \in Pages : p = page
  BY DEF IInv, TabOK
<1>2. /\ page' = p /\ view' = InitialView(p)
      /\ calls' = [s \in Slots |-> IF s = 1 THEN OnMount(p, a) ELSE Null]
  BY <1>1 DEF Load
<1>. QED  BY <1>2, NotHeldOpening DEF HeldToSend

\* Only what is held to be sent is saved again, or a wallet the browser never had.
LEMMA WriteLeavesGone ==
    ASSUME IInv, NEW w \in Gone, w # Null, NEW s \in Slots, Write(s)
    PROVE  w \in Gone'
<1>1. PICK c \in Calls : c = calls[s] /\ c # Null /\ Holds(c)
  BY DEF Write, IInv, TabOK, CallsHold
<1>2. page' = page /\ view' = view /\ Await(s, "done", c.wallet)
  BY <1>1 DEF Write, mounted
<1>3. ~HeldToSend(w)'
  <2>1. ~HeldToSend(w)
    BY DEF Gone
  <2>2. page' = "send" => view'.wallet # w
    BY <1>2, <2>1 DEF HeldToSend
  <2>. QED  BY <1>1, <1>2, <2>1, <2>2, NotHeldAwaiting DEF Awaits, IInv
<1>4. w \in deleted /\ w \notin store /\ w \in Had /\ (c.fn = "send" => c.wallet # w)
  BY <1>1 DEF Gone, HeldToSend, Had
<1>5. c.at = "put" => c.wallet # w
  BY <1>1, <1>4 DEF Holds
<1>6. w \in deleted' /\ w \notin store'
  BY <1>1, <1>4, <1>5 DEF Write, Put, Remove
<1>. QED  BY <1>3, <1>6 DEF Gone

\* Whatever the tab does, a wallet that is gone stays so.
LEMMA StaysGone ==
    ASSUME IInv, [Next]_vars, ~OtherTab, NEW w \in Gone
    PROVE  w \in Gone'
<1>1. w \in deleted /\ w \notin store /\ ~HeldToSend(w)
  BY DEF Gone
<1>2. w # Null /\ active \in Addresses \cup {Null} /\ store \subseteq Nat
  BY <1>1, TabAssumption DEF IInv, StorageOK
<1>3. ASSUME UNCHANGED <<store, deleted>>, ~HeldToSend(w)' PROVE w \in Gone'
  BY <1>1, <1>3 DEF Gone
<1>4. CASE User
  <2>1. UNCHANGED <<store, deleted>>
    BY <1>4 DEF User, SetActive, Delete, SwitchWallet, Load, Generate, Deploy, Send,
                GenerateForMigration, Navigate, storage, history
  <2>2. ASSUME NEW v \in Addresses, SetActive(v) \/ Delete(v) PROVE ~HeldToSend(w)'
    <3>1. UNCHANGED <<page, view>> /\ page = "settings" /\ view \in SettingsViews
      BY <2>2, RowsHad DEF SetActive, Delete, mounted
    <3>2. /\ Call("reload", "list", Null) \in Calls /\ Call("reload", "list", Null).fn = "reload"
          /\ [Call("delete", "delete", v) EXCEPT !.listed = view.all] \in Calls
          /\ [Call("delete", "delete", v) EXCEPT !.listed = view.all].fn = "delete"
      BY <3>1 DEF Call, Calls, Functions, Awaits, SettingsViews
    <3>. QED  BY <1>1, <2>2, <3>1, <3>2, NotHeldStarting DEF SetActive, Delete, IInv
  <2>3. ASSUME NEW a \in Addresses \cup {Null}, Load(a) PROVE ~HeldToSend(w)'
    BY <1>2, <2>3, NotHeldLoading
  <2>4. ASSUME NEW p \in Pages, Navigate(p) PROVE ~HeldToSend(w)'
    <3>1. First(FreeSlots) \in Slots
      BY <2>4, FirstIn, TabAssumption DEF Navigate, FreeSlots
    <3>. QED  BY <1>1, <1>2, <2>4, <3>1, NotHeldPushing DEF Navigate, IInv
  <2>5. ASSUME NEW rotating \in BOOLEAN, Generate(rotating) PROVE ~HeldToSend(w)'
    BY <1>1, <2>5 DEF Generate, CanGenerate, HeldToSend
  <2>6. ASSUME Deploy PROVE ~HeldToSend(w)'
    <3>1. page = "create" /\ page' = page /\ view \in CreateViews
      BY <2>6 DEF Deploy, CanDeploy, IInv, TabOK
    <3>2. /\ [Call("deploy", "create", Null) EXCEPT !.rotating = view.rotating] \in Calls
          /\ [Call("deploy", "create", Null) EXCEPT !.rotating = view.rotating].fn = "deploy"
      BY <3>1 DEF Call, Calls, Functions, Awaits, CreateViews
    <3>. QED  BY <1>1, <2>6, <3>1, <3>2, NotHeldStarting DEF Deploy, IInv
  <2>7. ASSUME Send PROVE ~HeldToSend(w)'
    BY <1>1, <1>2, <2>7, NotHeldSending
  <2>8. ASSUME GenerateForMigration PROVE ~HeldToSend(w)'
    BY <1>1, <2>8 DEF GenerateForMigration, HeldToSend
  <2>9. ~HeldToSend(w)'
    <3>1. PICK a \in Addresses \cup {Null} : a = active
      BY <1>2
    <3>. QED  BY <1>4, <2>2, <2>3, <2>4, <2>5, <2>6, <2>7, <2>8, <3>1 DEF User, SwitchWallet
  <2>. QED  BY <1>3, <2>1, <2>9
<1>5. CASE \E s \in Slots : Resume(s)
  <2>1. PICK s \in Slots : Resume(s)
    BY <1>5
  <2>2. CASE Write(s)
    BY <1>2, <2>2, WriteLeavesGone
  <2>3. CASE ~Write(s)
    <3>1. UNCHANGED <<store, deleted>>
      BY <2>1, <2>3 DEF Resume, LookUp, Fallback, List, Deleted, Count, Created, Saved, Sign, Rotated, Executed,
                        storage, history
    <3>2. CASE LookUp(s)
      <4>1. PICK v : v = calls[s].wallet
        OBVIOUS
      <4>2. calls[s] # Null /\ calls[s].fn \in {"load", "reload"}
        BY <3>2 DEF LookUp, At
      <4>3. CASE v \in store
        <5>1. Finish(s, v) /\ v # w
          BY <1>1, <3>2, <4>1, <4>3 DEF LookUp
        <5>. QED  BY <1>1, <1>2, <1>3, <3>1, <4>2, <5>1, NotHeldFinishing DEF IInv
      <4>4. CASE v \notin store
        <5>1. Await(s, "all", Null) /\ page' = page /\ view' = view
          BY <3>2, <4>1, <4>4 DEF LookUp, mounted
        <5>2. page' = "send" => view'.wallet # w
          BY <1>1, <5>1 DEF HeldToSend
        <5>. QED  BY <1>1, <1>2, <1>3, <3>1, <4>2, <5>1, <5>2, NotHeldAwaiting DEF Awaits, IInv
      <4>. QED  BY <4>3, <4>4
    <3>3. CASE Fallback(s)
      <4>1. PICK v : v = IF store = {} THEN Null ELSE First(store)
        OBVIOUS
      <4>2. v # w
        BY <1>1, <1>2, <4>1, FirstIn
      <4>3. calls[s] # Null /\ calls[s].fn \in {"load", "reload"} /\ Finish(s, v)
        BY <3>3, <4>1 DEF Fallback, At
      <4>. QED  BY <1>1, <1>2, <1>3, <3>1, <4>2, <4>3, NotHeldFinishing DEF IInv
    <3>4. CASE List(s) \/ Deleted(s) \/ Count(s) \/ Created(s) \/ Saved(s)
      BY <1>1, <1>2, <1>3, <3>1, <3>4, NotHeldElsewhere
    <3>5. CASE Sign(s) \/ Rotated(s) \/ Executed(s)
      BY <1>1, <1>2, <1>3, <3>1, <3>5, NotHeldSent
    <3>. QED  BY <2>1, <2>3, <3>2, <3>3, <3>4, <3>5 DEF Resume
  <2>. QED  BY <2>2, <2>3
<1>6. CASE TimerFires
  <2>1. UNCHANGED <<store, deleted>> /\ Push("dashboard", First(FreeSlots)) /\ "dashboard" \in Pages
    BY <1>6 DEF TimerFires, storage, history, Pages
  <2>2. First(FreeSlots) \in Slots
    BY <1>6, FirstIn, TabAssumption DEF TimerFires, FreeSlots
  <2>. QED  BY <1>1, <1>2, <1>3, <2>1, <2>2, NotHeldPushing DEF IInv
<1>7. CASE PqLoads \/ PqAwaited \/ UNCHANGED vars
  <2>1. UNCHANGED <<store, deleted>> /\ page' = page /\ calls' = calls /\ (page = "send" => view' = view)
    BY <1>7 DEF PqLoads, PqAwaited, vars, storage, mounted, history
  <2>2. ~HeldToSend(w)'
    BY <1>1, <2>1 DEF HeldToSend
  <2>. QED  BY <1>3, <2>1, <2>2
<1>. QED  BY <1>4, <1>5, <1>6, <1>7 DEF Next

\* A deleted wallet that nothing in the tab holds to send from does not come back, however
\* long the active address, the settings and the selector still have it.
THEOREM GoneStaysGone == Spec => GoneForGood
<1>1. ASSUME IInv, [Next]_vars PROVE \A w \in Gone : w \in Gone' \/ OtherTab
  BY <1>1, StaysGone
<1>2. IInv /\ [Next]_vars => [\A w \in Gone : w \in Gone' \/ OtherTab]_vars
  BY <1>1
<1>. QED  BY <1>2, Invariance, PTL DEF Spec, GoneForGood
=============================================================================
