----------------------------- MODULE WalletTab -----------------------------
(***************************************************************************)
(* The pages of the wallet in one browser tab, with what they keep in      *)
(* IndexedDB and localStorage and share with other tabs.  Every access to  *)
(* IndexedDB and to the backend is awaited, and a function goes on after   *)
(* its page has been left: what it then sets of the page is lost, what it  *)
(* stores and where it navigates is not.                                   *)
(*                                                                         *)
(* A wallet is given by its address, a number; IndexedDB lists wallets in  *)
(* the order of addresses.  Keys and key indexes are EphemeralSigner's.    *)
(* The page "send" stands for the one to swap as well, whose functions     *)
(* await the same things.                                                  *)
(***************************************************************************)
EXTENDS Naturals, FiniteSets

CONSTANTS
    Addresses,   \* of wallets that may be deployed
    Ephemeral,   \* those with a rotating key
    Limit,       \* MAX_WALLETS: 3 in the code
    Null,        \* JavaScript's null and undefined
    Slots,       \* bound: functions of the tab under way at once, numbered
    OtherTabs    \* whether there are other tabs

ASSUME TabAssumption ==
    /\ Addresses \subseteq Nat /\ Ephemeral \subseteq Addresses
    /\ Limit \in Nat /\ Null \notin Nat
    /\ Slots \subseteq Nat /\ 1 \in Slots
    /\ OtherTabs \in BOOLEAN

VARIABLES
    store,       \* IndexedDB: addresses of the stored wallets
    active,      \* localStorage: ACTIVE_KEY
    page,        \* the page that is mounted
    view,        \* its React state
    calls,       \* in each slot a function under way, or Null
    timers,      \* how many timers of the page to create a wallet are running
    pq,          \* the WASM module: initPromise and wasmExports
    created,     \* history: addresses deployed
    deleted,     \* history: addresses deleted
    emptied      \* history: whether the store was empty since the tab was loaded

storage == <<store, active>>
mounted == <<page, view, pq>>
history == <<created, deleted, emptied>>
vars == <<storage, mounted, calls, timers, history>>

Pages == {"dashboard", "send", "settings", "create", "migrate"}
WalletPages == {"dashboard", "send", "settings"}
PqPages == {"send", "create", "migrate"}

First(wallets) == CHOOSE w \in wallets : \A v \in wallets : w <= v

---------------------------------------------------------------------------
(* Functions that await.  `at` is what one waits for: a read of IndexedDB  *)
(* ("get", "all"), a write ("put", "delete"), which is then "done", or an  *)
(* answer of the backend.  Reading and going on are one step; a write and  *)
(* going on are two, since the tab may be loaded anew in between.          *)

Call(fn, at, wallet) ==
    [fn |-> fn, at |-> at, wallet |-> wallet, listed |-> {}, rotating |-> FALSE, mounted |-> TRUE]

Await(s, at, wallet) == calls' = [calls EXCEPT ![s].at = at, ![s].wallet = wallet]
Return(s) == calls' = [calls EXCEPT ![s] = Null]

At(s, fn, at) == calls[s] # Null /\ calls[s].fn = fn /\ calls[s].at = at

FreeSlots == {s \in Slots : calls[s] = Null}
Start(call) == FreeSlots # {} /\ calls' = [calls EXCEPT ![First(FreeSlots)] = call]

\* What a page shows is set only while the page is there.
IfMounted(s, newView) == view' = IF calls[s].mounted THEN newView ELSE view

\* getActiveWallet begins: the active address is read at once.
Lookup(fn, addr) == IF addr # Null THEN Call(fn, "get", addr) ELSE Call(fn, "all", Null)

\* The useState values of a page, and what its effects call when it is mounted.
InitialView(p) ==
    CASE p \in {"dashboard", "send"} -> [loading |-> TRUE, wallet |-> Null, sending |-> FALSE]
      [] p = "settings" -> [loading |-> TRUE, wallet |-> Null, all |-> {}]
      [] p = "create" -> [step |-> "select", rotating |-> FALSE, error |-> "none", pq |-> "loading"]
      [] p = "migrate" -> [pq |-> "loading", generated |-> FALSE]

OnMount(p, addr) ==
    CASE p \in {"dashboard", "send"} -> Lookup("load", addr)
      [] p = "settings" -> Call("reload", "list", Null)
      [] p = "create" -> Call("count", "all", Null)
      [] p = "migrate" -> Null

\* initPQ: one promise for every caller, until the tab is loaded anew.
InitPQ(p) == IF p \in PqPages /\ pq = "none" THEN "loading" ELSE pq

Leave(call) == IF call = Null THEN Null ELSE [call EXCEPT !.mounted = FALSE]

\* router.push: nothing happens to a page that is there; otherwise the functions of
\* the page that is left go on without it.  The new page's call takes the slot s.
Push(p, s) ==
    IF p = page THEN Return(s) /\ UNCHANGED mounted
    ELSE /\ page' = p
         /\ view' = InitialView(p)
         /\ pq' = InitPQ(p)
         /\ calls' = [r \in Slots |-> IF r = s THEN OnMount(p, active) ELSE Leave(calls[r])]

Init ==
    /\ store \in SUBSET Addresses /\ Cardinality(store) <= Limit
    /\ active \in store \cup {Null}
    /\ page \in Pages
    /\ view = InitialView(page)
    /\ calls = [s \in Slots |-> IF s = 1 THEN OnMount(page, active) ELSE Null]
    /\ timers = 0
    /\ pq = IF page \in PqPages THEN "loading" ELSE "none"
    /\ created = store /\ deleted = {}
    /\ emptied = (store = {})

\* Writes to IndexedDB.
Put(w) == store' = store \cup {w} /\ UNCHANGED <<deleted, emptied>>
Remove(w) ==
    /\ store' = store \ {w}
    /\ deleted' = deleted \cup {w}
    /\ emptied' = (emptied \/ store' = {})

\* saveWallet and deleteWallet are carried out.
Write(s) ==
    /\ calls[s] # Null
    /\ \/ calls[s].at = "put" /\ Put(calls[s].wallet)
       \/ calls[s].at = "delete" /\ Remove(calls[s].wallet)
    /\ Await(s, "done", calls[s].wallet)
    /\ UNCHANGED <<active, mounted, timers, created>>

---------------------------------------------------------------------------
(* getActiveWallet and what the pages do with it.                          *)

Showing(s, w) ==
    /\ IfMounted(s, [view EXCEPT !.wallet = w, !.loading = FALSE])
    /\ Return(s) /\ UNCHANGED <<page, pq>>

\* A page of a wallet shows it, or there is none and the page to create one is opened,
\* even from a page that has been left.
Show(s, w) == IF w = Null THEN Push("create", s) ELSE Showing(s, w)

\* Variant: the settings wait for a wallet if they have listed some.
ShowSettingsOrWait(s, w) ==
    IF w = Null
    THEN IF calls[s].listed = {} THEN Push("create", s) ELSE Return(s) /\ UNCHANGED mounted
    ELSE Showing(s, w)

\* The settings open that page only if both reads found nothing.
ShowSettings(s, w) ==
    IF w = Null /\ calls[s].listed = {} THEN Push("create", s) ELSE Showing(s, w)

Finish(s, w) == IF calls[s].fn = "load" THEN Show(s, w) ELSE ShowSettings(s, w)

\* Variant: a wallet that is gone is still found, as in a cache of the store.
LookUpCached(s) ==
    /\ \E fn \in {"load", "reload"} : At(s, fn, "get")
    /\ IF calls[s].wallet \in store \cup deleted THEN Finish(s, calls[s].wallet)
       ELSE Await(s, "all", Null) /\ UNCHANGED mounted
    /\ UNCHANGED <<storage, timers, history>>

\* The active wallet is looked up; if it is gone, all are listed.
LookUp(s) ==
    /\ \E fn \in {"load", "reload"} : At(s, fn, "get")
    /\ IF calls[s].wallet \in store THEN Finish(s, calls[s].wallet)
       ELSE Await(s, "all", Null) /\ UNCHANGED mounted
    /\ UNCHANGED <<storage, timers, history>>

\* Variant: without an active wallet there is no fallback.
NoFallback(s) ==
    /\ \E fn \in {"load", "reload"} : At(s, fn, "all")
    /\ Finish(s, Null)
    /\ UNCHANGED <<storage, timers, history>>

\* The first wallet becomes the active one.
Fallback(s) ==
    /\ \E fn \in {"load", "reload"} : At(s, fn, "all")
    /\ LET w == IF store = {} THEN Null ELSE First(store) IN
       /\ active' = IF w = Null THEN active ELSE w
       /\ Finish(s, w)
    /\ UNCHANGED <<store, timers, history>>

---------------------------------------------------------------------------
(* Settings.                                                               *)

\* reload has the list and asks for the active wallet.
List(s) ==
    /\ At(s, "reload", "list")
    /\ IfMounted(s, [view EXCEPT !.all = store])
    /\ calls' = [calls EXCEPT ![s] = [Lookup("reload", active) EXCEPT !.listed = store, !.mounted = calls[s].mounted]]
    /\ UNCHANGED <<storage, page, pq, timers, history>>

\* The rows of the page, once there is a wallet.
Rows == IF page = "settings" /\ ~view.loading /\ view.wallet # Null THEN view.all ELSE {}

\* Every row but that of the active wallet has a button to make it the active one.
SetActive(w) ==
    /\ w \in Rows /\ w # view.wallet
    /\ active' = w
    /\ Start(Call("reload", "list", Null))
    /\ UNCHANGED <<store, mounted, timers, history>>

\* handleDelete of a row; it keeps the list of wallets as it is now.
Delete(w) ==
    /\ w \in Rows
    /\ Start([Call("delete", "delete", w) EXCEPT !.listed = view.all])
    /\ UNCHANGED <<storage, mounted, timers, history>>

\* The first of the others becomes active, whether or not the deleted one was, and the
\* page is loaded again.
Deleted(s) ==
    /\ At(s, "delete", "done")
    /\ LET remaining == calls[s].listed \ {calls[s].wallet} IN
       active' = IF remaining = {} THEN active ELSE First(remaining)
    /\ calls' = [calls EXCEPT ![s] = [Call("reload", "list", Null) EXCEPT !.mounted = calls[s].mounted]]
    /\ UNCHANGED <<store, mounted, timers, history>>

---------------------------------------------------------------------------
(* Create.                                                                 *)

\* The number of wallets is read when the page is mounted and only shown.
Count(s) ==
    /\ At(s, "count", "all")
    /\ IfMounted(s, [view EXCEPT !.error = IF Cardinality(store) >= Limit THEN "limit" ELSE @])
    /\ Return(s)
    /\ UNCHANGED <<storage, page, pq, timers, history>>

\* The buttons of the page.
CanGenerate(rotating) == page = "create" /\ view.step = "select" /\ (rotating \/ view.pq = "ready")
CanDeploy == page = "create" /\ view.step = "keygen"

\* handleGenerateKeypair, for a rotating key or, when the module is there, for another.
Generate(rotating) ==
    /\ CanGenerate(rotating)
    /\ view' = [view EXCEPT !.step = "keygen", !.rotating = rotating]
    /\ UNCHANGED <<storage, page, pq, calls, timers, history>>

\* handleDeploy.
Deploy ==
    /\ CanDeploy
    /\ view' = [view EXCEPT !.step = "deploying", !.error = "none"]
    /\ Start([Call("deploy", "create", Null) EXCEPT !.rotating = view.rotating])
    /\ UNCHANGED <<storage, page, pq, timers, history>>

\* Variant: the wallet is made the active one before it is saved.
CreatedActive(s) ==
    /\ At(s, "deploy", "create")
    /\ \E w \in Addresses \ created :
         /\ calls[s].rotating = (w \in Ephemeral)
         /\ created' = created \cup {w} /\ active' = w
         /\ Await(s, "put", w) /\ UNCHANGED view
    /\ UNCHANGED <<store, page, pq, timers, deleted, emptied>>

\* The backend has deployed a wallet of the kind that was asked for, which is then
\* saved, or it has failed.
Created(s) ==
    /\ At(s, "deploy", "create")
    /\ \/ \E w \in Addresses \ created :
            /\ calls[s].rotating = (w \in Ephemeral)
            /\ created' = created \cup {w}
            /\ Await(s, "put", w) /\ UNCHANGED view
       \/ /\ IfMounted(s, [view EXCEPT !.step = "keygen", !.error = "deploy"])
          /\ Return(s) /\ UNCHANGED created
    /\ UNCHANGED <<storage, page, pq, timers, deleted, emptied>>

\* Then it is the active one, and its dashboard is opened after a while.
Saved(s) ==
    /\ At(s, "deploy", "done")
    /\ active' = calls[s].wallet
    /\ IfMounted(s, [view EXCEPT !.step = "done"])
    /\ timers' = timers + 1
    /\ Return(s)
    /\ UNCHANGED <<store, page, pq, history>>

\* setTimeout, wherever the user has gone since.
TimerFires ==
    /\ timers > 0 /\ FreeSlots # {}
    /\ timers' = timers - 1
    /\ Push("dashboard", First(FreeSlots))
    /\ UNCHANGED <<storage, history>>

---------------------------------------------------------------------------
(* Send and swap.                                                          *)

\* The button, once there is a wallet and while nothing is sent.
CanSend == page = "send" /\ ~view.loading /\ ~view.sending

\* handleSend and handleSwap, with the wallet as the page has it.
Send ==
    /\ CanSend
    /\ view' = [view EXCEPT !.sending = TRUE]
    /\ Start(Call("send", "message", view.wallet))
    /\ UNCHANGED <<storage, page, pq, timers, history>>

Sent(s) == IfMounted(s, [view EXCEPT !.sending = FALSE]) /\ Return(s)

\* The backend has given the message, or failed.  A rotating wallet is saved with its
\* next index; another one signs, which fails without the module.
Sign(s) ==
    /\ At(s, "send", "message")
    /\ LET w == calls[s].wallet IN
       \/ w \in Ephemeral /\ Await(s, "put", w) /\ UNCHANGED view
       \/ w \notin Ephemeral /\ pq = "ready" /\ Await(s, "execute", Null) /\ UNCHANGED view
       \/ Sent(s)
    /\ UNCHANGED <<storage, page, pq, timers, history>>

\* The rotating wallet is saved: the signature goes to the backend.
Rotated(s) ==
    /\ At(s, "send", "done")
    /\ Await(s, "execute", Null)
    /\ UNCHANGED <<storage, mounted, timers, history>>

\* The backend has executed, or failed.
Executed(s) ==
    /\ At(s, "send", "execute")
    /\ Sent(s)
    /\ UNCHANGED <<storage, page, pq, timers, history>>

---------------------------------------------------------------------------
(* The WASM module.                                                        *)

\* It is fetched, compiled and instantiated, or that fails for good.
PqLoads ==
    /\ pq = "loading"
    /\ pq' \in {"ready", "failed"}
    /\ UNCHANGED <<storage, page, view, calls, timers, history>>

\* Variant: initPQ returns at once while another caller loads the module.
PqAwaitedByFirst ==
    /\ page \in {"create", "migrate"} /\ view.pq = "loading"
    /\ view' = [view EXCEPT !.pq = IF pq = "failed" THEN pq ELSE "ready"]
    /\ UNCHANGED <<storage, page, pq, calls, timers, history>>

\* The page hears of it; the page of a migration ignores a failure.
PqAwaited ==
    /\ page \in {"create", "migrate"} /\ view.pq = "loading"
    /\ pq = "ready" \/ (pq = "failed" /\ page = "create")
    /\ view' = [view EXCEPT !.pq = pq]
    /\ UNCHANGED <<storage, page, pq, calls, timers, history>>

\* handleGenerate of the page of a migration, which goes no further.
GenerateForMigration ==
    /\ page = "migrate" /\ view.pq = "ready" /\ pq = "ready"
    /\ view' = [view EXCEPT !.generated = TRUE]
    /\ UNCHANGED <<storage, page, pq, calls, timers, history>>

---------------------------------------------------------------------------
(* Navigation and other tabs.                                              *)

\* The tab is loaded anew, with `addr` as the active wallet: what was under way is gone.
Load(addr) ==
    /\ active' = addr
    /\ view' = InitialView(page)
    /\ pq' = IF page \in PqPages THEN "loading" ELSE "none"
    /\ calls' = [s \in Slots |-> IF s = 1 THEN OnMount(page, addr) ELSE Null]
    /\ timers' = 0
    /\ emptied' = (store = {})
    /\ UNCHANGED <<store, page, created, deleted>>

\* switchWallet of WalletSelector, which every page has.  Its list is read every two
\* seconds: it may still show a wallet that is gone.
SwitchWallet(w) == w \in store \cup deleted /\ Load(w)

\* A link of the layout or the dashboard, or the button of the selector.  No link leads
\* to the page of a migration: its address is entered.
Navigate(p) ==
    /\ p \notin {page, "migrate"} /\ FreeSlots # {}
    /\ Push(p, First(FreeSlots))
    /\ UNCHANGED <<storage, timers, history>>

\* Another tab runs the same functions: it saves a new or a rotating wallet, deletes
\* one, or makes one active that it has seen.
OtherTab ==
    /\ OtherTabs
    /\ \/ \E w \in Addresses \ created : Put(w) /\ created' = created \cup {w} /\ UNCHANGED active
       \/ \E w \in Ephemeral \cap deleted : Put(w) /\ UNCHANGED <<active, created>>
       \/ \E w \in store : Remove(w) /\ UNCHANGED <<active, created>>
       \/ \E w \in store \cup deleted : active' = w /\ UNCHANGED <<store, history>>
    /\ UNCHANGED <<mounted, calls, timers>>

---------------------------------------------------------------------------
Resume(s) ==
    \/ Write(s)
    \/ LookUp(s) \/ Fallback(s) \/ List(s) \/ Deleted(s)
    \/ Count(s) \/ Created(s) \/ Saved(s)
    \/ Sign(s) \/ Rotated(s) \/ Executed(s)

User ==
    \/ \E w \in Addresses : SetActive(w) \/ Delete(w) \/ SwitchWallet(w)
    \/ \E rotating \in BOOLEAN : Generate(rotating)
    \/ Deploy \/ Send \/ GenerateForMigration
    \/ \E p \in Pages : Navigate(p)
    \/ Load(active)

Next ==
    \/ User
    \/ \E s \in Slots : Resume(s)
    \/ TimerFires \/ PqLoads \/ PqAwaited
    \/ OtherTab

Spec == Init /\ [][Next]_vars

\* IndexedDB and the backend answer and the functions go on; the module is loaded or not.
\* The first part is WF_vars(Resume(s)), written out: Resume(s) is enabled just when a
\* function is under way in s, and takes every step it takes in `calls`.
Fairness ==
    /\ \A s \in Slots : []<>(calls[s] = Null) \/ []<><<Resume(s)>>_calls
    /\ WF_vars(PqLoads \/ PqAwaited)

FairSpec == Spec /\ Fairness

---------------------------------------------------------------------------
(* Properties.                                                             *)

\* Every variable has its type, and the page has the state that its kind of page keeps.
Functions == {"load", "reload", "delete", "count", "deploy", "send"}
Awaits == {"get", "all", "list", "put", "delete", "done", "create", "message", "execute"}
Calls == [fn : Functions, at : Awaits, wallet : Addresses \cup {Null}, listed : SUBSET Addresses,
          rotating : BOOLEAN, mounted : BOOLEAN]
WalletViews == [loading : BOOLEAN, wallet : Addresses \cup {Null}, sending : BOOLEAN]
SettingsViews == [loading : BOOLEAN, wallet : Addresses \cup {Null}, all : SUBSET Addresses]
CreateViews == [step : {"select", "keygen", "deploying", "done"}, rotating : BOOLEAN,
                error : {"none", "limit", "deploy"}, pq : {"loading", "ready", "failed"}]
MigrateViews == [pq : {"loading", "ready"}, generated : BOOLEAN]

TypeOK ==
    /\ store \subseteq Addresses /\ deleted \subseteq Addresses /\ created \subseteq Addresses
    /\ active \in Addresses \cup {Null}
    /\ page \in Pages
    /\ page \in {"dashboard", "send"} => view \in WalletViews
    /\ page = "settings" => view \in SettingsViews
    /\ page = "create" => view \in CreateViews
    /\ page = "migrate" => view \in MigrateViews
    /\ calls \in [Slots -> Calls \cup {Null}]
    /\ timers \in Nat
    /\ pq \in {"none", "loading", "ready", "failed"}
    /\ emptied \in BOOLEAN

\* What "Delete" says: a deleted wallet is not in the browser any more.  It does not
\* hold: a page to send that was mounted before, here or in another tab, saves its copy
\* of a rotating wallet with the next index.
DeletedStaysDeleted == deleted \cap store = {}

\* The page to send and handleSend are the only ones a deleted wallet comes back from: once
\* it is gone from the store and from them, no active address, list or selector that
\* still has it brings it back.
HeldToSend(w) ==
    \/ page = "send" /\ view.wallet = w
    \/ \E s \in Slots : calls[s] # Null /\ calls[s].fn = "send" /\ calls[s].wallet = w
Gone == {w \in deleted \ store : ~HeldToSend(w)}
GoneForGood == [][\A w \in Gone : w \in Gone' \/ OtherTab]_vars

\* The active address is that of a wallet that was stored, although it may have been
\* deleted since: a wallet becomes active after it is saved.
ActiveWasStored == active # Null => active \in store \cup deleted

\* Nobody is sent to the page to create a wallet while the browser has one: only if
\* the store has been empty since the tab was loaded.
Redirected ==
    /\ page # "create" /\ page' = "create"
    /\ \E s \in Slots : calls[s] # Null /\ calls'[s] # Null /\ calls[s].fn # calls'[s].fn
RedirectJustified == [][Redirected => emptied]_vars

\* A page says that the module is ready only when it is, so that generating a key
\* does not fail.
ReadyIsLoaded == page \in {"create", "migrate"} => (view.pq = "ready" => pq = "ready")

\* From some time on no page is opened and the tab is not loaded anew.
Stays == <>[][page' = page /\ ~Load(active')]_vars

\* A page that stays open does not load, deploy or wait for ever: it gets a wallet, or
\* the page to create one is opened, or knows about the module.  Two dead ends remain:
\* the settings are blank when another tab takes the last wallet away between the reads
\* of the page, and the page of a migration waits for a module that failed.
Settled ==
    CASE page \in WalletPages -> ~view.loading /\ (view.wallet # Null \/ (page = "settings" /\ OtherTabs /\ emptied))
      [] page = "create" -> view.pq # "loading" /\ view.step # "deploying"
      [] page = "migrate" -> view.pq # "loading" \/ pq = "failed"
PageSettles == Stays => []<>Settled
===========================================================================
