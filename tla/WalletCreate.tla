---------------------------- MODULE WalletCreate ----------------------------
(***************************************************************************)
(* Creating a wallet: the create page generates a key pair and deploys;    *)
(* handleCreateWallet sends the transaction, waits for its receipt, funds  *)
(* the new wallet, stores it and its deployment and answers; the page      *)
(* saves the address with the key.  After an error the page keeps its key  *)
(* pair and lets the user deploy again.                                    *)
(*                                                                         *)
(* An attempt <<p, i>> is the i-th deployment from page p.  It names the   *)
(* request, its transaction and the wallet that transaction creates, whose *)
(* key is that of the page.                                                *)
(***************************************************************************)
EXTENDS Naturals, FiniteSets

CONSTANTS
    Pages,        \* mounts of the create page, each with a key pair of its own
    None,
    MaxAttempts,  \* bound: clicks on Deploy per page
    MaxFaults     \* bound: crashes, lost replies and connections, failed writes

ASSUME CreateAssumption ==
    /\ None \notin {"deployed", "reverted", "created", "error"}
    /\ MaxAttempts \in Nat /\ MaxFaults \in Nat

Attempts == Pages \X (1..MaxAttempts)

VARIABLES
    step,        \* what each page shows
    attempts,    \* how often each page has deployed
    phase,       \* the next step of each request's handler
    answer,      \* what the handler answered, or None
    pool,        \* deployments the node has accepted
    receipt,     \* on chain: what became of each deployment, or None
    funds,       \* transfers of 1 ETH sent to each wallet
    walletRows,  \* table wallets
    txRows,      \* table transactions: the deployments
    saved,       \* IndexedDB: the wallets stored with their keys
    gaveUp,      \* history: requests whose outcome their page never learnt or kept
    unrecorded,  \* history: wallets a fault kept out of the table
    faults

pageVars == <<step, attempts, saved>>
handlerVars == <<phase, answer>>
dbVars == <<walletRows, txRows>>
chainVars == <<pool, receipt, funds>>
historyVars == <<gaveUp, unrecorded, faults>>
vars == <<pageVars, handlerVars, dbVars, chainVars, historyVars>>

Phases == {"idle", "send", "wait", "fund", "wallet", "row", "respond", "done"}
InHandler == Phases \ {"idle", "done"}

Init ==
    /\ step = [p \in Pages |-> "select"]
    /\ attempts = [p \in Pages |-> 0]
    /\ phase = [a \in Attempts |-> "idle"]
    /\ answer = [a \in Attempts |-> None]
    /\ pool = {}
    /\ receipt = [a \in Attempts |-> None]
    /\ funds = [a \in Attempts |-> 0]
    /\ walletRows = {} /\ txRows = {} /\ saved = {}
    /\ gaveUp = {} /\ unrecorded = {} /\ faults = 0

Show(p, next) == step' = [step EXCEPT ![p] = next]
Go(a, next) == phase' = [phase EXCEPT ![a] = next]
Answer(a, what) == answer' = [answer EXCEPT ![a] = what]
GiveUp(as) == gaveUp' = gaveUp \cup as
Fault == faults < MaxFaults /\ faults' = faults + 1

Current(p) == <<p, attempts[p]>>

---------------------------------------------------------------------------
(* The create page.                                                        *)

GenerateKeypair(p) ==
    /\ step[p] = "select"
    /\ Show(p, "keygen")
    /\ UNCHANGED <<attempts, saved, handlerVars, dbVars, chainVars, historyVars>>

\* Variant: the button is not disabled while a deployment is under way.
DeployTwice(p) ==
    /\ step[p] \in {"keygen", "deploying"} /\ attempts[p] < MaxAttempts
    /\ attempts' = [attempts EXCEPT ![p] = @ + 1]
    /\ Go(<<p, attempts[p] + 1>>, "send")
    /\ Show(p, "deploying")
    /\ UNCHANGED <<saved, answer, dbVars, chainVars, historyVars>>

\* handleDeploy, with the key pair the page has.
Deploy(p) ==
    /\ step[p] = "keygen" /\ attempts[p] < MaxAttempts
    /\ attempts' = [attempts EXCEPT ![p] = @ + 1]
    /\ Go(<<p, attempts[p] + 1>>, "send")
    /\ Show(p, "deploying")
    /\ UNCHANGED <<saved, answer, dbVars, chainVars, historyVars>>

\* Variant: success is shown before the key is saved.
ReceiveUnsaved(p) ==
    /\ step[p] = "deploying" /\ answer[Current(p)] # None
    /\ Show(p, IF answer[Current(p)] = "created" THEN "done" ELSE "keygen")
    /\ UNCHANGED <<attempts, saved, handlerVars, dbVars, chainVars, historyVars>>

\* The answer arrives: saveWallet comes next, or the error is shown and the
\* button is enabled again.
Receive(p) ==
    /\ step[p] = "deploying" /\ answer[Current(p)] # None
    /\ Show(p, IF answer[Current(p)] = "created" THEN "saving" ELSE "keygen")
    /\ UNCHANGED <<attempts, saved, handlerVars, dbVars, chainVars, historyVars>>

\* The connection breaks, or the server's write deadline passes before the
\* answer: fetch fails while the handler runs on.
ConnectionLost(p) ==
    /\ step[p] = "deploying" /\ Fault
    /\ GiveUp({Current(p)})
    /\ Show(p, "keygen")
    /\ UNCHANGED <<attempts, saved, handlerVars, dbVars, chainVars, unrecorded>>

\* saveWallet, setActiveAddress.
Save(p) ==
    /\ step[p] = "saving"
    /\ saved' = saved \cup {Current(p)}
    /\ Show(p, "done")
    /\ UNCHANGED <<attempts, handlerVars, dbVars, chainVars, historyVars>>

\* IndexedDB refuses: shown as a failed deployment.
SaveFails(p) ==
    /\ step[p] = "saving" /\ Fault
    /\ GiveUp({Current(p)})
    /\ Show(p, "keygen")
    /\ UNCHANGED <<attempts, saved, handlerVars, dbVars, chainVars, unrecorded>>

\* The tab is closed; a request under way is cancelled or runs on.
Close(p) ==
    /\ step[p] \notin {"done", "closed"}
    /\ GiveUp(IF step[p] \in {"deploying", "saving"} THEN {Current(p)} ELSE {})
    /\ Show(p, "closed")
    /\ UNCHANGED <<attempts, saved, handlerVars, dbVars, chainVars, unrecorded, faults>>

---------------------------------------------------------------------------
(* handleCreateWallet.                                                     *)

\* A bad request, no verify key, a failed estimate, a refused transaction.
Refuse(a) ==
    /\ phase[a] = "send"
    /\ Answer(a, "error")
    /\ Go(a, "done")
    /\ UNCHANGED <<pageVars, dbVars, chainVars, historyVars>>

Send(a) ==
    /\ phase[a] = "send"
    /\ pool' = pool \cup {a}
    /\ Go(a, "wait")
    /\ UNCHANGED <<pageVars, answer, dbVars, receipt, funds, historyVars>>

\* SendTransaction fails though the node has the transaction or will get it.
SendReplyLost(a) ==
    /\ phase[a] = "send" /\ Fault
    /\ pool' = pool \cup {a}
    /\ GiveUp({a})
    /\ Answer(a, "error")
    /\ Go(a, "done")
    /\ UNCHANGED <<pageVars, dbVars, receipt, funds, unrecorded>>

\* Variant: the page is answered before the wallet is stored.
ReceiptAnswers(a) ==
    /\ phase[a] = "wait" /\ receipt[a] = "deployed"
    /\ Answer(a, "created")
    /\ Go(a, "fund")
    /\ UNCHANGED <<pageVars, dbVars, chainVars, historyVars>>

\* The receipt names the wallet in its WalletCreated event, or it reverted.
Receipt(a) ==
    /\ phase[a] = "wait"
    /\ \/ receipt[a] = "deployed" /\ Go(a, "fund") /\ UNCHANGED answer
       \/ receipt[a] = "reverted" /\ Go(a, "done") /\ Answer(a, "error")
    /\ UNCHANGED <<pageVars, dbVars, chainVars, historyVars>>

\* Variant: the handler returns without an answer and keeps the connection.
ReceiptTimeoutSilent(a) ==
    /\ phase[a] = "wait"
    /\ GiveUp({a})
    /\ Go(a, "done")
    /\ UNCHANGED <<pageVars, answer, dbVars, chainVars, unrecorded, faults>>

\* The request's context ends first: after a minute, or because the page went.
ReceiptTimeout(a) ==
    /\ phase[a] = "wait"
    /\ GiveUp({a})
    /\ Answer(a, "error")
    /\ Go(a, "done")
    /\ UNCHANGED <<pageVars, dbVars, chainVars, unrecorded, faults>>

\* Variant: a failed transfer is tried again.
FundRetried(a) ==
    /\ phase[a] = "fund"
    /\ \/ funds' = [funds EXCEPT ![a] = @ + 1] /\ Go(a, "wallet") /\ UNCHANGED faults
       \/ Fault /\ funds' = [funds EXCEPT ![a] = @ + 1] /\ UNCHANGED phase
    /\ UNCHANGED <<pageVars, answer, dbVars, pool, receipt, gaveUp, unrecorded>>

\* SendETH of 1 ETH.  An error, after which it may still arrive, is logged.
Fund(a) ==
    /\ phase[a] = "fund"
    /\ funds' \in {funds, [funds EXCEPT ![a] = @ + 1]}
    /\ Go(a, "wallet")
    /\ UNCHANGED <<pageVars, answer, dbVars, pool, receipt, historyVars>>

\* InsertWallet; its error is logged.
InsertWallet(a) ==
    /\ phase[a] = "wallet"
    /\ \/ /\ walletRows' = walletRows \cup {a}
          /\ UNCHANGED <<unrecorded, faults>>
       \/ /\ Fault
          /\ unrecorded' = unrecorded \cup {a}
          /\ UNCHANGED walletRows
    /\ Go(a, "row")
    /\ UNCHANGED <<pageVars, answer, txRows, chainVars, gaveUp>>

\* InsertTransaction of the deployment; its error is logged.
InsertTransaction(a) ==
    /\ phase[a] = "row"
    /\ \/ txRows' = txRows \cup {a} /\ UNCHANGED faults
       \/ Fault /\ UNCHANGED txRows
    /\ Go(a, "respond")
    /\ UNCHANGED <<pageVars, answer, walletRows, chainVars, gaveUp, unrecorded>>

Respond(a) ==
    /\ phase[a] = "respond"
    /\ Answer(a, "created")
    /\ Go(a, "done")
    /\ UNCHANGED <<pageVars, dbVars, chainVars, historyVars>>

---------------------------------------------------------------------------
(* The chain, and what goes wrong.                                         *)

\* createWallet deploys and initializes a wallet, or reverts.
Mine(a) ==
    /\ pool' = pool \ {a}
    /\ \E status \in {"deployed", "reverted"} : receipt' = [receipt EXCEPT ![a] = status]
    /\ UNCHANGED <<pageVars, handlerVars, dbVars, funds, historyVars>>

\* The node loses a deployment.
Vanish(a) ==
    /\ Fault
    /\ pool' = pool \ {a}
    /\ UNCHANGED <<pageVars, handlerVars, dbVars, receipt, funds, gaveUp, unrecorded>>

\* The backend restarts: every request under way fails for its page, and a
\* deployment that was being sent may have been.
Crash ==
    /\ Fault
    /\ LET running == {a \in Attempts : phase[a] \in InHandler} IN
         /\ phase' = [a \in Attempts |-> IF a \in running THEN "done" ELSE phase[a]]
         /\ answer' = [a \in Attempts |-> IF a \in running THEN "error" ELSE answer[a]]
         /\ GiveUp(running)
         /\ unrecorded' = unrecorded \cup running
         /\ \E sent \in SUBSET {a \in running : phase[a] = "send"} : pool' = pool \cup sent
    /\ UNCHANGED <<pageVars, dbVars, receipt, funds>>

Page(p) ==
    \/ GenerateKeypair(p) \/ Deploy(p) \/ Receive(p) \/ ConnectionLost(p)
    \/ Save(p) \/ SaveFails(p) \/ Close(p)

Handler(a) ==
    \/ Refuse(a) \/ Send(a) \/ SendReplyLost(a) \/ Receipt(a) \/ ReceiptTimeout(a)
    \/ Fund(a) \/ InsertWallet(a) \/ InsertTransaction(a) \/ Respond(a)

Next ==
    \/ \E p \in Pages : Page(p)
    \/ \E a \in Attempts : Handler(a)
    \/ \E a \in pool : Mine(a) \/ Vanish(a)
    \/ Crash

Spec == Init /\ [][Next]_vars

\* A handler takes its steps, since its context ends after a minute; a page
\* handles an answer.  The node and the user need not.
Fairness ==
    /\ \A a \in Attempts : WF_vars(Handler(a))
    /\ \A p \in Pages : WF_vars(Receive(p)) /\ WF_vars(Save(p) \/ SaveFails(p))

FairSpec == Spec /\ Fairness

---------------------------------------------------------------------------
(* Properties.                                                             *)

Deployed == {a \in Attempts : receipt[a] = "deployed"}

\* The type of every variable; a page that waits or saves has an attempt, and a
\* handler is past the receipt only with a wallet.
TypeOK ==
    /\ step \in [Pages -> {"select", "keygen", "deploying", "saving", "done", "closed"}]
    /\ attempts \in [Pages -> 0..MaxAttempts]
    /\ \A p \in Pages : step[p] \in {"deploying", "saving"} => attempts[p] > 0
    /\ phase \in [Attempts -> Phases]
    /\ \A a \in Attempts :
         phase[a] \in {"fund", "wallet", "row", "respond"} => receipt[a] = "deployed"
    /\ answer \in [Attempts -> {None, "created", "error"}]
    /\ pool \subseteq Attempts
    /\ receipt \in [Attempts -> {None, "deployed", "reverted"}]
    /\ funds \in [Attempts -> Nat]
    /\ walletRows \subseteq Attempts /\ txRows \subseteq Attempts /\ saved \subseteq Attempts
    /\ gaveUp \subseteq Attempts /\ unrecorded \subseteq Attempts
    /\ faults \in 0..MaxFaults

\* The tables and the browser name only wallets that exist, whatever request,
\* retry or restart wrote them.
RowsAreWallets == walletRows \cup txRows \cup saved \subseteq Deployed

\* A wallet gets its 1 ETH at most once, even when a transfer's reply is lost.
FundedOnce == \A a \in Attempts : funds[a] <= 1 /\ (funds[a] = 1 => a \in Deployed)

\* No wallet is on chain without its key being saved or about to be, unless its
\* page was told of a failure (or closed) although the transaction got through.
NoneStranded ==
    \A a \in Deployed :
      \/ a \in saved \cup gaveUp
      \/ a = Current(a[1]) /\ step[a[1]] \in {"deploying", "saving"}

\* A key pair controls two wallets only if the page deployed again after such a
\* failure.  A signature is executed by both of them if they come to the same place
\* (SignatureUsedOnce of PQWallet).
OneWalletPerKey ==
    \A a, b \in Deployed : a[1] = b[1] => a = b \/ a \in gaveUp \/ b \in gaveUp

\* What a page has saved the backend has stored, unless a fault hit the insert:
\* the relay refuses wallets that are not in its table.
SavedIsStored == saved \subseteq walletRows \cup unrecorded

\* The user is never left waiting: each deployment ends in success or an error.
DeployEnds == \A p \in Pages : step[p] = "deploying" ~> step[p] # "deploying"
===========================================================================
