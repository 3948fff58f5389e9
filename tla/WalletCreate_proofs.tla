------------------------- MODULE WalletCreate_proofs -------------------------
(***************************************************************************)
(* Proofs about the creation of wallets, for any number of pages, attempts *)
(* and faults.                                                             *)
(***************************************************************************)
EXTENDS WalletCreate, TLAPS

\* A transaction is with its handler, in the pool, or mined; attempts that the
\* page has not made are idle.
Placed ==
    /\ \A a \in Attempts : phase[a] \in {"idle", "send"} => a \notin pool /\ receipt[a] = None
    /\ \A a \in pool : receipt[a] = None
    /\ \A a \in Attempts : a[2] > attempts[a[1]] => phase[a] = "idle"

\* A handler funds its wallet once, on its way past the receipt.
Funding ==
    /\ \A a \in Attempts : phase[a] \in {"idle", "send", "wait", "fund"} => funds[a] = 0
    /\ FundedOnce

\* What an answer means.
Answers ==
    /\ \A a \in Attempts : phase[a] # "done" => answer[a] = None
    /\ \A a \in Attempts :
         answer[a] = "created" => receipt[a] = "deployed" /\ a \in walletRows \cup unrecorded
    /\ \A a \in Attempts :
         answer[a] = "error" => a \in gaveUp \/ (a \notin pool /\ receipt[a] # "deployed")

\* The insert is behind a handler that answers next, and in front of the page.
Stored ==
    /\ \A a \in Attempts : phase[a] \in {"row", "respond"} => a \in walletRows \cup unrecorded
    /\ \A p \in Pages : step[p] = "saving" => answer[Current(p)] = "created"
    /\ SavedIsStored

\* A page saves its last attempt, and is done.
SavedLast == \A a \in saved : a = Current(a[1]) /\ step[a[1]] = "done"

\* Whatever is under way or on chain, and was not given up or saved, is what its
\* page is waiting for or saving.
InProgress ==
    \A a \in Attempts :
      (phase[a] \in InHandler \/ a \in pool \/ receipt[a] = "deployed")
        => \/ a \in saved \cup gaveUp
           \/ a = Current(a[1]) /\ step[a[1]] \in {"deploying", "saving"}

\* The inductive invariant.
IInv ==
    /\ TypeOK
    /\ Placed
    /\ Funding
    /\ Answers
    /\ Stored
    /\ RowsAreWallets
    /\ SavedLast
    /\ InProgress

LEMMA Pairs ==
    /\ \A a \in Attempts : a[1] \in Pages /\ a[2] \in 1..MaxAttempts /\ a = <<a[1], a[2]>>
    /\ \A p \in Pages, i \in 1..MaxAttempts : <<p, i>> \in Attempts
BY DEF Attempts

LEMMA CurrentIs ==
    ASSUME TypeOK
    PROVE  \A p \in Pages :
             /\ Current(p)[1] = p /\ Current(p)[2] = attempts[p]
             /\ step[p] \in {"deploying", "saving"} => Current(p) \in Attempts
BY CreateAssumption, Pairs DEF TypeOK, Current

LEMMA InitInv == Init => IInv
<1> SUFFICES ASSUME Init PROVE IInv
  OBVIOUS
<1> USE CreateAssumption DEF Init
<1>1. TypeOK
  BY DEF TypeOK, Phases
<1>2. Placed /\ Funding /\ RowsAreWallets
  BY DEF Placed, Funding, FundedOnce, RowsAreWallets
<1>3. Answers /\ Stored /\ SavedLast /\ InProgress
  BY DEF Answers, Stored, SavedIsStored, SavedLast, InProgress, InHandler
<1> QED
  BY <1>1, <1>2, <1>3 DEF IInv

---------------------------------------------------------------------------
(* The page.                                                               *)

\* A page's steps, Deploy apart, change what it shows, what it gave up and what
\* it has saved.
LEMMA PageKeeps ==
    ASSUME IInv, TypeOK', NEW p \in Pages, NEW next, step' = [step EXCEPT ![p] = next],
           UNCHANGED <<attempts, handlerVars, dbVars, chainVars, unrecorded>>,
           gaveUp \subseteq gaveUp', saved \subseteq saved',
           saved' \subseteq saved \cup {Current(p)},
           saved' # saved => step[p] = "saving" /\ next = "done",
           step[p] \notin {"done", "closed"},
           next = "saving" => answer[Current(p)] = "created",
           next \notin {"deploying", "saving"} =>
             \/ step[p] \notin {"deploying", "saving"}
             \/ Current(p) \in saved' \cup gaveUp'
             \/ step[p] = "deploying" /\ answer[Current(p)] = "error"
    PROVE  IInv'
<1> USE DEF handlerVars, dbVars, chainVars
<1>0. TypeOK
  BY DEF IInv
<1>1. /\ \A q \in Pages : step'[q] = IF q = p THEN next ELSE step[q]
      /\ \A q \in Pages : Current(q)' = Current(q)
      /\ next \in {"select", "keygen", "deploying", "saving", "done", "closed"}
  <2>1. step \in [Pages -> {"select", "keygen", "deploying", "saving", "done", "closed"}]
    BY <1>0 DEF TypeOK
  <2>2. step' \in [Pages -> {"select", "keygen", "deploying", "saving", "done", "closed"}]
    BY DEF TypeOK
  <2> QED
    BY <2>1, <2>2 DEF Current
<1>2. Placed' /\ Funding'
  BY DEF IInv, Placed, Funding, FundedOnce, Deployed
<1>3. Answers'
  BY DEF IInv, Answers
<1>4. step[p] = "saving" => /\ Current(p) \in Attempts /\ answer[Current(p)] = "created"
                            /\ receipt[Current(p)] = "deployed"
                            /\ Current(p) \in walletRows \cup unrecorded
  BY <1>0, CurrentIs DEF IInv, Stored, Answers
<1>5. Stored' /\ RowsAreWallets'
  BY <1>1, <1>4 DEF IInv, Stored, SavedIsStored, RowsAreWallets, Deployed
<1>6. SavedLast'
  <2>1. \A a \in saved : a \in Attempts /\ a[1] \in Pages /\ a[1] # p
    BY <1>0, Pairs DEF IInv, SavedLast, TypeOK
  <2>2. \A a \in saved : a = Current(a[1])' /\ step'[a[1]] = "done"
    BY <1>1, <2>1 DEF IInv, SavedLast
  <2>3. saved' # saved => Current(p)[1] = p /\ step'[p] = "done" /\ Current(p)' = Current(p)
    BY <1>0, <1>1, CurrentIs
  <2> QED
    BY <2>2, <2>3 DEF SavedLast
<1>7. InProgress'
  <2> SUFFICES ASSUME NEW a \in Attempts,
                      phase[a] \in InHandler \/ a \in pool \/ receipt[a] = "deployed",
                      a \notin saved' \cup gaveUp'
               PROVE  a = Current(a[1])' /\ step'[a[1]] \in {"deploying", "saving"}
    BY DEF InProgress
  <2>1. a[1] \in Pages /\ a = Current(a[1]) /\ step[a[1]] \in {"deploying", "saving"}
    BY Pairs DEF IInv, InProgress
  <2>2. CASE a[1] # p
    BY <1>1, <2>1, <2>2
  <2>3. CASE a[1] = p
    <3>1. answer[a] # "error"
      <4>1. phase[a] \in InHandler => answer[a] = None
        BY DEF IInv, Answers, InHandler
      <4> QED
        BY <4>1, CreateAssumption DEF IInv, Answers
    <3>2. next \in {"deploying", "saving"}
      BY <2>1, <2>3, <3>1
    <3> QED
      BY <1>1, <2>1, <2>3, <3>2
  <2> QED
    BY <2>2, <2>3
<1> QED
  BY <1>2, <1>3, <1>5, <1>6, <1>7 DEF IInv

LEMMA PageStepKeeps ==
    ASSUME IInv, NEW p \in Pages,
           \/ GenerateKeypair(p) \/ Receive(p) \/ ConnectionLost(p)
           \/ Save(p) \/ SaveFails(p) \/ Close(p)
    PROVE  IInv'
<1> USE CreateAssumption
<1>0. TypeOK
  BY DEF IInv
<1>1. UNCHANGED <<attempts, handlerVars, dbVars, chainVars, unrecorded>>
  BY DEF GenerateKeypair, Receive, ConnectionLost, Save, SaveFails, Close, historyVars
<1>2. faults' \in 0..MaxFaults
  BY <1>0 DEF GenerateKeypair, Receive, ConnectionLost, Save, SaveFails, Close, historyVars,
              Fault, TypeOK
<1>3. step[p] \in {"deploying", "saving"} => Current(p) \in Attempts
  BY <1>0, CurrentIs
<1>4. saved' \subseteq Attempts /\ gaveUp' \subseteq Attempts
  BY <1>0, <1>3 DEF GenerateKeypair, Receive, ConnectionLost, Save, SaveFails, Close, GiveUp,
                    historyVars, TypeOK
<1> DEFINE Keeps(next) == step' = [step EXCEPT ![p] = next] => TypeOK'
<1>5. \A next \in {"keygen", "saving", "done", "closed"} :
        (next = "saving" => step[p] = "deploying") => Keeps(next)
  <2> SUFFICES ASSUME NEW next \in {"keygen", "saving", "done", "closed"},
                      next = "saving" => step[p] = "deploying",
                      step' = [step EXCEPT ![p] = next]
               PROVE  TypeOK'
    OBVIOUS
  <2>1. step' \in [Pages -> {"select", "keygen", "deploying", "saving", "done", "closed"}]
    BY <1>0 DEF TypeOK
  <2>2. \A q \in Pages : step'[q] \in {"deploying", "saving"} => step[q] \in {"deploying", "saving"}
    BY <1>0 DEF TypeOK
  <2> QED
    BY <1>0, <1>1, <1>2, <1>4, <2>1, <2>2 DEF TypeOK, handlerVars, dbVars, chainVars
<1>6. CASE GenerateKeypair(p)
  <2>1. step' = [step EXCEPT ![p] = "keygen"] /\ step[p] = "select" /\ saved' = saved /\ gaveUp' = gaveUp
    BY <1>6 DEF GenerateKeypair, Show, historyVars
  <2> QED
    BY <1>1, <1>5, <2>1, PageKeeps
<1>7. CASE Receive(p)
  <2> DEFINE next == IF answer[Current(p)] = "created" THEN "saving" ELSE "keygen"
  <2>1. /\ step' = [step EXCEPT ![p] = next] /\ step[p] = "deploying"
        /\ saved' = saved /\ gaveUp' = gaveUp /\ answer[Current(p)] # None
    BY <1>7 DEF Receive, Show, historyVars
  <2>2. answer[Current(p)] \in {"created", "error"}
    BY <1>0, <1>3, <2>1 DEF TypeOK
  <2>3. TypeOK'
    BY <1>5, <2>1
  <2>4. CASE answer[Current(p)] = "created"
    BY <1>1, <2>1, <2>3, <2>4, PageKeeps
  <2>5. CASE answer[Current(p)] = "error"
    BY <1>1, <2>1, <2>3, <2>5, PageKeeps
  <2> QED
    BY <2>2, <2>4, <2>5
<1>8. CASE ConnectionLost(p) \/ SaveFails(p)
  <2>1. /\ step' = [step EXCEPT ![p] = "keygen"] /\ step[p] \in {"deploying", "saving"}
        /\ saved' = saved /\ gaveUp' = gaveUp \cup {Current(p)}
    BY <1>8 DEF ConnectionLost, SaveFails, Show, GiveUp
  <2> QED
    BY <1>1, <1>5, <2>1, PageKeeps
<1>9. CASE Save(p)
  <2>1. /\ step' = [step EXCEPT ![p] = "done"] /\ step[p] = "saving"
        /\ saved' = saved \cup {Current(p)} /\ gaveUp' = gaveUp
    BY <1>9 DEF Save, Show, historyVars
  <2> QED
    BY <1>1, <1>5, <2>1, PageKeeps
<1>10. CASE Close(p)
  <2>1. /\ step' = [step EXCEPT ![p] = "closed"] /\ step[p] \notin {"done", "closed"}
        /\ saved' = saved /\ gaveUp \subseteq gaveUp'
        /\ step[p] \in {"deploying", "saving"} => Current(p) \in gaveUp'
    BY <1>10 DEF Close, Show, GiveUp
  <2> QED
    BY <1>1, <1>5, <2>1, PageKeeps
<1> QED
  BY <1>6, <1>7, <1>8, <1>9, <1>10

LEMMA DeployKeeps == ASSUME IInv, NEW p \in Pages, Deploy(p) PROVE IInv'
<1> USE CreateAssumption
<1>0. TypeOK
  BY DEF IInv
<1> DEFINE new == <<p, attempts[p] + 1>>
<1>1. /\ attempts' = [attempts EXCEPT ![p] = @ + 1] /\ attempts[p] < MaxAttempts
      /\ step' = [step EXCEPT ![p] = "deploying"] /\ step[p] = "keygen"
      /\ phase' = [phase EXCEPT ![new] = "send"]
      /\ UNCHANGED <<saved, answer, walletRows, txRows, pool, receipt, funds, gaveUp,
                     unrecorded, faults>>
  BY DEF Deploy, Show, Go, dbVars, chainVars, historyVars
<1>2. attempts \in [Pages -> 0..MaxAttempts] /\ attempts[p] \in Nat
  BY <1>0 DEF TypeOK
<1>3. new \in Attempts /\ new[1] = p /\ new[2] = attempts[p] + 1
  BY <1>1, <1>2, Pairs
<1>4. /\ \A q \in Pages : attempts'[q] = IF q = p THEN attempts[p] + 1 ELSE attempts[q]
      /\ attempts' \in [Pages -> 0..MaxAttempts]
  BY <1>1, <1>2
<1>5. /\ \A q \in Pages : step'[q] = IF q = p THEN "deploying" ELSE step[q]
      /\ \A q \in Pages \ {p} : Current(q)' = Current(q)
      /\ Current(p)' = new
  <2>1. step \in [Pages -> {"select", "keygen", "deploying", "saving", "done", "closed"}]
    BY <1>0 DEF TypeOK
  <2> QED
    BY <1>1, <1>4, <2>1 DEF Current
<1>6. phase[new] = "idle" /\ new \notin pool /\ receipt[new] = None /\ answer[new] = None
  <2>1. new[2] > attempts[new[1]]
    BY <1>2, <1>3
  <2>2. phase[new] = "idle"
    BY <1>3, <2>1 DEF IInv, Placed
  <2> QED
    BY <1>3, <2>2 DEF IInv, Placed, Answers
<1>7. \A a \in Attempts : phase'[a] = IF a = new THEN "send" ELSE phase[a]
  BY <1>0, <1>1, <1>3 DEF TypeOK
<1> HIDE DEF new
<1>8. TypeOK'
  <2>1. step' \in [Pages -> {"select", "keygen", "deploying", "saving", "done", "closed"}]
    BY <1>0, <1>1 DEF TypeOK
  <2>2. phase' \in [Attempts -> Phases]
    BY <1>0, <1>1 DEF TypeOK, Phases
  <2>3. \A q \in Pages : step'[q] \in {"deploying", "saving"} => attempts'[q] > 0
    <3>1. \A q \in Pages : step[q] \in {"deploying", "saving"} => attempts[q] > 0
      BY <1>0 DEF TypeOK
    <3>2. attempts'[p] > 0
      BY <1>2, <1>4
    <3> QED
      BY <1>4, <1>5, <3>1, <3>2
  <2> QED
    BY <1>0, <1>1, <1>4, <1>7, <2>1, <2>2, <2>3 DEF TypeOK
<1>9. Placed'
  <2>1. \A a \in Attempts : a[2] > attempts'[a[1]] => phase'[a] = "idle"
    <3> SUFFICES ASSUME NEW a \in Attempts, a[2] > attempts'[a[1]] PROVE phase'[a] = "idle"
      OBVIOUS
    <3>1. a[1] \in Pages /\ a[2] \in Nat
      BY Pairs
    <3>2. a[2] > attempts[a[1]]
      BY <1>2, <1>4, <3>1
    <3>3. a # new
      BY <1>2, <1>3, <1>4
    <3> QED
      BY <1>7, <3>2, <3>3 DEF IInv, Placed
  <2>2. \A a \in Attempts : phase'[a] \in {"idle", "send"} => a \notin pool' /\ receipt'[a] = None
    BY <1>1, <1>6, <1>7 DEF IInv, Placed
  <2> QED
    BY <1>1, <2>1, <2>2 DEF IInv, Placed
<1>10. Funding'
  BY <1>1, <1>6, <1>7 DEF IInv, Funding, FundedOnce, Deployed
<1>11. Answers'
  BY <1>1, <1>6, <1>7 DEF IInv, Answers
<1>12. Stored' /\ RowsAreWallets'
  BY <1>1, <1>5, <1>7 DEF IInv, Stored, SavedIsStored, RowsAreWallets, Deployed
<1>13. SavedLast'
  <2>1. \A a \in saved : a[1] \in Pages /\ a[1] # p
    BY <1>0, <1>1, Pairs DEF IInv, SavedLast, TypeOK
  <2> QED
    BY <1>1, <1>5, <2>1 DEF IInv, SavedLast
<1>14. InProgress'
  <2> SUFFICES ASSUME NEW a \in Attempts,
                      phase'[a] \in InHandler \/ a \in pool \/ receipt[a] = "deployed",
                      a \notin saved \cup gaveUp
               PROVE  a = Current(a[1])' /\ step'[a[1]] \in {"deploying", "saving"}
    BY <1>1 DEF InProgress
  <2>1. CASE a = new
    BY <1>3, <1>5, <2>1
  <2>2. CASE a # new
    <3>1. a[1] \in Pages /\ a = Current(a[1]) /\ step[a[1]] \in {"deploying", "saving"}
      BY <1>7, <2>2, Pairs DEF IInv, InProgress
    <3>2. a[1] # p
      BY <1>1, <3>1
    <3> QED
      BY <1>5, <3>1, <3>2
  <2> QED
    BY <2>1, <2>2
<1> QED
  BY <1>8, <1>9, <1>10, <1>11, <1>12, <1>13, <1>14 DEF IInv

---------------------------------------------------------------------------
(* The handler.                                                            *)

\* A handler's step concerns its own request: where it goes is the disjunction
\* <1>3, and the parts of the invariant follow from that.
LEMMA HandlerKeeps ==
    ASSUME IInv, NEW a \in Attempts, Handler(a) PROVE IInv'
<1> USE CreateAssumption
<1>0. TypeOK
  BY DEF IInv
<1>1. /\ UNCHANGED <<step, attempts, saved, receipt>>
      /\ \A b \in Attempts \ {a} :
           /\ phase'[b] = phase[b] /\ answer'[b] = answer[b] /\ funds'[b] = funds[b]
           /\ b \in pool' <=> b \in pool
           /\ b \in walletRows' <=> b \in walletRows
           /\ b \in txRows' <=> b \in txRows
      /\ gaveUp \subseteq gaveUp' /\ unrecorded \subseteq unrecorded'
  BY <1>0 DEF Handler, Refuse, Send, SendReplyLost, Receipt, ReceiptTimeout, Fund, InsertWallet,
              InsertTransaction, Respond, Answer, Go, GiveUp, pageVars, dbVars, chainVars,
              historyVars, TypeOK
<1>2. /\ phase[a] \in InHandler /\ phase'[a] \in Phases /\ phase'[a] # "idle" /\ phase'[a] # "send"
      /\ funds'[a] \in {funds[a], funds[a] + 1} /\ (phase[a] # "fund" => funds'[a] = funds[a])
      /\ phase[a] # "send" => (a \in pool' <=> a \in pool)
      /\ phase'[a] # "done" => answer'[a] = answer[a]
  BY <1>0 DEF Handler, Refuse, Send, SendReplyLost, Receipt, ReceiptTimeout, Fund, InsertWallet,
              InsertTransaction, Respond, Answer, Go, pageVars, dbVars, chainVars, historyVars,
              TypeOK, InHandler, Phases
<1>3. \/ phase[a] = "send" /\ phase'[a] = "wait"
      \/ phase[a] = "send" /\ phase'[a] = "done" /\ answer'[a] = "error"
           /\ (a \in gaveUp' \/ (a \in pool' <=> a \in pool))
      \/ phase[a] = "wait" /\ phase'[a] = "fund" /\ receipt[a] = "deployed"
      \/ phase[a] = "wait" /\ phase'[a] = "done" /\ answer'[a] = "error"
           /\ (a \in gaveUp' \/ receipt[a] = "reverted")
      \/ phase[a] = "fund" /\ phase'[a] = "wallet"
      \/ phase[a] = "wallet" /\ phase'[a] = "row" /\ a \in walletRows' \cup unrecorded'
      \/ phase[a] = "row" /\ phase'[a] = "respond"
      \/ phase[a] = "respond" /\ phase'[a] = "done" /\ answer'[a] = "created"
  BY <1>0 DEF Handler, Refuse, Send, SendReplyLost, Receipt, ReceiptTimeout, Fund, InsertWallet,
              InsertTransaction, Respond, Answer, Go, GiveUp, pageVars, dbVars, chainVars,
              historyVars, TypeOK
<1>4. /\ walletRows \subseteq walletRows' /\ txRows \subseteq txRows'
      /\ a \in walletRows' => a \in walletRows \/ phase[a] = "wallet"
      /\ a \in txRows' => a \in txRows \/ phase[a] = "row"
  BY DEF Handler, Refuse, Send, SendReplyLost, Receipt, ReceiptTimeout, Fund, InsertWallet,
         InsertTransaction, Respond, Answer, Go, pageVars, dbVars, chainVars, historyVars
<1>5. \A b \in Attempts : receipt[b] = None => b \notin Deployed
  BY DEF Deployed
<1>6. phase[a] \in {"fund", "wallet", "row", "respond"} => receipt[a] = "deployed"
  BY <1>0 DEF TypeOK
<1>7. TypeOK'
  <2>1. /\ phase' \in [Attempts -> Phases] /\ answer' \in [Attempts -> {None, "created", "error"}]
        /\ funds' \in [Attempts -> Nat]
    BY <1>0 DEF Handler, Refuse, Send, SendReplyLost, Receipt, ReceiptTimeout, Fund, InsertWallet,
                InsertTransaction, Respond, Answer, Go, pageVars, dbVars, chainVars, historyVars,
                TypeOK, Phases
  <2>2. /\ pool' \subseteq Attempts /\ walletRows' \subseteq Attempts /\ txRows' \subseteq Attempts
        /\ gaveUp' \subseteq Attempts /\ unrecorded' \subseteq Attempts
    BY <1>0 DEF Handler, Refuse, Send, SendReplyLost, Receipt, ReceiptTimeout, Fund, InsertWallet,
                InsertTransaction, Respond, Answer, Go, GiveUp, pageVars, dbVars, chainVars,
                historyVars, TypeOK
  <2>3. faults' \in 0..MaxFaults
    BY <1>0 DEF Handler, Refuse, Send, SendReplyLost, Receipt, ReceiptTimeout, Fund, InsertWallet,
                InsertTransaction, Respond, Fault, historyVars, TypeOK
  <2>4. \A b \in Attempts :
          phase'[b] \in {"fund", "wallet", "row", "respond"} => receipt'[b] = "deployed"
    BY <1>0, <1>1, <1>3, <1>6 DEF TypeOK
  <2> QED
    BY <1>0, <1>1, <2>1, <2>2, <2>3, <2>4 DEF TypeOK
<1> USE DEF IInv
<1> HIDE DEF Handler
<1>8. Placed'
  <2>1. phase[a] = "send" => a \notin pool /\ receipt[a] = None
    BY DEF Placed
  <2>2. \A b \in pool' : b \in Attempts /\ receipt'[b] = None
    BY <1>1, <1>2, <1>7, <2>1 DEF Placed, TypeOK
  <2>3. \A b \in Attempts : b[2] > attempts'[b[1]] => phase'[b] = "idle"
    <3>1. \A b \in Attempts : b[2] > attempts[b[1]] => phase[b] = "idle"
      BY DEF Placed
    <3>2. phase[a] # "idle"
      BY <1>2 DEF InHandler
    <3> QED
      BY <1>1, <3>1, <3>2
  <2> QED
    BY <1>1, <1>2, <2>2, <2>3 DEF Placed
<1>9. Funding'
  <2>1. \A b \in Attempts : b # a => funds'[b] = funds[b] /\ phase'[b] = phase[b]
    BY <1>1
  <2>2. /\ phase[a] = "fund" => funds[a] = 0 /\ phase'[a] = "wallet" /\ receipt[a] = "deployed"
        /\ phase[a] # "fund" => /\ funds'[a] = funds[a]
                                /\ phase'[a] \in {"send", "wait", "fund"} => funds[a] = 0
    BY <1>2, <1>3, <1>6 DEF Funding
  <2>3. funds[a] \in Nat /\ funds[a] <= 1 /\ (funds[a] = 1 => a \in Deployed)
    BY <1>0 DEF Funding, FundedOnce, TypeOK
  <2>4. Deployed' = Deployed /\ (receipt[a] = "deployed" => a \in Deployed)
    BY <1>1 DEF Deployed
  <2>5. funds'[a] <= 1 /\ (funds'[a] = 1 => a \in Deployed)
    BY <1>2, <2>2, <2>3, <2>4
  <2>6. FundedOnce'
    BY <2>1, <2>4, <2>5 DEF Funding, FundedOnce
  <2>7. phase'[a] \in {"idle", "send", "wait", "fund"} => funds'[a] = 0
    BY <1>2, <2>2
  <2> QED
    BY <2>1, <2>6, <2>7 DEF Funding
<1>10. Stored' /\ Answers'
  <2>1. answer[a] = None
    BY <1>2 DEF Answers, InHandler
  <2>2. \A b \in Attempts : b \in walletRows \cup unrecorded => b \in walletRows' \cup unrecorded'
    BY <1>1, <1>4
  <2>3. \A b \in Attempts : phase'[b] \in {"row", "respond"} => b \in walletRows' \cup unrecorded'
    BY <1>1, <1>3, <2>2 DEF Stored
  <2>4. \A p \in Pages : step[p] = "saving" => Current(p) # a
    BY <2>1, CreateAssumption DEF Stored
  <2>5. \A p \in Pages : step'[p] = "saving" => answer'[Current(p)'] = "created"
    BY <1>0, <1>1, <2>4, CurrentIs DEF Stored, Current
  <2>6. Stored'
    BY <1>0, <1>1, <2>2, <2>3, <2>5 DEF Stored, SavedIsStored, TypeOK
  <2>7. \A b \in Attempts : phase'[b] # "done" => answer'[b] = None
    BY <1>1, <1>2, <2>1 DEF Answers
  <2>8. answer'[a] = "created" => receipt'[a] = "deployed" /\ a \in walletRows' \cup unrecorded'
    BY <1>1, <1>2, <1>3, <1>6, <2>1, <2>2 DEF Stored
  <2>9. answer'[a] = "error" => a \in gaveUp' \/ (a \notin pool' /\ receipt'[a] # "deployed")
    <3>1. phase[a] = "send" => a \notin pool /\ receipt[a] = None
      BY DEF Placed
    <3>2. receipt[a] = "reverted" => a \notin pool
      BY DEF Placed
    <3> QED
      BY <1>1, <1>2, <1>3, <2>1, <3>1, <3>2
  <2>10. Answers'
    <3>1. \A b \in Attempts : answer'[b] = "created" =>
                               receipt'[b] = "deployed" /\ b \in walletRows' \cup unrecorded'
      BY <1>1, <2>2, <2>8 DEF Answers
    <3>2. \A b \in Attempts : answer'[b] = "error" =>
                               b \in gaveUp' \/ (b \notin pool' /\ receipt'[b] # "deployed")
      BY <1>1, <2>9 DEF Answers
    <3> QED
      BY <2>7, <3>1, <3>2 DEF Answers
  <2> QED
    BY <2>6, <2>10
<1>11. RowsAreWallets'
  <2>1. Deployed' = Deployed /\ (receipt[a] = "deployed" => a \in Deployed)
    BY <1>1 DEF Deployed
  <2>2. walletRows' \subseteq walletRows \cup {a} /\ txRows' \subseteq txRows \cup {a}
    BY <1>1, <1>7 DEF TypeOK
  <2> QED
    BY <1>1, <1>4, <1>6, <2>1, <2>2 DEF RowsAreWallets
<1>12. SavedLast' /\ InProgress'
  <2>1. \A q : Current(q)' = Current(q)
    BY <1>1 DEF Current
  <2>2. phase[a] \in InHandler
    BY <1>2
  <2> QED
    BY <1>1, <2>1, <2>2 DEF SavedLast, InProgress
<1> QED
  BY <1>7, <1>8, <1>9, <1>10, <1>11, <1>12

---------------------------------------------------------------------------
(* The chain, and what goes wrong.                                         *)

LEMMA ChainKeeps ==
    ASSUME IInv, \E a \in pool : Mine(a) \/ Vanish(a) PROVE IInv'
<1> USE CreateAssumption
<1>0. TypeOK
  BY DEF IInv
<1>1. /\ UNCHANGED <<step, attempts, saved, phase, answer, walletRows, txRows, funds, gaveUp,
                     unrecorded>>
      /\ faults' \in 0..MaxFaults /\ pool' \subseteq pool
  BY <1>0 DEF Mine, Vanish, Fault, pageVars, handlerVars, dbVars, historyVars,
              chainVars, TypeOK
<1>2. /\ receipt' \in [Attempts -> {None, "deployed", "reverted"}]
      /\ \A a \in Attempts : receipt'[a] = receipt[a] \/ (a \in pool /\ a \notin pool')
      /\ \A a \in pool' : receipt'[a] = receipt[a]
  BY <1>0 DEF Mine, Vanish, chainVars, TypeOK
<1>3. \A a \in pool : receipt[a] = None /\ phase[a] \notin {"idle", "send"}
  BY <1>0 DEF IInv, Placed, TypeOK
<1>4. \A a \in Attempts : receipt[a] = "deployed" => receipt'[a] = "deployed"
  BY <1>2, <1>3
<1>5. TypeOK'
  BY <1>0, <1>1, <1>2, <1>4 DEF TypeOK
<1>6. Placed'
  BY <1>1, <1>2, <1>3 DEF IInv, Placed
<1>7. Deployed \subseteq Deployed'
  BY <1>4 DEF Deployed
<1>8. Funding' /\ RowsAreWallets'
  BY <1>1, <1>7 DEF IInv, Funding, FundedOnce, RowsAreWallets
<1>9. Answers' /\ Stored'
  BY <1>1, <1>2, <1>4 DEF IInv, Answers, Stored, SavedIsStored, Current
<1>10. SavedLast' /\ InProgress'
  <2>1. \A q : Current(q)' = Current(q)
    BY <1>1 DEF Current
  <2> QED
    BY <1>1, <1>2, <2>1 DEF IInv, SavedLast, InProgress
<1> QED
  BY <1>5, <1>6, <1>8, <1>9, <1>10 DEF IInv

LEMMA CrashKeeps == ASSUME IInv, Crash PROVE IInv'
<1> USE CreateAssumption
<1>0. TypeOK
  BY DEF IInv
<1> DEFINE running == {a \in Attempts : phase[a] \in InHandler}
<1>1. /\ UNCHANGED <<step, attempts, saved, walletRows, txRows, receipt, funds>>
      /\ phase' = [a \in Attempts |-> IF a \in running THEN "done" ELSE phase[a]]
      /\ answer' = [a \in Attempts |-> IF a \in running THEN "error" ELSE answer[a]]
      /\ gaveUp' = gaveUp \cup running /\ unrecorded' = unrecorded \cup running
      /\ pool \subseteq pool' /\ pool' \subseteq pool \cup {a \in running : phase[a] = "send"}
      /\ faults' \in 0..MaxFaults
  BY <1>0 DEF Crash, GiveUp, Fault, pageVars, dbVars, TypeOK
<1>2. \A a \in Attempts :
        /\ a \in running <=> phase[a] \in InHandler
        /\ phase'[a] = IF a \in running THEN "done" ELSE phase[a]
        /\ answer'[a] = IF a \in running THEN "error" ELSE answer[a]
  BY <1>1
<1>3. running \subseteq Attempts /\ \A a \in running : answer[a] = None
  BY DEF IInv, Answers, InHandler
<1>4. \A a \in running : phase[a] = "send" => receipt[a] = None
  BY DEF IInv, Placed
<1> HIDE DEF running
<1>5. TypeOK'
  <2>1. phase' \in [Attempts -> Phases] /\ answer' \in [Attempts -> {None, "created", "error"}]
    BY <1>0, <1>1 DEF TypeOK, Phases
  <2> QED
    BY <1>0, <1>1, <1>2, <1>3, <2>1 DEF TypeOK
<1>6. \A a \in Attempts : phase'[a] \in {"idle", "done"}
  BY <1>0, <1>2 DEF TypeOK, InHandler
<1>7. Placed'
  <2>1. \A a \in Attempts : a[2] > attempts'[a[1]] => phase'[a] = "idle"
    <3>1. \A a \in Attempts : a[2] > attempts[a[1]] => phase[a] = "idle"
      BY DEF IInv, Placed
    <3>2. "idle" \notin InHandler
      BY DEF InHandler
    <3> QED
      BY <1>1, <1>2, <3>1, <3>2
  <2>2. \A a \in Attempts : phase'[a] \in {"idle", "send"} => a \notin pool' /\ receipt'[a] = None
    BY <1>1, <1>2 DEF IInv, Placed
  <2>3. \A a \in pool' : receipt'[a] = None
    BY <1>1, <1>4 DEF IInv, Placed
  <2> QED
    BY <2>1, <2>2, <2>3 DEF Placed
<1>8. Funding' /\ RowsAreWallets'
  BY <1>1, <1>2 DEF IInv, Funding, FundedOnce, RowsAreWallets, Deployed
<1>9. Answers'
  <2>1. \A a \in Attempts : phase'[a] # "done" => answer'[a] = None
    BY <1>2 DEF IInv, Answers
  <2>2. \A a \in Attempts : answer'[a] = "created" =>
                              receipt'[a] = "deployed" /\ a \in walletRows' \cup unrecorded'
    BY <1>1, <1>2 DEF IInv, Answers
  <2>3. \A a \in Attempts : answer'[a] = "error" =>
                              a \in gaveUp' \/ (a \notin pool' /\ receipt'[a] # "deployed")
    BY <1>1, <1>2 DEF IInv, Answers
  <2> QED
    BY <2>1, <2>2, <2>3 DEF Answers
<1>10. Stored'
  <2>1. \A p \in Pages : step[p] = "saving" => Current(p) \in Attempts /\ Current(p) \notin running
    BY <1>0, <1>3, CurrentIs DEF IInv, Stored
  <2> QED
    BY <1>1, <1>2, <1>6, <2>1 DEF IInv, Stored, SavedIsStored, Current
<1>11. SavedLast' /\ InProgress'
  <2>1. \A q : Current(q)' = Current(q)
    BY <1>1 DEF Current
  <2>2. SavedLast'
    BY <1>1, <2>1 DEF IInv, SavedLast
  <2>3. \A a \in Attempts : phase'[a] \notin InHandler
    BY <1>6 DEF InHandler
  <2> QED
    BY <1>1, <2>1, <2>2, <2>3 DEF IInv, InProgress
<1> QED
  BY <1>5, <1>7, <1>8, <1>9, <1>10, <1>11 DEF IInv

---------------------------------------------------------------------------
(* The theorems.                                                           *)

LEMMA Inductive == Spec => []IInv
<1>1. ASSUME IInv, [Next]_vars PROVE IInv'
  <2>1. ASSUME NEW p \in Pages, Page(p) PROVE IInv'
    BY <1>1, <2>1, PageStepKeeps, DeployKeeps DEF Page
  <2>2. CASE UNCHANGED vars
    BY <1>1, <2>2 DEF vars, pageVars, handlerVars, dbVars, chainVars, historyVars, IInv, TypeOK,
       Placed, Funding, FundedOnce, Answers, Stored, SavedIsStored, RowsAreWallets, Deployed,
       SavedLast, InProgress, Current
  <2> QED
    BY <1>1, <2>1, <2>2, HandlerKeeps, ChainKeeps, CrashKeeps DEF Next
<1> QED
  BY InitInv, <1>1, PTL DEF Spec

\* The variables keep their types.
THEOREM TypeCorrect == Spec => []TypeOK
<1>1. IInv => TypeOK
  BY DEF IInv
<1> QED
  BY <1>1, Inductive, PTL

\* Neither the tables nor the browser ever name a wallet that does not exist.
THEOREM RowsReal == Spec => []RowsAreWallets
<1>1. IInv => RowsAreWallets
  BY DEF IInv
<1> QED
  BY <1>1, Inductive, PTL

\* No wallet is funded twice, and nothing else is funded.
THEOREM Funded == Spec => []FundedOnce
<1>1. IInv => FundedOnce
  BY DEF IInv, Funding
<1> QED
  BY <1>1, Inductive, PTL

\* A wallet without its key is one that its page gave up.
THEOREM Stranded == Spec => []NoneStranded
<1>1. IInv => NoneStranded
  BY DEF IInv, InProgress, NoneStranded, Deployed
<1> QED
  BY <1>1, Inductive, PTL

\* Two wallets share a key only after their page gave one of them up.
THEOREM KeysApart == Spec => []OneWalletPerKey
<1>1. ASSUME IInv PROVE OneWalletPerKey
  <2>1. \A a \in Deployed : a \in gaveUp \/ a = Current(a[1])
    BY <1>1 DEF IInv, InProgress, SavedLast, Deployed
  <2> QED
    BY <2>1 DEF OneWalletPerKey
<1> QED
  BY <1>1, Inductive, PTL

\* What a page has saved, the backend has stored or failed to store.
THEOREM Served == Spec => []SavedIsStored
<1>1. IInv => SavedIsStored
  BY DEF IInv, Stored
<1> QED
  BY <1>1, Inductive, PTL
===========================================================================
