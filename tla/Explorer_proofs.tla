--------------------------- MODULE Explorer_proofs ---------------------------
(***************************************************************************)
(* What the explorer shows of a transaction is true, for any wallets and   *)
(* transactions, whatever fails or changes between the reads of a page.    *)
(* The argument: an answer is true when it is given, and nothing that is   *)
(* true of a transaction becomes false, so that it does not matter how     *)
(* late an answer is put on the screen.                                    *)
(***************************************************************************)
EXTENDS Explorer, TLAPS

---------------------------------------------------------------------------
(* Rows and what is put together from the node.                            *)

\* What the backend stores of transactions is true of the chain.
RowsOK ==
    /\ algorithm \in [Wallets -> Algorithms]
    /\ row \in [Txs -> {"none", "pending", "success", "failed"}]
    /\ mined \in [Txs -> Nat] /\ head \in Nat
    /\ sent \subseteq Txs /\ reverted \subseteq Txs
    /\ \A t \in Txs : row[t] = "success" => Executed(t)
    /\ \A t \in Txs : row[t] = "failed" => t \in reverted
    /\ \A t \in reverted : mined[t] # 0

\* The badge of a transaction of the backend.
Scheme(t) == IF Type[t] = "deploy" THEN "ecdsa" ELSE algorithm[WalletOf[t]]

Rotated(t) == Executed(t) /\ algorithm[WalletOf[t]] = "ephemeral-ecdsa"

\* A transaction as a page has it from the backend, however long ago.
FromBackend(tx) ==
    /\ tx.hash \in Txs /\ tx.algorithm = 0
    /\ tx.status \in {"pending", "success", "failed"}
    /\ tx.status = "success" => Executed(tx.hash)
    /\ tx.status = "failed" => tx.hash \in reverted
    /\ tx.signatureScheme = Scheme(tx.hash)

\* One that a page put together itself.
FromNode(tx) ==
    /\ tx.hash \in Txs /\ tx.algorithm = -1
    /\ tx.status \in {"0x0", "0x1"}
    /\ tx.status = "0x1" /\ tx.gasUsed = "used" => Executed(tx.hash)
    /\ tx.status = "0x0" => tx.hash \in reverted
    /\ tx.signatureScheme \in {"7702", "ecdsa"}

TxOK(tx) == FromBackend(tx) \/ FromNode(tx)

ReceiptOK(t, receipt) ==
    /\ receipt.status \in {"0x0", "0x1"}
    /\ receipt.status = "0x1" => Executed(t)
    /\ receipt.status = "0x0" => t \in reverted
    /\ receipt.rotated \in BOOLEAN
    /\ receipt.rotated => Rotated(t)

\* A request names a transaction that exists, and an answer is true of it.
RequestOK(r) == r[1] \in {"transaction", "rpcTransaction", "receipt"} => r[2] \in Txs

AnswerOK(r, v) ==
    /\ r[1] = "recentTransactions" => \A tx \in v : FromBackend(tx)
    /\ r[1] = "transaction" => v = Null \/ (FromBackend(v) /\ v.hash = r[2])
    /\ r[1] = "rpcTransaction" => v = Null \/ v.hash = r[2]
    /\ r[1] = "receipt" => v = Null \/ ReceiptOK(r[2], v)
    /\ r[1] = "block" => v = Null \/ v.transactions \subseteq Txs

---------------------------------------------------------------------------
(* Schemes.                                                                *)

AllAlgorithms == {"falcon-direct", "falcon-ntt", "dilithium-direct", "dilithium-ntt", "ephemeral-ecdsa"}

\* The backend cuts the name of an algorithm short and adds the gas; the explorer
\* puts it together again.
LEMMA SchemeRoundTrip ==
    ASSUME NEW alg \in AllAlgorithms
    PROVE  InferScheme(Base(alg), VerificationGas(alg)) = alg /\ Badge(alg) = alg
BY DEF AllAlgorithms, InferScheme, Base, VerificationGas, Badge

\* A row as the backend sends it and MapRawTx takes it is true.
LEMMA RawOK ==
    ASSUME RowsOK, NEW t \in Txs, row[t] # "none"
    PROVE  FromBackend(MapRawTx(RawTransaction(t))) /\ MapRawTx(RawTransaction(t)).hash = t
<1>. DEFINE raw == RawTransaction(t)
            alg == algorithm[WalletOf[t]]
            tx == MapRawTx(raw)
<1>1. alg \in AllAlgorithms
  BY BackendAssumption DEF RowsOK, AllAlgorithms
<1>2. /\ raw.txHash = t /\ raw.status = row[t]
      /\ raw.signatureScheme = IF Type[t] = "deploy" THEN "ecdsa" ELSE Base(alg)
      /\ raw.verificationGas = IF Type[t] = "deploy" THEN 0 ELSE VerificationGas(alg)
  BY DEF RawTransaction
<1>3. /\ tx.hash = raw.txHash /\ tx.status = raw.status /\ tx.algorithm = 0
      /\ tx.signatureScheme = InferScheme(raw.signatureScheme, raw.verificationGas)
  BY DEF MapRawTx
<1>4. tx.signatureScheme = Scheme(t)
  <2>. HIDE DEF raw, alg, tx
  <2>1. CASE Type[t] = "deploy"
    <3>1. InferScheme("ecdsa", 0) = "ecdsa"
      BY DEF InferScheme
    <3>. QED  BY <1>2, <1>3, <2>1, <3>1 DEF Scheme
  <2>2. CASE Type[t] # "deploy"
    <3>1. InferScheme(Base(alg), VerificationGas(alg)) = alg
      BY <1>1, SchemeRoundTrip
    <3>. QED  BY <1>2, <1>3, <2>2, <3>1 DEF Scheme, alg
  <2>. QED  BY <2>1, <2>2
<1>5. row[t] \in {"pending", "success", "failed"}
  BY DEF RowsOK
<1>6. (row[t] = "success" => Executed(t)) /\ (row[t] = "failed" => t \in reverted)
  BY DEF RowsOK
<1>. HIDE DEF raw, tx
<1>7. tx.hash = t /\ tx.status = row[t] /\ tx.algorithm = 0
  BY <1>2, <1>3
<1>8. FromBackend(tx)
  BY <1>4, <1>5, <1>6, <1>7 DEF FromBackend
<1>. QED  BY <1>7, <1>8 DEF tx, raw

\* What a request is answered with at any moment is true then.
LEMMA AnswerTrue ==
    ASSUME RowsOK, NEW r, RequestOK(r)
    PROVE  AnswerOK(r, Answer(r))
<1>1. ASSUME r[1] = "recentTransactions" PROVE \A tx \in Answer(r) : FromBackend(tx)
  <2>1. Answer(r) = GetRecentTransactions(r[2])
    BY <1>1 DEF Answer
  <2>. SUFFICES ASSUME NEW tx \in GetRecentTransactions(r[2]) PROVE FromBackend(tx)
    BY <2>1
  <2>2. tx \in {MapRawTx(raw) : raw \in RecentTransactions(r[2])}
    BY DEF GetRecentTransactions
  <2>3. PICK raw \in RecentTransactions(r[2]) : tx = MapRawTx(raw)
    BY <2>2
  <2>4. PICK t \in Txs : row[t] # "none" /\ raw = RawTransaction(t)
    BY DEF RecentTransactions
  <2>. QED  BY <2>3, <2>4, RawOK
<1>2. ASSUME r[1] = "transaction" PROVE LET v == Answer(r) IN v = Null \/ (FromBackend(v) /\ v.hash = r[2])
  <2>. DEFINE t == r[2]
              v == Answer(r)
  <2>1. v = GetTransaction(t) /\ t \in Txs
    BY <1>2 DEF Answer, RequestOK
  <2>. SUFFICES ASSUME v # Null PROVE FromBackend(v) /\ v.hash = t
    OBVIOUS
  <2>2. ServerUp /\ ExplorerTx(t) # Null
    BY <2>1 DEF GetTransaction
  <2>3. /\ row[t] # "none"
        /\ ExplorerTx(t).raw = RawTransaction(t)
    BY <2>2 DEF ExplorerTx
  <2>4. v = [MapRawTx(RawTransaction(t)) EXCEPT !.publicKey = ExplorerTx(t).publicKey,
                                                !.gasUsed = ExplorerTx(t).gasUsed]
    BY <2>1, <2>2, <2>3 DEF GetTransaction
  <2>. DEFINE tx == MapRawTx(RawTransaction(t))
  <2>5. FromBackend(tx) /\ tx.hash = t
    BY <2>1, <2>3, RawOK
  <2>6. /\ v.hash = tx.hash /\ v.status = tx.status /\ v.algorithm = tx.algorithm
        /\ v.signatureScheme = tx.signatureScheme
    BY <2>4 DEF MapRawTx
  <2>. HIDE DEF v, tx, t
  <2>. QED  BY <2>5, <2>6 DEF FromBackend
<1>3. ASSUME r[1] = "rpcTransaction" PROVE LET v == Answer(r) IN v = Null \/ v.hash = r[2]
  <2>1. Answer(r) = GetRpcTransaction(r[2])
    BY <1>3 DEF Answer
  <2>. QED  BY <2>1 DEF GetRpcTransaction, RpcTransaction
<1>4. ASSUME r[1] = "receipt" PROVE LET v == Answer(r) IN v = Null \/ ReceiptOK(r[2], v)
  <2>. DEFINE t == r[2]
              v == Answer(r)
  <2>1. v = GetTransactionReceipt(t) /\ t \in Txs
    BY <1>4 DEF Answer, RequestOK
  <2>. SUFFICES ASSUME v # Null PROVE ReceiptOK(t, v)
    OBVIOUS
  <2>2. /\ mined[t] # 0
        /\ v = [status |-> IF t \in reverted THEN "0x0" ELSE "0x1",
                rotated |-> Executed(t) /\ Type[t] = "transfer"
                            /\ algorithm[WalletOf[t]] = "ephemeral-ecdsa"]
    BY <2>1 DEF GetTransactionReceipt, RpcReceipt
  <2>3. /\ v.status = IF t \in reverted THEN "0x0" ELSE "0x1"
        /\ v.rotated = (Executed(t) /\ Type[t] = "transfer"
                        /\ algorithm[WalletOf[t]] = "ephemeral-ecdsa")
    BY <2>2
  <2>. HIDE DEF v, t
  <2>4. v.rotated \in BOOLEAN /\ (v.rotated => Rotated(t))
    BY <2>3, Zenon DEF Rotated
  <2>5. /\ v.status \in {"0x0", "0x1"}
        /\ v.status = "0x1" => Executed(t)
        /\ v.status = "0x0" => t \in reverted
    BY <2>2, <2>3 DEF Executed
  <2>. QED  BY <2>4, <2>5 DEF ReceiptOK
<1>5. ASSUME r[1] = "block" PROVE LET v == Answer(r) IN v = Null \/ v.transactions \subseteq Txs
  <2>1. Answer(r) = GetBlock(r[2])
    BY <1>5 DEF Answer
  <2>. QED  BY <2>1 DEF GetBlock, RpcBlock
<1>. QED  BY <1>1, <1>2, <1>3, <1>4, <1>5 DEF AnswerOK

---------------------------------------------------------------------------
(* What stays true.                                                        *)

\* Nothing is stored at first.
LEMMA RowsInit == Init => RowsOK
BY BackendAssumption DEF Init, BackendInit, RowsOK, Executed

\* The rest of the system keeps the rows true, and no execution is taken back.
LEMMA RowsStep ==
    ASSUME RowsOK, BackendNext
    PROVE  /\ RowsOK' /\ algorithm' = algorithm
           /\ \A t \in Txs : Executed(t) => Executed(t)'
           /\ reverted \subseteq reverted'
<1>1. ASSUME NEW t \in Txs, Relay(t)
      PROVE  /\ RowsOK' /\ algorithm' = algorithm /\ mined' = mined /\ reverted' = reverted
  <2>1. UNCHANGED <<algorithm, mined, reverted, head>> /\ sent' = sent \cup {t}
    BY <1>1 DEF Relay
  <2>2. /\ row' \in [Txs -> {"none", "pending", "success", "failed"}]
        /\ \A u \in Txs : row'[u] = row[u] \/ row'[u] = "pending"
    BY <1>1 DEF Relay, RowsOK
  <2>. QED  BY <2>1, <2>2 DEF RowsOK, Executed
<1>2. CASE Mine
  <2>1. UNCHANGED <<algorithm, row, sent>> /\ head' = head + 1
    BY <1>2 DEF Mine
  <2>. DEFINE Grown ==
                /\ mined' \in [Txs -> Nat] /\ reverted \subseteq reverted' /\ reverted' \subseteq Txs
                /\ \A u \in Txs : mined[u] # 0 => mined'[u] # 0 /\ (u \in reverted' => u \in reverted)
                /\ \A u \in reverted' : mined'[u] # 0
  <2>2. Grown
    <3>1. CASE UNCHANGED <<mined, reverted>>
      BY <3>1 DEF RowsOK
    <3>2. ASSUME NEW t \in sent, mined[t] = 0, mined' = [mined EXCEPT ![t] = head + 1],
                 reverted' = reverted \/ reverted' = reverted \cup {t}
          PROVE  Grown
      <4>1. t \in Txs /\ head + 1 \in Nat /\ head + 1 # 0
        BY DEF RowsOK
      <4>2. /\ mined' \in [Txs -> Nat] /\ mined'[t] # 0
            /\ \A u \in Txs : u # t => mined'[u] = mined[u]
        BY <3>2, <4>1 DEF RowsOK
      <4>. QED  BY <3>2, <4>1, <4>2 DEF RowsOK
    <3>. QED  BY <1>2, <3>1, <3>2 DEF Mine
  <2>3. \A u \in Txs : Executed(u) => Executed(u)'
    BY <2>2 DEF Executed
  <2>. QED  BY <2>1, <2>2, <2>3 DEF RowsOK
<1>3. ASSUME NEW t \in Txs, Record(t)
      PROVE  RowsOK' /\ algorithm' = algorithm /\ mined' = mined /\ reverted' = reverted
  <2>1. UNCHANGED <<algorithm, sent, head, mined, reverted>> /\ mined[t] # 0
    BY <1>3 DEF Record, chainVars
  <2>2. \/ row' = [row EXCEPT ![t] = IF t \in reverted THEN "failed" ELSE "success"]
        \/ t \notin reverted /\ row' = [row EXCEPT ![t] = "success"]
    BY <1>3 DEF Record
  <2>3. /\ row' \in [Txs -> {"none", "pending", "success", "failed"}]
        /\ row'[t] = IF t \in reverted THEN "failed" ELSE "success"
        /\ \A u \in Txs : u # t => row'[u] = row[u]
    BY <2>2 DEF RowsOK
  <2>. QED  BY <2>1, <2>3 DEF RowsOK, Executed
<1>4. CASE Outage
  BY <1>4 DEF Outage, RowsOK, Executed, chainVars
<1>. QED  BY <1>1, <1>2, <1>3, <1>4 DEF BackendNext, Executed

\* Nothing that was true of a transaction becomes false.
Grows ==
    /\ algorithm' = algorithm /\ reverted \subseteq reverted'
    /\ \A t \in Txs : Executed(t) => Executed(t)'

\* So what an answer or a screen says of it stays true, however late it is used.
LEMMA StaysTrue ==
    ASSUME Grows
    PROVE  /\ \A tx : (FromBackend(tx) => FromBackend(tx)') /\ (FromNode(tx) => FromNode(tx)')
           /\ \A tx : TxOK(tx) => TxOK(tx)'
           /\ \A t \in Txs : Rotated(t) => Rotated(t)'
           /\ \A r, v : RequestOK(r) /\ AnswerOK(r, v) => AnswerOK(r, v)'
<1>1. \A t \in Txs : Rotated(t) => Rotated(t)'
  BY DEF Grows, Rotated
<1>2. ASSUME NEW tx PROVE FromBackend(tx) => FromBackend(tx)'
  BY DEF Grows, FromBackend, Scheme
<1>3. ASSUME NEW tx PROVE FromNode(tx) => FromNode(tx)'
  BY DEF Grows, FromNode
<1>4. ASSUME NEW t \in Txs, NEW v, ReceiptOK(t, v) PROVE ReceiptOK(t, v)'
  BY <1>1, <1>4 DEF Grows, ReceiptOK
<1>5. ASSUME NEW r, NEW v, RequestOK(r), AnswerOK(r, v) PROVE AnswerOK(r, v)'
  BY <1>2, <1>4, <1>5 DEF AnswerOK, RequestOK
<1>. QED  BY <1>1, <1>2, <1>3, <1>5 DEF TxOK

---------------------------------------------------------------------------
(* The invariant, of a page p, its state v and its fetches F.              *)

\* The requests of a fetch, answered or not.
AllOf(f) == f.asked \cup DOMAIN f.got

\* Among them are those that its next step relies on.
Plan(p, f) ==
    /\ p.kind = "dashboard" => <<"recentTransactions", FewRows>> \in AllOf(f)
    /\ p.kind = "transactions" => AllOf(f) = {<<"recentTransactions", ManyRows>>}
    /\ p.kind = "tx" =>
         /\ f.stage = "first" => AllOf(f) = {<<"transaction", p.arg>>}
         /\ f.stage = "rpc" => AllOf(f) = {<<"rpcTransaction", p.arg>>, <<"receipt", p.arg>>}
         /\ f.stage = "logs" => AllOf(f) = {<<"receipt", p.arg>>}
    /\ p.kind = "block" =>
         /\ f.stage = "first" => AllOf(f) = {<<"block", p.arg>>}
         /\ f.stage = "txs" => \A r \in AllOf(f) : r[1] = "transaction" /\ r[2] \in Txs
    /\ p.kind = "address" =>
         /\ <<"address", p.arg>> \in AllOf(f)
         /\ <<"address", p.arg>> \in DOMAIN f.got /\ f.got[<<"address", p.arg>>] # Null =>
              <<"recentTransactions", ManyRows>> \in AllOf(f)

\* A fetch holds true answers to requests that are in order.
FetchOK(p, f) ==
    /\ f = [stage |-> f.stage, asked |-> f.asked, got |-> f.got]
    /\ \A r \in AllOf(f) : RequestOK(r)
    /\ \A r \in DOMAIN f.got : AnswerOK(r, f.got[r])
    /\ f.stage = "none" => f.asked = {}
    /\ f.stage # "none" => Plan(p, f)

\* What a page has on its screen is true.
ShownOK(p, v) ==
    /\ p.kind = "dashboard" => \A tx \in v.txs : FromBackend(tx)
    /\ p.kind = "transactions" =>
         /\ v = [x \in {"loading", "txs", "at"} |-> v[x]]
         /\ \A tx \in v.txs : FromBackend(tx)
    /\ p.kind = "tx" =>
         /\ v = [x \in {"loading", "tx", "ethPrice", "rotated"} |-> v[x]]
         /\ v.tx # Null => TxOK(v.tx) /\ v.tx.hash = p.arg
         /\ v.rotated \in BOOLEAN /\ (v.rotated => Rotated(p.arg))
    /\ p.kind = "block" =>
         /\ v = [x \in {"loading", "block", "txs"} |-> v[x]]
         /\ \A tx \in v.txs : TxOK(tx)
    /\ p.kind = "address" => \A tx \in v.txs : FromBackend(tx)

\* A page that is not polled has one fetch, and loads as long as that is under way.
LoadingOK(p, v, F) ==
    p.kind \notin Polled =>
      /\ v.loading = (F[1].stage # "none")
      /\ \A s \in Slots \ {1} : F[s].stage = "none"

PageOK(p, v, F) ==
    /\ p \in Pages
    /\ F = [s \in Slots |-> F[s]]
    /\ \A s \in Slots : FetchOK(p, F[s])
    /\ ShownOK(p, v)
    /\ LoadingOK(p, v, F)

IInv == RowsOK /\ PageOK(page, view, fetches)

Kinds == {"dashboard", "transactions", "blocks", "wallets", "tx", "block", "address"}

\* Every page is of a known kind, and names what exists.
LEMMA PageKinds ==
    ASSUME NEW p \in Pages
    PROVE  /\ p.kind \in Kinds
           /\ p.kind = "tx" => p.arg \in Txs
           /\ p.kind = "address" => p.arg \in Addresses
BY DEF Pages, PageOf, Kinds

\* What is true of a page stays true while the rest of the system goes on.
LEMMA PageStays ==
    ASSUME Grows, NEW p, NEW v, NEW F, PageOK(p, v, F)
    PROVE  PageOK(p, v, F)'
<1>1. ASSUME NEW f, FetchOK(p, f) PROVE FetchOK(p, f)'
  <2>1. \A r \in DOMAIN f.got : RequestOK(r) /\ AnswerOK(r, f.got[r])
    BY <1>1 DEF FetchOK, AllOf
  <2>2. \A r \in DOMAIN f.got : AnswerOK(r, f.got[r])'
    BY <2>1, StaysTrue
  <2>. QED  BY <1>1, <2>2 DEF FetchOK
<1>2. ShownOK(p, v)'
  <2>1. p.kind = "tx" => p.arg \in Txs
    BY PageKinds DEF PageOK
  <2>2. ShownOK(p, v)
    BY DEF PageOK
  <2>. QED  BY <2>1, <2>2, StaysTrue DEF ShownOK
<1>. QED  BY <1>1, <1>2 DEF PageOK

\* A step of a page leads to PageOK, seen in the state in which it is taken.
LEMMA PageStep ==
    ASSUME IInv, UNCHANGED backendVars, PageOK(page', view', fetches')
    PROVE  IInv'
<1>1. RowsOK'
  BY DEF IInv, RowsOK, backendVars, chainVars, Executed
<1>2. PICK p, v, F : p = page' /\ v = view' /\ F = fetches'
  OBVIOUS
<1>3. Grows
  BY DEF Grows, backendVars, chainVars, Executed
<1>4. PageOK(p, v, F)
  BY <1>2
<1>5. PageOK(p, v, F)'
  BY <1>3, <1>4, PageStays
<1>. QED  BY <1>1, <1>2, <1>5 DEF IInv

\* A fetch that begins.
LEMMA Fresh ==
    ASSUME NEW stage, NEW requests, \A r \in requests : RequestOK(r)
    PROVE  LET f == Fetch(stage, requests) IN
           /\ f.stage = stage /\ AllOf(f) = requests /\ DOMAIN f.got = {}
           /\ \A p : stage # "none" /\ Plan(p, f) => FetchOK(p, f)
<1>. DEFINE f == Fetch(stage, requests)
<1>1. /\ f.stage = stage /\ f.asked = requests /\ f.got = <<>>
      /\ f = [stage |-> f.stage, asked |-> f.asked, got |-> f.got]
  BY DEF Fetch
<1>2. DOMAIN <<>> = {}
  OBVIOUS
<1>3. DOMAIN f.got = {} /\ AllOf(f) = requests
  <2>. HIDE DEF f
  <2>. QED  BY <1>1, <1>2 DEF AllOf
<1>4. ASSUME NEW p, stage # "none", Plan(p, f) PROVE FetchOK(p, f)
  <2>. HIDE DEF f
  <2>. QED  BY <1>1, <1>3, <1>4 DEF FetchOK
<1>. QED  BY <1>1, <1>3, <1>4

\* An empty slot is always in order.
LEMMA Idling == NoFetch.stage = "none" /\ \A p : FetchOK(p, NoFetch)
<1>1. /\ NoFetch.stage = "none" /\ NoFetch.asked = {} /\ NoFetch.got = <<>>
      /\ NoFetch = [stage |-> NoFetch.stage, asked |-> NoFetch.asked, got |-> NoFetch.got]
  BY DEF NoFetch, Fetch
<1>2. DOMAIN <<>> = {}
  OBVIOUS
<1>. QED  BY <1>1, <1>2 DEF FetchOK, AllOf

\* What a page asks for first.
LEMMA Begins ==
    ASSUME NEW p \in Pages
    PROVE  Begin(p).stage = "first" /\ FetchOK(p, Begin(p))
<1>. DEFINE requests == FirstRequests(p)
            f == Fetch("first", requests)
<1>1. p.kind \in Kinds /\ (p.kind = "tx" => p.arg \in Txs)
  BY PageKinds
<1>2. \A r \in requests : RequestOK(r)
  BY <1>1 DEF FirstRequests, RequestOK, Kinds
<1>3. /\ p.kind = "dashboard" => <<"recentTransactions", FewRows>> \in requests
      /\ p.kind = "transactions" => requests = {<<"recentTransactions", ManyRows>>}
      /\ p.kind = "tx" => requests = {<<"transaction", p.arg>>}
      /\ p.kind = "block" => requests = {<<"block", p.arg>>}
      /\ p.kind = "address" => <<"address", p.arg>> \in requests
  BY DEF FirstRequests
<1>. HIDE DEF requests
<1>4. f.stage = "first" /\ AllOf(f) = requests /\ DOMAIN f.got = {}
  BY <1>2, Fresh
<1>5. Plan(p, f)
  <2>. HIDE DEF f
  <2>. QED  BY <1>3, <1>4 DEF Plan
<1>6. FetchOK(p, f)
  BY <1>2, <1>5, Fresh
<1>. QED  BY <1>4, <1>6 DEF Begin, requests

---------------------------------------------------------------------------
(* The user and the timer.                                                 *)

\* A page that is mounted.
LEMMA Mounted ==
    ASSUME NEW p \in Pages
    PROVE  PageOK(p, InitialView(p.kind), [s \in Slots |-> IF s = 1 THEN Begin(p) ELSE NoFetch])
<1>. DEFINE v == InitialView(p.kind)
            F == [s \in Slots |-> IF s = 1 THEN Begin(p) ELSE NoFetch]
<1>1. 1 \in Slots
  BY ExplorerAssumption
<1>2. F = [s \in Slots |-> F[s]] /\ \A s \in Slots : FetchOK(p, F[s])
  BY Begins, Idling
<1>3. p.kind \in Kinds
  BY PageKinds
<1>4. ShownOK(p, v)
  BY <1>3 DEF ShownOK, InitialView, Kinds
<1>5. v.loading = TRUE
  BY <1>3 DEF InitialView, Kinds
<1>6. LoadingOK(p, v, F)
  <2>1. F[1].stage = "first" /\ \A s \in Slots \ {1} : F[s].stage = "none"
    BY <1>1, Begins, Idling
  <2>. HIDE DEF v, F
  <2>. QED  BY <1>5, <2>1 DEF LoadingOK
<1>. HIDE DEF v, F
<1>7. PageOK(p, v, F)
  BY <1>2, <1>4, <1>6 DEF PageOK
<1>. QED  BY <1>7 DEF v, F

\* A page is opened, by a link or the search of the dashboard.
LEMMA OpenStep ==
    ASSUME IInv, NEW p \in Pages, Open(p)
    PROVE  IInv'
<1>1. /\ page' = p /\ view' = InitialView(p.kind)
      /\ fetches' = [s \in Slots |-> IF s = 1 THEN Begin(p) ELSE NoFetch]
      /\ UNCHANGED backendVars
  BY DEF Open
<1>2. PageOK(page', view', fetches')
  BY <1>1, Mounted
<1>. QED  BY <1>1, <1>2, PageStep

\* A step of the fetch in slot s: f is what it is then, w the state of the page.
LEMMA Goes ==
    ASSUME IInv, NEW s \in Slots, NEW f, FetchOK(page, f), NEW w, ShownOK(page, w),
           page.kind \notin Polled => s = 1 /\ w.loading = (f.stage # "none"),
           UNCHANGED <<backendVars, page>>, view' = w, fetches' = [fetches EXCEPT ![s] = f]
    PROVE  IInv'
<1>1. PICK p, v, F : p = page /\ v = view /\ F = fetches
  OBVIOUS
<1>. DEFINE G == [F EXCEPT ![s] = f]
<1>2. PageOK(p, v, F) /\ FetchOK(p, f) /\ ShownOK(p, w)
  BY <1>1 DEF IInv
<1>3. /\ G = [r \in Slots |-> G[r]] /\ G[s] = f
      /\ \A r \in Slots : r # s => G[r] = F[r]
  BY <1>2 DEF PageOK
<1>4. page' = p /\ view' = w /\ fetches' = G
  BY <1>1
<1>. HIDE DEF G
<1>5. \A r \in Slots : FetchOK(p, G[r])
  BY <1>2, <1>3 DEF PageOK
<1>6. LoadingOK(p, w, G)
  BY <1>1, <1>2, <1>3 DEF PageOK, LoadingOK
<1>7. PageOK(p, w, G)
  BY <1>2, <1>3, <1>5, <1>6 DEF PageOK
<1>. QED  BY <1>4, <1>7, PageStep

\* The interval of a list fires.
LEMMA StartFetchStep ==
    ASSUME IInv, page.kind \in Polled, NEW s \in Slots, fetches' = [fetches EXCEPT ![s] = Begin(page)],
           UNCHANGED <<backendVars, page, view>>
    PROVE  IInv'
<1>1. FetchOK(page, Begin(page)) /\ ShownOK(page, view)
  BY Begins DEF IInv, PageOK
<1>. QED  BY <1>1, Goes

\* The filter or the order of the wallets changes: fetches for the old query go on.
LEMMA SetQueryStep ==
    ASSUME IInv, NEW q \in Queries, SetQuery(q)
    PROVE  IInv'
<1>1. PICK s \in Slots : fetches' = [fetches EXCEPT ![s] = Begin(page')]
  BY DEF SetQuery, StartFetch
<1>2. PICK p, v, F : p = page /\ v = view /\ F = fetches
  OBVIOUS
<1>. DEFINE o == PageOf("wallets", q)
            w == [v EXCEPT !.loading = TRUE, !.at = 1]
            G == [F EXCEPT ![s] = Begin(o)]
<1>3. /\ p.kind = "wallets" /\ PageOK(p, v, F) /\ UNCHANGED backendVars
      /\ page' = o /\ view' = w /\ fetches' = G
  BY <1>1, <1>2 DEF SetQuery, IInv
<1>4. o \in Pages /\ o.kind = "wallets"
  BY DEF Pages, PageOf
<1>. HIDE DEF o, w
<1>5. FetchOK(o, Begin(o))
  BY <1>4, Begins
<1>6. \A f : FetchOK(p, f) => FetchOK(o, f)
  BY <1>3, <1>4 DEF FetchOK, Plan
<1>7. ShownOK(o, w) /\ LoadingOK(o, w, G)
  BY <1>4 DEF ShownOK, LoadingOK, Polled, Lists
<1>8. G = [r \in Slots |-> G[r]] /\ \A r \in Slots : FetchOK(o, G[r])
  BY <1>3, <1>5, <1>6 DEF PageOK
<1>. HIDE DEF G
<1>9. PageOK(o, w, G)
  BY <1>4, <1>7, <1>8 DEF PageOK
<1>. QED  BY <1>3, <1>9, PageStep

\* The pager.
LEMMA TurnPageStep ==
    ASSUME IInv, TurnPage
    PROVE  IInv'
<1>1. PICK p, v, F : p = page /\ v = view /\ F = fetches
  OBVIOUS
<1>2. PICK n : view' = [v EXCEPT !.at = n]
  BY <1>1 DEF TurnPage
<1>3. p.kind \in Lists /\ PageOK(p, v, F) /\ page' = p /\ fetches' = F /\ UNCHANGED backendVars
  BY <1>1 DEF TurnPage, IInv
<1>. DEFINE w == [v EXCEPT !.at = n]
<1>4. ShownOK(p, w)
  <2>1. p.kind \in {"transactions", "blocks", "wallets"}
    BY <1>3 DEF Lists
  <2>2. ASSUME p.kind = "transactions"
        PROVE  w = [x \in {"loading", "txs", "at"} |-> w[x]] /\ w.txs = v.txs
    BY <1>3, <2>2 DEF PageOK, ShownOK
  <2>. HIDE DEF w
  <2>. QED  BY <1>3, <2>1, <2>2 DEF PageOK, ShownOK
<1>. HIDE DEF w
<1>5. LoadingOK(p, w, F)
  BY <1>3 DEF LoadingOK, Polled
<1>6. PageOK(p, w, F)
  BY <1>3, <1>4, <1>5 DEF PageOK
<1>. QED  BY <1>2, <1>3, <1>6, PageStep DEF w

---------------------------------------------------------------------------
(* Answers.                                                                *)

\* What getAddress goes on with.
More(requests) ==
    IF \E a \in Addresses : <<"address", a>> \in requests /\ GetAddress(a) # Null
    THEN {<<"recentTransactions", ManyRows>>} ELSE {}

\* The requests of a fetch that are answered, each truly, leave it in order.
LEMMA Served ==
    ASSUME RowsOK, NEW p \in Pages, NEW f, FetchOK(p, f), f.stage # "none",
           NEW requests, requests \subseteq f.asked, NEW got,
           got = [r \in DOMAIN f.got \cup requests |-> IF r \in requests THEN Answer(r) ELSE f.got[r]]
    PROVE  LET g == [stage |-> f.stage, asked |-> (f.asked \ requests) \cup More(requests), got |-> got]
           IN  FetchOK(p, g)
<1>. DEFINE more == More(requests)
            g == [stage |-> f.stage, asked |-> (f.asked \ requests) \cup more, got |-> got]
<1>1. /\ g.stage = f.stage /\ g.asked = (f.asked \ requests) \cup more /\ g.got = got
      /\ g = [stage |-> g.stage, asked |-> g.asked, got |-> g.got]
  OBVIOUS
<1>2. DOMAIN got = DOMAIN f.got \cup requests
  OBVIOUS
<1>3. more = {} \/ more = {<<"recentTransactions", ManyRows>>}
  BY DEF More
<1>4. \A r \in more : r[1] = "recentTransactions"
  BY <1>3
<1>5. more # {} => \E a : <<"address", a>> \in requests
  BY DEF More
<1>6. (p.kind = "address" /\ <<"address", p.arg>> \in requests /\ got[<<"address", p.arg>>] # Null) =>
          <<"recentTransactions", ManyRows>> \in more
  <2>. SUFFICES ASSUME p.kind = "address", <<"address", p.arg>> \in requests,
                       got[<<"address", p.arg>>] # Null
                PROVE  <<"recentTransactions", ManyRows>> \in more
    OBVIOUS
  <2>. DEFINE r == <<"address", p.arg>>
  <2>1. got[r] = Answer(r)
    BY <1>2
  <2>2. Answer(r) = GetAddress(p.arg)
    BY DEF Answer
  <2>3. p.arg \in Addresses
    BY PageKinds
  <2>. QED  BY <2>1, <2>2, <2>3 DEF More
<1>7. AllOf(g) = AllOf(f) \cup more
  <2>. HIDE DEF g, more
  <2>. QED  BY <1>1, <1>2 DEF AllOf
<1>8. \A r \in AllOf(f) : RequestOK(r)
  BY DEF FetchOK
<1>. HIDE DEF g, more
<1>9. \A r \in AllOf(g) : RequestOK(r)
  BY <1>4, <1>7, <1>8 DEF RequestOK
<1>10. \A r \in DOMAIN g.got : AnswerOK(r, g.got[r])
  <2>1. ASSUME NEW r \in requests PROVE AnswerOK(r, got[r])
    <3>1. RequestOK(r)
      BY <1>8 DEF AllOf
    <3>2. got[r] = Answer(r)
      BY <1>2
    <3>. QED  BY <3>1, <3>2, AnswerTrue
  <2>2. ASSUME NEW r \in DOMAIN f.got, r \notin requests PROVE AnswerOK(r, got[r])
    <3>1. got[r] = f.got[r]
      BY <1>2, <2>2
    <3>. QED  BY <3>1 DEF FetchOK
  <2>. QED  BY <1>1, <1>2, <2>1, <2>2
<1>11. Plan(p, g)
  <2>1. Plan(p, f) /\ requests \subseteq AllOf(f)
    BY DEF FetchOK, AllOf
  <2>2. p.kind = "address" =>
          /\ <<"address", p.arg>> \in AllOf(g)
          /\ <<"address", p.arg>> \in DOMAIN g.got /\ g.got[<<"address", p.arg>>] # Null =>
               <<"recentTransactions", ManyRows>> \in AllOf(g)
    <3>. SUFFICES ASSUME p.kind = "address"
                  PROVE  /\ <<"address", p.arg>> \in AllOf(g)
                         /\ <<"address", p.arg>> \in DOMAIN g.got /\ g.got[<<"address", p.arg>>] # Null =>
                              <<"recentTransactions", ManyRows>> \in AllOf(g)
      OBVIOUS
    <3>. DEFINE r == <<"address", p.arg>>
    <3>1. r \in AllOf(g)
      BY <1>7, <2>1 DEF Plan
    <3>2. ASSUME r \in DOMAIN g.got, g.got[r] # Null
          PROVE  <<"recentTransactions", ManyRows>> \in AllOf(g)
      <4>1. CASE r \in requests
        BY <1>1, <1>6, <1>7, <3>2, <4>1
      <4>2. CASE r \notin requests
        <5>1. r \in DOMAIN f.got /\ f.got[r] = g.got[r]
          BY <1>1, <1>2, <3>2, <4>2
        <5>. QED  BY <1>7, <2>1, <3>2, <5>1 DEF Plan
      <4>. QED  BY <4>1, <4>2
    <3>. QED  BY <3>1, <3>2
  <2>3. p.kind = "dashboard" => <<"recentTransactions", FewRows>> \in AllOf(g)
    BY <1>7, <2>1 DEF Plan
  <2>4. (\A a : <<"address", a>> \notin AllOf(f)) => AllOf(g) = AllOf(f)
    BY <1>5, <1>7, <2>1
  <2>5. p.kind = "transactions" => AllOf(g) = {<<"recentTransactions", ManyRows>>}
    BY <2>1, <2>4 DEF Plan
  <2>6. p.kind = "tx" =>
         /\ g.stage = "first" => AllOf(g) = {<<"transaction", p.arg>>}
         /\ g.stage = "rpc" => AllOf(g) = {<<"rpcTransaction", p.arg>>, <<"receipt", p.arg>>}
         /\ g.stage = "logs" => AllOf(g) = {<<"receipt", p.arg>>}
    BY <1>1, <2>1, <2>4 DEF Plan
  <2>7. p.kind = "block" =>
         /\ g.stage = "first" => AllOf(g) = {<<"block", p.arg>>}
         /\ g.stage = "txs" => \A r \in AllOf(g) : r[1] = "transaction" /\ r[2] \in Txs
    <3>1. ASSUME p.kind = "block", g.stage = "first" PROVE AllOf(g) = {<<"block", p.arg>>}
      BY <1>1, <2>1, <2>4, <3>1 DEF Plan
    <3>2. ASSUME p.kind = "block", g.stage = "txs" PROVE \A r \in AllOf(g) : r[1] = "transaction" /\ r[2] \in Txs
      <4>1. \A r \in AllOf(f) : r[1] = "transaction" /\ r[2] \in Txs
        BY <1>1, <2>1, <3>2 DEF Plan
      <4>2. \A a : <<"address", a>>[1] = "address"
        OBVIOUS
      <4>. QED  BY <2>4, <4>1, <4>2
    <3>. QED  BY <3>1, <3>2
  <2>. QED  BY <2>2, <2>3, <2>5, <2>6, <2>7 DEF Plan
<1>12. f.stage # "none"
  OBVIOUS
<1>13. FetchOK(p, g)
  BY <1>1, <1>9, <1>10, <1>11, <1>12 DEF FetchOK
<1>. QED  BY <1>13 DEF g, more

\* Answers arrive.
LEMMA AnsweredStep ==
    ASSUME IInv, NEW s \in Slots, Answered(s)
    PROVE  IInv'
<1>1. PICK p, F : p = page /\ F = fetches
  OBVIOUS
<1>2. PICK requests : requests \subseteq F[s].asked /\ Serve(s, requests) /\ F[s].asked # {}
  BY <1>1 DEF Answered
<1>. DEFINE f == F[s]
            got == [r \in DOMAIN f.got \cup requests |-> IF r \in requests THEN Answer(r) ELSE f.got[r]]
            g == [stage |-> f.stage, asked |-> (f.asked \ requests) \cup More(requests), got |-> got]
<1>3. FetchOK(p, f) /\ f.stage # "none" /\ p \in Pages /\ RowsOK
  BY <1>1, <1>2 DEF IInv, PageOK, FetchOK
<1>4. FetchOK(p, g)
  <2>. HIDE DEF f
  <2>. QED  BY <1>2, <1>3, Served DEF f
<1>5. fetches' = [F EXCEPT ![s] = g] /\ UNCHANGED <<backendVars, page, view>>
  <2>1. F = [r \in Slots |-> F[r]] /\ f = [stage |-> f.stage, asked |-> f.asked, got |-> f.got]
    BY <1>1, <1>3 DEF IInv, PageOK, FetchOK
  <2>2. fetches' = [F EXCEPT ![s].asked = (@ \ requests) \cup More(requests), ![s].got = [r \in DOMAIN @ \cup requests |-> IF r \in requests THEN Answer(r) ELSE @[r]]]
    BY <1>1, <1>2 DEF Serve, More
  <2>. QED  BY <1>2, <2>1, <2>2 DEF Serve
<1>6. ShownOK(page, view) /\ (page.kind \notin Polled => s = 1 /\ view.loading = (g.stage # "none"))
  BY <1>1, <1>3 DEF IInv, PageOK, LoadingOK
<1>. HIDE DEF g
<1>. QED  BY <1>1, <1>4, <1>5, <1>6, Goes

\* What a fetch function that goes on has to go on with.
LEMMA Awaited ==
    ASSUME IInv, NEW s \in Slots, NEW kind, NEW stage, stage # "none", Ready(s, kind, stage)
    PROVE  /\ page \in Pages /\ page.kind = kind /\ UNCHANGED <<backendVars, page>>
           /\ Plan(page, fetches[s]) /\ fetches[s].stage = stage
           /\ AllOf(fetches[s]) = DOMAIN fetches[s].got
           /\ \A r \in DOMAIN fetches[s].got : RequestOK(r) /\ AnswerOK(r, fetches[s].got[r])
           /\ ShownOK(page, view)
           /\ page.kind \notin Polled => s = 1 /\ view.loading = TRUE
<1>1. FetchOK(page, fetches[s]) /\ LoadingOK(page, view, fetches) /\ ShownOK(page, view) /\ page \in Pages
  BY DEF IInv, PageOK
<1>2. page.kind = kind /\ fetches[s].stage = stage /\ fetches[s].asked = {} /\ UNCHANGED <<backendVars, page>>
  BY DEF Ready
<1>3. AllOf(fetches[s]) = DOMAIN fetches[s].got
  BY <1>2 DEF AllOf
<1>4. \A r \in DOMAIN fetches[s].got : RequestOK(r) /\ AnswerOK(r, fetches[s].got[r])
  BY <1>1, <1>3 DEF FetchOK
<1>5. Plan(page, fetches[s])
  BY <1>1, <1>2 DEF FetchOK
<1>6. page.kind \notin Polled => s = 1 /\ view.loading = TRUE
  <2>. SUFFICES ASSUME page.kind \notin Polled PROVE s = 1 /\ view.loading = TRUE
    OBVIOUS
  <2>1. s = 1
    BY <1>1, <1>2 DEF LoadingOK
  <2>. QED  BY <1>1, <1>2, <2>1 DEF LoadingOK
<1>. QED  BY <1>1, <1>2, <1>3, <1>4, <1>5, <1>6

\* The one answer of a fetch that asked for one thing.
LEMMA OnlyOne ==
    ASSUME NEW s, NEW r, DOMAIN fetches[s].got = {r}
    PROVE  Only(s) = fetches[s].got[r]
BY DEF Only

\* The page goes on loading behind another await, or has returned and shows its view.
LEMMA Returns ==
    ASSUME IInv, NEW s \in Slots, NEW w, ShownOK(page, w),
           page.kind \notin Polled => s = 1 /\ w.loading = FALSE,
           UNCHANGED <<backendVars, page>>, view' = w, Return(s)
    PROVE  IInv'
BY Goes, Idling DEF Return

\* The other way on: the page asks for something else and goes on loading.
LEMMA Awaits ==
    ASSUME IInv, NEW s \in Slots, NEW w, ShownOK(page, w),
           page.kind \notin Polled => s = 1 /\ w.loading = TRUE,
           UNCHANGED <<backendVars, page>>, view' = w,
           NEW stage, stage # "none", NEW requests, \A r \in requests : RequestOK(r),
           \A f : f.stage = stage /\ AllOf(f) = requests /\ DOMAIN f.got = {} => Plan(page, f),
           Await(s, stage, requests)
    PROVE  IInv'
<1>. DEFINE f == Fetch(stage, requests)
<1>1. f.stage = stage /\ FetchOK(page, f)
  BY Fresh
<1>2. fetches' = [fetches EXCEPT ![s] = f]
  BY DEF Await
<1>. HIDE DEF f
<1>. QED  BY <1>1, <1>2, Goes

---------------------------------------------------------------------------
(* The lists.                                                              *)

\* The dashboard shows the rows it asked for.
LEMMA ShowDashboardStep ==
    ASSUME IInv, NEW s \in Slots, ShowDashboard(s)
    PROVE  IInv'
<1>. DEFINE r == <<"recentTransactions", FewRows>>
<1>1. Ready(s, "dashboard", "first") /\ Return(s) /\ view'.txs = fetches[s].got[r]
  BY DEF ShowDashboard, Got
<1>2. /\ page.kind = "dashboard" /\ UNCHANGED <<backendVars, page>>
      /\ r \in DOMAIN fetches[s].got /\ AnswerOK(r, fetches[s].got[r])
  BY <1>1, Awaited DEF Plan
<1>3. PICK w : w = view'
  OBVIOUS
<1>4. \A tx \in w.txs : FromBackend(tx)
  BY <1>1, <1>2, <1>3 DEF AnswerOK
<1>5. ShownOK(page, w) /\ page.kind \in Polled
  BY <1>2, <1>4 DEF ShownOK, Polled
<1>. QED  BY <1>1, <1>2, <1>3, <1>5, Returns

\* So does the list of transactions.
LEMMA ShowTransactionsStep ==
    ASSUME IInv, NEW s \in Slots, ShowTransactions(s)
    PROVE  IInv'
<1>. DEFINE r == <<"recentTransactions", ManyRows>>
            w == [view EXCEPT !.loading = FALSE, !.txs = Only(s)]
<1>1. Ready(s, "transactions", "first") /\ Return(s) /\ view' = w
  BY DEF ShowTransactions
<1>2. /\ page.kind = "transactions" /\ UNCHANGED <<backendVars, page>> /\ ShownOK(page, view)
      /\ DOMAIN fetches[s].got = {r} /\ AnswerOK(r, fetches[s].got[r])
  BY <1>1, Awaited DEF Plan
<1>3. Only(s) = fetches[s].got[r]
  BY <1>2, OnlyOne
<1>4. \A tx \in Only(s) : FromBackend(tx)
  BY <1>2, <1>3 DEF AnswerOK
<1>5. w = [x \in {"loading", "txs", "at"} |-> w[x]] /\ w.txs = Only(s)
  <2>1. PICK v, rows : v = view /\ rows = Only(s)
    OBVIOUS
  <2>2. v = [x \in {"loading", "txs", "at"} |-> v[x]]
    BY <1>2, <2>1 DEF ShownOK
  <2>3. LET u == [v EXCEPT !.loading = FALSE, !.txs = rows] IN
        u = [x \in {"loading", "txs", "at"} |-> u[x]] /\ u.txs = rows
    BY <2>2
  <2>. QED  BY <2>1, <2>3
<1>. HIDE DEF w
<1>6. ShownOK(page, w) /\ page.kind \in Polled
  BY <1>2, <1>4, <1>5 DEF ShownOK, Polled, Lists
<1>. QED  BY <1>1, <1>2, <1>6, Returns

\* The lists of blocks and of wallets hold no transactions.
LEMMA OtherLists ==
    ASSUME NEW p, p.kind \in {"blocks", "wallets"}
    PROVE  p.kind \in Polled /\ (\A w : ShownOK(p, w)) /\ (\A f : Plan(p, f))
BY DEF ShownOK, Plan, Polled, Lists

\* Whatever those lists do next.
LEMMA ListsStep ==
    ASSUME IInv, NEW s \in Slots,
           ShowWallets(s) \/ ShowBackendBlocks(s) \/ AskBlocks(s) \/ ShowRpcBlocks(s)
    PROVE  IInv'
<1>1. \E kind \in {"blocks", "wallets"}, stage \in {"first", "latest", "blocks"} : Ready(s, kind, stage)
  BY DEF ShowWallets, ShowBackendBlocks, AskBlocks, ShowRpcBlocks
<1>2. page.kind \in {"blocks", "wallets"} /\ UNCHANGED <<backendVars, page>>
  BY <1>1 DEF Ready
<1>3. PICK w : w = view'
  OBVIOUS
<1>4. /\ page.kind \in Polled /\ ShownOK(page, w) /\ \A f : Plan(page, f)
  BY <1>2, OtherLists
<1>5. CASE Return(s)
  BY <1>2, <1>3, <1>4, <1>5, Returns
<1>6. ASSUME NEW stage, stage # "none", NEW requests, \A r \in requests : r[1] \in {"latestBlock", "block"},
             Await(s, stage, requests)
      PROVE  IInv'
  <2>1. \A r \in requests : RequestOK(r)
    BY <1>6 DEF RequestOK
  <2>. QED  BY <1>2, <1>3, <1>4, <1>6, <2>1, Awaits
<1>7. CASE ShowBackendBlocks(s)
  <2>1. Return(s) \/ Await(s, "latest", {<<"latestBlock">>})
    BY <1>7 DEF ShowBackendBlocks
  <2>. QED  BY <1>5, <1>6, <2>1
<1>8. CASE AskBlocks(s)
  <2>. DEFINE requests == {<<"block", n>> : n \in {m \in 0..Only(s).number : m + ManyRows > Only(s).number}}
  <2>1. Return(s) \/ Await(s, "blocks", requests)
    BY <1>8 DEF AskBlocks
  <2>2. \A r \in requests : r[1] \in {"latestBlock", "block"}
    OBVIOUS
  <2>. HIDE DEF requests
  <2>. QED  BY <1>5, <1>6, <2>1, <2>2
<1>. QED  BY <1>5, <1>7, <1>8 DEF ShowWallets, ShowRpcBlocks

---------------------------------------------------------------------------
(* The page of a transaction.                                              *)

\* What the page of a transaction has to keep.
LEMMA TxKind ==
    ASSUME NEW p, p.kind = "tx"
    PROVE  /\ p.kind \notin Polled
           /\ \A f : f.stage = "price" => Plan(p, f)
           /\ \A v : ShownOK(p, v) <=>
                /\ v = [x \in {"loading", "tx", "ethPrice", "rotated"} |-> v[x]]
                /\ v.tx # Null => TxOK(v.tx) /\ v.tx.hash = p.arg
                /\ v.rotated \in BOOLEAN /\ (v.rotated => Rotated(p.arg))
BY DEF ShownOK, Plan, Polled, Lists

\* The row of the backend, or the node is asked.
LEMMA ShowBackendTxStep ==
    ASSUME IInv, NEW s \in Slots, ShowBackendTx(s)
    PROVE  IInv'
<1>. DEFINE r == <<"transaction", page.arg>>
<1>1. Ready(s, "tx", "first")
  BY DEF ShowBackendTx
<1>2. /\ page.kind = "tx" /\ page \in Pages /\ UNCHANGED <<backendVars, page>> /\ ShownOK(page, view)
      /\ DOMAIN fetches[s].got = {r} /\ AnswerOK(r, fetches[s].got[r])
  <2>1. /\ Plan(page, fetches[s]) /\ AllOf(fetches[s]) = DOMAIN fetches[s].got /\ fetches[s].stage = "first"
        /\ \A x \in DOMAIN fetches[s].got : AnswerOK(x, fetches[s].got[x])
        /\ page.kind = "tx" /\ page \in Pages /\ UNCHANGED <<backendVars, page>> /\ ShownOK(page, view)
    BY <1>1, Awaited
  <2>2. DOMAIN fetches[s].got = {r}
    BY <2>1 DEF Plan
  <2>. QED  BY <2>1, <2>2
<1>3. page.kind \notin Polled /\ s = 1 /\ view.loading = TRUE
  BY <1>1, <1>2, Awaited, TxKind
<1>4. Only(s) = fetches[s].got[r]
  BY <1>2, OnlyOne
<1>5. page.arg \in Txs
  BY <1>2, PageKinds
<1>6. CASE Only(s) # Null
  <2>1. PICK v, tx : v = view /\ tx = Only(s)
    OBVIOUS
  <2>. DEFINE w == [v EXCEPT !.tx = tx]
  <2>2. FromBackend(tx) /\ tx.hash = page.arg
    BY <1>2, <1>4, <1>6, <2>1 DEF AnswerOK
  <2>3. v = [x \in {"loading", "tx", "ethPrice", "rotated"} |-> v[x]]
        /\ v.rotated \in BOOLEAN /\ (v.rotated => Rotated(page.arg))
    BY <1>2, <2>1, TxKind
  <2>4. /\ w = [x \in {"loading", "tx", "ethPrice", "rotated"} |-> w[x]]
        /\ w.tx = tx /\ w.rotated = v.rotated /\ w.loading = v.loading
    BY <2>3
  <2>5. view' = w /\ Await(s, "price", {<<"poolPrice">>})
    BY <1>6, <2>1 DEF ShowBackendTx
  <2>. HIDE DEF w
  <2>6. ShownOK(page, w)
    BY <1>2, <2>2, <2>3, <2>4, TxKind DEF TxOK
  <2>7. \A x \in {<<"poolPrice">>} : RequestOK(x)
    BY DEF RequestOK
  <2>8. \A f : f.stage = "price" => Plan(page, f)
    BY <1>2, TxKind
  <2>9. w.loading = TRUE
    BY <1>3, <2>1, <2>4
  <2>. QED  BY <1>2, <1>3, <2>5, <2>6, <2>7, <2>8, <2>9, Awaits
<1>7. CASE Only(s) = Null
  <2>. DEFINE requests == {<<"rpcTransaction", page.arg>>, <<"receipt", page.arg>>}
  <2>1. view' = view /\ Await(s, "rpc", requests)
    BY <1>7 DEF ShowBackendTx
  <2>2. \A x \in requests : RequestOK(x)
    BY <1>5 DEF RequestOK
  <2>. HIDE DEF requests
  <2>3. \A f : f.stage = "rpc" /\ AllOf(f) = requests => Plan(page, f)
    BY <1>2 DEF Plan, requests
  <2>. QED  BY <1>2, <1>3, <2>1, <2>2, <2>3, Awaits
<1>. QED  BY <1>6, <1>7

\* What the page puts together from the node's answers is true.
LEMMA RpcTxTrue ==
    ASSUME NEW t \in Txs, NEW tx, tx.hash = t, NEW receipt, receipt = Null \/ ReceiptOK(t, receipt)
    PROVE  FromNode(RpcTxOf(tx, receipt)) /\ RpcTxOf(tx, receipt).hash = t
<1>. DEFINE o == RpcTxOf(tx, receipt)
<1>1. /\ o.hash = t /\ o.algorithm = -1 /\ o.signatureScheme \in {"7702", "ecdsa"}
      /\ o.status = IF receipt = Null THEN "0x1" ELSE receipt.status
      /\ o.gasUsed = IF receipt = Null THEN "limit" ELSE "used"
  BY DEF RpcTxOf
<1>. HIDE DEF o
<1>2. FromNode(o)
  BY <1>1 DEF FromNode, ReceiptOK
<1>. QED  BY <1>1, <1>2 DEF o

\* The two answers of the node may be of different times: either is still true.
LEMMA ShowRpcTxStep ==
    ASSUME IInv, NEW s \in Slots, ShowRpcTx(s)
    PROVE  IInv'
<1>1. Ready(s, "tx", "rpc")
  BY DEF ShowRpcTx
<1>. DEFINE asked == <<"rpcTransaction", page.arg>>
            paid == <<"receipt", page.arg>>
<1>2. /\ page.kind = "tx" /\ page \in Pages /\ UNCHANGED <<backendVars, page>> /\ ShownOK(page, view)
      /\ asked \in DOMAIN fetches[s].got /\ paid \in DOMAIN fetches[s].got
      /\ AnswerOK(asked, fetches[s].got[asked]) /\ AnswerOK(paid, fetches[s].got[paid])
  <2>1. /\ Plan(page, fetches[s]) /\ AllOf(fetches[s]) = DOMAIN fetches[s].got /\ fetches[s].stage = "rpc"
        /\ \A x \in DOMAIN fetches[s].got : AnswerOK(x, fetches[s].got[x])
        /\ page.kind = "tx" /\ page \in Pages /\ UNCHANGED <<backendVars, page>> /\ ShownOK(page, view)
    BY <1>1, Awaited
  <2>2. DOMAIN fetches[s].got = {asked, paid}
    BY <2>1 DEF Plan
  <2>. QED  BY <2>1, <2>2
<1>3. page.kind \notin Polled /\ s = 1 /\ view.loading = TRUE
  BY <1>1, <1>2, Awaited, TxKind
<1>4. page.arg \in Txs
  BY <1>2, PageKinds
<1>5. PICK v, tx, receipt : v = view /\ tx = fetches[s].got[asked] /\ receipt = fetches[s].got[paid]
  OBVIOUS
<1>6. (tx = Null \/ tx.hash = page.arg) /\ (receipt = Null \/ ReceiptOK(page.arg, receipt))
  BY <1>2, <1>5 DEF AnswerOK
<1>. DEFINE o == IF tx = Null THEN v.tx ELSE RpcTxOf(tx, receipt)
            w == [v EXCEPT !.tx = o]
<1>7. view' = w /\ Await(s, "price", {<<"poolPrice">>})
  <2>1. view' = [view EXCEPT !.tx = IF tx = Null THEN @ ELSE RpcTxOf(tx, receipt)]
    BY <1>5 DEF ShowRpcTx, Got
  <2>. QED  BY <1>5, <2>1 DEF ShowRpcTx
<1>8. /\ v = [x \in {"loading", "tx", "ethPrice", "rotated"} |-> v[x]]
      /\ v.rotated \in BOOLEAN /\ (v.rotated => Rotated(page.arg))
      /\ v.tx # Null => TxOK(v.tx) /\ v.tx.hash = page.arg
  BY <1>2, <1>5, TxKind
<1>9. o # Null => TxOK(o) /\ o.hash = page.arg
  <2>1. CASE tx = Null
    BY <1>8, <2>1
  <2>2. CASE tx # Null
    BY <1>4, <1>6, <2>2, RpcTxTrue DEF TxOK
  <2>. QED  BY <2>1, <2>2
<1>. HIDE DEF o
<1>10. /\ w = [x \in {"loading", "tx", "ethPrice", "rotated"} |-> w[x]]
       /\ w.tx = o /\ w.rotated = v.rotated /\ w.loading = v.loading
  BY <1>8
<1>. HIDE DEF w
<1>11. ShownOK(page, w)
  BY <1>2, <1>8, <1>9, <1>10, TxKind
<1>12. \A x \in {<<"poolPrice">>} : RequestOK(x)
  BY DEF RequestOK
<1>13. (\A f : f.stage = "price" => Plan(page, f)) /\ w.loading = TRUE
  BY <1>2, <1>3, <1>5, <1>10, TxKind
<1>. QED  BY <1>2, <1>3, <1>7, <1>11, <1>12, <1>13, Awaits

\* The price tells nothing of the transaction.
LEMMA ShowPriceStep ==
    ASSUME IInv, NEW s \in Slots, ShowPrice(s)
    PROVE  IInv'
<1>1. Ready(s, "tx", "price")
  BY DEF ShowPrice
<1>2. /\ page.kind = "tx" /\ page \in Pages /\ UNCHANGED <<backendVars, page>> /\ ShownOK(page, view)
  BY <1>1, Awaited
<1>3. page.kind \notin Polled /\ s = 1 /\ view.loading = TRUE
  BY <1>1, <1>2, Awaited, TxKind
<1>4. PICK v, price : v = view /\ price = Only(s)
  OBVIOUS
<1>. DEFINE w == [v EXCEPT !.ethPrice = price]
            requests == {<<"receipt", page.arg>>}
<1>5. view' = w /\ Await(s, "logs", requests)
  BY <1>4 DEF ShowPrice
<1>6. /\ v = [x \in {"loading", "tx", "ethPrice", "rotated"} |-> v[x]]
      /\ v.rotated \in BOOLEAN /\ (v.rotated => Rotated(page.arg))
      /\ v.tx # Null => TxOK(v.tx) /\ v.tx.hash = page.arg
  BY <1>2, <1>4, TxKind
<1>7. /\ w = [x \in {"loading", "tx", "ethPrice", "rotated"} |-> w[x]]
      /\ w.tx = v.tx /\ w.rotated = v.rotated /\ w.loading = v.loading
  BY <1>6
<1>8. \A x \in requests : RequestOK(x)
  <2>1. page.arg \in Txs
    BY <1>2, PageKinds
  <2>. QED  BY <2>1 DEF RequestOK
<1>. HIDE DEF w, requests
<1>9. ShownOK(page, w)
  BY <1>2, <1>6, <1>7, TxKind
<1>10. \A f : f.stage = "logs" /\ AllOf(f) = requests => Plan(page, f)
  BY <1>2 DEF Plan, requests
<1>11. w.loading = TRUE
  BY <1>3, <1>4, <1>7
<1>. QED  BY <1>2, <1>3, <1>5, <1>8, <1>9, <1>10, <1>11, Awaits

\* The receipt that tells of a rotation is that of the transaction.
LEMMA ShowRotationStep ==
    ASSUME IInv, NEW s \in Slots, ShowRotation(s)
    PROVE  IInv'
<1>. DEFINE r == <<"receipt", page.arg>>
<1>1. Ready(s, "tx", "logs") /\ Return(s)
  BY DEF ShowRotation
<1>2. /\ page.kind = "tx" /\ page \in Pages /\ UNCHANGED <<backendVars, page>> /\ ShownOK(page, view)
      /\ DOMAIN fetches[s].got = {r} /\ AnswerOK(r, fetches[s].got[r])
  <2>1. /\ Plan(page, fetches[s]) /\ AllOf(fetches[s]) = DOMAIN fetches[s].got /\ fetches[s].stage = "logs"
        /\ \A x \in DOMAIN fetches[s].got : AnswerOK(x, fetches[s].got[x])
        /\ page.kind = "tx" /\ page \in Pages /\ UNCHANGED <<backendVars, page>> /\ ShownOK(page, view)
    BY <1>1, Awaited
  <2>2. DOMAIN fetches[s].got = {r}
    BY <2>1 DEF Plan
  <2>. QED  BY <2>1, <2>2
<1>3. page.kind \notin Polled /\ s = 1
  BY <1>1, <1>2, Awaited, TxKind
<1>4. PICK v, receipt : v = view /\ receipt = Only(s)
  OBVIOUS
<1>5. receipt = Null \/ ReceiptOK(page.arg, receipt)
  BY <1>2, <1>4, OnlyOne DEF AnswerOK
<1>. DEFINE rotated == receipt # Null /\ receipt.rotated
            w == [v EXCEPT !.rotated = rotated, !.loading = FALSE]
<1>6. view' = w
  BY <1>4 DEF ShowRotation
<1>7. rotated \in BOOLEAN /\ (rotated => Rotated(page.arg))
  BY <1>5, Zenon DEF ReceiptOK
<1>8. /\ v = [x \in {"loading", "tx", "ethPrice", "rotated"} |-> v[x]]
      /\ v.tx # Null => TxOK(v.tx) /\ v.tx.hash = page.arg
  BY <1>2, <1>4, TxKind
<1>. HIDE DEF rotated
<1>9. /\ w = [x \in {"loading", "tx", "ethPrice", "rotated"} |-> w[x]]
      /\ w.tx = v.tx /\ w.rotated = rotated /\ w.loading = FALSE
  BY <1>8
<1>. HIDE DEF w
<1>10. ShownOK(page, w)
  BY <1>2, <1>7, <1>8, <1>9, TxKind
<1>. QED  BY <1>1, <1>2, <1>3, <1>6, <1>9, <1>10, Returns

---------------------------------------------------------------------------
(* The pages of a block and of an address.                                 *)

\* What the page of a block has to keep.
LEMMA BlockKind ==
    ASSUME NEW p, p.kind = "block"
    PROVE  /\ p.kind \notin Polled
           /\ \A v : ShownOK(p, v) <=>
                /\ v = [x \in {"loading", "block", "txs"} |-> v[x]]
                /\ \A tx \in v.txs : TxOK(tx)
BY DEF ShownOK, Polled, Lists

\* A block is shown and its transactions are asked for, or it is not there.
LEMMA ShowBlockStep ==
    ASSUME IInv, NEW s \in Slots, ShowBlock(s)
    PROVE  IInv'
<1>. DEFINE r == <<"block", page.arg>>
<1>1. Ready(s, "block", "first")
  BY DEF ShowBlock
<1>2. /\ page.kind = "block" /\ UNCHANGED <<backendVars, page>> /\ ShownOK(page, view)
      /\ DOMAIN fetches[s].got = {r} /\ AnswerOK(r, fetches[s].got[r])
  <2>1. /\ Plan(page, fetches[s]) /\ AllOf(fetches[s]) = DOMAIN fetches[s].got /\ fetches[s].stage = "first"
        /\ \A x \in DOMAIN fetches[s].got : AnswerOK(x, fetches[s].got[x])
        /\ page.kind = "block" /\ UNCHANGED <<backendVars, page>> /\ ShownOK(page, view)
    BY <1>1, Awaited
  <2>2. DOMAIN fetches[s].got = {r}
    BY <2>1 DEF Plan
  <2>. QED  BY <2>1, <2>2
<1>3. page.kind \notin Polled /\ s = 1
  BY <1>1, <1>2, Awaited, BlockKind
<1>4. PICK v, block : v = view /\ block = Only(s)
  OBVIOUS
<1>5. block = Null \/ block.transactions \subseteq Txs
  BY <1>2, <1>4, OnlyOne DEF AnswerOK
<1>6. PICK loading : loading = (block # Null)
  OBVIOUS
<1>. DEFINE w == [v EXCEPT !.block = block, !.loading = loading]
            requests == {<<"transaction", t>> : t \in block.transactions}
<1>7. view' = w /\ IF block = Null THEN Return(s) ELSE Await(s, "txs", requests)
  BY <1>4, <1>6 DEF ShowBlock
<1>8. v = [x \in {"loading", "block", "txs"} |-> v[x]] /\ \A tx \in v.txs : TxOK(tx)
  BY <1>2, <1>4, BlockKind
<1>9. w = [x \in {"loading", "block", "txs"} |-> w[x]] /\ w.txs = v.txs /\ w.loading = loading
  BY <1>8
<1>10. block # Null => \A x \in requests : RequestOK(x) /\ x[1] = "transaction" /\ x[2] \in Txs
  BY <1>5 DEF RequestOK
<1>. HIDE DEF w, requests
<1>11. ShownOK(page, w)
  BY <1>2, <1>8, <1>9, BlockKind
<1>12. CASE block = Null
  <2>1. w.loading = FALSE
    BY <1>6, <1>9, <1>12
  <2>. QED  BY <1>2, <1>3, <1>7, <1>11, <1>12, <2>1, Returns
<1>13. CASE block # Null
  <2>1. w.loading = TRUE
    BY <1>6, <1>9, <1>13
  <2>2. \A f : f.stage = "txs" /\ AllOf(f) = requests => Plan(page, f)
    BY <1>2, <1>10, <1>13 DEF Plan
  <2>3. Await(s, "txs", requests) /\ \A x \in requests : RequestOK(x)
    BY <1>7, <1>10, <1>13
  <2>. QED  BY <1>2, <1>3, <1>7, <1>11, <2>1, <2>2, <2>3, Awaits
<1>. QED  BY <1>12, <1>13

\* What stands for a transaction of a block says nothing wrong.
LEMMA BlockTxTrue ==
    ASSUME NEW t \in Txs
    PROVE  FromNode(BlockTxOf(t))
<1>. DEFINE o == BlockTxOf(t)
<1>1. /\ o.hash = t /\ o.algorithm = -1 /\ o.signatureScheme \in {"7702", "ecdsa"}
      /\ o.status = "0x1" /\ o.gasUsed = "0"
  BY DEF BlockTxOf
<1>. HIDE DEF o
<1>2. FromNode(o)
  BY <1>1 DEF FromNode
<1>. QED  BY <1>2 DEF o

\* The transactions of a block.
LEMMA ShowBlockTxsStep ==
    ASSUME IInv, NEW s \in Slots, ShowBlockTxs(s)
    PROVE  IInv'
<1>1. Ready(s, "block", "txs") /\ Return(s)
  BY DEF ShowBlockTxs
<1>2. /\ page.kind = "block" /\ UNCHANGED <<backendVars, page>> /\ ShownOK(page, view)
      /\ \A r \in DOMAIN fetches[s].got :
            r[1] = "transaction" /\ r[2] \in Txs /\ AnswerOK(r, fetches[s].got[r])
  <2>1. /\ Plan(page, fetches[s]) /\ AllOf(fetches[s]) = DOMAIN fetches[s].got /\ fetches[s].stage = "txs"
        /\ \A x \in DOMAIN fetches[s].got : AnswerOK(x, fetches[s].got[x])
        /\ page.kind = "block" /\ UNCHANGED <<backendVars, page>> /\ ShownOK(page, view)
    BY <1>1, Awaited
  <2>2. \A r \in DOMAIN fetches[s].got : r[1] = "transaction" /\ r[2] \in Txs
    BY <2>1 DEF Plan
  <2>. QED  BY <2>1, <2>2
<1>3. page.kind \notin Polled /\ s = 1
  BY <1>1, <1>2, Awaited, BlockKind
<1>. DEFINE rows == {IF Got(s, r) # Null THEN Got(s, r) ELSE BlockTxOf(r[2]) : r \in DOMAIN fetches[s].got}
<1>4. ASSUME NEW tx \in rows PROVE TxOK(tx)
  <2>1. PICK r \in DOMAIN fetches[s].got : tx = IF Got(s, r) # Null THEN Got(s, r) ELSE BlockTxOf(r[2])
    OBVIOUS
  <2>2. r[1] = "transaction" /\ r[2] \in Txs /\ AnswerOK(r, Got(s, r))
    BY <1>2 DEF Got
  <2>3. Got(s, r) = Null \/ FromBackend(Got(s, r))
    BY <2>2 DEF AnswerOK
  <2>. QED  BY <2>1, <2>2, <2>3, BlockTxTrue DEF TxOK
<1>5. PICK v, txs : v = view /\ txs = rows
  OBVIOUS
<1>. DEFINE w == [v EXCEPT !.loading = FALSE, !.txs = txs]
<1>6. view' = w
  BY <1>5 DEF ShowBlockTxs
<1>7. v = [x \in {"loading", "block", "txs"} |-> v[x]]
  BY <1>2, <1>5, BlockKind
<1>8. w = [x \in {"loading", "block", "txs"} |-> w[x]] /\ w.txs = txs /\ w.loading = FALSE
  BY <1>7
<1>. HIDE DEF w, rows
<1>9. ShownOK(page, w)
  BY <1>2, <1>4, <1>5, <1>8, BlockKind
<1>. QED  BY <1>1, <1>2, <1>3, <1>6, <1>8, <1>9, Returns

\* The rows of an address are among the latest ones.
LEMMA ShowAddressStep ==
    ASSUME IInv, NEW s \in Slots, ShowAddress(s)
    PROVE  IInv'
<1>. DEFINE r == <<"address", page.arg>>
            rows == <<"recentTransactions", ManyRows>>
<1>1. Ready(s, "address", "first") /\ Return(s)
  BY DEF ShowAddress
<1>2. /\ page.kind = "address" /\ UNCHANGED <<backendVars, page>>
      /\ r \in DOMAIN fetches[s].got
      /\ fetches[s].got[r] # Null =>
           rows \in DOMAIN fetches[s].got /\ AnswerOK(rows, fetches[s].got[rows])
      /\ page.kind \notin Polled => s = 1
  <2>1. /\ Plan(page, fetches[s]) /\ AllOf(fetches[s]) = DOMAIN fetches[s].got
        /\ \A x \in DOMAIN fetches[s].got : AnswerOK(x, fetches[s].got[x])
        /\ page.kind = "address" /\ UNCHANGED <<backendVars, page>>
        /\ page.kind \notin Polled => s = 1
    BY <1>1, Awaited
  <2>2. r \in DOMAIN fetches[s].got /\ (fetches[s].got[r] # Null => rows \in DOMAIN fetches[s].got)
    BY <2>1 DEF Plan
  <2>. QED  BY <2>1, <2>2
<1>3. PICK w : w = view'
  OBVIOUS
<1>4. /\ w.loading = FALSE
      /\ w.txs = IF fetches[s].got[r] = Null THEN {}
                 ELSE {tx \in fetches[s].got[rows] : tx.from = page.arg}
  BY <1>3 DEF ShowAddress, Got
<1>5. \A tx \in w.txs : FromBackend(tx)
  <2>1. CASE fetches[s].got[r] = Null
    BY <1>4, <2>1
  <2>2. CASE fetches[s].got[r] # Null
    <3>1. \A tx \in fetches[s].got[rows] : FromBackend(tx)
      BY <1>2, <2>2 DEF AnswerOK
    <3>. QED  BY <1>4, <2>2, <3>1
  <2>. QED  BY <2>1, <2>2
<1>6. ShownOK(page, w)
  BY <1>2, <1>5 DEF ShownOK
<1>. QED  BY <1>1, <1>2, <1>3, <1>4, <1>6, Returns

---------------------------------------------------------------------------
(* The invariant holds, and what follows from it.                          *)

\* It holds at first.
LEMMA InitInv == Init => IInv
<1>. SUFFICES ASSUME Init PROVE IInv
  OBVIOUS
<1>. DEFINE p == PageOf("dashboard", Null)
<1>1. p \in Pages /\ p.kind = "dashboard"
  BY DEF Pages, PageOf
<1>2. page = p /\ view = InitialView("dashboard")
      /\ fetches = [s \in Slots |-> IF s = 1 THEN Begin(p) ELSE NoFetch]
  BY DEF Init
<1>. HIDE DEF p
<1>3. PageOK(page, view, fetches)
  BY <1>1, <1>2, Mounted
<1>. QED  BY <1>3, RowsInit DEF IInv

\* The rest of the system takes a step.
LEMMA BackendStep ==
    ASSUME IInv, BackendNext, UNCHANGED pageVars
    PROVE  IInv'
<1>1. RowsOK' /\ Grows
  BY RowsStep DEF IInv, Grows
<1>2. PICK p, v, F : p = page /\ v = view /\ F = fetches
  OBVIOUS
<1>3. PageOK(p, v, F)'
  BY <1>1, <1>2, PageStays DEF IInv
<1>4. page' = p /\ view' = v /\ fetches' = F
  BY <1>2 DEF pageVars
<1>. QED  BY <1>1, <1>3, <1>4 DEF IInv

\* Every step keeps it.
LEMMA NextInv == IInv /\ [Next]_vars => IInv'
<1>. SUFFICES ASSUME IInv, [Next]_vars PROVE IInv'
  OBVIOUS
<1>1. ASSUME BackendNext, UNCHANGED pageVars PROVE IInv'
  BY <1>1, BackendStep
<1>2. ASSUME NEW p \in Pages, Open(p) \/ Search(p) PROVE IInv'
  BY <1>2, OpenStep DEF Search
<1>3. ASSUME NEW q \in Queries, SetQuery(q) PROVE IInv'
  BY <1>3, SetQueryStep
<1>4. CASE Poll
  <2>1. PICK s \in Slots : fetches' = [fetches EXCEPT ![s] = Begin(page)]
    BY <1>4 DEF Poll, StartFetch
  <2>2. page.kind \in Polled /\ UNCHANGED <<backendVars, page, view>>
    BY <1>4 DEF Poll
  <2>. QED  BY <2>1, <2>2, StartFetchStep
<1>5. CASE TurnPage
  BY <1>5, TurnPageStep
<1>6. ASSUME NEW s \in Slots, Answered(s) PROVE IInv'
  BY <1>6, AnsweredStep
<1>7. ASSUME NEW s \in Slots, Continue(s) PROVE IInv'
  BY <1>7, ShowDashboardStep, ShowTransactionsStep, ListsStep, ShowBackendTxStep, ShowRpcTxStep,
     ShowPriceStep, ShowRotationStep, ShowBlockStep, ShowBlockTxsStep, ShowAddressStep DEF Continue
<1>8. CASE UNCHANGED vars
  <2>1. PageOK(page', view', fetches') /\ UNCHANGED backendVars
    BY <1>8 DEF vars, pageVars, IInv
  <2>. QED  BY <2>1, PageStep
<1>. QED  BY <1>1, <1>2, <1>3, <1>4, <1>5, <1>6, <1>7, <1>8 DEF Next

\* Whatever the backend, the node and the user do, what a page holds was true when it
\* was answered and still is, and a page that is not polled has one fetch.
THEOREM Invariant == Spec => []IInv
<1>. QED  BY InitInv, NextInv, PTL DEF Spec

\* Every transaction on the screen is one the pages may show, as true as the rest.
LEMMA ShownTrue ==
    ASSUME IInv
    PROVE  \A tx \in ShownTxs : TxOK(tx) /\ (page.kind = "tx" => tx = view.tx /\ tx.hash = page.arg)
<1>1. ShownOK(page, view) /\ page.kind \in Kinds
  BY PageKinds DEF IInv, PageOK
<1>2. CASE page.kind \in {"dashboard", "transactions", "address"}
  <2>1. \A tx \in view.txs : FromBackend(tx)
    BY <1>1, <1>2 DEF ShownOK
  <2>2. ShownTxs \subseteq view.txs
    BY <1>2 DEF ShownTxs
  <2>. QED  BY <1>2, <2>1, <2>2 DEF TxOK
<1>3. CASE page.kind = "block"
  <2>1. ShownTxs \subseteq view.txs
    BY <1>3 DEF ShownTxs
  <2>. QED  BY <1>1, <1>3, <2>1, BlockKind
<1>4. CASE page.kind = "tx"
  <2>1. \A tx \in ShownTxs : tx = view.tx /\ view.tx # Null
    BY <1>4 DEF ShownTxs
  <2>. QED  BY <1>1, <1>4, <2>1, TxKind
<1>5. CASE page.kind \in {"blocks", "wallets"}
  <2>1. ShownTxs = {}
    BY <1>5 DEF ShownTxs
  <2>. QED  BY <2>1
<1>. QED  BY <1>1, <1>2, <1>3, <1>4, <1>5 DEF Kinds

\* The type invariant of the explorer, among it that the transactions on a screen carry
\* a status and a scheme the labels know, and that a page that is not polled says that
\* it is loading exactly while its fetch function is under way.
THEOREM TypeCorrect == Spec => []TypeOK
<1>1. ASSUME IInv PROVE TypeOK
  <2>1. PageOK(page, view, fetches) /\ RowsOK
    BY <1>1 DEF IInv
  <2>2. ASSUME NEW tx \in ShownTxs
        PROVE  tx.hash \in Txs /\ tx.status \in Statuses /\ tx.signatureScheme \in ShownSchemes
    <3>1. FromBackend(tx) \/ FromNode(tx)
      BY <1>1, ShownTrue DEF TxOK
    <3>2. CASE FromBackend(tx)
      <4>1. tx.hash \in Txs /\ tx.status \in Statuses /\ tx.signatureScheme = Scheme(tx.hash)
        BY <3>2 DEF FromBackend, Statuses
      <4>2. algorithm[WalletOf[tx.hash]] \in Algorithms
        BY <2>1, <4>1, BackendAssumption DEF RowsOK
      <4>. QED  BY <4>1, <4>2, BackendAssumption DEF Scheme, ShownSchemes
    <3>3. CASE FromNode(tx)
      BY <3>3 DEF FromNode, Statuses, ShownSchemes
    <3>. QED  BY <3>1, <3>2, <3>3
  <2>3. page.kind \in Polled \/ (view.loading <=> \E s \in Slots : Busy(s))
    <3>. SUFFICES ASSUME page.kind \notin Polled PROVE view.loading <=> \E s \in Slots : Busy(s)
      OBVIOUS
    <3>1. /\ view.loading = (fetches[1].stage # "none")
          /\ \A s \in Slots \ {1} : fetches[s].stage = "none"
      BY <2>1 DEF PageOK, LoadingOK
    <3>2. (\E s \in Slots : Busy(s)) <=> fetches[1].stage # "none"
      BY <3>1, ExplorerAssumption DEF Busy
    <3>. QED  BY <3>1, <3>2
  <2>. QED  BY <2>1, <2>2, <2>3 DEF TypeOK, PageOK
<1>. QED  BY <1>1, Invariant, PTL

\* A page shows "Success" only of a transaction that executed, or of what it put
\* together itself without a receipt; and "Failed" only of one that reverted, but for the
\* page of a transaction that is pending.
THEOREM StatusesTrue == Spec => []StatusTrue
<1>1. ASSUME IInv PROVE StatusTrue
  <2>. SUFFICES ASSUME NEW tx \in ShownTxs
                PROVE  /\ ShownStatus(tx) = "Success" =>
                            Executed(tx.hash) \/ (tx.algorithm = -1 /\ tx.gasUsed # "used")
                       /\ ShownStatus(tx) = "Failed" =>
                            tx.hash \in reverted \/ (page.kind = "tx" /\ tx.status = "pending")
    BY DEF StatusTrue
  <2>1. FromBackend(tx) \/ FromNode(tx)
    BY <1>1, ShownTrue DEF TxOK
  <2>2. ShownStatus(tx) = "Success" => tx.status \in {"0x1", "success"}
    BY DEF ShownStatus, TxHead, TxRow, Success
  <2>3. ShownStatus(tx) = "Failed" =>
          tx.status \in {"0x0", "failed"} \/ (page.kind = "tx" /\ tx.status \notin {"0x1", "success"})
    BY DEF ShownStatus, TxHead, TxRow, Success
  <2>. QED  BY <2>1, <2>2, <2>3 DEF FromBackend, FromNode
<1>. QED  BY <1>1, Invariant, PTL

\* The badge of a transaction of the backend is its wallet's algorithm on every page,
\* and a rotation of the signer is shown only of an operation that rotated it.
THEOREM SchemesTrue == Spec => []SchemeTrue
<1>1. ASSUME IInv PROVE SchemeTrue
  <2>. SUFFICES ASSUME NEW tx \in ShownTxs
                PROVE  /\ tx.algorithm # -1 => TxRow(tx).badge = Scheme(tx.hash)
                       /\ page.kind = "tx" /\ TxScheme(tx, view.rotated).rotation => Rotated(page.arg)
    BY DEF SchemeTrue, Scheme, Rotated
  <2>1. FromBackend(tx) \/ FromNode(tx)
    BY <1>1, ShownTrue DEF TxOK
  <2>2. RowsOK /\ ShownOK(page, view)
    BY <1>1 DEF IInv, PageOK
  <2>3. ASSUME tx.algorithm # -1 PROVE TxRow(tx).badge = Scheme(tx.hash)
    <3>1. FromBackend(tx)
      BY <2>1, <2>3 DEF FromNode
    <3>2. tx.hash \in Txs /\ tx.signatureScheme = Scheme(tx.hash)
      BY <3>1 DEF FromBackend
    <3>3. algorithm[WalletOf[tx.hash]] \in AllAlgorithms
      BY <2>2, <3>2, BackendAssumption DEF RowsOK, AllAlgorithms
    <3>4. Badge(algorithm[WalletOf[tx.hash]]) = algorithm[WalletOf[tx.hash]]
      BY <3>3, SchemeRoundTrip
    <3>5. Badge("ecdsa") = "ecdsa"
      BY DEF Badge
    <3>6. TxRow(tx).badge = Badge(tx.signatureScheme)
      BY DEF TxRow
    <3>. QED  BY <3>2, <3>4, <3>5, <3>6 DEF Scheme
  <2>4. ASSUME page.kind = "tx", TxScheme(tx, view.rotated).rotation PROVE Rotated(page.arg)
    <3>1. view.rotated
      BY <2>4, Zenon DEF TxScheme
    <3>2. view.rotated => Rotated(page.arg)
      BY <2>2, <2>4, TxKind
    <3>. QED  BY <3>1, <3>2
  <2>. QED  BY <2>3, <2>4
<1>. QED  BY <1>1, Invariant, PTL
=============================================================================
