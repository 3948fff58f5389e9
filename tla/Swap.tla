-------------------------------- MODULE Swap --------------------------------
(***************************************************************************)
(* Swapping: the batch that buildSwapBatch makes of a swap request, run by *)
(* the wallet's executeBatch against WETH9, the tokens and MockSwapper,    *)
(* beside other accounts that call the same contracts as they like.        *)
(*                                                                         *)
(* Each call of a batch is a step, and a call that fails undoes the whole  *)
(* transaction; no other transaction runs in between.  A transaction of    *)
(* one call is a step, and none if it fails.  That the wallet runs what    *)
(* was signed, and once, is the subject of PQWallet.  Allowances are those *)
(* given to the swapper, the only spender there is.  USD and JEDKH are     *)
(* OpenZeppelin's ERC-20, which moves balances and spends allowances as    *)
(* WETH9 does.                                                             *)
(***************************************************************************)
EXTENDS Naturals, Sequences, FiniteSetsExt

CONSTANTS
    Wallets,    \* smart wallets
    Users,      \* other accounts that use the contracts
    None,
    Price,      \* of each token: 2000, 1 and 1000 USD in the code
    Reserve,    \* of each token: what the swapper was funded with
    Ether,      \* of each wallet and user: its ether at the start
    Amounts,    \* bound: the amounts that occur in requests and calls; 2^256 - 1,
                \* which approve takes for infinity, is more than anybody has
    Recipients, \* bound: the accounts that calls name
    Approvals,  \* bound: the allowances given outside swaps
    MaxSupply,  \* bound: tokens of each kind
    MaxUint     \* the largest uint256

Tokens == {"WETH", "USD", "JEDKH"}
Directions == {"eth_to_usd", "usd_to_eth", "eth_to_jedkh", "jedkh_to_eth"}
Owners == Wallets \cup Users
Accounts == Owners \cup {"swapper", "weth9"}

ASSUME SwapAssumption ==
    /\ {"swapper", "weth9", None} \cap Owners = {}
    /\ None \notin [direction : Directions, amountIn : Amounts, minAmountOut : Amounts]
    /\ IsFiniteSet(Owners)
    /\ Approvals \subseteq Nat /\ Recipients \subseteq Accounts
    /\ Price \in [Tokens -> Nat \ {0}]
    /\ Reserve \in [Tokens -> Nat]
    /\ Ether \in [Owners -> Nat]
    /\ MaxSupply \in Nat /\ MaxUint \in Nat
    /\ Amounts \subseteq (Nat \ {MaxUint})

VARIABLES
    eth,       \* ether of each account; that of WETH9 backs its tokens
    bal,       \* balanceOf, of each token and account
    allow,     \* allowance for the swapper, of each token and account
    supply,    \* totalSupply of USD and JEDKH
    calls,     \* the calls left of the batch under way
    caller,    \* the wallet whose batch runs, or ran last, or None
    swap,      \* history: the request of that batch, or None
    reverted,  \* history: whether it was undone
    before     \* history: the ledger before it, or None

ledger == [eth |-> eth, bal |-> bal, allow |-> allow]
vars == <<eth, bal, allow, supply, calls, caller, swap, reverted, before>>

Requests == [direction : Directions, amountIn : Amounts, minAmountOut : Amounts]

Init ==
    /\ eth = [a \in Accounts |-> IF a \in Owners THEN Ether[a]
                                 ELSE IF a = "weth9" THEN Reserve["WETH"] ELSE 0]
    /\ bal = [t \in Tokens |-> [a \in Accounts |-> IF a = "swapper" THEN Reserve[t] ELSE 0]]
    /\ allow = [t \in Tokens |-> [a \in Accounts |-> 0]]
    /\ supply = [t \in Tokens |-> Reserve[t]]
    /\ calls = <<>> /\ caller = None /\ swap = None /\ reverted = FALSE /\ before = None

---------------------------------------------------------------------------
(* The batch of a request.                                                 *)

tokenIn(d) == IF d = "usd_to_eth" THEN "USD" ELSE IF d = "jedkh_to_eth" THEN "JEDKH" ELSE "WETH"
tokenOut(d) == IF d = "eth_to_usd" THEN "USD" ELSE IF d = "eth_to_jedkh" THEN "JEDKH" ELSE "WETH"
needsDeposit(d) == d \in {"eth_to_usd", "eth_to_jedkh"}

Deposit(n) == [fn |-> "deposit", amount |-> n]
Withdraw(n) == [fn |-> "withdraw", amount |-> n]
Send(to, n) == [fn |-> "send", to |-> to, amount |-> n]
Approve(t, n) == [fn |-> "approve", token |-> t, amount |-> n]
Transfer(t, to, n) == [fn |-> "transfer", token |-> t, to |-> to, amount |-> n]
SwapCall(in, out, n, min, to) ==
    [fn |-> "swap", token |-> in, out |-> out, amount |-> n, min |-> min, to |-> to]

approveCall(r) == Approve(tokenIn(r.direction), r.amountIn)
swapCall(w, r) ==
    SwapCall(tokenIn(r.direction), tokenOut(r.direction), r.amountIn, r.minAmountOut, w)

buildSwapBatch(w, r) ==
    IF needsDeposit(r.direction) THEN <<Deposit(r.amountIn), approveCall(r), swapCall(w, r)>>
    ELSE <<approveCall(r), swapCall(w, r)>>

---------------------------------------------------------------------------
(* What the contracts do.                                                  *)

\* n tokens go from one balance to another, which may be the same.
Move(b, src, dst, n) == [[b EXCEPT ![src] = @ - n] EXCEPT ![dst] = @ + n]

\* Variant: rounded up.
roundedUp(in, out, n) == (n * Price[in] + Price[out] - 1) \div Price[out]

getAmountOut(in, out, n) == (n * Price[in]) \div Price[out]

\* The swapper takes the tokens first, so that it can pay them out again.
Taken(a, c) == [bal EXCEPT ![c.token] = Move(bal[c.token], a, "swapper", c.amount)]
Paid(a, c) ==
    LET amountOut == getAmountOut(c.token, c.out, c.amount)
    IN  [Taken(a, c) EXCEPT ![c.out] = Move(Taken(a, c)[c.out], "swapper", c.to, amountOut)]

\* Variant: no allowance is spent.
NeverSpent(a, c) == allow

\* An infinite allowance is not spent.
Spent(a, c) ==
    IF allow[c.token][a] = MaxUint THEN allow
    ELSE [allow EXCEPT ![c.token][a] = @ - c.amount]

\* Whether swap's requirements, the transfers' and the arithmetic hold.
CanSwap(a, c) ==
    LET amountOut == getAmountOut(c.token, c.out, c.amount)
    IN  /\ c.amount > 0
        /\ bal[c.token][a] >= c.amount
        /\ allow[c.token][a] >= c.amount
        /\ c.amount * Price[c.token] <= MaxUint
        /\ amountOut >= c.min
        /\ Taken(a, c)[c.out]["swapper"] >= amountOut

\* Whether the call c by the account a goes through.
Succeeds(a, c) ==
    \/ c.fn \in {"deposit", "send"} /\ eth[a] >= c.amount
    \/ c.fn = "withdraw" /\ bal["WETH"][a] >= c.amount /\ eth["weth9"] >= c.amount
    \/ c.fn = "approve"
    \/ c.fn = "transfer" /\ bal[c.token][a] >= c.amount
    \/ c.fn = "swap" /\ CanSwap(a, c)

DoDeposit(a, c) ==
    /\ c.fn = "deposit"
    /\ eth' = Move(eth, a, "weth9", c.amount)
    /\ bal' = [bal EXCEPT !["WETH"][a] = @ + c.amount]
    /\ UNCHANGED allow

\* Variant: what is paid out is not taken off the balance.
DoWithdrawFree(a, c) ==
    /\ c.fn = "withdraw"
    /\ eth' = Move(eth, "weth9", a, c.amount)
    /\ UNCHANGED <<bal, allow>>

DoWithdraw(a, c) ==
    /\ c.fn = "withdraw"
    /\ bal' = [bal EXCEPT !["WETH"][a] = @ - c.amount]
    /\ eth' = Move(eth, "weth9", a, c.amount)
    /\ UNCHANGED allow

\* Ether sent to WETH9 is a deposit.
DoSend(a, c) ==
    /\ c.fn = "send"
    /\ eth' = Move(eth, a, c.to, c.amount)
    /\ bal' = IF c.to = "weth9" THEN [bal EXCEPT !["WETH"][a] = @ + c.amount] ELSE bal
    /\ UNCHANGED allow

DoApprove(a, c) ==
    /\ c.fn = "approve"
    /\ allow' = [allow EXCEPT ![c.token][a] = c.amount]
    /\ UNCHANGED <<eth, bal>>

DoTransfer(a, c) ==
    /\ c.fn = "transfer"
    /\ bal' = [bal EXCEPT ![c.token] = Move(bal[c.token], a, c.to, c.amount)]
    /\ UNCHANGED <<eth, allow>>

DoSwap(a, c) ==
    /\ c.fn = "swap"
    /\ bal' = Paid(a, c)
    /\ allow' = Spent(a, c)
    /\ UNCHANGED eth

Do(a, c) ==
    /\ Succeeds(a, c)
    /\ \/ DoDeposit(a, c) \/ DoWithdraw(a, c) \/ DoSend(a, c)
       \/ DoApprove(a, c) \/ DoTransfer(a, c) \/ DoSwap(a, c)

---------------------------------------------------------------------------
(* Transactions.                                                           *)

\* A swap request that was signed and is not for zero: executeBatch begins with its
\* calls.
SwapBatch(w, r) ==
    /\ r.amountIn > 0
    /\ calls = <<>>
    /\ calls' = buildSwapBatch(w, r)
    /\ caller' = w /\ swap' = r /\ reverted' = FALSE /\ before' = ledger
    /\ UNCHANGED <<eth, bal, allow, supply>>

\* The next call of the batch succeeds.
Call ==
    /\ calls # <<>>
    /\ Do(caller, Head(calls))
    /\ calls' = Tail(calls)
    /\ UNCHANGED <<supply, caller, swap, reverted, before>>

\* Variant: executeBatch stops at a failing call and keeps what went before.
RevertCallOnly ==
    /\ calls # <<>>
    /\ ~Succeeds(caller, Head(calls))
    /\ calls' = <<>> /\ reverted' = TRUE
    /\ UNCHANGED <<eth, bal, allow, supply, caller, swap, before>>

\* It fails, and everything is undone.
Revert ==
    /\ calls # <<>>
    /\ ~Succeeds(caller, Head(calls))
    /\ eth' = before.eth /\ bal' = before.bal /\ allow' = before.allow
    /\ calls' = <<>> /\ reverted' = TRUE
    /\ UNCHANGED <<supply, caller, swap, before>>

\* Between batches, which are then in the past.
Other ==
    /\ calls = <<>>
    /\ caller' = None /\ swap' = None /\ reverted' = FALSE /\ before' = None
    /\ UNCHANGED calls

\* Any single call, by a wallet whose owner signed it or by another account.
Execute(a) ==
    /\ Other
    /\ \/ \E n \in Amounts : Do(a, Deposit(n)) \/ Do(a, Withdraw(n))
       \/ \E to \in Recipients, n \in Amounts : Do(a, Send(to, n))
       \/ \E t \in Tokens, to \in Recipients, n \in Amounts : Do(a, Transfer(t, to, n))
       \/ \E t \in Tokens, n \in Approvals : Do(a, Approve(t, n))
       \/ \E in, out \in Tokens, to \in Recipients, n \in Amounts : \E min \in {0, n} :
            Do(a, SwapCall(in, out, n, min, to))
    /\ UNCHANGED supply

\* The tokens' owner mints.
Mint(t, to, n) ==
    /\ Other
    /\ t # "WETH" /\ supply[t] + n <= MaxSupply
    /\ supply' = [supply EXCEPT ![t] = @ + n]
    /\ bal' = [bal EXCEPT ![t][to] = @ + n]
    /\ UNCHANGED <<eth, allow>>

Next ==
    \/ \E w \in Wallets, r \in Requests : SwapBatch(w, r)
    \/ Call \/ Revert
    \/ \E a \in Owners : Execute(a)
    \/ \E t \in Tokens, to \in Recipients, n \in Amounts : Mint(t, to, n)

Spec == Init /\ [][Next]_vars

---------------------------------------------------------------------------
(* Properties.                                                             *)

Balances == [Tokens -> [Accounts -> Nat]]
Ledgers == [eth : [Accounts -> Nat], bal : Balances, allow : Balances]

\* The type of every variable; in particular no balance goes below zero, which
\* WETH9's unchecked arithmetic would not notice.
TypeOK ==
    /\ eth \in [Accounts -> Nat] /\ bal \in Balances /\ allow \in Balances
    /\ supply \in [Tokens -> Nat]
    /\ reverted \in BOOLEAN
    /\ IF swap = None
       THEN calls = <<>> /\ caller = None /\ before = None
       ELSE /\ swap \in Requests /\ caller \in Wallets /\ before \in Ledgers
            /\ calls \in {buildSwapBatch(caller, swap), <<approveCall(swap), swapCall(caller, swap)>>,
                          <<swapCall(caller, swap)>>, <<>>}

Idle == calls = <<>>

\* A swap happens as signed or not at all: undone, it leaves everything as it was;
\* otherwise the wallet has paid the input exactly, in ether if the direction says
\* so, and got the quoted output and the minimum at least, and leaves no allowance
\* behind, not even one it had given before.
SwapAsSigned ==
    Idle /\ swap # None =>
      LET in == tokenIn(swap.direction)
          out == tokenOut(swap.direction)
          amountOut == getAmountOut(in, out, swap.amountIn)
      IN  IF reverted THEN ledger = before
          ELSE /\ IF needsDeposit(swap.direction)
                  THEN /\ eth[caller] + swap.amountIn = before.eth[caller]
                       /\ bal[in][caller] = before.bal[in][caller]
                  ELSE /\ eth[caller] = before.eth[caller]
                       /\ bal[in][caller] + swap.amountIn = before.bal[in][caller]
               /\ bal[out][caller] = before.bal[out][caller] + amountOut
               /\ amountOut >= swap.minAmountOut
               /\ allow[in][caller] = 0

\* The worth of amounts of the three tokens.
Worth(n) == n["WETH"] * Price["WETH"] + n["USD"] * Price["USD"] + n["JEDKH"] * Price["JEDKH"]

\* Nobody gains on the swapper, by rounding, by swapping back and forth or by
\* swapping a token for itself: at its own prices it is never worth less than what
\* it was funded with.
SwapperKeepsWorth == Worth([t \in Tokens |-> bal[t]["swapper"]]) >= Worth(Reserve)

Total(b) == MapThenSumSet(LAMBDA a : b[a], Accounts)

\* Every WETH can be redeemed, and no USD or JEDKH appears but by minting.
FullyBacked ==
    /\ Total(bal["WETH"]) = eth["weth9"]
    /\ \A t \in {"USD", "JEDKH"} : Total(bal[t]) = supply[t]

\* What the other accounts see: a batch has not happened until its last call.
seen == IF Idle THEN ledger ELSE before

order ==
    [wallet |-> caller, in |-> tokenIn(swap.direction), out |-> tokenOut(swap.direction),
     ether |-> needsDeposit(swap.direction),
     amountIn |-> swap.amountIn, minAmountOut |-> swap.minAmountOut]

ended == IF Idle /\ swap # None THEN [order |-> order, done |-> ~reverted] ELSE None

Atomic ==
    INSTANCE AtomicSwap WITH
        eth <- seen.eth, bal <- seen.bal, allow <- seen.allow, outcome <- ended

\* A batch of two or three calls is one step to everybody else, wherever it fails: it
\* does the whole of what was signed, touching nobody but the wallet, the swapper and
\* WETH9, or nothing; and whatever is done outside swaps, nobody loses but by calls of
\* his own.
ImplementsAtomicSwap == Atomic!Spec

\* The swap page's "You receive (est. ETH)": a swap to ether pays ether.
ReceivesEther ==
    Idle /\ swap # None /\ ~reverted /\ ~needsDeposit(swap.direction) =>
      eth[caller] >= before.eth[caller] + swap.minAmountOut
=============================================================================
