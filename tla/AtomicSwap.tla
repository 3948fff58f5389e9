----------------------------- MODULE AtomicSwap -----------------------------
(***************************************************************************)
(* What swapping promises.  An order ends in one step, in which it is done *)
(* or fails.  Done, the wallet has paid the input, in ether or in the      *)
(* token, and has the quote; the swapper has the input, and WETH9 the      *)
(* ether behind it; the allowance is used up, and nobody and nothing else  *)
(* is touched.  Failed, nothing is.  In every other step an account uses   *)
(* what is its own: nobody else loses anything, the swapper nothing in     *)
(* worth.  Nothing is said about calls, their order or which of them fail. *)
(***************************************************************************)
EXTENDS Integers

CONSTANTS Wallets, Owners, Tokens, Price, Amounts, None

VARIABLES
    eth,     \* ether of each account
    bal,     \* of each token, what each account has
    allow,   \* of each token, what the swapper may take of each account
    outcome  \* the order that ended with the last step and whether it was done, or None

vars == <<eth, bal, allow, outcome>>

Accounts == Owners \cup {"swapper", "weth9"}
Balances == [Tokens -> [Accounts -> Nat]]
Orders == [wallet : Wallets, in : Tokens, out : Tokens, ether : BOOLEAN,
           amountIn : Amounts, minAmountOut : Amounts]

\* Some fortune, and no allowances.
Init ==
    /\ eth \in [Accounts -> Nat] /\ bal \in Balances
    /\ allow = [t \in Tokens |-> [a \in Accounts |-> 0]]
    /\ outcome = None

Quote(o) == (o.amountIn * Price[o.in]) \div Price[o.out]

\* The input is paid into the swapper and the quote out of it.
Exchange(o) ==
    [t \in Tokens |-> [a \in Accounts |->
        bal[t][a]
          + (IF t = o.in /\ a = "swapper" THEN o.amountIn ELSE 0)
          - (IF t = o.in /\ a = o.wallet /\ ~o.ether THEN o.amountIn ELSE 0)
          + (IF t = o.out /\ a = o.wallet THEN Quote(o) ELSE 0)
          - (IF t = o.out /\ a = "swapper" THEN Quote(o) ELSE 0)]]

\* The whole of a swap, if there is enough of everything.
Trade(o) ==
    /\ o.amountIn > 0 /\ o.in # o.out /\ (o.ether => o.in = "WETH")
    /\ IF o.ether THEN eth[o.wallet] >= o.amountIn ELSE bal[o.in][o.wallet] >= o.amountIn
    /\ Quote(o) >= o.minAmountOut
    /\ bal[o.out]["swapper"] >= Quote(o)
    /\ eth' = [a \in Accounts |->
                 eth[a] + (IF a = "weth9" /\ o.ether THEN o.amountIn ELSE 0)
                        - (IF a = o.wallet /\ o.ether THEN o.amountIn ELSE 0)]
    /\ bal' = Exchange(o)
    /\ allow' = [allow EXCEPT ![o.in][o.wallet] = 0]
    /\ outcome' = [order |-> o, done |-> TRUE]

Fail(o) ==
    /\ outcome' = [order |-> o, done |-> FALSE]
    /\ UNCHANGED <<eth, bal, allow>>

\* The last outcome is in the past.
Pass == outcome' = None /\ UNCHANGED <<eth, bal, allow>>

\* The worth of what the swapper has, given every balance.
Worth(b) ==
    LET Of(t) == b[t]["swapper"] * Price[t]
    IN  Of("WETH") + Of("USD") + Of("JEDKH")

\* The account a uses what it has, and the contracts as it likes.
Use(a) ==
    /\ outcome' = None
    /\ eth' \in [Accounts -> Nat] /\ bal' \in Balances /\ allow' \in Balances
    /\ \A b \in Owners \ {a} :
         /\ eth'[b] >= eth[b]
         /\ \A t \in Tokens : bal'[t][b] >= bal[t][b] /\ allow'[t][b] = allow[t][b]
    /\ Worth(bal') >= Worth(bal)

\* Tokens are minted.
Mint ==
    /\ outcome' = None
    /\ bal' \in Balances
    /\ \A t \in Tokens, b \in Accounts : bal'[t][b] >= bal[t][b]
    /\ UNCHANGED <<eth, allow>>

Next ==
    \/ Pass \/ Mint
    \/ \E a \in Owners : Use(a)
    \/ \E o \in Orders : Trade(o) \/ Fail(o)

Spec == Init /\ [][Next]_vars
=============================================================================
