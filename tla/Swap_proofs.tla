----------------------------- MODULE Swap_proofs -----------------------------
(* Swaps are as signed, the swapper never loses, and every WETH is backed, *)
(* for any prices, amounts, reserves and accounts.                         *)
EXTENDS Swap, FiniteSetTheorems, TLAPS

---------------------------------------------------------------------------
(* Arithmetic.                                                             *)

\* Rounding down never pays out more than was paid in.
LEMMA DivMul ==
    ASSUME NEW a \in Nat, NEW b \in Nat \ {0}
    PROVE  a \div b \in Nat /\ (a \div b) * b <= a
<1>1. a \div b \in Nat
  OBVIOUS
<1>2. a = b * (a \div b) + (a % b) /\ a % b >= 0
  OBVIOUS
<1>3. (a \div b) * b = b * (a \div b)
  BY <1>1
<1>. QED  BY <1>1, <1>2, <1>3

LEMMA Distribute ==
    ASSUME NEW x \in Int, NEW y \in Int, NEW p \in Nat
    PROVE  (x + y) * p = x * p + y * p /\ (x - y) * p = x * p - y * p
OBVIOUS

\* Moving tokens that are there keeps every balance a natural number.
LEMMA MoveLemma ==
    ASSUME NEW b \in [Accounts -> Nat], NEW src \in Accounts, NEW dst \in Accounts,
           NEW n \in Nat, b[src] >= n
    PROVE  /\ Move(b, src, dst, n) \in [Accounts -> Nat]
           /\ \A x \in Accounts :
                Move(b, src, dst, n)[x] = IF src = dst THEN b[x]
                                          ELSE IF x = src THEN b[x] - n
                                          ELSE IF x = dst THEN b[x] + n ELSE b[x]
<1>1. b[src] - n \in Nat /\ b[dst] + n \in Nat /\ b[src] - n + n = b[src]
  OBVIOUS
<1>. QED  BY <1>1 DEF Move

\* What a swap does to the balances: the taker gives amount, the swapper takes it
\* and pays the quote to the recipient.
LEMMA SwapLemma ==
    ASSUME NEW a \in Owners, NEW c, c.token \in Tokens, c.out \in Tokens, c.amount \in Nat,
           c.to \in Accounts, bal \in Balances, CanSwap(a, c)
    PROVE  LET amountOut == getAmountOut(c.token, c.out, c.amount) IN
           /\ Paid(a, c) \in Balances
           /\ amountOut \in Nat /\ amountOut * Price[c.out] <= c.amount * Price[c.token]
           /\ \A t \in Tokens :
                Paid(a, c)[t]["swapper"] =
                  bal[t]["swapper"] + (IF t = c.token THEN c.amount ELSE 0)
                  - (IF t = c.out /\ c.to # "swapper" THEN amountOut ELSE 0)
           /\ c.to = a => \A t \in Tokens :
                Paid(a, c)[t][a] =
                  bal[t][a] - (IF t = c.token THEN c.amount ELSE 0)
                  + (IF t = c.out THEN amountOut ELSE 0)
           /\ \A t \in Tokens, x \in Accounts \ {a, "swapper"} :
                Paid(a, c)[t][x] = bal[t][x] + (IF t = c.out /\ x = c.to THEN amountOut ELSE 0)
<1>. DEFINE in == c.token
            out == c.out
            amountOut == getAmountOut(in, out, c.amount)
            T == Taken(a, c)
<1>1. a \in Accounts /\ "swapper" \in Accounts /\ a # "swapper"
  BY SwapAssumption DEF Accounts, Owners
<1>2. /\ Price[in] \in Nat /\ Price[out] \in Nat \ {0}
  BY SwapAssumption
<1>3. c.amount * Price[in] \in Nat
  BY <1>2
<1>4. amountOut \in Nat /\ amountOut * Price[out] <= c.amount * Price[in]
  BY <1>2, <1>3, DivMul DEF getAmountOut
<1>5. bal[in] \in [Accounts -> Nat] /\ bal[in][a] >= c.amount /\ T[out]["swapper"] >= amountOut
  BY DEF Balances, CanSwap
<1>6. /\ Move(bal[in], a, "swapper", c.amount) \in [Accounts -> Nat]
      /\ \A x \in Accounts :
           Move(bal[in], a, "swapper", c.amount)[x] =
             IF x = a THEN bal[in][x] - c.amount
             ELSE IF x = "swapper" THEN bal[in][x] + c.amount ELSE bal[in][x]
  BY <1>1, <1>5, MoveLemma
<1>7. /\ T \in Balances
      /\ T[in] = Move(bal[in], a, "swapper", c.amount)
      /\ \A t \in Tokens \ {in} : T[t] = bal[t]
  BY <1>6 DEF Taken, Balances
<1>8. T[out] \in [Accounts -> Nat]
  BY <1>7 DEF Balances
<1>9. /\ Move(T[out], "swapper", c.to, amountOut) \in [Accounts -> Nat]
      /\ \A x \in Accounts :
           Move(T[out], "swapper", c.to, amountOut)[x] =
             IF "swapper" = c.to THEN T[out][x]
             ELSE IF x = "swapper" THEN T[out][x] - amountOut
             ELSE IF x = c.to THEN T[out][x] + amountOut ELSE T[out][x]
  <2>1. amountOut \in Nat /\ T[out]["swapper"] >= amountOut /\ c.to \in Accounts
    BY <1>4, <1>5
  <2>. HIDE DEF T, amountOut
  <2>. QED  BY <1>1, <1>8, <2>1, MoveLemma
<1>10. Paid(a, c) = [T EXCEPT ![out] = Move(T[out], "swapper", c.to, amountOut)]
  BY DEF Paid
<1>11. /\ Paid(a, c) \in Balances
       /\ Paid(a, c)[out] = Move(T[out], "swapper", c.to, amountOut)
       /\ \A t \in Tokens \ {out} : Paid(a, c)[t] = T[t]
  BY <1>7, <1>9, <1>10 DEF Balances
<1>12. \A t \in Tokens :
         T[t]["swapper"] = bal[t]["swapper"] + (IF t = in THEN c.amount ELSE 0)
  <2>. SUFFICES ASSUME NEW t \in Tokens
                PROVE  T[t]["swapper"] = bal[t]["swapper"] + (IF t = in THEN c.amount ELSE 0)
    OBVIOUS
  <2>1. bal[t]["swapper"] \in Nat
    BY <1>1 DEF Balances
  <2>2. CASE t = in
    BY <1>1, <1>6, <1>7, <2>1, <2>2
  <2>3. CASE t # in
    BY <1>7, <2>1, <2>3
  <2>. QED  BY <2>2, <2>3
<1>13. \A t \in Tokens :
         T[t][a] = bal[t][a] - (IF t = in THEN c.amount ELSE 0)
  <2>. SUFFICES ASSUME NEW t \in Tokens
                PROVE  T[t][a] = bal[t][a] - (IF t = in THEN c.amount ELSE 0)
    OBVIOUS
  <2>1. bal[t][a] \in Nat
    BY <1>1 DEF Balances
  <2>2. CASE t = in
    BY <1>1, <1>6, <1>7, <2>1, <2>2
  <2>3. CASE t # in
    BY <1>7, <2>1, <2>3
  <2>. QED  BY <2>2, <2>3
<1>14. ASSUME NEW t \in Tokens
       PROVE  Paid(a, c)[t]["swapper"] =
                bal[t]["swapper"] + (IF t = in THEN c.amount ELSE 0)
                - (IF t = out /\ c.to # "swapper" THEN amountOut ELSE 0)
  <2>1. T[t]["swapper"] \in Nat
    BY <1>1, <1>7 DEF Balances
  <2>2. Paid(a, c)[t]["swapper"] =
          T[t]["swapper"] - (IF t = out /\ c.to # "swapper" THEN amountOut ELSE 0)
    <3>1. CASE t = out
      BY <1>1, <1>9, <1>11, <2>1, <3>1
    <3>2. CASE t # out
      BY <1>11, <2>1, <3>2
    <3>. QED  BY <3>1, <3>2
  <2>3. T[t]["swapper"] = bal[t]["swapper"] + (IF t = in THEN c.amount ELSE 0)
    BY <1>12
  <2>4. bal[t]["swapper"] \in Nat /\ amountOut \in Nat
    BY <1>1, <1>4 DEF Balances
  <2>. HIDE DEF T, amountOut
  <2>. QED  BY <2>1, <2>2, <2>3, <2>4
<1>15. ASSUME c.to = a, NEW t \in Tokens
       PROVE  Paid(a, c)[t][a] =
                bal[t][a] - (IF t = in THEN c.amount ELSE 0) + (IF t = out THEN amountOut ELSE 0)
  <2>1. T[t][a] \in Nat
    BY <1>1, <1>7 DEF Balances
  <2>2. Paid(a, c)[t][a] = T[t][a] + (IF t = out THEN amountOut ELSE 0)
    <3>1. CASE t = out
      BY <1>1, <1>9, <1>11, <1>15, <2>1, <3>1
    <3>2. CASE t # out
      BY <1>11, <2>1, <3>2
    <3>. QED  BY <3>1, <3>2
  <2>. QED  BY <1>13, <2>2
<1>16. ASSUME NEW t \in Tokens, NEW x \in Accounts \ {a, "swapper"}
       PROVE  Paid(a, c)[t][x] = bal[t][x] + (IF t = out /\ x = c.to THEN amountOut ELSE 0)
  <2>1. T[t][x] = bal[t][x]
    BY <1>6, <1>7
  <2>2. bal[t][x] \in Nat
    BY DEF Balances
  <2>3. Paid(a, c)[t][x] = T[t][x] + (IF t = out /\ x = c.to THEN amountOut ELSE 0)
    <3>1. CASE t = out
      BY <1>1, <1>9, <1>11, <2>1, <2>2, <3>1
    <3>2. CASE t # out
      BY <1>11, <2>1, <2>2, <3>2
    <3>. QED  BY <3>1, <3>2
  <2>. QED  BY <2>1, <2>3
<1>. QED  BY <1>4, <1>11, <1>14, <1>15, <1>16

---------------------------------------------------------------------------
(* Worth.                                                                  *)

LEMMA PriceNat == \A t \in Tokens : Price[t] \in Nat
BY SwapAssumption

\* From x to y, n of one token were taken and m of another paid.
Exchanged(x, y, in, n, out, m) ==
    \A t \in Tokens : y[t] = x[t] + (IF t = in THEN n ELSE 0) - (IF t = out THEN m ELSE 0)

\* If what was paid is worth at most what was taken, nothing is lost.
LEMMA WorthSwap ==
    ASSUME NEW x \in [Tokens -> Nat], NEW y \in [Tokens -> Nat],
           NEW in \in Tokens, NEW out \in Tokens, NEW n \in Nat, NEW m \in Nat,
           m * Price[out] <= n * Price[in], Exchanged(x, y, in, n, out, m)
    PROVE  Worth(y) >= Worth(x)
<1>. DEFINE X(t) == x[t] * Price[t]
            Y(t) == y[t] * Price[t]
            N == n * Price[in]
            M == m * Price[out]
<1>1. ASSUME NEW t \in Tokens
      PROVE  /\ X(t) \in Int /\ Y(t) \in Int
             /\ Y(t) = X(t) + (IF t = in THEN N ELSE 0) - (IF t = out THEN M ELSE 0)
  <2>1. x[t] \in Nat /\ y[t] \in Nat /\ Price[t] \in Nat
    BY PriceNat
  <2>2. CASE t = in /\ t = out
    <3>1. y[t] = (x[t] + n) - m
      BY <2>1, <2>2 DEF Exchanged
    <3>2. Y(t) = (x[t] + n) * Price[t] - m * Price[t]
      BY <2>1, <3>1, Distribute
    <3>. QED  BY <2>1, <2>2, <3>2, Distribute
  <2>3. CASE t = in /\ t # out
    <3>1. y[t] = x[t] + n
      BY <2>1, <2>3 DEF Exchanged
    <3>. QED  BY <2>1, <2>3, <3>1, Distribute
  <2>4. CASE t # in /\ t = out
    <3>1. y[t] = x[t] - m
      BY <2>1, <2>4 DEF Exchanged
    <3>. QED  BY <2>1, <2>4, <3>1, Distribute
  <2>5. CASE t # in /\ t # out
    BY <2>1, <2>5 DEF Exchanged
  <2>. QED  BY <2>2, <2>3, <2>4, <2>5
<1>2. N \in Int /\ M \in Int /\ M <= N
  BY PriceNat
<1>3. /\ Worth(x) = X("WETH") + X("USD") + X("JEDKH")
      /\ Worth(y) = Y("WETH") + Y("USD") + Y("JEDKH")
  BY DEF Worth
<1>. HIDE DEF X, Y, N, M
<1>4. in \in {"WETH", "USD", "JEDKH"} /\ out \in {"WETH", "USD", "JEDKH"}
  BY DEF Tokens
<1>5. /\ X("WETH") \in Int /\ X("USD") \in Int /\ X("JEDKH") \in Int
      /\ Y("WETH") = X("WETH") + (IF "WETH" = in THEN N ELSE 0) - (IF "WETH" = out THEN M ELSE 0)
      /\ Y("USD") = X("USD") + (IF "USD" = in THEN N ELSE 0) - (IF "USD" = out THEN M ELSE 0)
      /\ Y("JEDKH") = X("JEDKH") + (IF "JEDKH" = in THEN N ELSE 0) - (IF "JEDKH" = out THEN M ELSE 0)
  BY <1>1 DEF Tokens
<1>. QED  BY <1>2, <1>3, <1>4, <1>5

\* What the swapper has of each token.
Reserves(b) == [t \in Tokens |-> b[t]["swapper"]]
Kept(b) == Worth(Reserves(b)) >= Worth(Reserve)
Gained(b, c) == Worth(Reserves(c)) >= Worth(Reserves(b))

LEMMA ReservesType ==
    ASSUME NEW b \in Balances
    PROVE  /\ Reserves(b) \in [Tokens -> Nat]
           /\ Worth(Reserves(b)) \in Int /\ Worth(Reserve) \in Int
<1>1. "swapper" \in Accounts
  BY DEF Accounts
<1>2. Reserves(b) \in [Tokens -> Nat]
  BY <1>1 DEF Reserves, Balances
<1>3. \A x \in [Tokens -> Nat] : Worth(x) \in Int
  <2>. SUFFICES ASSUME NEW x \in [Tokens -> Nat] PROVE Worth(x) \in Int
    OBVIOUS
  <2>1. \A t \in Tokens : x[t] * Price[t] \in Int
    BY PriceNat
  <2>. QED  BY <2>1 DEF Worth, Tokens
<1>. QED  BY <1>2, <1>3, SwapAssumption

\* What gains from something that was worth enough is.
LEMMA KeptOn == ASSUME NEW b \in Balances, NEW c \in Balances, Kept(b), Gained(b, c) PROVE Kept(c)
BY ReservesType DEF Kept, Gained

\* A step that takes nothing from the swapper keeps its worth.
LEMMA WorthGrows ==
    ASSUME NEW b \in Balances, NEW c \in Balances, NEW u \in Tokens, NEW n \in Nat,
           \A t \in Tokens :
             c[t]["swapper"] = b[t]["swapper"] + (IF t = u THEN n ELSE 0)
    PROVE  Gained(b, c)
<1>. DEFINE m == 0
            x == Reserves(b)
            y == Reserves(c)
<1>1. x \in [Tokens -> Nat] /\ y \in [Tokens -> Nat]
  BY ReservesType
<1>2. m \in Nat /\ m * Price[u] <= n * Price[u]
  <2>1. Price[u] \in Nat
    BY PriceNat
  <2>2. n * Price[u] \in Nat
    BY <2>1
  <2>. QED  BY <2>1, <2>2
<1>3. Exchanged(x, y, u, n, u, m)
  <2>. SUFFICES ASSUME NEW t \in Tokens
                PROVE  y[t] = x[t] + (IF t = u THEN n ELSE 0) - (IF t = u THEN m ELSE 0)
    BY DEF Exchanged
  <2>1. x[t] \in Nat
    BY <1>1
  <2>2. y[t] = x[t] + (IF t = u THEN n ELSE 0)
    BY DEF Reserves
  <2>. QED  BY <2>1, <2>2
<1>4. Worth(y) >= Worth(x)
  <2>. HIDE DEF m, x, y
  <2>. QED  BY <1>1, <1>2, <1>3, WorthSwap
<1>. QED  BY <1>4 DEF Gained

\* A step that leaves the swapper's balances alone keeps its worth.
LEMMA WorthSame ==
    ASSUME NEW b \in Balances, NEW c \in Balances,
           \A t \in Tokens : c[t]["swapper"] = b[t]["swapper"]
    PROVE  Gained(b, c)
<1>1. Reserves(c) = Reserves(b)
  BY DEF Reserves
<1>. QED  BY <1>1, ReservesType DEF Gained

---------------------------------------------------------------------------
(* Single calls.                                                           *)

CallTyped(c) ==
    /\ c.amount \in Nat
    /\ c.fn \in {"send", "transfer", "swap"} => c.to \in Accounts
    /\ c.fn \in {"approve", "transfer", "swap"} => c.token \in Tokens
    /\ c.fn = "swap" => c.out \in Tokens

\* Every balance and allowance is a natural number and the swapper has lost nothing.
Sound ==
    /\ eth \in [Accounts -> Nat] /\ bal \in Balances /\ allow \in Balances
    /\ Kept(bal)

LEMMA Names ==
    /\ Owners \subseteq Accounts /\ "weth9" \in Accounts /\ "swapper" \in Accounts
    /\ \A a \in Owners : a # "weth9" /\ a # "swapper"
    /\ Wallets \subseteq Owners
BY SwapAssumption DEF Accounts, Owners

LEMMA DepositLemma ==
    ASSUME NEW a \in Owners, NEW c, CallTyped(c), Sound, Succeeds(a, c), DoDeposit(a, c)
    PROVE  /\ Sound' /\ Gained(bal, bal')
           /\ eth'[a] + c.amount = eth[a] /\ bal'["WETH"][a] = bal["WETH"][a] + c.amount
           /\ \A t \in Tokens \ {"WETH"} : bal'[t][a] = bal[t][a]
<1>1. c.amount \in Nat /\ eth[a] >= c.amount /\ "WETH" \in Tokens
  BY DEF CallTyped, Succeeds, DoDeposit, Tokens
<1>2. eth' \in [Accounts -> Nat] /\ eth'[a] = eth[a] - c.amount
  <2>1. eth' = Move(eth, a, "weth9", c.amount)
    BY DEF DoDeposit
  <2>. QED  BY <1>1, <2>1, Names, MoveLemma DEF Sound
<1>3. eth[a] \in Nat /\ bal["WETH"][a] \in Nat /\ bal["WETH"][a] + c.amount \in Nat
  BY <1>1, Names DEF Sound, Balances
<1>4. bal' = [bal EXCEPT !["WETH"][a] = bal["WETH"][a] + c.amount]
  BY DEF DoDeposit
<1>5. /\ bal' \in Balances /\ bal'["WETH"][a] = bal["WETH"][a] + c.amount
      /\ \A u \in Tokens, x \in Accounts : u # "WETH" \/ x # a => bal'[u][x] = bal[u][x]
  <2>1. bal \in Balances /\ a \in Accounts
    BY Names DEF Sound
  <2>. QED  BY <1>1, <1>3, <1>4, <2>1 DEF Balances
<1>6. Gained(bal, bal') /\ Kept(bal')
  BY <1>5, Names, WorthSame, KeptOn DEF Sound
<1>7. allow' = allow
  BY DEF DoDeposit
<1>. QED  BY <1>1, <1>2, <1>3, <1>5, <1>6, <1>7, Names DEF Sound, Kept, Worth, Reserves

LEMMA ApproveLemma ==
    ASSUME NEW a \in Owners, NEW c, CallTyped(c), Sound, DoApprove(a, c)
    PROVE  Sound' /\ Gained(bal, bal') /\ allow'[c.token][a] = c.amount
<1>1. c.amount \in Nat /\ c.token \in Tokens
  BY DEF CallTyped, DoApprove
<1>2. allow' \in Balances /\ allow'[c.token][a] = c.amount
  <2>1. allow \in Balances /\ a \in Accounts
    BY Names DEF Sound
  <2>2. allow' = [allow EXCEPT ![c.token][a] = c.amount]
    BY DEF DoApprove
  <2>. QED  BY <1>1, <2>1, <2>2 DEF Balances
<1>3. bal' = bal /\ eth' = eth
  BY DEF DoApprove
<1>4. Gained(bal, bal')
  BY <1>3, WorthSame DEF Sound
<1>. QED  BY <1>2, <1>3, <1>4 DEF Sound, Kept, Worth, Reserves

LEMMA WithdrawLemma ==
    ASSUME NEW a \in Owners, NEW c, CallTyped(c), Sound, Succeeds(a, c), DoWithdraw(a, c)
    PROVE  Sound' /\ Gained(bal, bal')
<1>1. /\ c.amount \in Nat /\ "WETH" \in Tokens
      /\ bal["WETH"][a] >= c.amount /\ eth["weth9"] >= c.amount
  BY DEF CallTyped, Succeeds, DoWithdraw, Tokens
<1>2. eth' \in [Accounts -> Nat]
  <2>1. eth' = Move(eth, "weth9", a, c.amount)
    BY DEF DoWithdraw
  <2>. QED  BY <1>1, <2>1, Names, MoveLemma DEF Sound
<1>3. bal["WETH"][a] \in Nat /\ bal["WETH"][a] - c.amount \in Nat
  BY <1>1, Names DEF Sound, Balances
<1>4. bal' = [bal EXCEPT !["WETH"][a] = bal["WETH"][a] - c.amount]
  BY DEF DoWithdraw
<1>5. /\ bal' \in Balances
      /\ \A u \in Tokens, x \in Accounts : u # "WETH" \/ x # a => bal'[u][x] = bal[u][x]
  <2>1. bal \in Balances /\ a \in Accounts
    BY Names DEF Sound
  <2>. QED  BY <1>1, <1>3, <1>4, <2>1 DEF Balances
<1>6. Gained(bal, bal') /\ Kept(bal')
  BY <1>5, Names, WorthSame, KeptOn DEF Sound
<1>. QED  BY <1>2, <1>5, <1>6 DEF DoWithdraw, Sound, Kept, Worth, Reserves

LEMMA SendLemma ==
    ASSUME NEW a \in Owners, NEW c, CallTyped(c), Sound, Succeeds(a, c), DoSend(a, c)
    PROVE  Sound' /\ Gained(bal, bal')
<1>1. c.amount \in Nat /\ c.to \in Accounts /\ eth[a] >= c.amount /\ "WETH" \in Tokens
  BY DEF CallTyped, Succeeds, DoSend, Tokens
<1>2. eth' \in [Accounts -> Nat]
  <2>1. eth' = Move(eth, a, c.to, c.amount)
    BY DEF DoSend
  <2>. QED  BY <1>1, <2>1, Names, MoveLemma DEF Sound
<1>3. bal["WETH"][a] \in Nat /\ bal["WETH"][a] + c.amount \in Nat
  BY <1>1, Names DEF Sound, Balances
<1>4. bal' = bal \/ bal' = [bal EXCEPT !["WETH"][a] = bal["WETH"][a] + c.amount]
  BY DEF DoSend
<1>5. /\ bal' \in Balances
      /\ \A u \in Tokens, x \in Accounts : u # "WETH" \/ x # a => bal'[u][x] = bal[u][x]
  <2>1. bal \in Balances /\ a \in Accounts
    BY Names DEF Sound
  <2>. QED  BY <1>1, <1>3, <1>4, <2>1 DEF Balances
<1>6. Gained(bal, bal') /\ Kept(bal')
  BY <1>5, Names, WorthSame, KeptOn DEF Sound
<1>. QED  BY <1>2, <1>5, <1>6 DEF DoSend, Sound, Kept, Worth, Reserves

LEMMA TransferLemma ==
    ASSUME NEW a \in Owners, NEW c, CallTyped(c), Sound, Succeeds(a, c), DoTransfer(a, c)
    PROVE  Sound' /\ Gained(bal, bal')
<1>. DEFINE t == c.token
<1>1. /\ c.amount \in Nat /\ c.to \in Accounts /\ t \in Tokens
      /\ bal[t][a] >= c.amount /\ bal \in Balances
  BY DEF CallTyped, Succeeds, DoTransfer, Sound
<1>2. bal[t] \in [Accounts -> Nat]
  BY <1>1 DEF Balances
<1>3. /\ Move(bal[t], a, c.to, c.amount) \in [Accounts -> Nat]
      /\ \A x \in Accounts :
           Move(bal[t], a, c.to, c.amount)[x] =
             IF a = c.to THEN bal[t][x]
             ELSE IF x = a THEN bal[t][x] - c.amount
             ELSE IF x = c.to THEN bal[t][x] + c.amount ELSE bal[t][x]
  <2>. DEFINE b == bal[t]
  <2>1. b \in [Accounts -> Nat] /\ b[a] >= c.amount /\ a \in Accounts
    BY <1>1, <1>2, Names
  <2>. HIDE DEF b
  <2>2. /\ Move(b, a, c.to, c.amount) \in [Accounts -> Nat]
        /\ \A x \in Accounts :
             Move(b, a, c.to, c.amount)[x] =
               IF a = c.to THEN b[x]
               ELSE IF x = a THEN b[x] - c.amount
               ELSE IF x = c.to THEN b[x] + c.amount ELSE b[x]
    BY <1>1, <2>1, MoveLemma
  <2>. QED  BY <2>2 DEF b
<1>4. /\ bal' \in Balances /\ bal'[t] = Move(bal[t], a, c.to, c.amount)
      /\ \A u \in Tokens \ {t} : bal'[u] = bal[u]
  BY <1>1, <1>3 DEF DoTransfer, Balances
<1>5. Gained(bal, bal')
  <2>1. CASE c.to = "swapper"
    <3>1. ASSUME NEW u \in Tokens
          PROVE  bal'[u]["swapper"] = bal[u]["swapper"] + (IF u = t THEN c.amount ELSE 0)
      <4>1. bal[u]["swapper"] \in Nat
        BY <1>1, Names DEF Balances
      <4>2. CASE u = t
        BY <1>3, <1>4, <2>1, <4>2, Names
      <4>3. CASE u # t
        BY <1>4, <4>1, <4>3
      <4>. QED  BY <4>2, <4>3
    <3>. QED  BY <1>1, <1>4, <3>1, WorthGrows DEF Sound
  <2>2. CASE c.to # "swapper"
    <3>1. \A u \in Tokens : bal'[u]["swapper"] = bal[u]["swapper"]
      BY <1>3, <1>4, <2>2, Names
    <3>. QED  BY <1>1, <1>4, <3>1, WorthSame DEF Sound
  <2>. QED  BY <2>1, <2>2
<1>6. Kept(bal')
  BY <1>1, <1>4, <1>5, KeptOn DEF Sound
<1>. QED  BY <1>4, <1>5, <1>6 DEF DoTransfer, Sound, Kept, Worth, Reserves

\* A swap keeps the swapper whole; one to the taker itself moves the two amounts.
LEMMA SwapStep ==
    ASSUME NEW a \in Owners, NEW c, CallTyped(c), Sound, Succeeds(a, c), DoSwap(a, c)
    PROVE  /\ Sound' /\ Gained(bal, bal')
           /\ getAmountOut(c.token, c.out, c.amount) \in Nat
           /\ getAmountOut(c.token, c.out, c.amount) >= c.min
           /\ c.to = a /\ c.token # c.out =>
                /\ bal'[c.token][a] + c.amount = bal[c.token][a]
                /\ bal'[c.out][a] = bal[c.out][a] + getAmountOut(c.token, c.out, c.amount)
           /\ allow[c.token][a] = c.amount /\ c.amount # MaxUint => allow'[c.token][a] = 0
<1>. DEFINE in == c.token
            out == c.out
            n == c.amount
            amountOut == getAmountOut(in, out, n)
            m == IF c.to = "swapper" THEN 0 ELSE amountOut
<1>1. /\ n \in Nat /\ c.to \in Accounts /\ in \in Tokens /\ out \in Tokens
      /\ bal \in Balances /\ allow \in Balances /\ Kept(bal) /\ CanSwap(a, c)
  BY DEF CallTyped, Succeeds, DoSwap, Sound
<1>2. /\ bal' \in Balances
      /\ amountOut \in Nat /\ amountOut * Price[out] <= n * Price[in]
      /\ \A t \in Tokens :
           bal'[t]["swapper"] = bal[t]["swapper"] + (IF t = in THEN n ELSE 0)
                                - (IF t = out /\ c.to # "swapper" THEN amountOut ELSE 0)
      /\ c.to = a => \A t \in Tokens :
           bal'[t][a] = bal[t][a] - (IF t = in THEN n ELSE 0) + (IF t = out THEN amountOut ELSE 0)
  <2>1. bal' = Paid(a, c)
    BY DEF DoSwap
  <2>. QED  BY <1>1, <2>1, SwapLemma
<1>. HIDE DEF amountOut
<1>3. m \in Nat /\ m * Price[out] <= n * Price[in]
  <2>1. Price[out] \in Nat /\ Price[in] \in Nat
    BY <1>1, PriceNat
  <2>2. n * Price[in] \in Nat
    BY <1>1, <2>1
  <2>3. 0 * Price[out] = 0
    BY <2>1
  <2>. QED  BY <1>2, <2>2, <2>3
<1>4. Gained(bal, bal') /\ Kept(bal')
  <2>. DEFINE x == Reserves(bal)
              y == Reserves(bal')
  <2>1. x \in [Tokens -> Nat] /\ y \in [Tokens -> Nat]
    BY <1>1, <1>2, ReservesType
  <2>2. \A t \in Tokens : y[t] = x[t] + (IF t = in THEN n ELSE 0) - (IF t = out THEN m ELSE 0)
    <3>. SUFFICES ASSUME NEW t \in Tokens
                  PROVE  y[t] = x[t] + (IF t = in THEN n ELSE 0) - (IF t = out THEN m ELSE 0)
      OBVIOUS
    <3>1. x[t] = bal[t]["swapper"] /\ y[t] = bal'[t]["swapper"]
      BY DEF Reserves
    <3>. QED  BY <1>2, <3>1
  <2>3. Worth(y) >= Worth(x)
    <3>1. Exchanged(x, y, in, n, out, m)
      BY <2>2 DEF Exchanged
    <3>. HIDE DEF x, y, m
    <3>. QED  BY <1>1, <1>3, <2>1, <3>1, WorthSwap
  <2>4. Gained(bal, bal')
    BY <2>3 DEF Gained
  <2>. QED  BY <1>1, <1>2, <2>4, KeptOn
<1>5. allow' \in Balances /\ (allow[in][a] = n /\ n # MaxUint => allow'[in][a] = 0)
  <2>1. /\ allow[in][a] \in Nat /\ allow[in][a] >= n /\ a \in Accounts
        /\ allow[in][a] - n \in Nat
    BY <1>1, Names DEF Balances, CanSwap
  <2>2. CASE allow[in][a] = MaxUint
    BY <1>1, <2>2 DEF DoSwap, Spent
  <2>3. CASE allow[in][a] # MaxUint
    <3>1. allow' = [allow EXCEPT ![in][a] = allow[in][a] - n]
      BY <2>3 DEF DoSwap, Spent
    <3>2. allow' \in Balances /\ allow'[in][a] = allow[in][a] - n
      BY <1>1, <2>1, <3>1 DEF Balances
    <3>. QED  BY <1>1, <2>1, <3>2
  <2>. QED  BY <2>2, <2>3
<1>6. Sound'
  BY <1>2, <1>4, <1>5 DEF DoSwap, Sound, Kept, Worth, Reserves
<1>7. amountOut >= c.min
  BY <1>1 DEF CanSwap, amountOut
<1>8. ASSUME c.to = a, in # out
      PROVE  bal'[in][a] + n = bal[in][a] /\ bal'[out][a] = bal[out][a] + amountOut
  <2>1. bal[in][a] \in Nat /\ bal[out][a] \in Nat
    BY <1>1, Names DEF Balances
  <2>2. bal'[in][a] = bal[in][a] - n + 0 /\ bal'[out][a] = bal[out][a] - 0 + amountOut
    BY <1>1, <1>2, <1>8
  <2>. QED  BY <1>1, <1>2, <2>1, <2>2
<1>. QED  BY <1>2, <1>4, <1>5, <1>6, <1>7, <1>8 DEF amountOut

\* No call by an owner makes anything negative or costs the swapper.
LEMMA DoLemma ==
    ASSUME NEW a \in Owners, NEW c, CallTyped(c), Sound, Do(a, c)
    PROVE  Sound' /\ Gained(bal, bal')
<1>1. Succeeds(a, c)
  BY DEF Do
<1>2. CASE DoDeposit(a, c)
  BY <1>1, <1>2, DepositLemma
<1>3. CASE DoWithdraw(a, c)
  BY <1>1, <1>3, WithdrawLemma
<1>4. CASE DoSend(a, c)
  BY <1>1, <1>4, SendLemma
<1>5. CASE DoApprove(a, c)
  BY <1>5, ApproveLemma
<1>6. CASE DoTransfer(a, c)
  BY <1>1, <1>6, TransferLemma
<1>7. CASE DoSwap(a, c)
  BY <1>1, <1>7, SwapStep
<1>. QED  BY <1>2, <1>3, <1>4, <1>5, <1>6, <1>7 DEF Do

---------------------------------------------------------------------------
(* The batch.                                                              *)

tIn == tokenIn(swap.direction)
tOut == tokenOut(swap.direction)
quote == getAmountOut(tIn, tOut, swap.amountIn)

\* The input is in the input token, the output has not been touched.
Paying ==
    /\ IF needsDeposit(swap.direction)
       THEN /\ eth[caller] + swap.amountIn = before.eth[caller]
            /\ bal[tIn][caller] = before.bal[tIn][caller] + swap.amountIn
       ELSE /\ eth[caller] = before.eth[caller]
            /\ bal[tIn][caller] = before.bal[tIn][caller]
    /\ bal[tOut][caller] = before.bal[tOut][caller]

AsSigned ==
    /\ IF needsDeposit(swap.direction)
       THEN /\ eth[caller] + swap.amountIn = before.eth[caller]
            /\ bal[tIn][caller] = before.bal[tIn][caller]
       ELSE /\ eth[caller] = before.eth[caller]
            /\ bal[tIn][caller] + swap.amountIn = before.bal[tIn][caller]
    /\ bal[tOut][caller] = before.bal[tOut][caller] + quote
    /\ quote >= swap.minAmountOut
    /\ allow[tIn][caller] = 0

Funding ==
    /\ calls = <<Deposit(swap.amountIn), approveCall(swap), swapCall(caller, swap)>>
    /\ needsDeposit(swap.direction)
    /\ ledger = before
Approving ==
    /\ calls = <<approveCall(swap), swapCall(caller, swap)>>
    /\ Paying
Swapping ==
    /\ calls = <<swapCall(caller, swap)>>
    /\ Paying
    /\ allow[tIn][caller] = swap.amountIn
Finished ==
    /\ calls = <<>>
    /\ IF reverted THEN ledger = before ELSE AsSigned

\* How far a batch is, and what it has done by then.
Stage ==
    IF swap = None THEN calls = <<>> /\ caller = None /\ before = None
    ELSE /\ swap \in Requests /\ caller \in Wallets /\ before \in Ledgers
         /\ Kept(before.bal)
         /\ \/ (Funding \/ Approving \/ Swapping) /\ reverted = FALSE
            \/ Finished

IInv ==
    /\ Sound
    /\ supply \in [Tokens -> Nat] /\ reverted \in BOOLEAN
    /\ Stage

LEMMA RequestTypes ==
    ASSUME NEW r \in Requests
    PROVE  /\ r # None
           /\ tokenIn(r.direction) \in Tokens /\ tokenOut(r.direction) \in Tokens
           /\ tokenIn(r.direction) # tokenOut(r.direction)
           /\ needsDeposit(r.direction) => tokenIn(r.direction) = "WETH"
           /\ r.amountIn \in Nat /\ r.amountIn # MaxUint
<1>1. r # None
  BY SwapAssumption DEF Requests
<1>2. r.direction \in Directions /\ r.amountIn \in Amounts
  BY DEF Requests
<1>3. r.amountIn \in Nat /\ r.amountIn # MaxUint
  BY <1>2, SwapAssumption
<1>. QED  BY <1>1, <1>2, <1>3 DEF tokenIn, tokenOut, needsDeposit, Directions, Tokens

LEMMA InitHolds == Init => IInv
<1>. SUFFICES ASSUME Init PROVE IInv
  OBVIOUS
<1>1. eth \in [Accounts -> Nat]
  BY SwapAssumption DEF Init, Tokens
<1>2. bal \in Balances
  BY SwapAssumption DEF Init, Balances
<1>3. allow \in Balances
  BY DEF Init, Balances
<1>4. supply \in [Tokens -> Nat]
  BY SwapAssumption DEF Init
<1>5. Kept(bal)
  <2>1. Reserves(bal) = Reserve
    BY SwapAssumption, Names DEF Reserves, Init
  <2>2. Worth(Reserve) \in Int
    BY <1>2, ReservesType
  <2>. QED  BY <2>1, <2>2 DEF Kept
<1>. QED  BY <1>1, <1>2, <1>3, <1>4, <1>5 DEF Init, IInv, Sound, Stage

\* The begin of a batch.
LEMMA BatchStep ==
    ASSUME IInv, NEW w \in Wallets, NEW r \in Requests, SwapBatch(w, r)
    PROVE  IInv'
<1>1. eth' = eth /\ bal' = bal /\ allow' = allow /\ supply' = supply
  BY DEF SwapBatch
<1>2. swap' = r /\ caller' = w /\ reverted' = FALSE /\ before' = ledger
  BY DEF SwapBatch
<1>3. r # None
  BY RequestTypes
<1>4. before' \in Ledgers /\ Kept(before'.bal) /\ before' = ledger'
  BY <1>1, <1>2 DEF IInv, Sound, ledger, Ledgers
<1>5. Funding' \/ Approving'
  <2>1. CASE needsDeposit(r.direction)
    BY <1>2, <1>4, <2>1 DEF SwapBatch, buildSwapBatch, Funding
  <2>2. CASE ~needsDeposit(r.direction)
    <3>1. Paying'
      BY <1>1, <1>2, <2>2 DEF Paying, ledger, tIn, tOut
    <3>. QED  BY <1>2, <2>2, <3>1 DEF SwapBatch, buildSwapBatch, Approving
  <2>. QED  BY <2>1, <2>2
<1>6. Stage'
  BY <1>2, <1>3, <1>4, <1>5 DEF Stage
<1>7. Sound'
  BY <1>1 DEF IInv, Sound, Kept, Worth, Reserves
<1>. QED  BY <1>1, <1>2, <1>6, <1>7 DEF IInv

\* The calls of a batch have the types their places need.
LEMMA BatchCalls ==
    ASSUME NEW w \in Wallets, NEW r \in Requests
    PROVE  CallTyped(Deposit(r.amountIn)) /\ CallTyped(approveCall(r)) /\ CallTyped(swapCall(w, r))
<1>1. r.amountIn \in Nat /\ tokenIn(r.direction) \in Tokens /\ tokenOut(r.direction) \in Tokens
  BY RequestTypes
<1>2. w \in Accounts
  BY Names
<1>3. CallTyped(Deposit(r.amountIn))
  BY <1>1 DEF CallTyped, Deposit
<1>4. CallTyped(approveCall(r))
  BY <1>1 DEF CallTyped, approveCall, Approve
<1>5. CallTyped(swapCall(w, r))
  BY <1>1, <1>2 DEF CallTyped, swapCall, SwapCall
<1>. QED  BY <1>3, <1>4, <1>5

\* A call of the batch that succeeds leads from one stage to the next.
LEMMA CallStep == ASSUME IInv, Call PROVE IInv'
<1>. DEFINE n == swap.amountIn
<1>1. swap # None /\ swap \in Requests /\ caller \in Wallets /\ before \in Ledgers /\ Kept(before.bal)
  BY DEF IInv, Stage, Call
<1>2. caller \in Owners /\ caller \in Accounts
  BY <1>1, Names
<1>3. /\ n \in Nat /\ n # MaxUint /\ tIn \in Tokens /\ tOut \in Tokens /\ tIn # tOut
      /\ needsDeposit(swap.direction) => tIn = "WETH"
  BY <1>1, RequestTypes DEF tIn, tOut
<1>4. UNCHANGED <<supply, caller, swap, reverted, before>> /\ calls' = Tail(calls)
  BY DEF Call
<1>5. UNCHANGED <<tIn, tOut>>
  BY <1>4 DEF tIn, tOut
<1>6. ~Finished /\ reverted = FALSE
  BY <1>1 DEF IInv, Stage, Finished, Call
<1>7. CASE Funding
  <2>. DEFINE c == Deposit(n)
  <2>1. Head(calls) = c /\ calls' = <<approveCall(swap), swapCall(caller, swap)>>
    BY <1>4, <1>7 DEF Funding
  <2>2. Succeeds(caller, c) /\ DoDeposit(caller, c)
    BY <2>1 DEF Call, Do, Deposit, DoDeposit, DoWithdraw, DoSend, DoApprove, DoTransfer, DoSwap
  <2>3. CallTyped(c) /\ c.amount = n
    BY <1>1, BatchCalls DEF Deposit
  <2>4. /\ Sound'
        /\ eth'[caller] + n = eth[caller] /\ bal'["WETH"][caller] = bal["WETH"][caller] + n
        /\ \A t \in Tokens \ {"WETH"} : bal'[t][caller] = bal[t][caller]
    <3>. HIDE DEF c
    <3>. QED  BY <1>2, <2>2, <2>3, DepositLemma DEF IInv
  <2>5. before.eth = eth /\ before.bal = bal /\ needsDeposit(swap.direction)
    BY <1>7 DEF Funding, ledger
  <2>6. Paying'
    BY <1>3, <1>4, <1>5, <2>4, <2>5 DEF Paying
  <2>7. Approving'
    BY <1>4, <2>1, <2>6 DEF Approving
  <2>8. Stage'
    BY <1>1, <1>4, <1>6, <2>7 DEF Stage
  <2>. QED  BY <1>4, <2>4, <2>8 DEF IInv
<1>8. CASE Approving
  <2>. DEFINE c == approveCall(swap)
  <2>1. Head(calls) = c /\ calls' = <<swapCall(caller, swap)>>
    BY <1>4, <1>8 DEF Approving
  <2>2. DoApprove(caller, c)
    BY <2>1 DEF Call, Do, approveCall, Approve, DoDeposit, DoWithdraw, DoSend, DoApprove, DoTransfer, DoSwap
  <2>3. CallTyped(c) /\ c.amount = n /\ c.token = tIn
    BY <1>1, BatchCalls DEF approveCall, Approve, tIn
  <2>4. Sound' /\ allow'[tIn][caller] = n
    <3>. HIDE DEF c
    <3>. QED  BY <1>2, <2>2, <2>3, ApproveLemma DEF IInv
  <2>5. eth' = eth /\ bal' = bal
    BY <2>2 DEF DoApprove
  <2>6. Paying'
    BY <1>4, <1>5, <1>8, <2>5 DEF Approving, Paying
  <2>7. Swapping'
    BY <1>4, <1>5, <2>1, <2>4, <2>6 DEF Swapping
  <2>8. Stage'
    BY <1>1, <1>4, <1>6, <2>7 DEF Stage
  <2>. QED  BY <1>4, <2>4, <2>8 DEF IInv
<1>9. CASE Swapping
  <2>. DEFINE c == swapCall(caller, swap)
  <2>1. Head(calls) = c /\ calls' = <<>>
    BY <1>4, <1>9 DEF Swapping
  <2>2. Succeeds(caller, c) /\ DoSwap(caller, c)
    BY <2>1 DEF Call, Do, swapCall, SwapCall, DoDeposit, DoWithdraw, DoSend, DoApprove, DoTransfer, DoSwap
  <2>3. /\ CallTyped(c) /\ c.amount = n /\ c.token = tIn /\ c.out = tOut /\ c.to = caller
        /\ c.min = swap.minAmountOut
    BY <1>1, BatchCalls DEF swapCall, SwapCall, tIn, tOut
  <2>4. getAmountOut(c.token, c.out, c.amount) = quote
    BY <2>3 DEF quote
  <2>5. /\ Sound' /\ quote \in Nat /\ quote >= swap.minAmountOut
        /\ bal'[tIn][caller] + n = bal[tIn][caller]
        /\ bal'[tOut][caller] = bal[tOut][caller] + quote
        /\ allow'[tIn][caller] = 0
    <3>1. allow[tIn][caller] = n
      BY <1>9 DEF Swapping
    <3>. HIDE DEF c
    <3>. QED  BY <1>2, <1>3, <2>2, <2>3, <2>4, <3>1, SwapStep DEF IInv
  <2>6. eth' = eth /\ UNCHANGED quote
    BY <1>4, <1>5, <2>2 DEF DoSwap, quote, getAmountOut
  <2>7. AsSigned'
    <3>1. /\ bal[tIn][caller] \in Nat /\ bal'[tIn][caller] \in Nat
          /\ before.bal[tIn][caller] \in Nat
      BY <1>1, <1>2, <1>3, <2>5 DEF IInv, Sound, Balances, Ledgers
    <3>2. CASE needsDeposit(swap.direction)
      <4>1. /\ eth[caller] + n = before.eth[caller]
            /\ bal[tIn][caller] = before.bal[tIn][caller] + n
            /\ bal[tOut][caller] = before.bal[tOut][caller]
        BY <1>9, <3>2 DEF Swapping, Paying
      <4>2. bal'[tIn][caller] = before.bal[tIn][caller]
        BY <1>3, <2>5, <3>1, <4>1
      <4>. QED  BY <1>4, <1>5, <2>5, <2>6, <3>2, <4>1, <4>2 DEF AsSigned
    <3>3. CASE ~needsDeposit(swap.direction)
      <4>1. /\ eth[caller] = before.eth[caller]
            /\ bal[tIn][caller] = before.bal[tIn][caller]
            /\ bal[tOut][caller] = before.bal[tOut][caller]
        BY <1>9, <3>3 DEF Swapping, Paying
      <4>. QED  BY <1>4, <1>5, <2>5, <2>6, <3>3, <4>1 DEF AsSigned
    <3>. QED  BY <3>2, <3>3
  <2>8. Finished'
    BY <1>4, <1>6, <2>1, <2>7 DEF Finished
  <2>9. Stage'
    BY <1>1, <1>4, <2>8 DEF Stage
  <2>. QED  BY <1>4, <2>5, <2>9 DEF IInv
<1>. QED  BY <1>1, <1>6, <1>7, <1>8, <1>9 DEF IInv, Stage

\* One that fails restores what the batch began with.
LEMMA RevertStep == ASSUME IInv, Revert PROVE IInv'
<1>1. swap # None /\ swap \in Requests /\ caller \in Wallets /\ before \in Ledgers /\ Kept(before.bal)
  BY DEF IInv, Stage, Revert
<1>2. /\ eth' = before.eth /\ bal' = before.bal /\ allow' = before.allow
      /\ calls' = <<>> /\ reverted' = TRUE /\ UNCHANGED <<supply, caller, swap, before>>
  BY DEF Revert
<1>3. ledger' = before'
  BY <1>1, <1>2 DEF ledger, Ledgers
<1>4. Sound'
  BY <1>1, <1>2 DEF Sound, Ledgers, Kept, Worth, Reserves
<1>5. Finished'
  BY <1>2, <1>3 DEF Finished
<1>6. Stage'
  BY <1>1, <1>2, <1>5 DEF Stage, Kept, Worth, Reserves
<1>. QED  BY <1>2, <1>4, <1>6 DEF IInv

\* A single call has the types its place needs.
LEMMA ExecuteCall ==
    ASSUME NEW a \in Owners, Execute(a)
    PROVE  \E c : CallTyped(c) /\ Do(a, c)
<1>1. /\ \A n \in Amounts \cup Approvals : n \in Nat
      /\ \A to \in Recipients : to \in Accounts
  BY SwapAssumption
<1>2. ASSUME NEW n \in Amounts, Do(a, Deposit(n)) \/ Do(a, Withdraw(n))
      PROVE  \E c : CallTyped(c) /\ Do(a, c)
  <2>1. CallTyped(Deposit(n)) /\ CallTyped(Withdraw(n))
    BY <1>1 DEF CallTyped, Deposit, Withdraw
  <2>. QED  BY <1>2, <2>1
<1>3. ASSUME NEW to \in Recipients, NEW n \in Amounts, Do(a, Send(to, n))
      PROVE  \E c : CallTyped(c) /\ Do(a, c)
  BY <1>1, <1>3 DEF CallTyped, Send
<1>4. ASSUME NEW t \in Tokens, NEW to \in Recipients, NEW n \in Amounts, Do(a, Transfer(t, to, n))
      PROVE  \E c : CallTyped(c) /\ Do(a, c)
  BY <1>1, <1>4 DEF CallTyped, Transfer
<1>5. ASSUME NEW t \in Tokens, NEW n \in Approvals, Do(a, Approve(t, n))
      PROVE  \E c : CallTyped(c) /\ Do(a, c)
  BY <1>1, <1>5 DEF CallTyped, Approve
<1>6. ASSUME NEW in \in Tokens, NEW out \in Tokens, NEW to \in Recipients, NEW n \in Amounts,
             NEW min \in {0, n}, Do(a, SwapCall(in, out, n, min, to))
      PROVE  \E c : CallTyped(c) /\ Do(a, c)
  BY <1>1, <1>6 DEF CallTyped, SwapCall
<1>. QED  BY <1>2, <1>3, <1>4, <1>5, <1>6 DEF Execute

LEMMA ExecuteStep ==
    ASSUME IInv, NEW a \in Owners, Execute(a)
    PROVE  IInv'
<1>1. Stage' /\ supply' \in [Tokens -> Nat] /\ reverted' \in BOOLEAN
  BY DEF IInv, Stage, Execute, Other
<1>2. PICK c : CallTyped(c) /\ Do(a, c)
  BY ExecuteCall
<1>3. Sound'
  BY <1>2, DoLemma DEF IInv
<1>. QED  BY <1>1, <1>3 DEF IInv

LEMMA MintStep ==
    ASSUME IInv, NEW t \in Tokens, NEW to \in Recipients, NEW n \in Amounts, Mint(t, to, n)
    PROVE  IInv'
<1>1. n \in Nat /\ to \in Accounts /\ bal \in Balances
  BY SwapAssumption DEF IInv, Sound
<1>2. Stage' /\ reverted' \in BOOLEAN
  BY DEF Stage, Mint, Other
<1>3. supply' \in [Tokens -> Nat]
  BY <1>1 DEF IInv, Mint
<1>4. bal[t][to] \in Nat /\ bal' = [bal EXCEPT ![t][to] = bal[t][to] + n]
  BY <1>1 DEF Balances, Mint
<1>5. /\ bal' \in Balances /\ bal'[t][to] = bal[t][to] + n
      /\ \A u \in Tokens, x \in Accounts : u # t \/ x # to => bal'[u][x] = bal[u][x]
  BY <1>1, <1>4 DEF Balances
<1>6. Gained(bal, bal')
  <2>1. CASE to = "swapper"
    <3>1. ASSUME NEW u \in Tokens
          PROVE  bal'[u]["swapper"] = bal[u]["swapper"] + (IF u = t THEN n ELSE 0)
      <4>1. bal[u]["swapper"] \in Nat
        BY <1>1, Names DEF Balances
      <4>. QED  BY <1>5, <2>1, <4>1, Names
    <3>. QED  BY <1>1, <1>5, <3>1, WorthGrows DEF IInv, Sound
  <2>2. CASE to # "swapper"
    <3>1. \A u \in Tokens : bal'[u]["swapper"] = bal[u]["swapper"]
      BY <1>5, <2>2, Names
    <3>. QED  BY <1>1, <1>5, <3>1, WorthSame DEF IInv, Sound
  <2>. QED  BY <2>1, <2>2
<1>7. eth' = eth /\ allow' = allow
  BY DEF Mint
<1>8. Kept(bal')
  BY <1>1, <1>5, <1>6, KeptOn DEF IInv, Sound
<1>. QED  BY <1>2, <1>3, <1>5, <1>7, <1>8 DEF IInv, Sound, Kept, Worth, Reserves

LEMMA Invariant == Spec => []IInv
<1>1. IInv /\ [Next]_vars => IInv'
  <2>. SUFFICES ASSUME IInv, [Next]_vars PROVE IInv'
    OBVIOUS
  <2>1. ASSUME NEW w \in Wallets, NEW r \in Requests, SwapBatch(w, r) PROVE IInv'
    BY <2>1, BatchStep
  <2>2. CASE Call
    BY <2>2, CallStep
  <2>3. CASE Revert
    BY <2>3, RevertStep
  <2>4. ASSUME NEW a \in Owners, Execute(a) PROVE IInv'
    BY <2>4, ExecuteStep
  <2>5. ASSUME NEW t \in Tokens, NEW to \in Recipients, NEW n \in Amounts, Mint(t, to, n)
        PROVE  IInv'
    BY <2>5, MintStep
  <2>6. CASE UNCHANGED vars
    BY <2>6 DEF vars, IInv, Sound, Stage, Funding, Approving, Swapping, Finished, Paying, AsSigned,
                ledger, tIn, tOut, quote, Kept, Worth, Reserves, getAmountOut
  <2>. QED  BY <2>1, <2>2, <2>3, <2>4, <2>5, <2>6 DEF Next
<1>. QED  BY InitHolds, <1>1, PTL DEF Spec

---------------------------------------------------------------------------
(* Sums over the accounts.  Total adds the balances up with a fold, a      *)
(* function that is defined by recursion on the sets of accounts: that it  *)
(* is there, and what holds of every sum, go by induction on their size.   *)

Pick(s) == CHOOSE x \in s : TRUE
Rest(s) == s \ {Pick(s)}

\* What a sum over s is, if g has the sums over smaller sets.
SumStep(b, g, s) == IF s = {} THEN 0 ELSE b[Pick(s)] + g[Rest(s)]

IsSum(b, g) == g = [s \in SUBSET Accounts |-> SumStep(b, g, s)]
Sum(b) == CHOOSE g : IsSum(b, g)

\* A set of numbers with zero and, with each number, the next one has all of them.
LEMMA UpFromZero ==
    ASSUME NEW P, P \subseteq Nat, 0 \in P, \A n \in P : n + 1 \in P
    PROVE  P = Nat
<1>. SUFFICES ASSUME Nat \ P # {} PROVE FALSE
  OBVIOUS
<1>1. PICK n \in Nat \ P : \A m \in Nat \ P : ~(<<m, n>> \in OpToRel(<, Nat))
  <2>1. Nat \ P \subseteq Nat
    OBVIOUS
  <2>. QED  BY <2>1, WFMin, NatLessThanWellFounded
<1>2. n \in Nat /\ n # 0
  BY <1>1
<1>3. n - 1 \in Nat /\ n - 1 + 1 = n
  BY <1>2
<1>4. n - 1 \notin P
  BY <1>1, <1>3
<1>5. <<n - 1, n>> \in OpToRel(<, Nat)
  BY <1>2, <1>3 DEF OpToRel
<1>. QED  BY <1>1, <1>3, <1>4, <1>5

\* Subsets of the accounts have sizes up to their number.
LEMMA SetSizes ==
    ASSUME NEW s \in SUBSET Accounts
    PROVE  /\ IsFiniteSet(s) /\ Cardinality(s) \in Nat
           /\ Cardinality(s) <= Cardinality(Accounts) /\ Cardinality(Accounts) \in Nat
           /\ (s = {}) <=> (Cardinality(s) = 0)
           /\ s # {} => /\ Pick(s) \in s /\ Rest(s) \in SUBSET Accounts
                        /\ Cardinality(Rest(s)) = Cardinality(s) - 1
<1>1. IsFiniteSet(Accounts)
  <2>1. IsFiniteSet({"swapper"}) /\ IsFiniteSet({"weth9"})
    BY FS_Singleton
  <2>2. IsFiniteSet({"swapper"} \cup {"weth9"})
    BY <2>1, FS_Union
  <2>3. IsFiniteSet(Owners \cup ({"swapper"} \cup {"weth9"}))
    BY <2>2, SwapAssumption, FS_Union
  <2>4. Accounts = Owners \cup ({"swapper"} \cup {"weth9"})
    BY DEF Accounts
  <2>. QED  BY <2>3, <2>4
<1>2. IsFiniteSet(s) /\ Cardinality(s) <= Cardinality(Accounts)
  BY <1>1, FS_Subset
<1>3. Cardinality(s) \in Nat /\ Cardinality(Accounts) \in Nat
  BY <1>1, <1>2, FS_CardinalityType
<1>4. (s = {}) <=> (Cardinality(s) = 0)
  BY <1>2, FS_EmptySet
<1>5. ASSUME s # {} PROVE Pick(s) \in s
  BY <1>5 DEF Pick
<1>6. ASSUME s # {} PROVE Cardinality(Rest(s)) = Cardinality(s) - 1
  BY <1>2, <1>5, <1>6, FS_RemoveElement DEF Rest
<1>7. Rest(s) \in SUBSET Accounts
  BY DEF Rest
<1>. QED  BY <1>2, <1>3, <1>4, <1>5, <1>6, <1>7

\* Induction over the sets of accounts, one account at a time.
LEMMA OneByOne ==
    ASSUME NEW Q, {} \in Q, \A s \in SUBSET Accounts : s # {} /\ Rest(s) \in Q => s \in Q
    PROVE  SUBSET Accounts \subseteq Q
<1>. DEFINE P == {n \in Nat : \A s \in SUBSET Accounts : Cardinality(s) = n => s \in Q}
<1>1. 0 \in P
  BY SetSizes
<1>2. ASSUME NEW n \in P PROVE n + 1 \in P
  <2>1. n \in Nat /\ \A s \in SUBSET Accounts : Cardinality(s) = n => s \in Q
    OBVIOUS
  <2>2. ASSUME NEW s \in SUBSET Accounts, Cardinality(s) = n + 1 PROVE s \in Q
    <3>1. s # {} /\ Rest(s) \in SUBSET Accounts /\ Cardinality(Rest(s)) = n
      BY <2>1, <2>2, SetSizes
    <3>. QED  BY <2>1, <3>1
  <2>. QED  BY <2>1, <2>2
<1>3. P = Nat
  <2>1. P \subseteq Nat
    OBVIOUS
  <2>. HIDE DEF P
  <2>. QED  BY <1>1, <1>2, <2>1, UpFromZero
<1>. QED  BY <1>3, SetSizes

\* The recursion of the fold has a solution, which is then what the fold is.
LEMMA SumExists == ASSUME NEW b PROVE \E g : IsSum(b, g)
<1>. DEFINE Upto(n, g) == \A s \in SUBSET Accounts : Cardinality(s) <= n => g[s] = SumStep(b, g, s)
            P == {n \in Nat : \E g : Upto(n, g)}
            Once(g) == [s \in SUBSET Accounts |-> SumStep(b, g, s)]
<1>1. 0 \in P
  <2>1. Upto(0, [s \in SUBSET Accounts |-> 0])
    <3>. SUFFICES ASSUME NEW s \in SUBSET Accounts, Cardinality(s) <= 0 PROVE s = {}
      BY DEF SumStep
    <3>. QED  BY SetSizes
  <2>. QED  BY <2>1
<1>2. ASSUME NEW n \in P PROVE n + 1 \in P
  <2>1. PICK g : Upto(n, g)
    OBVIOUS
  <2>2. ASSUME NEW s \in SUBSET Accounts, Cardinality(s) <= n + 1
        PROVE  Once(g)[s] = SumStep(b, Once(g), s)
    <3>1. CASE s = {}
      BY <3>1 DEF SumStep
    <3>2. CASE s # {}
      <4>1. Rest(s) \in SUBSET Accounts /\ Cardinality(Rest(s)) <= n
        BY <2>2, <3>2, SetSizes
      <4>2. Once(g)[Rest(s)] = g[Rest(s)]
        BY <2>1, <4>1
      <4>. QED  BY <3>2, <4>2 DEF SumStep
    <3>. QED  BY <3>1, <3>2
  <2>3. Upto(n + 1, Once(g))
    BY <2>2
  <2>. HIDE DEF Upto, Once
  <2>. QED  BY <2>3
<1>3. P = Nat
  <2>1. P \subseteq Nat
    OBVIOUS
  <2>. HIDE DEF P
  <2>. QED  BY <1>1, <1>2, <2>1, UpFromZero
<1>4. PICK g : Upto(Cardinality(Accounts), g)
  <2>. HIDE DEF Upto
  <2>. QED  BY <1>3, SetSizes
<1>5. ASSUME NEW s \in SUBSET Accounts PROVE g[s] = SumStep(b, g, s)
  BY <1>4, SetSizes
<1>6. ASSUME NEW s \in SUBSET Accounts PROVE SumStep(b, g, s) = SumStep(b, Once(g), s)
  <2>1. CASE s = {}
    BY <2>1 DEF SumStep
  <2>2. CASE s # {}
    <3>1. Rest(s) \in SUBSET Accounts
      BY <2>2, SetSizes
    <3>2. Once(g)[Rest(s)] = g[Rest(s)]
      BY <1>5, <3>1
    <3>. QED  BY <3>2 DEF SumStep
  <2>. QED  BY <2>1, <2>2
<1>7. IsSum(b, Once(g))
  <2>1. Once(g) = [s \in SUBSET Accounts |-> SumStep(b, Once(g), s)]
    BY <1>6
  <2>. QED  BY <2>1 DEF IsSum
<1>. QED  BY <1>7

\* The fold that adds up a ledger obeys its recursion.
LEMMA SumIs ==
    ASSUME NEW b
    PROVE  /\ Total(b) = Sum(b)[Accounts]
           /\ \A s \in SUBSET Accounts : Sum(b)[s] = SumStep(b, Sum(b), s)
<1>1. Total(b) = Sum(b)[Accounts]
  BY DEF Total, MapThenSumSet, MapThenFoldSet, Sum, IsSum, SumStep, Pick, Rest
<1>2. IsSum(b, Sum(b))
  BY SumExists, Zenon DEF Sum
<1>3. ASSUME NEW s \in SUBSET Accounts PROVE Sum(b)[s] = SumStep(b, Sum(b), s)
  BY <1>2 DEF IsSum
<1>. QED  BY <1>1, <1>3

\* The total of a ledger of integers is an integer.
LEMMA TotalType == ASSUME NEW b \in [Accounts -> Int] PROVE Total(b) \in Int
<1>. DEFINE Q == {s \in SUBSET Accounts : Sum(b)[s] \in Int}
<1>1. {} \in Q
  BY SumIs DEF SumStep
<1>2. ASSUME NEW s \in SUBSET Accounts, s # {}, Rest(s) \in Q PROVE s \in Q
  <2>1. Sum(b)[s] = b[Pick(s)] + Sum(b)[Rest(s)]
    BY <1>2, SumIs DEF SumStep
  <2>2. b[Pick(s)] \in Int
    BY <1>2, SetSizes
  <2>. QED  BY <1>2, <2>1, <2>2
<1>3. SUBSET Accounts \subseteq Q
  <2>. HIDE DEF Q
  <2>. QED  BY <1>1, <1>2, OneByOne
<1>. QED  BY <1>3, SumIs

\* A total changes as much as the one balance that changes.
LEMMA TotalChange ==
    ASSUME NEW b \in [Accounts -> Int], NEW a \in Accounts, NEW n \in Int
    PROVE  Total([b EXCEPT ![a] = n]) = Total(b) + (n - b[a])
<1>. DEFINE c == [b EXCEPT ![a] = n]
            D(s) == IF a \in s THEN n - b[a] ELSE 0
            Q == {s \in SUBSET Accounts : Sum(b)[s] \in Int /\ Sum(c)[s] = Sum(b)[s] + D(s)}
<1>1. {} \in Q
  <2>1. Sum(b)[{}] = 0 /\ Sum(c)[{}] = 0
    BY SumIs DEF SumStep
  <2>. QED  BY <2>1
<1>2. ASSUME NEW s \in SUBSET Accounts, s # {}, Rest(s) \in Q PROVE s \in Q
  <2>. DEFINE x == Pick(s)
  <2>1. /\ Sum(b)[s] = b[x] + Sum(b)[Rest(s)]
        /\ Sum(c)[s] = c[x] + Sum(c)[Rest(s)]
    <3>. HIDE DEF c
    <3>. QED  BY <1>2, SumIs DEF SumStep
  <2>2. x \in s /\ x \in Accounts /\ Rest(s) = s \ {x}
    BY <1>2, SetSizes DEF Rest
  <2>3. Sum(b)[Rest(s)] \in Int /\ Sum(c)[Rest(s)] = Sum(b)[Rest(s)] + D(Rest(s))
    BY <1>2
  <2>4. b[x] \in Int /\ c[x] \in Int /\ b[a] \in Int
    BY <2>2
  <2>5. c[x] + D(Rest(s)) = b[x] + D(s)
    <3>1. CASE x = a
      <4>1. a \in s /\ a \notin Rest(s) /\ c[x] = n
        BY <2>2, <3>1
      <4>. QED  BY <2>4, <3>1, <4>1
    <3>2. CASE x # a
      <4>1. (a \in Rest(s)) <=> (a \in s)
        BY <2>2, <3>2
      <4>2. c[x] = b[x]
        BY <2>2, <3>2
      <4>. QED  BY <4>1, <4>2
    <3>. QED  BY <3>1, <3>2
  <2>6. D(s) \in Int /\ D(Rest(s)) \in Int
    BY <2>4
  <2>7. Sum(c)[s] = Sum(b)[s] + D(s) /\ Sum(b)[s] \in Int
    <3>. HIDE DEF c, D, x
    <3>. QED  BY <2>1, <2>3, <2>4, <2>5, <2>6
  <2>. QED  BY <2>7
<1>3. SUBSET Accounts \subseteq Q
  <2>. HIDE DEF Q
  <2>. QED  BY <1>1, <1>2, OneByOne
<1>4. Sum(c)[Accounts] = Sum(b)[Accounts] + D(Accounts)
  <2>. HIDE DEF c, D
  <2>. QED  BY <1>3
<1>5. D(Accounts) = n - b[a]
  OBVIOUS
<1>6. Total(c) = Sum(c)[Accounts] /\ Total(b) = Sum(b)[Accounts]
  <2>. HIDE DEF c
  <2>. QED  BY SumIs
<1>7. Total(c) = Total(b) + (n - b[a])
  <2>. HIDE DEF c, D
  <2>. QED  BY <1>4, <1>5, <1>6
<1>. QED  BY <1>7

\* An empty ledger adds up to nothing.
LEMMA TotalZero == Total([a \in Accounts |-> 0]) = 0
<1>. DEFINE z == [a \in Accounts |-> 0]
            Q == {s \in SUBSET Accounts : Sum(z)[s] = 0}
<1>1. {} \in Q
  <2>. HIDE DEF z
  <2>. QED  BY SumIs DEF SumStep
<1>2. ASSUME NEW s \in SUBSET Accounts, s # {}, Rest(s) \in Q PROVE s \in Q
  <2>1. Sum(z)[s] = z[Pick(s)] + Sum(z)[Rest(s)]
    <3>. HIDE DEF z
    <3>. QED  BY <1>2, SumIs DEF SumStep
  <2>2. z[Pick(s)] = 0
    BY <1>2, SetSizes
  <2>3. Sum(z)[Rest(s)] = 0
    BY <1>2
  <2>. HIDE DEF z
  <2>. QED  BY <2>1, <2>2, <2>3
<1>3. SUBSET Accounts \subseteq Q
  <2>. HIDE DEF Q
  <2>. QED  BY <1>1, <1>2, OneByOne
<1>4. Total(z) = Sum(z)[Accounts]
  <2>. HIDE DEF z
  <2>. QED  BY SumIs
<1>. QED  BY <1>3, <1>4

---------------------------------------------------------------------------
(* Backing.                                                                *)

\* A balance that grows makes the total grow, one that shrinks makes it shrink.
LEMMA TotalAdd ==
    ASSUME NEW b \in [Accounts -> Nat], NEW a \in Accounts, NEW n \in Nat
    PROVE  /\ Total(b) \in Int
           /\ Total([b EXCEPT ![a] = @ + n]) = Total(b) + n
           /\ Total([b EXCEPT ![a] = @ - n]) = Total(b) - n
<1>1. b \in [Accounts -> Int] /\ b[a] \in Int
  OBVIOUS
<1>2. Total(b) \in Int
  BY <1>1, TotalType
<1>3. b[a] + n \in Int /\ b[a] - n \in Int
  BY <1>1
<1>4. Total([b EXCEPT ![a] = b[a] + n]) = Total(b) + ((b[a] + n) - b[a])
  BY <1>1, <1>3, TotalChange
<1>5. Total([b EXCEPT ![a] = b[a] - n]) = Total(b) + ((b[a] - n) - b[a])
  BY <1>1, <1>3, TotalChange
<1>6. Total(b) + ((b[a] + n) - b[a]) = Total(b) + n /\ Total(b) + ((b[a] - n) - b[a]) = Total(b) - n
  BY <1>1, <1>2
<1>7. Total([b EXCEPT ![a] = b[a] + n]) = Total(b) + n /\ Total([b EXCEPT ![a] = b[a] - n]) = Total(b) - n
  BY <1>4, <1>5, <1>6
<1>. QED  BY <1>2, <1>7

\* Moving tokens does not change their total.
LEMMA TotalMove ==
    ASSUME NEW b \in [Accounts -> Nat], NEW src \in Accounts, NEW dst \in Accounts,
           NEW n \in Nat, b[src] >= n
    PROVE  Total(Move(b, src, dst, n)) = Total(b)
<1>. DEFINE b1 == [b EXCEPT ![src] = @ - n]
<1>1. b[src] - n \in Nat
  OBVIOUS
<1>2. b1 \in [Accounts -> Nat]
  BY <1>1
<1>3. Total(b1) = Total(b) - n /\ Total(b) \in Int
  BY TotalAdd
<1>4. Total([b1 EXCEPT ![dst] = @ + n]) = Total(b1) + n
  <2>. HIDE DEF b1
  <2>. QED  BY <1>2, TotalAdd
<1>5. Move(b, src, dst, n) = [b1 EXCEPT ![dst] = @ + n]
  BY DEF Move
<1>. HIDE DEF b1
<1>. QED  BY <1>3, <1>4, <1>5

Backed(e, b, s) ==
    /\ Total(b["WETH"]) = e["weth9"]
    /\ \A t \in {"USD", "JEDKH"} : Total(b[t]) = s[t]

\* A batch began with a ledger that was backed, too: a revert goes back to it.
BackedInv == FullyBacked /\ (swap # None => Backed(before.eth, before.bal, supply))

\* Ether goes in with the WETH that is made of it.
LEMMA DepositBacked ==
    ASSUME NEW a \in Owners, NEW n \in Nat, eth \in [Accounts -> Nat], bal \in Balances,
           FullyBacked, eth[a] >= n, eth' = Move(eth, a, "weth9", n),
           bal' = [bal EXCEPT !["WETH"][a] = @ + n], supply' = supply
    PROVE  FullyBacked'
<1>1. a \in Accounts /\ "weth9" \in Accounts /\ a # "weth9"
  BY Names
<1>2. eth'["weth9"] = eth["weth9"] + n
  BY <1>1, MoveLemma
<1>3. /\ bal'["WETH"] = [bal["WETH"] EXCEPT ![a] = @ + n]
      /\ bal'["USD"] = bal["USD"] /\ bal'["JEDKH"] = bal["JEDKH"]
  BY DEF Balances, Tokens
<1>4. bal["WETH"] \in [Accounts -> Nat]
  BY DEF Balances, Tokens
<1>5. Total(bal'["WETH"]) = Total(bal["WETH"]) + n
  <2>. DEFINE b == bal["WETH"]
  <2>. HIDE DEF b
  <2>1. b \in [Accounts -> Nat]
    BY <1>4 DEF b
  <2>2. Total([b EXCEPT ![a] = @ + n]) = Total(b) + n
    BY <1>1, <2>1, TotalAdd
  <2>. QED  BY <1>3, <2>2 DEF b
<1>. QED  BY <1>2, <1>3, <1>5 DEF FullyBacked

\* A transfer, and each half of a swap.
LEMMA MoveBacked ==
    ASSUME NEW b \in Balances, NEW t \in Tokens, NEW src \in Accounts, NEW dst \in Accounts,
           NEW n \in Nat, b[t][src] >= n, NEW e, NEW s, Backed(e, b, s)
    PROVE  Backed(e, [b EXCEPT ![t] = Move(b[t], src, dst, n)], s)
<1>. DEFINE c == [b EXCEPT ![t] = Move(b[t], src, dst, n)]
<1>1. b[t] \in [Accounts -> Nat]
  BY DEF Balances
<1>2. Total(Move(b[t], src, dst, n)) = Total(b[t])
  BY <1>1, TotalMove
<1>3. \A u \in Tokens : Total(c[u]) = Total(b[u])
  BY <1>2 DEF Balances
<1>. HIDE DEF c
<1>. QED  BY <1>3 DEF Backed, Tokens, c

\* Any single call keeps the tokens backed.
LEMMA DoBacked ==
    ASSUME NEW a \in Owners, NEW c, CallTyped(c), Sound, Do(a, c), FullyBacked, supply' = supply
    PROVE  FullyBacked'
<1>. DEFINE n == c.amount
<1>1. n \in Nat /\ a \in Accounts /\ Succeeds(a, c)
  BY Names DEF CallTyped, Do
<1>2. eth \in [Accounts -> Nat] /\ bal \in Balances
  BY DEF Sound
<1>3. Backed(eth, bal, supply)
  BY DEF FullyBacked, Backed
<1>4. CASE DoDeposit(a, c)
  <2>1. eth[a] >= n /\ eth' = Move(eth, a, "weth9", n) /\ bal' = [bal EXCEPT !["WETH"][a] = @ + n]
    BY <1>1, <1>4 DEF DoDeposit, Succeeds
  <2>. QED  BY <1>1, <1>2, <2>1, DepositBacked
<1>5. CASE DoWithdraw(a, c)
  <2>1. /\ bal["WETH"][a] >= n /\ eth["weth9"] >= n
        /\ eth' = Move(eth, "weth9", a, n) /\ bal' = [bal EXCEPT !["WETH"][a] = @ - n]
    BY <1>1, <1>5 DEF DoWithdraw, Succeeds
  <2>2. a # "weth9" /\ "weth9" \in Accounts
    BY Names
  <2>3. eth'["weth9"] = eth["weth9"] - n
    BY <1>1, <1>2, <2>1, <2>2, MoveLemma
  <2>4. /\ bal'["WETH"] = [bal["WETH"] EXCEPT ![a] = @ - n]
        /\ bal'["USD"] = bal["USD"] /\ bal'["JEDKH"] = bal["JEDKH"]
    BY <1>2, <2>1 DEF Balances, Tokens
  <2>5. bal["WETH"] \in [Accounts -> Nat]
    BY <1>2 DEF Balances, Tokens
  <2>6. Total(bal'["WETH"]) = Total(bal["WETH"]) - n
    <3>. DEFINE b == bal["WETH"]
    <3>. HIDE DEF b
    <3>1. b \in [Accounts -> Nat]
      BY <2>5 DEF b
    <3>2. Total([b EXCEPT ![a] = @ - n]) = Total(b) - n
      BY <1>1, <3>1, TotalAdd
    <3>. QED  BY <2>4, <3>2 DEF b
  <2>. QED  BY <2>3, <2>4, <2>6 DEF FullyBacked
<1>6. CASE DoSend(a, c)
  <2>1. /\ eth[a] >= n /\ c.to \in Accounts /\ eth' = Move(eth, a, c.to, n)
        /\ bal' = IF c.to = "weth9" THEN [bal EXCEPT !["WETH"][a] = @ + n] ELSE bal
    BY <1>1, <1>6 DEF DoSend, Succeeds, CallTyped
  <2>2. CASE c.to = "weth9"
    BY <1>1, <1>2, <2>1, <2>2, DepositBacked
  <2>3. CASE c.to # "weth9"
    <3>1. eth'["weth9"] = eth["weth9"]
      BY <1>1, <1>2, <2>1, <2>3, Names, MoveLemma
    <3>2. bal' = bal
      BY <2>1, <2>3
    <3>. QED  BY <3>1, <3>2 DEF FullyBacked
  <2>. QED  BY <2>2, <2>3
<1>7. CASE DoApprove(a, c)
  BY <1>7 DEF DoApprove, FullyBacked
<1>8. CASE DoTransfer(a, c)
  <2>1. /\ c.token \in Tokens /\ c.to \in Accounts /\ bal[c.token][a] >= n /\ eth' = eth
        /\ bal' = [bal EXCEPT ![c.token] = Move(bal[c.token], a, c.to, n)]
    BY <1>1, <1>8 DEF DoTransfer, Succeeds, CallTyped
  <2>2. Backed(eth, bal', supply)
    BY <1>1, <1>2, <1>3, <2>1, MoveBacked
  <2>. QED  BY <2>1, <2>2 DEF FullyBacked, Backed
<1>9. CASE DoSwap(a, c)
  <2>. DEFINE m == getAmountOut(c.token, c.out, n)
              T == Taken(a, c)
  <2>1. /\ c.token \in Tokens /\ c.out \in Tokens /\ c.to \in Accounts /\ CanSwap(a, c)
        /\ eth' = eth /\ bal' = Paid(a, c)
    BY <1>1, <1>9 DEF DoSwap, Succeeds, CallTyped
  <2>2. m \in Nat
    BY <1>1, <1>2, <2>1, SwapLemma
  <2>3. bal[c.token][a] >= n /\ T[c.out]["swapper"] >= m
    BY <2>1 DEF CanSwap
  <2>4. Backed(eth, T, supply) /\ T \in Balances
    <3>1. Move(bal[c.token], a, "swapper", n) \in [Accounts -> Nat]
      <4>. DEFINE b == bal[c.token]
      <4>1. b \in [Accounts -> Nat] /\ b[a] >= n /\ "swapper" \in Accounts
        BY <1>2, <2>1, <2>3, Names DEF Balances
      <4>. HIDE DEF b
      <4>2. Move(b, a, "swapper", n) \in [Accounts -> Nat]
        BY <1>1, <4>1, MoveLemma
      <4>. QED  BY <4>2 DEF b
    <3>2. T = [bal EXCEPT ![c.token] = Move(bal[c.token], a, "swapper", n)]
      BY DEF Taken
    <3>3. T \in Balances
      BY <1>2, <3>1, <3>2 DEF Balances
    <3>4. Backed(eth, T, supply)
      <4>. DEFINE t == c.token
      <4>1. t \in Tokens /\ bal[t][a] >= n /\ "swapper" \in Accounts
        BY <2>1, <2>3, Names
      <4>2. T = [bal EXCEPT ![t] = Move(bal[t], a, "swapper", n)]
        BY <3>2
      <4>. HIDE DEF t, n, T
      <4>3. Backed(eth, [bal EXCEPT ![t] = Move(bal[t], a, "swapper", n)], supply)
        BY <1>1, <1>2, <1>3, <4>1, MoveBacked
      <4>. QED  BY <4>2, <4>3
    <3>. QED  BY <3>3, <3>4
  <2>5. Paid(a, c) = [T EXCEPT ![c.out] = Move(T[c.out], "swapper", c.to, m)]
    BY DEF Paid
  <2>. HIDE DEF T, m
  <2>6. Backed(eth, bal', supply)
    <3>. DEFINE out == c.out
                to == c.to
    <3>1. /\ out \in Tokens /\ to \in Accounts /\ "swapper" \in Accounts
          /\ T[out]["swapper"] >= m /\ bal' = [T EXCEPT ![out] = Move(T[out], "swapper", to, m)]
      BY <2>1, <2>3, <2>5, Names
    <3>. HIDE DEF out, to
    <3>2. Backed(eth, [T EXCEPT ![out] = Move(T[out], "swapper", to, m)], supply)
      BY <2>2, <2>4, <3>1, MoveBacked
    <3>. QED  BY <3>1, <3>2
  <2>. QED  BY <2>1, <2>6 DEF FullyBacked, Backed
<1>. QED  BY <1>4, <1>5, <1>6, <1>7, <1>8, <1>9 DEF Do

\* The reserves are all there is at the start.
LEMMA InitBacked == Init => BackedInv
<1>. SUFFICES ASSUME Init PROVE BackedInv
  OBVIOUS
<1>1. ASSUME NEW t \in Tokens PROVE Total(bal[t]) = Reserve[t]
  <2>. DEFINE z == [a \in Accounts |-> 0]
  <2>1. z \in [Accounts -> Nat] /\ "swapper" \in Accounts /\ Reserve[t] \in Nat /\ z["swapper"] = 0
    BY Names, SwapAssumption
  <2>2. bal[t] = [z EXCEPT !["swapper"] = Reserve[t]]
    BY Names DEF Init
  <2>. HIDE DEF z
  <2>3. Total([z EXCEPT !["swapper"] = Reserve[t]]) = Total(z) + (Reserve[t] - z["swapper"])
    <3>1. z \in [Accounts -> Int] /\ Reserve[t] \in Int
      BY <2>1
    <3>. QED  BY <2>1, <3>1, TotalChange
  <2>4. Total(z) = 0
    BY TotalZero DEF z
  <2>. QED  BY <2>1, <2>2, <2>3, <2>4
<1>2. eth["weth9"] = Reserve["WETH"] /\ \A t \in Tokens : supply[t] = Reserve[t]
  BY Names DEF Init
<1>3. swap = None
  BY DEF Init
<1>4. "WETH" \in Tokens /\ {"USD", "JEDKH"} \subseteq Tokens
  BY DEF Tokens
<1>. QED  BY <1>1, <1>2, <1>3, <1>4 DEF BackedInv, FullyBacked

\* So does minting, which adds to the supply what it adds to a balance.
LEMMA MintBacked ==
    ASSUME IInv, BackedInv, NEW t \in Tokens, NEW to \in Recipients, NEW n \in Amounts, Mint(t, to, n)
    PROVE  FullyBacked'
<1>1. n \in Nat /\ to \in Accounts /\ bal \in Balances /\ supply \in [Tokens -> Nat]
  BY SwapAssumption DEF IInv, Sound
<1>2. /\ t \in {"USD", "JEDKH"} /\ eth' = eth
      /\ supply' = [supply EXCEPT ![t] = @ + n] /\ bal' = [bal EXCEPT ![t][to] = @ + n]
  BY DEF Mint, Tokens
<1>3. bal[t] \in [Accounts -> Nat] /\ bal'[t] = [bal[t] EXCEPT ![to] = @ + n]
  BY <1>1, <1>2 DEF Balances
<1>4. Total(bal'[t]) = Total(bal[t]) + n
  <2>. DEFINE b == bal[t]
  <2>. HIDE DEF b
  <2>1. b \in [Accounts -> Nat]
    BY <1>3 DEF b
  <2>2. Total([b EXCEPT ![to] = @ + n]) = Total(b) + n
    BY <1>1, <2>1, TotalAdd
  <2>. QED  BY <1>3, <2>2 DEF b
<1>5. \A u \in Tokens \ {t} : bal'[u] = bal[u] /\ supply'[u] = supply[u]
  BY <1>1, <1>2 DEF Balances
<1>6. supply'[t] = supply[t] + n
  BY <1>1, <1>2
<1>7. Total(bal[t]) = supply[t]
  BY <1>2 DEF BackedInv, FullyBacked
<1>8. \A u \in {"USD", "JEDKH"} : Total(bal'[u]) = supply'[u]
  <2>. SUFFICES ASSUME NEW u \in {"USD", "JEDKH"} PROVE Total(bal'[u]) = supply'[u]
    OBVIOUS
  <2>1. CASE u = t
    BY <1>4, <1>6, <1>7, <2>1
  <2>2. CASE u # t
    BY <1>5, <2>2 DEF Tokens, BackedInv, FullyBacked
  <2>. QED  BY <2>1, <2>2
<1>9. Total(bal'["WETH"]) = eth'["weth9"]
  BY <1>2, <1>5 DEF Tokens, BackedInv, FullyBacked
<1>. QED  BY <1>8, <1>9 DEF FullyBacked

\* The next call of a batch has the types its place needs, and an owner makes it.
LEMMA StageCalls ==
    ASSUME IInv, Call
    PROVE  caller \in Owners /\ CallTyped(Head(calls))
<1>1. swap # None /\ swap \in Requests /\ caller \in Wallets
  BY DEF IInv, Stage, Call
<1>2. \/ Head(calls) = Deposit(swap.amountIn)
      \/ Head(calls) = approveCall(swap)
      \/ Head(calls) = swapCall(caller, swap)
  BY <1>1 DEF IInv, Stage, Funding, Approving, Swapping, Finished, Call
<1>. QED  BY <1>1, <1>2, BatchCalls, Names

\* FullyBacked with what a transaction that reverts goes back to.
LEMMA Backing == Spec => []BackedInv
<1>1. IInv /\ BackedInv /\ [Next]_vars => BackedInv'
  <2>. SUFFICES ASSUME IInv, BackedInv, [Next]_vars PROVE BackedInv'
    OBVIOUS
  <2>1. ASSUME NEW w \in Wallets, NEW r \in Requests, SwapBatch(w, r) PROVE BackedInv'
    <3>1. eth' = eth /\ bal' = bal /\ supply' = supply /\ before' = ledger
      BY <2>1 DEF SwapBatch
    <3>2. before'.eth = eth /\ before'.bal = bal
      BY <3>1 DEF ledger
    <3>. QED  BY <3>1, <3>2 DEF BackedInv, FullyBacked, Backed
  <2>2. CASE Call
    <3>1. Do(caller, Head(calls)) /\ UNCHANGED <<supply, swap, before>>
      BY <2>2 DEF Call
    <3>2. caller \in Owners /\ CallTyped(Head(calls))
      BY <2>2, StageCalls
    <3>3. FullyBacked'
      BY <3>1, <3>2, DoBacked DEF IInv, BackedInv
    <3>. QED  BY <3>1, <3>3 DEF BackedInv, Backed
  <2>3. CASE Revert
    <3>1. /\ eth' = before.eth /\ bal' = before.bal /\ UNCHANGED <<supply, swap, before>>
          /\ swap # None
      BY <2>3 DEF Revert, IInv, Stage
    <3>. QED  BY <3>1 DEF BackedInv, FullyBacked, Backed
  <2>4. ASSUME NEW a \in Owners, Execute(a) PROVE BackedInv'
    <3>1. swap' = None /\ supply' = supply
      BY <2>4 DEF Execute, Other
    <3>2. PICK c : CallTyped(c) /\ Do(a, c)
      BY <2>4, ExecuteCall
    <3>3. FullyBacked'
      BY <3>1, <3>2, DoBacked DEF IInv, BackedInv
    <3>. QED  BY <3>1, <3>3 DEF BackedInv
  <2>5. ASSUME NEW t \in Tokens, NEW to \in Recipients, NEW n \in Amounts, Mint(t, to, n)
        PROVE  BackedInv'
    <3>1. swap' = None
      BY <2>5 DEF Mint, Other
    <3>. QED  BY <2>5, <3>1, MintBacked DEF BackedInv
  <2>6. CASE UNCHANGED vars
    BY <2>6 DEF vars, BackedInv, FullyBacked, Backed
  <2>. QED  BY <2>1, <2>2, <2>3, <2>4, <2>5, <2>6 DEF Next
<1>. QED  BY InitBacked, Invariant, <1>1, PTL DEF Spec

---------------------------------------------------------------------------
(* A batch as one step.                                                    *)

\* What anybody's call leaves to the other owners.
LEMMA OthersKeep ==
    ASSUME NEW a \in Owners, NEW c, CallTyped(c), Sound, Do(a, c), NEW b \in Owners \ {a}
    PROVE  /\ eth'[b] >= eth[b]
           /\ \A t \in Tokens : bal'[t][b] >= bal[t][b] /\ allow'[t][b] = allow[t][b]
<1>. DEFINE n == c.amount
<1>1. /\ n \in Nat /\ Succeeds(a, c) /\ a \in Accounts /\ b \in Accounts /\ b # a
      /\ b # "swapper" /\ b # "weth9" /\ a # "swapper" /\ a # "weth9"
      /\ "weth9" \in Accounts /\ "swapper" \in Accounts
  BY Names DEF CallTyped, Do
<1>2. /\ eth \in [Accounts -> Nat] /\ bal \in Balances /\ allow \in Balances
      /\ eth[b] \in Nat /\ \A t \in Tokens : bal[t][b] \in Nat
  BY <1>1 DEF Sound, Balances
<1>3. CASE DoDeposit(a, c)
  <2>1. eth[a] >= n /\ eth' = Move(eth, a, "weth9", n)
    BY <1>1, <1>3 DEF DoDeposit, Succeeds
  <2>2. eth'[b] = eth[b]
    BY <1>1, <1>2, <2>1, MoveLemma
  <2>3. bal' = [bal EXCEPT !["WETH"][a] = bal["WETH"][a] + n] /\ allow' = allow
    BY <1>3 DEF DoDeposit
  <2>4. \A t \in Tokens : bal'[t][b] = bal[t][b]
    BY <1>1, <1>2, <2>3 DEF Balances
  <2>. QED  BY <1>2, <2>2, <2>3, <2>4
<1>4. CASE DoWithdraw(a, c)
  <2>1. eth["weth9"] >= n /\ eth' = Move(eth, "weth9", a, n)
    BY <1>1, <1>4 DEF DoWithdraw, Succeeds
  <2>2. eth'[b] = eth[b]
    BY <1>1, <1>2, <2>1, MoveLemma
  <2>3. bal' = [bal EXCEPT !["WETH"][a] = bal["WETH"][a] - n] /\ allow' = allow
    BY <1>4 DEF DoWithdraw
  <2>4. \A t \in Tokens : bal'[t][b] = bal[t][b]
    BY <1>1, <1>2, <2>3 DEF Balances
  <2>. QED  BY <1>2, <2>2, <2>3, <2>4
<1>5. CASE DoSend(a, c)
  <2>1. eth[a] >= n /\ eth' = Move(eth, a, c.to, n) /\ c.to \in Accounts
    BY <1>1, <1>5 DEF DoSend, Succeeds, CallTyped
  <2>2. eth'[b] = IF a = c.to THEN eth[b] ELSE IF b = a THEN eth[b] - n
                  ELSE IF b = c.to THEN eth[b] + n ELSE eth[b]
    BY <1>1, <1>2, <2>1, MoveLemma
  <2>3. /\ bal' = bal \/ bal' = [bal EXCEPT !["WETH"][a] = bal["WETH"][a] + n]
        /\ allow' = allow
    BY <1>5 DEF DoSend
  <2>4. \A t \in Tokens : bal'[t][b] = bal[t][b]
    BY <1>1, <1>2, <2>3 DEF Balances
  <2>5. eth'[b] >= eth[b]
    BY <1>1, <1>2, <2>2
  <2>. QED  BY <1>2, <2>3, <2>4, <2>5
<1>6. CASE DoApprove(a, c)
  <2>1. /\ allow' = [allow EXCEPT ![c.token][a] = n] /\ eth' = eth /\ bal' = bal
        /\ c.token \in Tokens
    BY <1>6 DEF DoApprove, CallTyped
  <2>2. \A t \in Tokens : allow'[t][b] = allow[t][b]
    BY <1>1, <1>2, <2>1 DEF Balances
  <2>. QED  BY <1>2, <2>1, <2>2
<1>7. CASE DoTransfer(a, c)
  <2>. DEFINE in == c.token
              m == bal[in]
  <2>1. /\ in \in Tokens /\ c.to \in Accounts /\ m[a] >= n /\ m \in [Accounts -> Nat]
        /\ bal' = [bal EXCEPT ![in] = Move(m, a, c.to, n)] /\ eth' = eth /\ allow' = allow
    BY <1>1, <1>2, <1>7 DEF DoTransfer, Succeeds, CallTyped, Balances
  <2>. HIDE DEF m
  <2>2. Move(m, a, c.to, n)[b] >= m[b]
    <3>1. Move(m, a, c.to, n)[b] = IF a = c.to THEN m[b] ELSE IF b = a THEN m[b] - n
                                   ELSE IF b = c.to THEN m[b] + n ELSE m[b]
      BY <1>1, <2>1, MoveLemma
    <3>2. m[b] \in Nat
      BY <1>1, <2>1
    <3>. QED  BY <1>1, <3>1, <3>2
  <2>3. \A t \in Tokens : bal'[t][b] >= bal[t][b]
    <3>. SUFFICES ASSUME NEW t \in Tokens PROVE bal'[t][b] >= bal[t][b]
      OBVIOUS
    <3>1. CASE t = in
      <4>1. bal'[t] = Move(m, a, c.to, n) /\ bal[t] = m
        BY <1>2, <2>1, <3>1 DEF m, Balances
      <4>. QED  BY <2>2, <4>1
    <3>2. CASE t # in
      <4>1. bal'[t] = bal[t]
        BY <1>2, <2>1, <3>2 DEF Balances
      <4>. QED  BY <1>2, <4>1
    <3>. QED  BY <3>1, <3>2
  <2>. QED  BY <1>2, <2>1, <2>3
<1>8. CASE DoSwap(a, c)
  <2>. DEFINE m == getAmountOut(c.token, c.out, n)
  <2>1. /\ c.token \in Tokens /\ c.out \in Tokens /\ c.to \in Accounts /\ CanSwap(a, c)
        /\ eth' = eth /\ bal' = Paid(a, c)
    BY <1>1, <1>8 DEF DoSwap, Succeeds, CallTyped
  <2>2. /\ m \in Nat
        /\ \A t \in Tokens : bal'[t][b] = bal[t][b] + (IF t = c.out /\ b = c.to THEN m ELSE 0)
    <3>1. b \in Accounts \ {a, "swapper"}
      BY <1>1
    <3>. QED  BY <1>1, <1>2, <2>1, <3>1, SwapLemma
  <2>. HIDE DEF m
  <2>3. \A t \in Tokens : bal'[t][b] >= bal[t][b]
    BY <1>2, <2>2
  <2>4. allow' = allow \/ allow' = [allow EXCEPT ![c.token][a] = allow[c.token][a] - n]
    BY <1>8 DEF DoSwap, Spent
  <2>5. \A t \in Tokens : allow'[t][b] = allow[t][b]
    BY <1>1, <1>2, <2>1, <2>4 DEF Balances
  <2>. QED  BY <1>2, <2>1, <2>3, <2>5
<1>. QED  BY <1>3, <1>4, <1>5, <1>6, <1>7, <1>8 DEF Do

\* The input is wrapped, if it is ether, and otherwise nothing has moved.
Wrapped ==
    IF needsDeposit(swap.direction)
    THEN /\ before.eth[caller] >= swap.amountIn
         /\ eth = Move(before.eth, caller, "weth9", swap.amountIn)
         /\ bal = [before.bal EXCEPT ![tIn][caller] = @ + swap.amountIn]
    ELSE eth = before.eth /\ bal = before.bal

\* All that a batch has changed by its second and by its third call.
Progress ==
    /\ Approving => Wrapped /\ allow = before.allow
    /\ Swapping => Wrapped /\ allow = [before.allow EXCEPT ![tIn][caller] = swap.amountIn]

LEMMA ProgressHolds == Spec => []Progress
<1>1. Init => Progress
  BY DEF Init, Progress, Approving, Swapping
<1>2. ASSUME IInv, IInv', Progress, [Next]_vars PROVE Progress'
  <2>1. ASSUME NEW w \in Wallets, NEW r \in Requests, SwapBatch(w, r) PROVE Progress'
    <3>1. /\ eth' = eth /\ bal' = bal /\ allow' = allow /\ swap' = r /\ caller' = w
          /\ before'.eth = eth /\ before'.bal = bal /\ before'.allow = allow
      BY <2>1 DEF SwapBatch, ledger
    <3>2. ~Swapping'
      BY <2>1 DEF SwapBatch, buildSwapBatch, Swapping
    <3>3. Approving' => ~needsDeposit(r.direction)
      BY <2>1 DEF SwapBatch, buildSwapBatch, Approving
    <3>. QED  BY <3>1, <3>2, <3>3 DEF Progress, Wrapped
  <2>2. CASE Call
    <3>1. /\ swap # None /\ swap \in Requests /\ caller \in Wallets /\ before \in Ledgers
          /\ Funding \/ Approving \/ Swapping
      BY <1>2, <2>2 DEF IInv, Stage, Finished, Call
    <3>2. /\ UNCHANGED <<caller, swap, before>> /\ calls' = Tail(calls)
          /\ tIn' = tIn /\ tIn \in Tokens /\ swap.amountIn \in Nat
          /\ needsDeposit(swap.direction) => tIn = "WETH"
      BY <2>2, <3>1, RequestTypes DEF Call, tIn
    <3>3. CASE Funding
      <4>1. Head(calls) = Deposit(swap.amountIn) /\ calls' = <<approveCall(swap), swapCall(caller, swap)>>
        BY <3>2, <3>3 DEF Funding
      <4>2. DoDeposit(caller, Deposit(swap.amountIn)) /\ eth[caller] >= swap.amountIn
        BY <2>2, <4>1 DEF Call, Do, Deposit, DoDeposit, DoWithdraw, DoSend, DoApprove, DoTransfer, DoSwap,
                          Succeeds
      <4>3. /\ eth' = Move(eth, caller, "weth9", swap.amountIn) /\ allow' = allow
            /\ bal' = [bal EXCEPT !["WETH"][caller] = @ + swap.amountIn]
        BY <4>2 DEF DoDeposit, Deposit
      <4>4. before.eth = eth /\ before.bal = bal /\ before.allow = allow /\ tIn = "WETH"
            /\ needsDeposit(swap.direction)
        BY <3>2, <3>3 DEF Funding, ledger
      <4>5. Wrapped' /\ allow' = before'.allow
        BY <3>2, <4>2, <4>3, <4>4 DEF Wrapped
      <4>6. ~Swapping'
        BY <4>1 DEF Swapping
      <4>. QED  BY <4>5, <4>6 DEF Progress
    <3>4. CASE Approving
      <4>1. Head(calls) = approveCall(swap) /\ calls' = <<swapCall(caller, swap)>>
        BY <3>2, <3>4 DEF Approving
      <4>2. DoApprove(caller, approveCall(swap))
        BY <2>2, <4>1 DEF Call, Do, approveCall, Approve, DoDeposit, DoWithdraw, DoSend, DoApprove, DoTransfer, DoSwap
      <4>3. eth' = eth /\ bal' = bal /\ allow' = [allow EXCEPT ![tIn][caller] = swap.amountIn]
        BY <4>2 DEF DoApprove, approveCall, Approve, tIn
      <4>4. Wrapped /\ allow = before.allow
        BY <1>2, <3>4 DEF Progress
      <4>5. Wrapped' /\ allow' = [before'.allow EXCEPT ![tIn'][caller'] = swap'.amountIn]
        BY <3>2, <4>3, <4>4 DEF Wrapped
      <4>6. ~Approving'
        BY <4>1 DEF Approving
      <4>. QED  BY <4>5, <4>6 DEF Progress
    <3>5. CASE Swapping
      <4>1. calls' = <<>>
        BY <3>2, <3>5 DEF Swapping
      <4>. QED  BY <4>1 DEF Progress, Approving, Swapping
    <3>. QED  BY <3>1, <3>3, <3>4, <3>5
  <2>3. CASE calls' = <<>>
    BY <2>3 DEF Progress, Approving, Swapping
  <2>4. CASE UNCHANGED vars
    BY <1>2, <2>4 DEF vars, Progress, Approving, Swapping, Paying, Wrapped, tIn, tOut
  <2>5. Revert \/ (\E a \in Owners : Execute(a))
          \/ (\E t \in Tokens, to \in Recipients, n \in Amounts : Mint(t, to, n)) => calls' = <<>>
    BY DEF Revert, Execute, Mint, Other
  <2>. QED  BY <1>2, <2>1, <2>2, <2>3, <2>4, <2>5 DEF Next
<1>. QED  BY Invariant, <1>1, <1>2, PTL DEF Spec

LEMMA SameAccounts == Atomic!Accounts = Accounts /\ Atomic!Balances = Balances
BY DEF Atomic!Accounts, Accounts, Atomic!Balances, Balances

\* What is seen between batches is what is there.
LEMMA SeenIdle ==
    ASSUME calls = <<>>
    PROVE  seen.eth = eth /\ seen.bal = bal /\ seen.allow = allow
BY DEF seen, ledger, Idle

\* What a whole batch does to the tokens: the swapper gets the input from the wallet,
\* or made of its ether, and the wallet the quote.
LEMMA WholeSwap ==
    ASSUME IInv, Progress, Swapping, Call, NEW t \in Tokens, NEW x \in Accounts
    PROVE  bal'[t][x] =
             before.bal[t][x]
               + (IF t = tIn /\ x = "swapper" THEN swap.amountIn ELSE 0)
               - (IF t = tIn /\ x = caller /\ ~needsDeposit(swap.direction)
                  THEN swap.amountIn ELSE 0)
               + (IF t = tOut /\ x = caller THEN quote ELSE 0)
               - (IF t = tOut /\ x = "swapper" THEN quote ELSE 0)
<1>. DEFINE c == swapCall(caller, swap)
            n == swap.amountIn
            in == tIn
            out == tOut
            m == quote
            old == before.bal
<1>1. /\ swap # None /\ swap \in Requests /\ caller \in Wallets /\ before \in Ledgers
      /\ Wrapped
  BY DEF IInv, Stage, Call, Progress
<1>2. /\ caller \in Owners /\ caller \in Accounts /\ "swapper" \in Accounts
      /\ caller # "swapper" /\ x \in Accounts
  BY <1>1, Names
<1>3. n \in Nat /\ in \in Tokens /\ out \in Tokens /\ in # out
  BY <1>1, RequestTypes DEF tIn, tOut
<1>4. Head(calls) = c
  BY DEF Swapping
<1>5. Succeeds(caller, c) /\ DoSwap(caller, c)
  BY <1>4 DEF Call, Do, swapCall, SwapCall, DoDeposit, DoWithdraw, DoSend, DoApprove, DoTransfer, DoSwap
<1>6. c.fn = "swap" /\ c.amount = n /\ c.token = in /\ c.out = out /\ c.to = caller
  BY DEF swapCall, SwapCall, tIn, tOut
<1>7. bal' = Paid(caller, c) /\ CanSwap(caller, c) /\ bal \in Balances /\ old \in Balances
  BY <1>1, <1>5, <1>6 DEF DoSwap, Succeeds, IInv, Sound, Ledgers
<1>8. m = getAmountOut(c.token, c.out, c.amount)
  BY <1>6 DEF quote
<1>9. /\ m \in Nat
      /\ bal'[t]["swapper"] = bal[t]["swapper"] + (IF t = in THEN n ELSE 0)
                              - (IF t = out THEN m ELSE 0)
      /\ bal'[t][caller] = bal[t][caller] - (IF t = in THEN n ELSE 0)
                           + (IF t = out THEN m ELSE 0)
      /\ x # caller /\ x # "swapper" => bal'[t][x] = bal[t][x]
  <2>. DEFINE P == Paid(caller, c)
  <2>. HIDE DEF c, m, n
  <2>1. /\ m \in Nat
        /\ Paid(caller, c)[t]["swapper"] =
             bal[t]["swapper"] + (IF t = c.token THEN c.amount ELSE 0)
             - (IF t = c.out /\ c.to # "swapper" THEN m ELSE 0)
        /\ c.to = caller => Paid(caller, c)[t][caller] =
             bal[t][caller] - (IF t = c.token THEN c.amount ELSE 0)
             + (IF t = c.out THEN m ELSE 0)
        /\ x \in Accounts \ {caller, "swapper"} =>
             Paid(caller, c)[t][x] = bal[t][x] + (IF t = c.out /\ x = c.to THEN m ELSE 0)
    BY <1>2, <1>3, <1>6, <1>7, <1>8, SwapLemma
  <2>2. bal[t][x] \in Nat
    BY <1>2, <1>7 DEF Balances
  <2>. QED  BY <1>2, <1>3, <1>6, <1>7, <2>1, <2>2
<1>10. old[t][x] \in Nat /\ old[t]["swapper"] \in Nat /\ old[t][caller] \in Nat
  BY <1>2, <1>7 DEF Balances
<1>11. CASE needsDeposit(swap.direction)
  <2>1. bal = [old EXCEPT ![in][caller] = old[in][caller] + n]
    BY <1>1, <1>11 DEF Wrapped
  <2>2. /\ bal[t][x] = old[t][x] + (IF t = in /\ x = caller THEN n ELSE 0)
        /\ bal[t]["swapper"] = old[t]["swapper"]
        /\ bal[t][caller] = old[t][caller] + (IF t = in THEN n ELSE 0)
    BY <1>2, <1>3, <1>7, <1>10, <2>1 DEF Balances
  <2>. HIDE DEF old, m, in, out, n
  <2>3. bal'[t][x] = old[t][x] + (IF t = in /\ x = "swapper" THEN n ELSE 0)
                     + (IF t = out /\ x = caller THEN m ELSE 0)
                     - (IF t = out /\ x = "swapper" THEN m ELSE 0)
    BY <1>2, <1>3, <1>9, <1>10, <2>2
  <2>4. (IF t = in /\ x = caller /\ ~needsDeposit(swap.direction) THEN n ELSE 0) = 0
    BY <1>11
  <2>. QED  BY <1>3, <1>9, <1>10, <2>3, <2>4 DEF old, m, in, out, n
<1>12. CASE ~needsDeposit(swap.direction)
  <2>1. bal = old
    BY <1>1, <1>12 DEF Wrapped
  <2>. HIDE DEF old, m, in, out, n
  <2>2. bal'[t][x] = old[t][x] + (IF t = in /\ x = "swapper" THEN n ELSE 0)
                     - (IF t = in /\ x = caller THEN n ELSE 0)
                     + (IF t = out /\ x = caller THEN m ELSE 0)
                     - (IF t = out /\ x = "swapper" THEN m ELSE 0)
    BY <1>2, <1>3, <1>9, <1>10, <2>1
  <2>3. (t = in /\ x = caller /\ ~needsDeposit(swap.direction)) <=> (t = in /\ x = caller)
    BY <1>12
  <2>. QED  BY <1>3, <1>9, <1>10, <2>2, <2>3 DEF old, m, in, out, n
<1>. QED  BY <1>11, <1>12

\* The last call of a batch is the whole swap to those who look on.
LEMMA LastCall ==
    ASSUME IInv, IInv', Progress, Swapping, Call
    PROVE  Atomic!Next
<1>. DEFINE c == swapCall(caller, swap)
            n == swap.amountIn
            w == caller
            wraps == needsDeposit(swap.direction)
<1>1. /\ swap # None /\ swap \in Requests /\ caller \in Wallets /\ before \in Ledgers
      /\ Wrapped /\ allow = [before.allow EXCEPT ![tIn][w] = n]
  BY DEF IInv, Stage, Call, Progress
<1>2. /\ w \in Owners /\ w \in Accounts /\ "weth9" \in Accounts /\ w # "weth9" /\ w # "swapper"
      /\ "swapper" \in Accounts
  BY <1>1, Names
<1>3. /\ n \in Nat /\ n \in Amounts /\ n # MaxUint /\ tIn \in Tokens /\ tOut \in Tokens /\ tIn # tOut
      /\ wraps => tIn = "WETH"
  BY <1>1, RequestTypes DEF tIn, tOut, Requests
<1>4. Head(calls) = c /\ calls' = <<>> /\ UNCHANGED <<caller, swap, before>>
  BY DEF Swapping, Call
<1>5. Succeeds(w, c) /\ DoSwap(w, c)
  BY <1>4 DEF Call, Do, swapCall, SwapCall, DoDeposit, DoWithdraw, DoSend, DoApprove, DoTransfer, DoSwap
<1>6. c.fn = "swap" /\ c.amount = n /\ c.token = tIn /\ c.out = tOut /\ c.to = w
  BY DEF swapCall, SwapCall, tIn, tOut
<1>7. CanSwap(w, c) /\ bal \in Balances /\ eth' = eth /\ allow' = Spent(w, c)
  BY <1>5, <1>6 DEF DoSwap, Succeeds, IInv, Sound
<1>8. /\ before.eth \in [Accounts -> Nat] /\ before.bal \in Balances /\ before.allow \in Balances
      /\ bal' \in Balances
  BY <1>1 DEF Ledgers, IInv, Sound
<1>9. /\ seen.eth = before.eth /\ seen.bal = before.bal /\ seen.allow = before.allow
  BY DEF seen, Swapping, Idle
<1>10. seen'.eth = eth' /\ seen'.bal = bal' /\ seen'.allow = allow'
  BY <1>4 DEF seen, ledger, Idle
<1>11. /\ order.wallet = w /\ order.in = tIn /\ order.out = tOut /\ order.amountIn = n
       /\ order.minAmountOut = swap.minAmountOut /\ quote = Atomic!Quote(order)
  BY DEF order, tIn, tOut, quote, getAmountOut, Atomic!Quote
<1>12. n > 0 /\ bal[tIn][w] >= n
  BY <1>6, <1>7 DEF CanSwap
<1>13. before.bal[tOut]["swapper"] >= quote
  <2>1. Taken(w, c)[tOut]["swapper"] >= quote
    BY <1>6, <1>7 DEF CanSwap, quote
  <2>2. Taken(w, c)[tOut] = bal[tOut]
    BY <1>3, <1>6, <1>7 DEF Taken, Balances
  <2>3. bal[tOut] = before.bal[tOut]
    BY <1>1, <1>3, <1>8 DEF Wrapped, Balances
  <2>. QED  BY <2>1, <2>2, <2>3
<1>14. allow' = [before.allow EXCEPT ![tIn][w] = 0]
  <2>1. allow[tIn][w] = n
    BY <1>1, <1>2, <1>3, <1>8 DEF Balances
  <2>2. allow' = [allow EXCEPT ![tIn][w] = n - n]
    BY <1>3, <1>6, <1>7, <2>1 DEF Spent
  <2>3. n - n = 0
    BY <1>3
  <2>. QED  BY <1>1, <1>2, <1>3, <1>8, <2>2, <2>3 DEF Balances
<1>15. ASSUME NEW ether \in BOOLEAN, ether <=> wraps
       PROVE  /\ bal' = [t \in Tokens |-> [x \in Accounts |->
                           before.bal[t][x]
                             + (IF t = tIn /\ x = "swapper" THEN n ELSE 0)
                             - (IF t = tIn /\ x = w /\ ~ether THEN n ELSE 0)
                             + (IF t = tOut /\ x = w THEN quote ELSE 0)
                             - (IF t = tOut /\ x = "swapper" THEN quote ELSE 0)]]
              /\ eth' = [x \in Accounts |->
                           before.eth[x] + (IF x = "weth9" /\ ether THEN n ELSE 0)
                                         - (IF x = w /\ ether THEN n ELSE 0)]
              /\ IF ether THEN before.eth[w] >= n ELSE before.bal[tIn][w] >= n
  <2>. DEFINE New(t, x) == before.bal[t][x]
                             + (IF t = tIn /\ x = "swapper" THEN n ELSE 0)
                             - (IF t = tIn /\ x = w /\ ~ether THEN n ELSE 0)
                             + (IF t = tOut /\ x = w THEN quote ELSE 0)
                             - (IF t = tOut /\ x = "swapper" THEN quote ELSE 0)
  <2>1. ASSUME NEW t \in Tokens, NEW x \in Accounts PROVE bal'[t][x] = New(t, x)
    <3>1. (t = tIn /\ x = w /\ ~ether) <=> (t = tIn /\ x = w /\ ~wraps)
      BY <1>15
    <3>. QED  BY <3>1, WholeSwap
  <2>. HIDE DEF New
  <2>2. ASSUME NEW t \in Tokens PROVE bal'[t] = [x \in Accounts |-> New(t, x)]
    <3>1. bal'[t] \in [Accounts -> Nat]
      BY <1>8 DEF Balances
    <3>. QED  BY <2>1, <3>1
  <2>3. bal' = [t \in Tokens |-> [x \in Accounts |-> New(t, x)]]
    BY <1>8, <2>2 DEF Balances
  <2>4. /\ eth' = [x \in Accounts |->
                     before.eth[x] + (IF x = "weth9" /\ ether THEN n ELSE 0)
                                   - (IF x = w /\ ether THEN n ELSE 0)]
        /\ IF ether THEN before.eth[w] >= n ELSE before.bal[tIn][w] >= n
    <3>. DEFINE e == before.eth
    <3>1. e \in [Accounts -> Nat]
      BY <1>8
    <3>2. CASE ether
      <4>1. e[w] >= n /\ eth' = Move(e, w, "weth9", n)
        BY <1>1, <1>7, <1>15, <3>2 DEF Wrapped
      <4>. HIDE DEF e
      <4>2. /\ Move(e, w, "weth9", n) \in [Accounts -> Nat]
            /\ \A x \in Accounts :
                 Move(e, w, "weth9", n)[x] = IF x = w THEN e[x] - n
                                             ELSE IF x = "weth9" THEN e[x] + n ELSE e[x]
        BY <1>2, <1>3, <3>1, <4>1, MoveLemma
      <4>3. \A x \in Accounts : eth'[x] = e[x] + (IF x = "weth9" THEN n ELSE 0)
                                              - (IF x = w THEN n ELSE 0)
        BY <1>2, <1>3, <3>1, <4>1, <4>2
      <4>4. eth' = [x \in Accounts |-> e[x] + (IF x = "weth9" THEN n ELSE 0)
                                            - (IF x = w THEN n ELSE 0)]
        BY <4>1, <4>2, <4>3
      <4>. QED  BY <3>2, <4>1, <4>4 DEF e
    <3>3. CASE ~ether
      <4>1. eth' = e /\ before.bal = bal
        BY <1>1, <1>7, <1>15, <3>3 DEF Wrapped
      <4>. HIDE DEF e
      <4>2. eth' = [x \in Accounts |-> e[x] + 0 - 0]
        BY <3>1, <4>1
      <4>. QED  BY <1>12, <3>3, <4>1, <4>2 DEF e
    <3>. QED  BY <3>2, <3>3
  <2>. QED  BY <2>3, <2>4 DEF New
<1>16. quote >= order.minAmountOut
  <2>1. c.min = swap.minAmountOut /\ quote = getAmountOut(c.token, c.out, c.amount)
    BY <1>6 DEF swapCall, SwapCall, quote
  <2>. QED  BY <1>7, <1>11, <2>1 DEF CanSwap
<1>17. order.ether \in BOOLEAN /\ (order.ether <=> wraps)
  <2>1. order.ether = needsDeposit(swap.direction)
    BY DEF order
  <2>2. needsDeposit(swap.direction) \in BOOLEAN
    BY DEF needsDeposit
  <2>. QED  BY <2>1, <2>2
<1>18. order \in Atomic!Orders
  BY <1>1, <1>3, <1>17 DEF order, Atomic!Orders, Requests, tIn, tOut
<1>19. ended' = [order |-> order, done |-> TRUE]
  <2>1. Idle' /\ swap' # None /\ reverted' = FALSE
    BY <1>1, <1>4 DEF Idle, Call, IInv, Stage, Finished
  <2>2. order' = order
    BY <1>4 DEF order
  <2>. QED  BY <2>1, <2>2 DEF ended
<1>. HIDE DEF n, wraps, w
<1>20. order.ether => tIn = "WETH"
  BY <1>3, <1>17
<1>21. Atomic!Trade(order)
  <2>. DEFINE o == order
              ether == o.ether
  <2>1. /\ o.wallet = w /\ o.in = tIn /\ o.out = tOut /\ o.amountIn = n
        /\ o.ether = ether /\ ether \in BOOLEAN /\ Atomic!Quote(o) = quote
    BY <1>11, <1>17
  <2>2. /\ bal' = [t \in Tokens |-> [x \in Accounts |->
                      before.bal[t][x]
                        + (IF t = tIn /\ x = "swapper" THEN n ELSE 0)
                        - (IF t = tIn /\ x = w /\ ~ether THEN n ELSE 0)
                        + (IF t = tOut /\ x = w THEN quote ELSE 0)
                        - (IF t = tOut /\ x = "swapper" THEN quote ELSE 0)]]
        /\ eth' = [x \in Accounts |->
                      before.eth[x] + (IF x = "weth9" /\ ether THEN n ELSE 0)
                                    - (IF x = w /\ ether THEN n ELSE 0)]
        /\ IF ether THEN before.eth[w] >= n ELSE before.bal[tIn][w] >= n
    BY <1>15, <1>17
  <2>3. (ether => tIn = "WETH") /\ quote >= o.minAmountOut
    BY <1>16, <1>20
  <2>. HIDE DEF o, ether
  <2>4. Atomic!Exchange(o) = bal'
    BY <1>9, <2>1, <2>2, SameAccounts DEF Atomic!Exchange
  <2>5. seen'.eth = [x \in Atomic!Accounts |->
                       seen.eth[x] + (IF x = "weth9" /\ o.ether THEN o.amountIn ELSE 0)
                                   - (IF x = o.wallet /\ o.ether THEN o.amountIn ELSE 0)]
    BY <1>9, <1>10, <2>1, <2>2, SameAccounts
  <2>6. Atomic!Trade(o)
    <3>1. ended' = [order |-> o, done |-> TRUE]
      BY <1>19 DEF o
    <3>. QED
      BY <1>3, <1>9, <1>10, <1>12, <1>13, <1>14, <2>1, <2>2, <2>3, <2>4, <2>5, <3>1
      DEF Atomic!Trade
  <2>. QED  BY <2>6 DEF o
<1>. QED  BY <1>18, <1>21 DEF Atomic!Next

\* A call outside batches leaves to the others what is theirs.
LEMMA ExecuteUses ==
    ASSUME IInv, IInv', NEW a \in Owners, Execute(a)
    PROVE  Atomic!Use(a)
<1>1. PICK c : CallTyped(c) /\ Do(a, c)
  BY ExecuteCall
<1>2. Gained(bal, bal') /\ Sound /\ Sound'
  BY <1>1, DoLemma DEF IInv
<1>3. \A b \in Owners \ {a} :
        /\ eth'[b] >= eth[b]
        /\ \A t \in Tokens : bal'[t][b] >= bal[t][b] /\ allow'[t][b] = allow[t][b]
  BY <1>1, <1>2, OthersKeep
<1>4. calls = <<>> /\ calls' = <<>>
  BY DEF Execute, Other
<1>5. seen.eth = eth /\ seen.bal = bal /\ seen.allow = allow
  BY <1>4, SeenIdle
<1>6. seen'.eth = eth' /\ seen'.bal = bal' /\ seen'.allow = allow'
  BY <1>4 DEF seen, ledger, Idle
<1>7. Atomic!Worth(bal') >= Atomic!Worth(bal)
  <2>1. "WETH" \in Tokens /\ "USD" \in Tokens /\ "JEDKH" \in Tokens
    BY DEF Tokens
  <2>. QED  BY <1>2, <2>1 DEF Gained, Worth, Reserves, Atomic!Worth
<1>8. ended' = None
  BY DEF Execute, Other, ended
<1>. QED
  BY <1>2, <1>3, <1>5, <1>6, <1>7, <1>8, SameAccounts DEF Atomic!Use, Atomic!Worth, Sound

LEMMA MintMints ==
    ASSUME IInv, IInv', NEW t \in Tokens, NEW to \in Recipients, NEW n \in Amounts, Mint(t, to, n)
    PROVE  Atomic!Mint
<1>1. calls = <<>> /\ calls' = <<>> /\ eth' = eth /\ allow' = allow
  BY DEF Mint, Other
<1>2. seen.eth = eth /\ seen.bal = bal /\ seen.allow = allow
  BY <1>1, SeenIdle
<1>3. seen'.eth = eth' /\ seen'.bal = bal' /\ seen'.allow = allow'
  BY <1>1 DEF seen, ledger, Idle
<1>4. n \in Nat /\ to \in Accounts /\ bal \in Balances /\ bal' \in Balances
  BY SwapAssumption DEF IInv, Sound
<1>5. bal[t][to] \in Nat /\ bal' = [bal EXCEPT ![t][to] = bal[t][to] + n]
  BY <1>4 DEF Balances, Mint
<1>6. \A u \in Tokens, x \in Accounts : bal'[u][x] >= bal[u][x]
  <2>. SUFFICES ASSUME NEW u \in Tokens, NEW x \in Accounts PROVE bal'[u][x] >= bal[u][x]
    OBVIOUS
  <2>1. bal[u][x] \in Nat
    BY <1>4 DEF Balances
  <2>. QED  BY <1>4, <1>5, <2>1 DEF Balances
<1>7. ended' = None
  BY DEF Mint, Other, ended
<1>. QED  BY <1>1, <1>2, <1>3, <1>4, <1>6, <1>7, SameAccounts DEF Atomic!Mint

\* Each step is one of the abstract swap or none: of a batch, only the last call is.
LEMMA StepRefines ==
    ASSUME IInv, IInv', Progress, [Next]_vars
    PROVE  [Atomic!Next]_(Atomic!vars)
<1>1. ASSUME seen' = seen PROVE seen.eth' = seen.eth /\ seen.bal' = seen.bal /\ seen.allow' = seen.allow
  BY <1>1
<1>2. ASSUME NEW w \in Wallets, NEW r \in Requests, SwapBatch(w, r) PROVE Atomic!Next
  <2>1. calls = <<>> /\ calls' # <<>> /\ before' = ledger
    BY <1>2 DEF SwapBatch, buildSwapBatch
  <2>2. seen' = seen /\ ended' = None
    BY <2>1 DEF seen, ended, Idle
  <2>. QED  BY <1>1, <2>2 DEF Atomic!Next, Atomic!Pass
<1>3. CASE Call
  <2>1. Funding \/ Approving \/ Swapping
    BY <1>3 DEF IInv, Stage, Finished, Call
  <2>2. CASE Swapping
    BY <1>3, <2>2, LastCall
  <2>3. CASE Funding \/ Approving
    <3>1. calls # <<>> /\ calls' # <<>> /\ before' = before
      BY <1>3, <2>3 DEF Call, Funding, Approving
    <3>2. seen' = seen /\ ended' = ended
      BY <3>1 DEF seen, ended, Idle
    <3>. QED  BY <1>1, <3>2 DEF Atomic!vars
  <2>. QED  BY <2>1, <2>2, <2>3
<1>4. CASE Revert
  <2>1. /\ swap # None /\ swap \in Requests /\ caller \in Wallets /\ before \in Ledgers
    BY <1>4 DEF IInv, Stage, Revert
  <2>2. /\ calls # <<>> /\ calls' = <<>> /\ reverted' = TRUE /\ UNCHANGED <<swap, caller>>
        /\ eth' = before.eth /\ bal' = before.bal /\ allow' = before.allow
    BY <1>4 DEF Revert
  <2>3. ledger' = before
    BY <2>1, <2>2 DEF ledger, Ledgers
  <2>4. seen' = seen
    BY <2>2, <2>3 DEF seen, Idle
  <2>5. ended' = [order |-> order, done |-> FALSE]
    <3>1. order' = order
      BY <2>2 DEF order
    <3>. QED  BY <2>1, <2>2, <3>1 DEF ended, Idle
  <2>6. order \in Atomic!Orders
    <3>1. /\ tokenIn(swap.direction) \in Tokens /\ tokenOut(swap.direction) \in Tokens
          /\ needsDeposit(swap.direction) \in BOOLEAN
      BY <2>1, RequestTypes DEF needsDeposit
    <3>. QED  BY <2>1, <3>1 DEF order, Atomic!Orders, Requests
  <2>. QED  BY <1>1, <2>4, <2>5, <2>6 DEF Atomic!Next, Atomic!Fail
<1>5. ASSUME NEW a \in Owners, Execute(a) PROVE Atomic!Next
  BY <1>5, ExecuteUses DEF Atomic!Next
<1>6. ASSUME NEW t \in Tokens, NEW to \in Recipients, NEW n \in Amounts, Mint(t, to, n)
      PROVE  Atomic!Next
  BY <1>6, MintMints DEF Atomic!Next
<1>7. CASE UNCHANGED vars
  <2>1. seen' = seen /\ ended' = ended
    BY <1>7 DEF vars, seen, ledger, ended, order, Idle
  <2>. QED  BY <1>1, <2>1 DEF Atomic!vars
<1>. QED  BY <1>2, <1>3, <1>4, <1>5, <1>6, <1>7 DEF Next

---------------------------------------------------------------------------
(* Theorems.                                                               *)

\* No balance, allowance or ether ever goes below zero, although WETH9 does not
\* check its arithmetic, and a batch is always one that buildSwapBatch made, or what
\* is left of it.
THEOREM TypeCorrect == Spec => []TypeOK
<1>1. IInv => TypeOK
  <2>. SUFFICES ASSUME IInv PROVE TypeOK
    OBVIOUS
  <2>1. CASE swap = None
    BY <2>1 DEF IInv, Sound, Stage, TypeOK
  <2>2. CASE swap # None
    <3>1. calls \in {buildSwapBatch(caller, swap), <<approveCall(swap), swapCall(caller, swap)>>,
                     <<swapCall(caller, swap)>>, <<>>}
      BY <2>2 DEF IInv, Stage, Funding, Approving, Swapping, Finished, buildSwapBatch
    <3>. QED  BY <2>2, <3>1 DEF IInv, Sound, Stage, TypeOK
  <2>. QED  BY <2>1, <2>2
<1>. QED  BY Invariant, <1>1, PTL

\* A swap of any amount, at any prices and whatever others do before and after,
\* happens exactly as it was signed or leaves everything as it was.
THEOREM SwapsAreAsSigned == Spec => []SwapAsSigned
<1>1. IInv => SwapAsSigned
  <2>. SUFFICES ASSUME IInv, Idle, swap # None
                PROVE  IF reverted THEN ledger = before ELSE AsSigned
    BY DEF SwapAsSigned, AsSigned, tIn, tOut, quote
  <2>1. Finished
    BY DEF IInv, Stage, Idle, Funding, Approving, Swapping, Finished
  <2>. QED  BY <2>1 DEF Finished
<1>. QED  BY Invariant, <1>1, PTL

\* At its own prices the swapper never loses, whatever the prices, the order of the
\* calls and the number of callers.
THEOREM KeepsWorth == Spec => []SwapperKeepsWorth
<1>1. IInv => SwapperKeepsWorth
  BY DEF IInv, Sound, Kept, Reserves, SwapperKeepsWorth
<1>. QED  BY Invariant, <1>1, PTL

\* Every WETH can be redeemed for the ether that WETH9 has, and no USD or JEDKH
\* appears but by minting, for any number of accounts, whatever they call and
\* wherever a batch fails.
THEOREM AlwaysBacked == Spec => []FullyBacked
<1>1. BackedInv => FullyBacked
  BY DEF BackedInv
<1>. QED  BY Backing, <1>1, PTL
\* To everybody but the wallet a batch of calls is a single step, a swap at the
\* quote, or no step at all, at whichever call it fails; it touches nobody and
\* nothing else, and outside swaps nobody loses but by calls of his own.
THEOREM BatchIsAtomic == Spec => ImplementsAtomicSwap
<1>1. Init => Atomic!Init
  <2>. SUFFICES ASSUME Init PROVE Atomic!Init
    OBVIOUS
  <2>1. IInv /\ calls = <<>>
    BY InitHolds DEF Init
  <2>2. eth \in [Accounts -> Nat] /\ bal \in Balances
    BY <2>1 DEF IInv, Sound
  <2>3. allow = [t \in Tokens |-> [a \in Accounts |-> 0]]
    BY DEF Init
  <2>4. ended = None
    BY DEF Init, ended
  <2>. QED  BY <2>1, <2>2, <2>3, <2>4, SeenIdle, SameAccounts DEF Atomic!Init
<1>. QED
  BY <1>1, StepRefines, Invariant, ProgressHolds, PTL DEF Spec, ImplementsAtomicSwap, Atomic!Spec
=============================================================================
