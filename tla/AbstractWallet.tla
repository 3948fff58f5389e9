--------------------------- MODULE AbstractWallet ---------------------------
(***************************************************************************)
(* What a smart wallet promises: at any time one key controls it; it       *)
(* performs exactly what that key authorised for this place in its         *)
(* history, and so an authorisation at most once; and control passes to    *)
(* another key only as the operation says that was authorised.  An         *)
(* authorisation names no wallet: it holds for every wallet of its key.    *)
(* Nothing is said about signatures or who submits.                        *)
(***************************************************************************)
EXTENDS Naturals, Sequences

CONSTANTS Wallets, Keys, Nobody, Ops

VARIABLES
    controller,   \* the key that controls each wallet, or Nobody
    authorised,   \* <<key, place in a wallet's history, operation>>
    done          \* the operations each wallet has performed, in order

vars == <<controller, authorised, done>>

\* An operation may hand the wallet over to the key it names.
Operations == [op : Ops, next : Keys \cup {Nobody}]

Init ==
    /\ controller = [w \in Wallets |-> Nobody]
    /\ authorised = {}
    /\ done = [w \in Wallets |-> <<>>]

\* A new wallet comes under the control of a key, once and for all.
Create(w) ==
    /\ controller[w] = Nobody
    /\ \E k \in Keys : controller' = [controller EXCEPT ![w] = k]
    /\ UNCHANGED <<authorised, done>>

\* Keys may authorise operations, for any place; nothing is taken back.
Authorise ==
    /\ authorised \subseteq authorised'
    /\ authorised' \subseteq Keys \X Nat \X Operations
    /\ UNCHANGED <<controller, done>>

\* A wallet performs an operation its key authorised for the next place.
Perform(w) ==
    /\ \E op \in Operations :
         /\ <<controller[w], Len(done[w]), op>> \in authorised
         /\ done' = [done EXCEPT ![w] = Append(@, op)]
         /\ controller' = IF op.next = Nobody THEN controller
                          ELSE [controller EXCEPT ![w] = op.next]
    /\ UNCHANGED authorised

Next == Authorise \/ \E w \in Wallets : Create(w) \/ Perform(w)

Spec == Init /\ [][Next]_vars
===========================================================================
