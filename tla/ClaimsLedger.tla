---------------------------- MODULE ClaimsLedger ----------------------------
(***************************************************************************)
(* What the lending side of the protocol promises its suppliers, without   *)
(* market, index, positions' debts, collateral or prices: a ledger of      *)
(* claims, what is lent of them, and the cash.  Whatever is redeemed is    *)
(* taken off its owner's claim, whatever is lent comes out of what is      *)
(* claimed and not lent yet, and no other step takes cash.  The pool and   *)
(* the protocol implement it (ImplementsClaimsLedger in LumenLend.tla).    *)
(***************************************************************************)
EXTENDS Integers, Functions

CONSTANTS Users,
          Moves        \* amounts one step may move

VARIABLES shares,      \* each user's claim
          lent,        \* lent and not paid back; below zero after interest
          cash

ledger_claims == <<shares, lent, cash>>

Unlent == SumFunction(shares) - lent

ClaimsInit ==
    /\ shares = [u \in Users |-> 0]
    /\ lent = 0
    /\ cash = 0

Deposit(user, amount) ==
    /\ cash' = cash + amount
    /\ shares' = [shares EXCEPT ![user] = @ + amount]
    /\ UNCHANGED lent

Redeem(user, amount) ==
    /\ cash' = cash - amount
    /\ amount <= shares[user]
    /\ amount <= Unlent
    /\ shares' = [shares EXCEPT ![user] = @ - amount]
    /\ UNCHANGED lent

Lend(amount) ==
    /\ cash' = cash - amount
    /\ amount <= Unlent
    /\ lent' = lent + amount
    /\ UNCHANGED shares

PayBack(amount) ==
    /\ cash' = cash + amount
    /\ lent' = lent - amount
    /\ UNCHANGED shares

Donate(amount) ==
    /\ cash' = cash + amount
    /\ UNCHANGED <<shares, lent>>

ClaimsNext ==
    \E amount \in Moves :
        \/ \E user \in Users : Deposit(user, amount) \/ Redeem(user, amount)
        \/ Lend(amount)
        \/ PayBack(amount)
        \/ Donate(amount)

ClaimsSpec == ClaimsInit /\ [][ClaimsNext]_ledger_claims
============================================================================
