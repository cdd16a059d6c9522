------------------------------ MODULE Soroban ------------------------------
(***************************************************************************)
(* The host the contracts run on: the ledger's clock and the token both    *)
(* the pool and the vault keep (a Stellar asset contract).  Neither is     *)
(* under src/; they are modelled from what the contracts use of them:      *)
(* env.ledger().timestamp() and token::Client::transfer.                   *)
(*                                                                         *)
(* A contract call is one transaction: it either runs to its end or        *)
(* returns an error or panics, and then nothing it wrote is kept.  A call  *)
(* is therefore one action, and a failing call is a step that changes      *)
(* nothing, so an action's guard is the condition under which the call     *)
(* succeeds.                                                               *)
(***************************************************************************)
EXTENDS Integers, FiniteSets, Functions

CONSTANTS Users,       \* accounts that sign transactions
          PoolAddr,    \* address of the lending-pool contract
          VaultAddr,   \* address of the collateral-vault contract
          Admins,      \* users that may initialise a contract as its admin
          NoAdmin,
          Endowment,   \* tokens each user starts with
          Amounts,     \* amounts a caller may pass
          Gifts,       \* amounts of the transfers no contract takes part in
          I128Max,     \* largest i128
          MaxTime      \* bound on the clock

VARIABLES now,         \* env.ledger().timestamp()
          token        \* balances of the token

host_vars == <<now, token>>

Addresses == Users \cup {PoolAddr, VaultAddr}

ASSUME HostAssumption ==
    /\ IsFiniteSet(Users)
    /\ PoolAddr \notin Users
    /\ VaultAddr \notin Users
    /\ PoolAddr # VaultAddr
    /\ Admins \subseteq Users
    /\ NoAdmin \notin Users
    /\ Endowment \in [Users -> Nat]
    /\ Amounts \subseteq Int
    /\ Gifts \subseteq Nat
    /\ I128Max \in Nat
    /\ MaxTime \in Nat
    /\ SumFunction(Endowment) <= I128Max  \* the token's supply has its width

----------------------------------------------------------------------------
\* The value fits an i128: the checked_* operations return Some.
Fits(x) == -I128Max - 1 <= x /\ x <= I128Max

\* unwrap_or: the value when the checked operation had one, else the default.
OrElse(x, default) == IF Fits(x) THEN x ELSE default

Abs(x) == IF x < 0 THEN -x ELSE x

\* Division of integers in Rust: the quotient is truncated toward zero.
Quot(a, b) ==
    LET q == Abs(a) \div Abs(b)
    IN  IF (a < 0) = (b < 0) THEN q ELSE -q

\* transfer traps on a negative amount, on a short balance and on overflow.
CanTransfer(from, to, amount) ==
    /\ 0 <= amount
    /\ amount <= token[from]
    /\ Fits(token[to] + amount)

\* The balances bal after a transfer.
Transferred(bal, from, to, amount) ==
    [[bal EXCEPT ![from] = @ - amount] EXCEPT ![to] = @ + amount]

----------------------------------------------------------------------------
HostTypeOK ==
    /\ now \in 0..MaxTime
    /\ token \in [Addresses -> Nat]

HostInit ==
    /\ now = 0
    /\ token = [a \in Addresses |-> IF a \in Users THEN Endowment[a] ELSE 0]

\* A ledger closes and its timestamp is later than the last one's.
Tick ==
    /\ now < MaxTime
    /\ now' = now + 1
    /\ UNCHANGED token

\* A holder moves tokens without calling any contract of the protocol; to the
\* address of the pool or the vault it is a donation neither of them records.
TokenTransfer(from, to, amount) ==
    /\ CanTransfer(from, to, amount)
    /\ token' = Transferred(token, from, to, amount)
    /\ UNCHANGED now
============================================================================
