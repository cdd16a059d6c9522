--------------------------- MODULE OracleManager ---------------------------
(***************************************************************************)
(* contracts/oracle-manager: the admin's price of the market's asset, and  *)
(* the age beyond which it is refused.                                     *)
(***************************************************************************)
EXTENDS Soroban

CONSTANTS Prices,          \* prices set_price may be called with
          Stalenesses,     \* values of max_staleness_seconds, the default too
          NoPrice

VARIABLES oracle_admin,    \* DataKey::Admin
          max_staleness,   \* DataKey::MaxStalenessSeconds
          price            \* DataKey::Price of the asset

oracle_vars == <<oracle_admin, max_staleness, price>>

PriceRecord == [price : Nat \ {0}, timestamp : Nat]

ASSUME OracleAssumption ==
    /\ Prices \subseteq Int
    /\ Stalenesses \subseteq Nat
    /\ Stalenesses # {}
    /\ NoPrice \notin PriceRecord

OracleTypeOK ==
    /\ oracle_admin \in Admins \cup {NoAdmin}
    /\ max_staleness \in Stalenesses
    /\ price \in PriceRecord \cup {NoPrice}

OracleInit ==
    /\ oracle_admin = NoAdmin
    /\ max_staleness = CHOOSE s \in Stalenesses : TRUE
    /\ price = NoPrice

OracleInitialize(admin, staleness) ==
    /\ oracle_admin = NoAdmin
    /\ oracle_admin' = admin
    /\ max_staleness' = staleness
    /\ UNCHANGED <<host_vars, price>>

\* The admin signs the call.
SetPrice(new_price) ==
    /\ oracle_admin # NoAdmin
    /\ new_price > 0
    /\ price' = [price |-> new_price, timestamp |-> now]
    /\ UNCHANGED <<host_vars, oracle_admin, max_staleness>>

----------------------------------------------------------------------------
\* get_price succeeds: there is a price and it is not stale.
get_priceOK ==
    /\ price # NoPrice
    /\ now - price.timestamp <= max_staleness

get_price == price.price
============================================================================
