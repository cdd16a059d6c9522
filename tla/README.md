# LumenLend: TLA+ specifications, model checks and proofs

LumenLend is a lending protocol on Stellar: five Soroban contracts, an indexer that follows their
events, and a web application that builds, signs and submits the calls.  This directory holds its
TLA+ models, the TLC configurations that check them and the TLAPS proofs about them.  Every
definition follows the source (`PROJECT.json`, `map`, names the lines); where a document says
something else, a run shows the difference.

## 1. The system

| Component | State it keeps | Operations | Interacts with |
|---|---|---|---|
| lending pool (`contracts/lending-pool`) | admin; per asset `MarketState` (totals, borrow index, last accrual); per user `UserLendingPosition` (shares, principal, index) | `initialize`, `init_market`, `supply`, `withdraw`, `borrow`, `repay`, `liquidation_repay`, views | token transfers; asks the rate model on every accrual; asks the vault's `can_borrow` in `borrow` |
| interest-rate model (`contracts/interest-rate-model`) | the kinked curve, set once | `initialize`, `get_utilization`, `get_borrow_rate`, `get_supply_rate` | called by the pool |
| oracle manager (`contracts/oracle-manager`) | admin, `max_staleness`, the price with its time | `initialize`, `set_price`, `get_price` | called by the vault |
| collateral vault (`contracts/collateral-vault`) | configuration (LTV, threshold), balance per user | `initialize`, `set_liquidation_threshold`, `deposit_collateral`, `withdraw_collateral`, `seize_collateral`, `can_borrow`, `get_health_factor` | token transfers; reads prices from the oracle and the principal from the pool |
| liquidation engine (`contracts/liquidation-engine`) | bonus, close factor | `initialize`, `liquidate`, `is_liquidatable` | reads the vault and the pool, has the pool take the repayment and the vault hand over collateral |
| ledger and token (external) | timestamp, balances | a ledger closes; `transfer` | both the pool and the vault hold the one token |
| indexer: poller and cursor (`apps/indexer/src/listeners`) | cursor in memory and in PostgreSQL, position inside a poll | `pollOnce` and its awaits, `getCursor`, `saveCursor` | RPC node, database, event processor |
| indexer: repository, services, workers, API (`apps/indexer/src/db`, `services`, `api`) | rows of positions, markets and events, each with a copy in memory | read-modify-write of a position, `saveMarket`, `insertEvent`; read handlers; logging timers | database |
| transaction service and contract clients (`packages/stellar`, `packages/contracts-client`) | none between calls | build, simulate, sign, send, wait at most 30 s | RPC node, wallet |
| web providers (`apps/web/providers`) | connected account, market, position, `isLoading`, `transactionStatus` | `connect`, `disconnect`, `refresh`, `checkLiquidatable`, the eight calls through `withWallet` | contract clients, wallet |
| web components (`apps/web/components`) | the text of an input field | validate an amount, fill in a maximum, show a position's health | providers, shared math |
| shared math (`packages/shared`) | none | utilization, rates, health factor, liquidation amounts | providers, indexer |
| scripts (`scripts`) | none | deploy, initialise, first price | contracts |

What makes it hard:

* *Contracts.*  A call is atomic, but calls come in any order from anybody.  The pool keeps its books
  (totals, shares, principals) by the side of the tokens it holds, and interest, donations and
  truncation change the two differently.  A liquidation spans three contracts, each of which takes its
  own view of the amount and of the debt.  All arithmetic truncates; half of it is checked and half of
  it falls back on a default when it overflows.
* *Indexer.*  Every `await` lets ledgers close, requests fail and the process die; the cursor, the
  positions, the market and the feed have two copies each, and a failed write is passed over in silence.
* *Web.*  Waiting gives up while the transaction may still land; refreshes and connections overlap, and
  one status and one loading flag serve all calls.  What is shown and accepted is computed a second
  time, in another language, with other roundings and from copied limits.

## 2. Modules

`A <- B` reads: B extends A.

```
Soroban <- InterestRateModel <- LendingPool          Soroban <- OracleManager
LendingPool, OracleManager <- CollateralVault <- LiquidationEngine <- LumenLend
LumenLend has an instance of ClaimsLedger
LumenLend <- DocumentedClaims                        LumenLend, SharedMath <- MarketView <- WebForms
SharedMath <- IndexerStore                           EventIndexer (by itself)
LendingPool <- MCLendingPool                         LumenLend <- MCLumenLend
DocumentedClaims <- MCDocumentedClaims               WebForms <- MCWebForms
WebClient <- MCWebClient

LendingPool <- LendingPoolProofs                     WebForms, HealthProofs <- WebFormsProofs
LumenLend, LendingPoolProofs <- LumenLendProofs <- BooksProofs <- HealthProofs
EventIndexer <- EventIndexerProofs                   IndexerStore <- IndexerStoreProofs
WebClient <- WebClientProofs
```

* **Soroban** is the host, external to the repository: the clock (`now`), the balances (`token`), the
  width of `i128` (`Fits`: a `checked_*` returns `Some`; `OrElse`: an `unwrap_or`), Rust's truncating
  division (`Quot`).  A transaction that fails leaves nothing behind, so a failed call is a stutter and
  the guard of an action is the condition under which the whole call succeeds, callee by callee.
* **InterestRateModel** has the curve as pure operators, each with an `...OK` companion that is true
  when no checked operation on its path overflows.
* **LendingPool** has `pool_admin`, `market`, `position` (the storage keys of the contract) and one
  action per call.  `Accrued` is `accrue_interest_internal`, `UserDebt` is `calculate_user_debt`.
  `RepayRecords` is `repay_internal` without its transfer, so that `Repay` and a liquidation share it.
  By itself the pool works with any vault: `PoolOnlyNext` takes a vault that approves a debt up to
  `CreditLimit`, as the tests of the pool do with a mock.
* **OracleManager**, **CollateralVault**, **LiquidationEngine** likewise.  `BorrowAgainstCollateral`
  is `borrow` with the vault's real answer; `Liquidate` is the transaction over three contracts.  The
  guards of the calls other modules ask about are operators of their own (`WithdrawOK`, `BorrowOK`,
  `RepayOK`, `WithdrawCollateralOK`, `SeizeOK`, `LiquidateOK`): the availability properties and the forms
  need the condition without the step.
* **LumenLend** composes them.  `Init` is the ledger right after deployment and `DeployedInit` the one
  `scripts/init-testnet.sh` leaves.  `Next` lets users and admins call anything.
* **ClaimsLedger** is the abstract specification of the lending side: claims, what is lent of them, and
  cash.  It has no index, debts, collateral, prices or time.  `LumenLend!Claims` maps shares to claims,
  `total_borrowed` to what is lent and the pool's balance to cash.
* **DocumentedClaims** states what documents and comments say and the code does not do.
* **EventIndexer** has one action per await of `pollOnce` (`poll.at` is the place in the function and
  the record's other fields its local variables), `memoryCursor` and `dbCursor`, and the chain that
  goes on meanwhile.
* **IndexerStore** has the three tables and the three maps in memory, and handlers that run
  `updateSupply`, `updateBorrow`, `updateCollateral`, `saveMarket` and `insertEvent` from await to await.
  A query fails at any time, or always while there are no tables; a restart empties memory and tries the
  schema once.  Nothing keeps two handlers apart: two updates of a position may overlap, and the upserts
  of two saves of the market may reach the table in either order.  `expected`, `lastSave` and the
  `harmed` variables are history: what the updates add up to, whose save was the last, and whether
  something happened that may lose an update.
* **WebClient** has one call of the application per element of `Calls`, each at one of the awaits of
  `withWallet` and the contract client; `Method` says what it calls, hence whether its client reports
  its progress and checks the node's answer.  Beside them are the ledger with the account's sequence
  number, the shared status and loading flag, the refreshes under way, and the wallet: connections
  answer late, fail or overlap, and every change of account starts a refresh, if there is anybody to read
  as: `ViewerAddress` is the account or `ADMIN_ADDRESS`, and without either `refresh` returns at once.
  `ADMIN_ADDRESS` is a variable no step changes, chosen from `AdminAddresses`: one model for every build.
  The default build leaves `ADMIN_ADDRESS` empty (`apps/web/lib/constants.ts:17`), so that there neither
  the opening of a page nor a disconnect reads anything, and `userPosition` keeps what it had.
* **SharedMath** is `packages/shared`, function by function under its own name, at a scale of its own
  (`BPS_DIVISOR`, `TokenUnit`).  Numbers of JavaScript are taken as exact, which they are for basis
  points except for the last digit of a quotient.
* **MarketView** puts that arithmetic beside the contracts': `refresh` is what the provider shows of
  one state of the ledger, with the application's own configuration, and three displays say whether a
  position is liquidatable.  It has no state of its own: the ledger is that of `LumenLend`, a view is a
  function of it, and the interleaving of a refresh with everything else is in `WebClient`.
* **WebForms** adds what the forms accept, what their Max buttons fill in and what the liquidation table
  makes of a borrower it looked up.  Its operators are functions of the view, and its
  properties compare them with what the contracts would do at that moment.  A text is modelled only
  where a number cannot be read back from it (cents, exponents, halves).

Left out of the models: `last_updated`, `reserve_factor_bps`, `decimals` and the emitted events (no
contract reads them), further assets (the deployment opens one market, and collateral and debt are in
the same token), the poller's `stop()` (nothing calls it), the RPC node's retention window, and every
view that repeats a modelled operator.

## 3. Runs

Deadlock is not checked in any run: the clock, the ledgers and the tokens are bounded, so every
execution of a model ends somewhere the program would go on.

| Run | Specification and bounds | What it asks |
|---|---|---|
| `pool` | `LendingPool` alone, two users with 2 and 1 tokens, amounts -1..2, loans approved up to a debt of 2 (interest takes debts beyond), 2 ticks, a curve with both legs in reach, `I128Max` = 600, so that interest overflows when every token is lent for two ticks; 163 thousand states | do the books agree: with the tokens (`Solvency`), with the shares (`SharesAddUp`), with the debts (`LoansBackedByDebts`), does a debt fall only by what is paid (`DebtFallsOnlyByPayment`), and does the index never fall, whatever overflows (`IndexNeverFalls`)? |
| `protocol` | the five contracts from `DeployedInit`, a lender with 2 tokens and a borrower with 3 who may do anything else, two prices, two thresholds, liquidations with a bonus and a 50% close factor; 123 thousand states | custody and the two ways collateral leaves; what a liquidation and a loan do to a position; whether the price cancels out (`PriceCancelsOut`); whether an unhealthy position can be liquidated and a debt repaid (`LiquidationAvailable`, `RepayAvailable`); does it all implement the ledger of claims? |
| `indexer` | 4 ledgers of at most 2 events, 2 faults, a lookback of 1, pages of 2 | what the cursor promises under crashes and failures, and that events are handled in the end |
| `store` | 2 accounts, one of which Postgres knows, 2 handlers, 3 calls, 1 restart, 3 events with room for 2 in memory, the feed asked for 1 to 3, outages at any query; 311 thousand states | is what the API serves what was written: positions, the market's total, the feed, the offer to borrow? |
| `client` | two calls of one account with another writer of the account, 3 sequence numbers, faults at every await, 4 presses of connect or disconnect, `ADMIN_ADDRESS` not set; 419 thousand states | what a status tells about the transaction it belongs to, what a retry may apply twice, what a position on display includes, whether the buttons come back |
| `client_accounts` | one call, two accounts, 3 presses of connect or disconnect, `ADMIN_ADDRESS` not set or one of the accounts; 423 thousand states | whose position a connected account sees (`ShownIsOfTheConnected`), where a disconnect leaves the last one in the provider; does a disconnect clear it where there is an administrator (`NothingShownWithoutAccount`)? |
| `view` | one user with 14 tokens, one tick, two prices, two thresholds, a curve with both legs in reach, a vault whose values are twice as coarse as the application's; from `Init`, so the contracts are initialised in every order while the user calls them; 114 thousand states | are the rates, the health, the offer and the estimate of a seizure those of the contracts, up to the roundings of both sides; do the forms let through what the contracts accept; is anything lent before there is a vault and a price? |
| `claim_*` | smallest instance that shows the difference | one documented statement each, see section 6 |

*Bounds.*  Amounts include 0 and a negative one where the guard matters; two users are enough for every
relation the properties state (a payer and a beneficiary; a sum has two terms), and the proofs of section
4 remove the bound from every safety property.  The curves are chosen so that one unit of time already moves the index;
one tick before, one between and one after a call is the longest separation any property relates
(capitalisation, then a call on the capitalised position), hence `MaxTime`.  `SCALE` and `BPS_SCALE` are
small so that truncation happens at every step instead of at the ninth digit.  `Gifts` are transfers to
the contracts outside any call.  In `indexer`, a page is cut when three events are waiting, an outage
may follow a crash, and four ledgers let the chain advance twice during a poll.  In `store` three calls
are two that overlap and one that starts from what they left, and memory drops an event.  In the
runs of the client three presses are a connection that arrives after a disconnect, one that fails after
another took effect, or two accounts one after the other.  A second account beside the second call
would be too many states for one run; `client` takes the default build only, where fewer refreshes run, and
the proofs of section 4 both.  In `protocol` one price values every amount exactly
and the other, half of it, leaves a remainder.  In `view` the amounts cover an empty, a partly and
a fully lent market, and both prices leave a remainder at both scales.

*Fairness.*  The contracts promise nothing about progress and their specification has none.  For the
indexer, `start` awaits `pollOnce` and schedules the next poll in a `finally`, and every await of a poll
settles, so `PollStep` is weakly fair; strong fairness of `GetEvents` says that the node does not fail
every request for ever, which the code needs and cannot give.  In the client the steps of a call and of a refresh
are weakly fair: requests settle or fail, the wallet's user signs or declines, and `waitForTransaction`
ends by its clock; nothing is assumed of the ledger.  The store's specification has safety properties
only.

*Refinement.*  `ImplementsClaimsLedger` is checked by `protocol` and proved in `BooksProofs`: each step of the five contracts is a
step of `ClaimsLedger` or a stutter.  So no call, a liquidation over three contracts included, moves the
pool's tokens without its totals, redeems more than its owner's claim, or lends what is not there;
`total_borrowed` may pass below zero, as section 6 says, and the abstract ledger allows it.

*Auxiliary conditions.*  Several properties of the client and the store are conditional on history:
`disturbed` (the account changed under something), `outdated` (the last answer shown was of a refresh a newer
one had overtaken), `stale` (the last refresh failed), `harmed` (two updates of one account, a write that
failed over an older row, a restart before a row was stored), `marketHarmed` (the last save's upsert failed
over an older row, or an older save's upsert landed after it), `eventsHarmed` (an insert that failed,
overlapped another or repeated an event, or a restart).  They name what breaks the promise, so
that everything else is shown to keep it; where the code does break it, no property says that it is
harmless, and `hazards` in `PROJECT.json` says so at each line.  `outdated`, `stale` and `marketHarmed` pass:
the next answer or the next upsert in order makes the promise good again.  The properties of the views are conditional on what the provider itself needs: a market whose
total is not negative and whose price is fresh (`MarketReadable`), a position whose debt is not negative
(`PositionReadable`; the shared math throws otherwise) and, where a limit is compared, limits that the
vault and the application's configuration have in common (`LimitsAgree`).  The availabilities name the
products that have to fit (`ValuesFit`, `LiquidationFits`, `LoanFits`, `UserDebtOK`): a call whose product
overflows is refused, and no property claims otherwise.

## 4. Proofs

Every safety property and action property of every passing run is proved, for every number of users,
amounts, prices, curves, scales, widths of the integers, calls, events and faults.  The theorems of the
protocol and of what the application shows hold from both initial states, `Spec` (contracts initialised in any
order) and `DeployedSpec`; those of the indexer for `IndexerSpec` and `FairIndexerSpec`.

**The pool and the protocol** (`LendingPoolProofs`, `LumenLendProofs`).  The lemmas about the pool's
actions do not mention a specification, so the protocol uses them again; a liquidation is the one step in
which two contracts move tokens.

* `PoolTypeInv` strengthens `PoolTypeOK` by the type of the host and by the rule that a stored curve is a
  valid one; without it, the rates need not be numbers.  `TypeInv` adds the other contracts.
* `Solvency` is inductive given the types: each call moves the balance and the totals by the same amount,
  and a donation only adds.  Interest need not be mentioned: a repayment lowers `total_borrowed` by all
  that is paid.
* `IndexNeverFalls` follows from the rate being non-negative, through the sign of each truncated quotient,
  whichever operand of the two `unwrap_or` overflows (in `pool` the product does; the sum can only where
  the product does not, at a growth too slow for two ticks).
* `StoredFits` says that what the model stores fits the width the code's integers have.  In the code the
  type says so; in the model it is a lemma, which the availability of repayments and liquidations needs.
* `NothingLentUnpriced` (for `LendsOnlyWhenPriced`): as long as vault or price is missing, the total is 0
  and no position has a principal.  The total alone is not inductive, since a repayment of a debt nobody
  took would lower it.

**Books** (`BooksProofs`).  Every step is first reduced to a *move* of the books (supply, withdraw, borrow,
repay, donation or nothing); everything else follows from the moves.  `BooksAddUp` gives `SharesAddUp`,
`Conserved` says that the tokens of users, pool and vault add up to the endowment, `VaultCustody` compares
the collateral of all users with the vault's tokens, and `Refinement` maps every move to a step or a
stutter of `ClaimsLedger`.  What is needed about a sum over the users (it is a number, it grows with its
terms, it changes by what one term changes) needs an induction over sets.  The library's induction theorems have an
operator parameter the provers cannot instantiate, so the first section argues about sets instead of
predicates: the least number of a set of naturals (`WFMin`) is the least size at which a claim fails.

**Health and liquidation** (`HealthProofs`).

* Truncated quotients are compared through the products that bound them.  `ShortOfValue` and
  `ShortOfTokens` are that arithmetic for `PriceCancelsOut`; `FreshLoanIsHealthy`, `LiquidationHeals` and
  `CollateralLeavesSafelyOrPaidFor` are one comparison of products each, once the lemmas before them have
  named what the step writes.
* `RepayAvailable` and `LiquidationAvailable` need all of the above at once (`BooksInOrder`): types so that the
  numbers are numbers, `Conserved` and the endowment's width so that balances do not overflow together,
  `Solvency` and `StoredFits` so that the totals do not, `VaultCustody` so that a seizure can be paid out.
* `DebtInv` (positions in order, and `LoansBackedByDebts`) compares debts with the total through the
  index: accrual moves every debt up, by truncation perhaps by nothing, and a call changes one debt and
  the total by the same number.  It gives `LoansBackedByDebts` and `DebtFallsOnlyByPayment`, for the pool
  and for the protocol, for the behaviours whose index stays positive (`[]IndexPositive`).
  That hypothesis is needed.  A repayment takes its interest off `total_borrowed` too (section 6), a
  negative total makes the rate negative, and a long enough time at a negative rate takes the index to zero;
  a debt written at that index is computed as 0 afterwards.  `IndexStaysPositive` shows when the hypothesis
  holds: as long as no more has been repaid than was lent.

**The application's figures** (`WebFormsProofs`).  A view is a function of the state, so the invariants are
those of `BooksInOrder`, with `MarketActive` (no call closes an open market).  The work is in the two
implementations of one quotient: `FineAndCoarse` compares a value at the application's scale with the
same value truncated at the vault's, and the bounds of the properties (one unit of the vault's values, one
basis point, half a cent) are what the truncations of both sides add up to.

**The indexer** (`EventIndexerProofs`, `IndexerStoreProofs`).  What is promised between polls or between calls
is not inductive; the invariants say what holds at every await.

* `IndexerInv`: the log is sorted by ledger; `PollInOrder` says what the local variables of a poll know of
  the log; `NothingPassed` that the events before both cursors, before the page asked for and before the next
  event of a page are handled, unless an answer was cut; `InOrderSoFar` that without a fault what is to
  come is after what was handled.
* `StoreInv`: a position waiting for its read is one event short of the sum, one waiting for its upsert
  has the sum in memory and in the call; the last save under way has the total that is in memory, and
  without one the table has that total or none, unless harmed; the feed in memory is
  the newest part of the table's, with the event being inserted in front.

**The client** (`WebClientProofs`).  `WebInv`: where a call is against its transaction on the ledger
(`CallsInOrder`); of two calls of an account the one with the higher number saw the other land
(`NumbersInOrder`); until the account changes under something, nothing else runs beside a call or a
refresh (`Alone`), and with nothing on its way and no failure the position on display is the
connected account's (`ShownIsTheirs`); an answer on its way
includes all that was reported before, unless its refresh was overtaken (`ReadsInOrder`).

*Assumptions.*  Nothing is taken on trust: the theorems rest on the assumptions the modules state of their
constants, which TLC evaluates for every instance.  Those that are more than a type:

* `HostAssumption`: the endowments add up to no more than `I128Max`, as the token's own supply has that
  width.  `RateAssumption`, `PoolAssumption`: the scales are positive and are themselves `i128`.
* The values for "not stored" (`NoMarket`, `NoPosition`, `NoRow`, ...) are not members of the types they
  stand beside.
* `ViewAssumption`: the price scale is a multiple of the token's unit and basis points are the same on both sides
  (powers of ten in the code), and the application's LTV does not exceed its threshold (75% and 80% in
  `packages/shared`).
* `WebAssumption`: effects refresh too (`Loads` is not empty), and what a build sets `ADMIN_ADDRESS`
  to is an account or nothing.

*Only model-checked.*  `EventuallyHandled` and `NeverLeftLoading`, since liveness under fairness is out of the
prover's reach, and the violations of the `claim_*` runs, each of which is one behaviour.

## 5. Plan

1. Done: the five contracts and their composition, the abstract ledger they implement, the
   availability of liquidations and repayments, the health factor against the exact ratio; the indexer
   and its store; the client with its wallet; the shared math, the views and the forms against the
   contracts.
2. Done: the proofs of all safety and action properties the runs check.  Next: that the pool by itself
   implements the ledger of claims too, and an abstract specification of the poller (a handler that
   takes each event of the log, at least once) with the refinement proved.
3. Models next: events that reach the store through the poller, once the event processor calls the
   updates (`EventIndexer` and `IndexerStore` are written to be composed); a refresh whose reads see
   different ledgers, composed with the forms.

## Not modelled

* Layout, styles, formatting and copy of the pages, and the pages that only arrange components.
* The protocol statistics of the provider and of the API: sums of what is modelled, valued once more.
* The workers: timers that log.  The list of liquidatable positions is always empty, since every update
  of a position writes `is_liquidatable: false` (`position.service.ts:66`, `:83`, `:100`).
* Deploying, generating bindings, containers, the server's configuration.
* The wallet's network, which no call depends on, and `isConnecting`, which only the header's button
  reads.
* The retention window of the RPC node and the fees of transactions.

## 6. Where the code and its documents part

* `total_borrowed` goes below zero: a repayment subtracts interest that was never added
  (`claim_totals`); the shared math throws on such a market and the web application passes it one.
* At low rates nothing accrues: the rate per second is truncated before it is multiplied
  (`claim_accrual`).
* Interest paid stays in the pool and belongs to nobody (`claim_distribution`).
* A compounded debt does not make a position liquidatable, nor does it hold back a withdrawal: the vault
  reads the stored principal (`claim_compounding`).
* Events beyond one page are passed over by the cursor (`claim_indexer`).
* For amounts of a few units two more statements fail by truncation: a price move alone can make a
  position liquidatable, where `AdminRiskPanel.tsx` says it never can (`PriceCancelsOut` bounds by how
  much), and a debt of one unit cannot be liquidated at a 50% close factor (`LiquidationAvailable`
  excludes it).
* In the default build a disconnect leaves the last account's position in the provider until another
  connects: `PositionSummary` hides it, the dialogs go on to judge amounts by it.  No document says
  otherwise, so no run is spent on it; `ShownIsOfTheConnected` speaks of connected accounts only.
* The Max button of the borrow tab divides dollars by the dollar's scale and fills in tokens: with a price
  above one dollar it offers more than can be borrowed, below it less (`MaxIsWithinReach`).  Max of the
  other tabs writes balances below a millionth of a token with an exponent, which the field refuses.
* The API replaces a total of zero by a default of a million as long as only memory has it
  (`MarketServedIsLastSaved`).
* `docs/security/threat-model.md` says that every denominator is
  checked; a debt whose value truncates to zero makes the health factor divide by zero and the call
  panics.  The models take it as the failing call it is (`HealthFactorOK`); no run is spent on it.

`docs/security/threat-model.md` also says that state changes come before external transfers; `supply` and
`repay` transfer first.  In atomic transactions, with a token that calls nobody back, no property can
tell the two apart.
