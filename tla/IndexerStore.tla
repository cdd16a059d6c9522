---------------------------- MODULE IndexerStore ----------------------------
(***************************************************************************)
(* apps/indexer: what the indexer stores and its REST API serves.  Every   *)
(* write goes to a map in memory and then to Postgres, every read prefers  *)
(* Postgres; a query that fails is passed over in silence.  At this commit *)
(* the event processor only logs, so nothing calls the updates yet: here   *)
(* they are called by handlers that run as they are written, one or        *)
(* several at a time.  How events reach a handler is EventIndexer.         *)
(***************************************************************************)
EXTENDS FiniteSets, Sequences, Functions, SharedMath

CONSTANTS Accounts,      \* user addresses
          KnownUsers,    \* those with a row in users, which no code inserts
          Handlers,      \* calls that may be under way at a time
          Deltas,        \* amounts of the events
          Totals,        \* totals a market may be saved with
          SeedTotal,     \* what infra/postgres/init.sql inserts
          DefaultTotal,  \* what market.service serves instead of a total it lacks
          Events,        \* ids of events
          Limits,        \* how many events /activity is asked for
          MemoryLimit,   \* 1000 in the code, length of memoryEvents
          Outages,       \* whether a query may fail
          MaxCalls,      \* bound on the number of calls
          MaxCrashes,    \* bound on the number of crashes
          CollateralPrice, BorrowPrice,  \* the prices position.service has
          MaxLtvBps, ThresholdBps,       \* and its limits
          NoRow

Fields == {"supplied_amount", "borrowed_amount", "collateral_amount"}
Row == [Fields -> Nat]
NoAmounts == [f \in Fields |-> 0]

ASSUME StoreAssumption ==
    /\ KnownUsers \subseteq Accounts
    /\ Deltas \subseteq Nat \ {0} /\ Totals \subseteq Nat
    /\ {SeedTotal, DefaultTotal} \subseteq Nat \ {0}
    /\ MemoryLimit \in Nat \ {0} /\ Limits \subseteq Nat \ {0}
    /\ Outages \in BOOLEAN
    /\ MaxCalls \in Nat /\ MaxCrashes \in Nat
    /\ {CollateralPrice, BorrowPrice, MaxLtvBps, ThresholdBps} \subseteq Nat \ {0}
    /\ NoRow \notin Row /\ NoRow \notin Nat

VARIABLES tables,        \* the schema is in the database
          rows,          \* table positions, one market
          marketRow,     \* table markets, the total of its row
          eventRows,     \* table events, newest first
          memory,        \* memoryPositions
          marketMemory,  \* memoryMarkets
          memoryEvents,  \* memoryEvents, newest first
          call,          \* what each handler is doing
          calls, crashes \* counters for the bounds

database == <<tables, rows, marketRow, eventRows>>
memories == <<memory, marketMemory, memoryEvents>>

\* Auxiliary: what the updates called for add up to, the accounts whose
\* history contained something that may lose an update, whether the history
\* of the market and of the feed did, and the handler of the last save of the
\* market until its upsert has ended.
VARIABLES expected, harmed, marketHarmed, eventsHarmed, lastSave

auxiliary == <<expected, harmed, marketHarmed, eventsHarmed, lastSave>>
store_vars == <<database, memories, call, calls, crashes, auxiliary>>

Idle == [step |-> "idle"]

StoreTypeOK ==
    /\ tables \in BOOLEAN
    /\ rows \in [Accounts -> Row \cup {NoRow}]
    /\ memory \in [Accounts -> Row \cup {NoRow}]
    /\ {marketRow, marketMemory} \subseteq Nat \cup {NoRow}
    /\ {eventRows, memoryEvents} \subseteq Seq(Events)
    /\ Len(memoryEvents) <= MemoryLimit
    /\ lastSave \subseteq Handlers
    /\ \A h \in Handlers : call[h].step \in {"idle", "read", "store", "market", "event"}
    /\ ~tables => marketRow = NoRow /\ eventRows = << >>
                  /\ rows = [a \in Accounts |-> NoRow]

----------------------------------------------------------------------------
MinOf(a, b) == IF a < b THEN a ELSE b

\* The row, and the copy in memory where there is none or the query fails.
RowOr(row, copy, answered) == IF answered /\ row # NoRow THEN row ELSE copy

\* No query is answered without the tables.
Answers == IF ~tables THEN {FALSE} ELSE IF Outages THEN BOOLEAN ELSE {TRUE}

getUserPosition(account, answered) == RowOr(rows[account], memory[account], answered)

AmountsOf(row) == IF row = NoRow THEN NoAmounts ELSE row

\* Mutant of WithDelta: a position starts anew with each event.
WithDeltaOnly(row, field, delta) ==
    [NoAmounts EXCEPT ![field] = IF delta < 0 THEN 0 ELSE delta]

\* One field moves, not below zero; the others are carried over.
WithDelta(row, field, delta) ==
    [row EXCEPT ![field] = IF @ + delta < 0 THEN 0 ELSE @ + delta]

\* Mutants of Remembered: the newest comes last; nothing makes room.
RememberedAll(event) == <<event>> \o memoryEvents
RememberedLast(event) ==
    SubSeq(Append(memoryEvents, event), 1, MinOf(MemoryLimit, Len(memoryEvents) + 1))

\* The newest comes first, and the oldest makes room.
Remembered(event) ==
    SubSeq(<<event>> \o memoryEvents, 1, MinOf(MemoryLimit, Len(memoryEvents) + 1))

\* The foreign keys of positions: a user and a market with a row of their own.
Storable(account) == account \in KnownUsers /\ marketRow # NoRow

UnderWay(account) ==
    {h \in Handlers : call[h].step \in {"read", "store"} /\ call[h].account = account}

\* The copy in memory is not what the table holds.
Behind(account) == rows[account] # NoRow /\ rows[account] # memory[account]

----------------------------------------------------------------------------
\* A process with empty memory over a new database or one that was set up by
\* infra/postgres, which has the market's row.
StoreInit ==
    /\ tables \in BOOLEAN
    /\ rows = [a \in Accounts |-> NoRow]
    /\ marketRow \in IF tables THEN {SeedTotal, NoRow} ELSE {NoRow}
    /\ eventRows = << >>
    /\ memory = [a \in Accounts |-> NoRow]
    /\ marketMemory = NoRow
    /\ memoryEvents = << >>
    /\ call = [h \in Handlers |-> Idle]
    /\ calls = 0
    /\ crashes = 0
    /\ expected = [a \in Accounts |-> NoAmounts]
    /\ harmed = {}
    /\ marketHarmed = FALSE
    /\ eventsHarmed = FALSE
    /\ lastSave = {}

\* updateSupply, updateBorrow, updateCollateral: each adds to its field or
\* takes from it.  Two updates of one account at a time may lose one.
Update(h, account, field, delta) ==
    /\ call[h] = Idle
    /\ calls < MaxCalls
    /\ call' = [call EXCEPT ![h] = [step |-> "read", account |-> account,
                                    field |-> field, delta |-> delta]]
    /\ calls' = calls + 1
    /\ expected' = [expected EXCEPT ![account][field] =
                       IF @ + delta < 0 THEN 0 ELSE @ + delta]
    /\ harmed' = IF UnderWay(account) = {} THEN harmed ELSE harmed \cup {account}
    /\ UNCHANGED <<database, memories, crashes, marketHarmed, eventsHarmed, lastSave>>

\* The answer, or the failure, of the read; the whole new row goes to memory
\* and its upsert to the database.  An answer from memory that is behind the
\* table is a wrong start.
SaveUserPosition(h, answered) ==
    /\ call[h].step = "read"
    /\ LET account == call[h].account
           row     == WithDelta(AmountsOf(getUserPosition(account, answered)),
                                call[h].field, call[h].delta)
       IN  /\ memory' = [memory EXCEPT ![account] = row]
           /\ call' = [call EXCEPT ![h] = [step |-> "store", account |-> account,
                                           row |-> row]]
           /\ harmed' = IF ~answered /\ Behind(account)
                        THEN harmed \cup {account} ELSE harmed
    /\ UNCHANGED <<database, marketMemory, memoryEvents, calls, crashes, expected,
                   marketHarmed, eventsHarmed, lastSave>>

\* The upsert is done, or fails in silence: a row that is there already keeps
\* its old amounts and hides the new ones.
PositionStored(h, answered) ==
    /\ call[h].step = "store"
    /\ LET account == call[h].account
           done    == answered /\ Storable(account)
       IN  /\ rows' = IF done THEN [rows EXCEPT ![account] = call[h].row] ELSE rows
           /\ harmed' = IF ~done /\ rows[account] # NoRow
                        THEN harmed \cup {account} ELSE harmed
    /\ call' = [call EXCEPT ![h] = Idle]
    /\ UNCHANGED <<tables, marketRow, eventRows, memories, calls, crashes, expected,
                   marketHarmed, eventsHarmed, lastSave>>

\* saveMarket, with the total standing for the whole row; then its upsert.  Of
\* two saves at a time either upsert may reach the table first.
SaveMarket(h, total) ==
    /\ call[h] = Idle
    /\ calls < MaxCalls
    /\ marketMemory' = total
    /\ call' = [call EXCEPT ![h] = [step |-> "market", total |-> total]]
    /\ calls' = calls + 1
    /\ lastSave' = {h}
    /\ UNCHANGED <<database, memory, memoryEvents, crashes, expected, harmed,
                   marketHarmed, eventsHarmed>>

\* The upsert is done, or fails in silence.  It leaves an older total in the
\* table if it is late, or if it is the last one's and fails over a row.
MarketStored(h, answered) ==
    /\ call[h].step = "market"
    /\ marketRow' = IF answered THEN call[h].total ELSE marketRow
    /\ marketHarmed' = IF answered THEN h \notin lastSave
                       ELSE marketHarmed \/ (h \in lastSave /\ marketRow # NoRow)
    /\ lastSave' = lastSave \ {h}
    /\ call' = [call EXCEPT ![h] = Idle]
    /\ UNCHANGED <<tables, rows, eventRows, memories, calls, crashes, expected, harmed,
                   eventsHarmed>>

\* insertEvent; the id is the key of the table, which refuses it a second time.
InsertEvent(h, event) ==
    /\ call[h] = Idle
    /\ calls < MaxCalls
    /\ memoryEvents' = Remembered(event)
    /\ call' = [call EXCEPT ![h] = [step |-> "event", event |-> event]]
    /\ calls' = calls + 1
    /\ eventsHarmed' = (eventsHarmed \/ event \in Range(memoryEvents)
                          \/ event \in Range(eventRows)
                          \/ \E other \in Handlers : call[other].step = "event")
    /\ UNCHANGED <<database, memory, marketMemory, crashes, expected, harmed,
                   marketHarmed, lastSave>>

EventStored(h, answered) ==
    /\ call[h].step = "event"
    /\ LET done == answered /\ call[h].event \notin Range(eventRows)
       IN  /\ eventRows' = IF done THEN <<call[h].event>> \o eventRows ELSE eventRows
           /\ eventsHarmed' = (eventsHarmed \/ ~done)
    /\ call' = [call EXCEPT ![h] = Idle]
    /\ UNCHANGED <<tables, rows, marketRow, memories, calls, crashes, expected, harmed,
                   marketHarmed, lastSave>>

\* The process ends between two steps and starts again: memory is gone, and
\* with it whatever the database does not hold.  The schema is created if the
\* database answers now, and not tried again later.
Restart(answered) ==
    /\ crashes < MaxCrashes
    /\ crashes' = crashes + 1
    /\ tables' = (tables \/ answered)
    /\ memory' = [a \in Accounts |-> NoRow]
    /\ marketMemory' = NoRow
    /\ memoryEvents' = << >>
    /\ call' = [h \in Handlers |-> Idle]
    /\ harmed' = harmed \cup {a \in Accounts :
                                \/ UnderWay(a) # {}
                                \/ memory[a] # NoRow /\ memory[a] # rows[a]}
    /\ marketHarmed' = FALSE
    /\ eventsHarmed' = TRUE
    /\ lastSave' = {}
    /\ UNCHANGED <<rows, marketRow, eventRows, calls, expected>>

StoreNext ==
    \/ \E h \in Handlers :
          \/ \E account \in Accounts, field \in Fields, amount \in Deltas :
                \E delta \in {amount, -amount} : Update(h, account, field, delta)
          \/ \E answered \in Answers :
                \/ SaveUserPosition(h, answered)
                \/ PositionStored(h, answered)
                \/ MarketStored(h, answered)
                \/ EventStored(h, answered)
          \/ \E total \in Totals : SaveMarket(h, total)
          \/ \E event \in Events : InsertEvent(h, event)
    \/ \E answered \in BOOLEAN : Restart(answered)

StoreSpec == StoreInit /\ [][StoreNext]_store_vars

----------------------------------------------------------------------------
\* Mutant of MarketServed: a zero in the table counts as missing too.
MarketServedOrDefault(answered) ==
    LET known == RowOr(marketRow, marketMemory, answered)
    IN  IF known \in {NoRow, 0} THEN DefaultTotal ELSE known

\* The total /markets and /stats serve.  A zero is false where it comes from
\* memory, as a number, and true where it comes from the table, as a text.
MarketServed(answered) ==
    IF answered /\ marketRow # NoRow THEN marketRow
    ELSE IF marketMemory \in {NoRow, 0} THEN DefaultTotal ELSE marketMemory

\* What /positions serves of the amounts: valued at two prices written into
\* the service, whatever the market's.
PositionServed(row) ==
    LET collateralValueUsd == tokenAmountToUsd(row["collateral_amount"], CollateralPrice)
        borrowedValueUsd   == tokenAmountToUsd(row["borrowed_amount"], BorrowPrice)
        borrowCapacityUsd  == calculateBorrowCapacity(collateralValueUsd, MaxLtvBps)
    IN  [collateralValueUsd   |-> collateralValueUsd,
         borrowedValueUsd     |-> borrowedValueUsd,
         availableToBorrowUsd |-> IF borrowCapacityUsd > borrowedValueUsd
                                  THEN borrowCapacityUsd - borrowedValueUsd ELSE 0,
         healthFactor         |-> calculateHealthFactor(collateralValueUsd,
                                     borrowedValueUsd, ThresholdBps)]

\* What /activity serves.
getRecentEvents(limit, answered) ==
    LET all == IF answered /\ eventRows # << >> THEN eventRows ELSE memoryEvents
    IN  SubSeq(all, 1, MinOf(limit, Len(all)))
----------------------------------------------------------------------------
\* A position served is the sum of the events its updates were called for,
\* each applied once: through handlers of other accounts in between, failed
\* queries and restarts, users Postgres knows and users it refuses.  It takes
\* one of the harms to break that: two updates of the account at a time, a
\* write that failed over an older row, a read that failed while memory was
\* behind, a restart before the row was stored.
PositionIsSumOfItsEvents ==
    \A account \in Accounts :
        account \notin harmed /\ UnderWay(account) = {} =>
            \A answered \in Answers :
                answered \/ ~Behind(account) =>
                    AmountsOf(getUserPosition(account, answered)) = expected[account]

\* The market served by a process that saved it is the last one saved, from
\* either source, once the upsert of that save has ended and whatever older ones
\* are still on their way: unless it failed over an older row, or the upsert of
\* an older save reached the table after it.  Another save makes it good again.
\* A total of zero is replaced by the default as long as only memory has it.
MarketServedIsLastSaved ==
    /\ marketMemory # NoRow
    /\ ~marketHarmed
    /\ lastSave = {}
    => \A answered \in Answers :
          \/ MarketServed(answered) = marketMemory
          \/ /\ marketMemory = 0
             /\ ~answered \/ marketRow = NoRow
             /\ MarketServed(answered) = DefaultTotal

\* What the API offers to borrow, from any position it may come to serve, does
\* not make that position liquidatable by its own reckoning: capacity and
\* health are rounded in different places, under different limits.
ServedOfferIsHealthy ==
    \A account \in Accounts, answered \in Answers :
        LET p == PositionServed(AmountsOf(getUserPosition(account, answered)))
        IN  MaxLtvBps <= ThresholdBps /\ p.availableToBorrowUsd > 0 =>
              calculateHealthFactor(p.collateralValueUsd,
                                    p.borrowedValueUsd + p.availableToBorrowUsd,
                                    ThresholdBps).status # "liquidatable"

\* The activity feed is the same from the table and from memory, newest first,
\* up to what memory keeps, also when it has dropped what is too old: unless an
\* insert failed, two overlapped, an event came a second time or the process
\* restarted.
FeedSourcesAgree ==
    ~eventsHarmed /\ (\A h \in Handlers : call[h].step # "event") =>
        \A limit \in Limits, answered \in Answers :
            getRecentEvents(limit, FALSE)
              = getRecentEvents(MinOf(limit, MemoryLimit), answered)
============================================================================
