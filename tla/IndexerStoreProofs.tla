------------------------- MODULE IndexerStoreProofs -------------------------
(***************************************************************************)
(* What the indexer stores and serves.  None of the served properties is   *)
(* inductive: each says what is true between calls.  The invariants below  *)
(* add what is true while one is under way: a position waiting for its     *)
(* read is its event short of the sum, one waiting for its upsert has it   *)
(* in memory and in the call; the last save of the market is the one in    *)
(* memory, whatever older saves are still on their way to the table; the   *)
(* feed in memory is the newest of the table's with the event that is      *)
(* being inserted in front.                                                *)
(***************************************************************************)
EXTENDS IndexerStore, TLAPS

\* What a handler may be doing.
Calls ==
    {Idle}
      \cup [step : {"read"}, account : Accounts, field : Fields, delta : Int]
      \cup [step : {"store"}, account : Accounts, row : Row]
      \cup [step : {"market"}, total : Nat]
      \cup [step : {"event"}, event : Events]

TypesInOrder ==
    /\ StoreTypeOK
    /\ call \in [Handlers -> Calls]
    /\ expected \in [Accounts -> Row]
    /\ harmed \subseteq Accounts
    /\ {marketHarmed, eventsHarmed} \subseteq BOOLEAN

\* What the next update of an account starts from.
Held(account) ==
    IF rows[account] # NoRow THEN rows[account] ELSE AmountsOf(memory[account])

PositionInOrder(account) ==
    /\ \A h, g \in UnderWay(account) : h = g
    /\ UnderWay(account) = {} => Held(account) = expected[account]
    /\ \A h \in UnderWay(account) :
          /\ call[h].step = "read" =>
                WithDelta(Held(account), call[h].field, call[h].delta) = expected[account]
          /\ call[h].step = "store" =>
                call[h].row = expected[account] /\ memory[account] = expected[account]

PositionsInOrder == \A account \in Accounts \ harmed : PositionInOrder(account)

Saving == {h \in Handlers : call[h].step = "market"}

MarketInOrder ==
    /\ lastSave \subseteq Saving
    /\ \A h \in lastSave : call[h].total = marketMemory
    /\ (lastSave = {} /\ ~marketHarmed /\ marketMemory # NoRow)
          => marketRow \in {NoRow, marketMemory}

Inserting == {h \in Handlers : call[h].step = "event"}

\* What memory keeps of a feed.
Newest(feed) == SubSeq(feed, 1, MinOf(MemoryLimit, Len(feed)))

FeedInOrder ==
    /\ \A h, g \in Inserting : h = g
    /\ Inserting = {} => memoryEvents = Newest(eventRows)
    /\ \A h \in Inserting :
          /\ call[h].event \notin Range(eventRows)
          /\ memoryEvents = Newest(<<call[h].event>> \o eventRows)

StoreInv ==
    /\ TypesInOrder
    /\ PositionsInOrder
    /\ MarketInOrder
    /\ eventsHarmed \/ FeedInOrder

----------------------------------------------------------------------------
(* The calls and the rows.                                                  *)

\* What the step of a call says of its other fields.
LEMMA CallFields ==
    ASSUME TypesInOrder, NEW h \in Handlers
    PROVE  /\ call[h].step = "read" =>
                 /\ call[h].account \in Accounts
                 /\ call[h].field \in Fields
                 /\ call[h].delta \in Int
           /\ call[h].step = "store" => call[h].account \in Accounts /\ call[h].row \in Row
           /\ call[h].step = "market" => call[h].total \in Nat
           /\ call[h].step = "event" => call[h].event \in Events
           /\ call[h] = Idle => call[h].step = "idle"
           /\ call[h].step \in {"idle", "read", "store", "market", "event"}
<1>1. call[h] \in Calls
  BY DEF TypesInOrder
<1> QED
  BY <1>1 DEF Calls, Idle

\* A row with one field moved is a row.
LEMMA WithDeltaRow ==
    ASSUME NEW row \in Row, NEW field \in Fields, NEW delta \in Int
    PROVE  WithDelta(row, field, delta) \in Row
<1>1. row[field] \in Nat
  BY DEF Row
<1>2. (IF row[field] + delta < 0 THEN 0 ELSE row[field] + delta) \in Nat
  BY <1>1
<1> QED
  BY <1>2 DEF WithDelta, Row

LEMMA NoAmountsRow == NoAmounts \in Row
BY DEF NoAmounts, Row

\* What is served is a row of amounts.
LEMMA ServedRow ==
    ASSUME TypesInOrder, NEW account \in Accounts, NEW answered \in BOOLEAN
    PROVE  /\ AmountsOf(getUserPosition(account, answered)) \in Row
           /\ Held(account) \in Row
           /\ answered \/ ~Behind(account) =>
                 AmountsOf(getUserPosition(account, answered)) = Held(account)
<1>1. rows[account] \in Row \cup {NoRow} /\ memory[account] \in Row \cup {NoRow}
  BY DEF TypesInOrder, StoreTypeOK
<1> QED
  BY <1>1, NoAmountsRow, StoreAssumption
     DEF AmountsOf, getUserPosition, RowOr, Held, Behind

LEMMA AnswersBoolean == Answers \subseteq BOOLEAN
BY DEF Answers

----------------------------------------------------------------------------
(* Types.                                                                   *)

LEMMA InitTypes == StoreInit => TypesInOrder
<1> SUFFICES ASSUME StoreInit PROVE TypesInOrder
  OBVIOUS
<1>1. {marketRow, marketMemory} \subseteq Nat \cup {NoRow}
  BY StoreAssumption DEF StoreInit
<1>2. {eventRows, memoryEvents} \subseteq Seq(Events) /\ Len(memoryEvents) <= MemoryLimit
  BY StoreAssumption DEF StoreInit
<1>3. call \in [Handlers -> Calls]
  BY DEF StoreInit, Calls
<1>4. expected \in [Accounts -> Row]
  BY NoAmountsRow DEF StoreInit
<1>5. \A h \in Handlers : call[h].step \in {"idle", "read", "store", "market", "event"}
  BY DEF StoreInit, Idle
<1>6. rows \in [Accounts -> Row \cup {NoRow}] /\ memory \in [Accounts -> Row \cup {NoRow}]
  BY DEF StoreInit
<1> QED
  BY <1>1, <1>2, <1>3, <1>4, <1>5, <1>6 DEF StoreInit, TypesInOrder, StoreTypeOK

\* Whatever a handler does next, its call is a call.
LEMMA CallChange ==
    ASSUME TypesInOrder, NEW h \in Handlers, NEW c \in Calls,
           call' = [call EXCEPT ![h] = c]
    PROVE  /\ call' \in [Handlers -> Calls]
           /\ \A g \in Handlers :
                 call'[g].step \in {"idle", "read", "store", "market", "event"}
           /\ call'[h] = c
           /\ \A g \in Handlers \ {h} : call'[g] = call[g]
<1>1. call' \in [Handlers -> Calls]
  BY DEF TypesInOrder
<1>2. \A g \in Handlers : call'[g] \in Calls
  BY <1>1
<1>3. \A d \in Calls : d.step \in {"idle", "read", "store", "market", "event"}
  BY DEF Calls, Idle
<1> QED
  BY <1>1, <1>2, <1>3 DEF TypesInOrder

LEMMA UpdateTypes ==
    ASSUME TypesInOrder, NEW h \in Handlers, NEW account \in Accounts,
           NEW field \in Fields, NEW delta \in Int, Update(h, account, field, delta)
    PROVE  TypesInOrder'
<1> DEFINE c == [step |-> "read", account |-> account, field |-> field, delta |-> delta]
<1>1. c \in Calls
  BY DEF Calls
<1>2. call' = [call EXCEPT ![h] = c]
  BY DEF Update
<1>3. expected' = [expected EXCEPT ![account] = WithDelta(expected[account], field, delta)]
  BY DEF Update, WithDelta, TypesInOrder
<1>4. expected' \in [Accounts -> Row]
  BY <1>3, WithDeltaRow DEF TypesInOrder
<1>5. harmed' \subseteq Accounts
  BY DEF Update, TypesInOrder
<1> HIDE DEF c
<1>6. /\ call' \in [Handlers -> Calls]
      /\ \A g \in Handlers : call'[g].step \in {"idle", "read", "store", "market", "event"}
  BY <1>1, <1>2, CallChange
<1>7. UNCHANGED <<database, memories, marketHarmed, eventsHarmed, lastSave>>
  BY DEF Update
<1> QED
  BY <1>4, <1>5, <1>6, <1>7 DEF TypesInOrder, StoreTypeOK, database, memories

LEMMA SaveTypes ==
    ASSUME TypesInOrder, NEW h \in Handlers, NEW answered \in BOOLEAN,
           SaveUserPosition(h, answered)
    PROVE  TypesInOrder'
<1> DEFINE account == call[h].account
           row == WithDelta(AmountsOf(getUserPosition(account, answered)),
                            call[h].field, call[h].delta)
           c == [step |-> "store", account |-> account, row |-> row]
<1>1. account \in Accounts /\ row \in Row
  BY CallFields, ServedRow, WithDeltaRow DEF SaveUserPosition
<1>2. /\ call' = [call EXCEPT ![h] = c]
      /\ memory' = [memory EXCEPT ![account] = row]
      /\ harmed' \in {harmed, harmed \cup {account}}
  BY DEF SaveUserPosition
<1>3. UNCHANGED <<database, marketMemory, memoryEvents, expected, marketHarmed, eventsHarmed,
                  lastSave>>
  BY DEF SaveUserPosition
<1> HIDE DEF account, row
<1>4. c \in Calls
  BY <1>1 DEF Calls
<1> HIDE DEF c
<1>5. /\ call' \in [Handlers -> Calls]
      /\ \A g \in Handlers : call'[g].step \in {"idle", "read", "store", "market", "event"}
  BY <1>2, <1>4, CallChange
<1>6. memory' \in [Accounts -> Row \cup {NoRow}]
  BY <1>1, <1>2 DEF TypesInOrder, StoreTypeOK
<1>7. harmed' \subseteq Accounts
  BY <1>1, <1>2 DEF TypesInOrder
<1> QED
  BY <1>3, <1>5, <1>6, <1>7 DEF TypesInOrder, StoreTypeOK, database

\* What is left of an answered call: the tables are there.
LEMMA AnsweredWithTables ==
    ASSUME TypesInOrder, NEW answered \in Answers
    PROVE  answered \in BOOLEAN /\ (answered => tables)
BY DEF Answers, TypesInOrder, StoreTypeOK

LEMMA IdleCall == Idle \in Calls
BY DEF Calls

LEMMA PositionStoredTypes ==
    ASSUME TypesInOrder, NEW h \in Handlers, NEW answered \in Answers,
           PositionStored(h, answered)
    PROVE  TypesInOrder'
<1>1. call[h].account \in Accounts /\ call[h].row \in Row
  BY CallFields DEF PositionStored
<1>2. /\ call' = [call EXCEPT ![h] = Idle]
      /\ rows' \in {rows, [rows EXCEPT ![call[h].account] = call[h].row]}
      /\ harmed' \in {harmed, harmed \cup {call[h].account}}
      /\ rows' # rows => tables
  BY AnsweredWithTables DEF PositionStored
<1>3. UNCHANGED <<tables, marketRow, eventRows, memories, expected, marketHarmed, eventsHarmed,
                  lastSave>>
  BY DEF PositionStored
<1>5. /\ call' \in [Handlers -> Calls]
      /\ \A g \in Handlers : call'[g].step \in {"idle", "read", "store", "market", "event"}
  BY <1>2, IdleCall, CallChange
<1>6. rows' \in [Accounts -> Row \cup {NoRow}]
  BY <1>1, <1>2 DEF TypesInOrder, StoreTypeOK
<1>7. harmed' \subseteq Accounts
  BY <1>1, <1>2 DEF TypesInOrder
<1> QED
  BY <1>2, <1>3, <1>5, <1>6, <1>7 DEF TypesInOrder, StoreTypeOK, memories

LEMMA SaveMarketTypes ==
    ASSUME TypesInOrder, NEW h \in Handlers, NEW total \in Totals, SaveMarket(h, total)
    PROVE  TypesInOrder'
<1> DEFINE c == [step |-> "market", total |-> total]
<1>1. c \in Calls /\ total \in Nat
  BY StoreAssumption DEF Calls
<1>2. call' = [call EXCEPT ![h] = c] /\ marketMemory' = total
  BY DEF SaveMarket
<1>3. /\ UNCHANGED <<database, memory, memoryEvents, expected, harmed, marketHarmed,
                     eventsHarmed>>
      /\ lastSave' = {h}
  BY DEF SaveMarket
<1> HIDE DEF c
<1>5. /\ call' \in [Handlers -> Calls]
      /\ \A g \in Handlers : call'[g].step \in {"idle", "read", "store", "market", "event"}
  BY <1>1, <1>2, CallChange
<1> QED
  BY <1>1, <1>2, <1>3, <1>5 DEF TypesInOrder, StoreTypeOK, database

LEMMA MarketStoredTypes ==
    ASSUME TypesInOrder, NEW h \in Handlers, NEW answered \in Answers,
           MarketStored(h, answered)
    PROVE  TypesInOrder'
<1>1. call[h].total \in Nat
  BY CallFields DEF MarketStored
<1>2. /\ call' = [call EXCEPT ![h] = Idle]
      /\ marketRow' \in {marketRow, call[h].total}
      /\ marketRow' # marketRow => tables
      /\ marketHarmed' \in BOOLEAN
  BY AnsweredWithTables DEF MarketStored
<1>4. lastSave' \subseteq Handlers
  BY DEF MarketStored, TypesInOrder, StoreTypeOK
<1>3. UNCHANGED <<tables, rows, eventRows, memories, expected, harmed, eventsHarmed>>
  BY DEF MarketStored
<1>5. /\ call' \in [Handlers -> Calls]
      /\ \A g \in Handlers : call'[g].step \in {"idle", "read", "store", "market", "event"}
  BY <1>2, IdleCall, CallChange
<1> QED
  BY <1>1, <1>2, <1>3, <1>4, <1>5 DEF TypesInOrder, StoreTypeOK, memories

----------------------------------------------------------------------------
(* Feeds.                                                                   *)

LEMMA NewestFacts ==
    ASSUME NEW S, NEW feed \in Seq(S)
    PROVE  /\ Newest(feed) \in Seq(S)
           /\ Len(Newest(feed)) = MinOf(MemoryLimit, Len(feed))
           /\ \A i \in 1..Len(Newest(feed)) : Newest(feed)[i] = feed[i]
<1>1. MinOf(MemoryLimit, Len(feed)) \in 0..Len(feed)
  BY StoreAssumption DEF MinOf
<1> QED
  BY <1>1 DEF Newest

LEMMA Fronted ==
    ASSUME NEW S, NEW feed \in Seq(S), NEW event \in S
    PROVE  /\ <<event>> \o feed \in Seq(S)
           /\ Len(<<event>> \o feed) = Len(feed) + 1
           /\ (<<event>> \o feed)[1] = event
           /\ \A i \in 2..(Len(feed) + 1) : (<<event>> \o feed)[i] = feed[i - 1]
OBVIOUS

\* Two feeds are one if they have as many events and the same at each place.
LEMMA SameFeed ==
    ASSUME NEW S, NEW feed \in Seq(S), NEW other \in Seq(S), Len(feed) = Len(other),
           \A i \in 1..Len(feed) : feed[i] = other[i]
    PROVE  feed = other
OBVIOUS

\* An event in front of the newest is the newest of the event in front.
LEMMA NewestOfFronted ==
    ASSUME NEW S, NEW feed \in Seq(S), NEW event \in S
    PROVE  Newest(<<event>> \o Newest(feed)) = Newest(<<event>> \o feed)
<1> DEFINE short == <<event>> \o Newest(feed)
           long  == <<event>> \o feed
<1>1. /\ Newest(feed) \in Seq(S)
      /\ Len(Newest(feed)) = MinOf(MemoryLimit, Len(feed))
      /\ \A i \in 1..Len(Newest(feed)) : Newest(feed)[i] = feed[i]
  BY NewestFacts
<1>2. /\ short \in Seq(S) /\ long \in Seq(S)
      /\ Len(short) = MinOf(MemoryLimit, Len(feed)) + 1
      /\ Len(long) = Len(feed) + 1
      /\ short[1] = event /\ long[1] = event
  BY <1>1, Fronted
<1>3. \A i \in 2..Len(short) : short[i] = long[i]
  <2> SUFFICES ASSUME NEW i \in 2..Len(short) PROVE short[i] = long[i]
    OBVIOUS
  <2>1. i - 1 \in 1..Len(Newest(feed)) /\ i \in 2..(Len(feed) + 1)
    BY <1>1, <1>2, StoreAssumption DEF MinOf
  <2>2. short[i] = Newest(feed)[i - 1] /\ long[i] = feed[i - 1]
    BY <1>1, <1>2, <2>1, Fronted
  <2> QED
    BY <1>1, <2>1, <2>2
<1> HIDE DEF short, long
<1>4. \A i \in 1..Len(short) : short[i] = long[i]
  BY <1>2, <1>3
<1>5. /\ Newest(short) \in Seq(S) /\ Newest(long) \in Seq(S)
      /\ Len(Newest(short)) = MinOf(MemoryLimit, Len(short))
      /\ Len(Newest(long)) = MinOf(MemoryLimit, Len(long))
      /\ \A i \in 1..Len(Newest(short)) : Newest(short)[i] = short[i]
      /\ \A i \in 1..Len(Newest(long)) : Newest(long)[i] = long[i]
  BY <1>2, NewestFacts
<1>6. Len(Newest(short)) = Len(Newest(long)) /\ Len(Newest(short)) <= Len(short)
  BY <1>2, <1>5, StoreAssumption DEF MinOf
<1>7. \A i \in 1..Len(Newest(short)) : Newest(short)[i] = Newest(long)[i]
  BY <1>2, <1>4, <1>5, <1>6
<1>8. Newest(short) = Newest(long)
  BY <1>5, <1>6, <1>7, SameFeed
<1> QED
  BY <1>8 DEF short, long

\* What memory keeps after an insert.
LEMMA RememberedNewest ==
    ASSUME TypesInOrder, NEW event \in Events
    PROVE  /\ Remembered(event) = Newest(<<event>> \o memoryEvents)
           /\ Remembered(event) \in Seq(Events)
           /\ Len(Remembered(event)) <= MemoryLimit
<1>1. memoryEvents \in Seq(Events)
  BY DEF TypesInOrder, StoreTypeOK
<1>2. <<event>> \o memoryEvents \in Seq(Events)
      /\ Len(<<event>> \o memoryEvents) = Len(memoryEvents) + 1
  BY <1>1, Fronted
<1>3. Remembered(event) = Newest(<<event>> \o memoryEvents)
  BY <1>2 DEF Remembered, Newest
<1>4. /\ Newest(<<event>> \o memoryEvents) \in Seq(Events)
      /\ Len(Newest(<<event>> \o memoryEvents)) = MinOf(MemoryLimit, Len(memoryEvents) + 1)
  BY <1>2, NewestFacts
<1> QED
  BY <1>1, <1>3, <1>4, StoreAssumption DEF MinOf

----------------------------------------------------------------------------
LEMMA InsertEventTypes ==
    ASSUME TypesInOrder, NEW h \in Handlers, NEW event \in Events, InsertEvent(h, event)
    PROVE  TypesInOrder'
<1> DEFINE c == [step |-> "event", event |-> event]
<1>1. c \in Calls
  BY DEF Calls
<1>2. call' = [call EXCEPT ![h] = c] /\ memoryEvents' = Remembered(event)
  BY DEF InsertEvent
<1>3. eventsHarmed' \in BOOLEAN
  BY DEF InsertEvent
<1>4. UNCHANGED <<database, memory, marketMemory, expected, harmed, marketHarmed, lastSave>>
  BY DEF InsertEvent
<1> HIDE DEF c
<1>5. /\ call' \in [Handlers -> Calls]
      /\ \A g \in Handlers : call'[g].step \in {"idle", "read", "store", "market", "event"}
  BY <1>1, <1>2, CallChange
<1>6. memoryEvents' \in Seq(Events) /\ Len(memoryEvents') <= MemoryLimit
  BY <1>2, RememberedNewest
<1> QED
  BY <1>3, <1>4, <1>5, <1>6 DEF TypesInOrder, StoreTypeOK, database

LEMMA EventStoredTypes ==
    ASSUME TypesInOrder, NEW h \in Handlers, NEW answered \in Answers,
           EventStored(h, answered)
    PROVE  TypesInOrder'
<1>1. call[h].event \in Events
  BY CallFields DEF EventStored
<1>2. /\ call' = [call EXCEPT ![h] = Idle]
      /\ eventRows' \in {eventRows, <<call[h].event>> \o eventRows}
      /\ eventRows' # eventRows => tables
  BY AnsweredWithTables DEF EventStored
<1>3. eventsHarmed' \in BOOLEAN
  BY DEF EventStored
<1>4. UNCHANGED <<tables, rows, marketRow, memories, expected, harmed, marketHarmed, lastSave>>
  BY DEF EventStored
<1>5. /\ call' \in [Handlers -> Calls]
      /\ \A g \in Handlers : call'[g].step \in {"idle", "read", "store", "market", "event"}
  BY <1>2, IdleCall, CallChange
<1>6. eventRows' \in Seq(Events)
  <2>1. eventRows \in Seq(Events)
    BY DEF TypesInOrder, StoreTypeOK
  <2>2. <<call[h].event>> \o eventRows \in Seq(Events)
    BY <1>1, <2>1, Fronted
  <2> QED
    BY <1>2, <2>1, <2>2
<1> QED
  BY <1>2, <1>3, <1>4, <1>5, <1>6 DEF TypesInOrder, StoreTypeOK, memories

LEMMA RestartTypes ==
    ASSUME TypesInOrder, NEW answered \in BOOLEAN, Restart(answered)
    PROVE  TypesInOrder'
<1>1. /\ tables' \in BOOLEAN /\ (tables => tables')
      /\ marketMemory' = NoRow /\ lastSave' = {}
      /\ marketHarmed' \in BOOLEAN /\ eventsHarmed' \in BOOLEAN
  BY DEF Restart, TypesInOrder, StoreTypeOK
<1>5. memory' \in [Accounts -> Row \cup {NoRow}] /\ call' \in [Handlers -> Calls]
  BY IdleCall DEF Restart
<1>6. memoryEvents' \in Seq(Events) /\ Len(memoryEvents') <= MemoryLimit
  BY StoreAssumption DEF Restart
<1>2. \A h \in Handlers : call'[h].step = "idle"
  BY DEF Restart, Idle
<1>3. harmed' \subseteq Accounts
  BY DEF Restart, TypesInOrder
<1>4. UNCHANGED <<rows, marketRow, eventRows, expected>>
  BY DEF Restart
<1> QED
  BY <1>1, <1>2, <1>3, <1>4, <1>5, <1>6 DEF TypesInOrder, StoreTypeOK

----------------------------------------------------------------------------
(* Positions.                                                               *)

\* A call about a position of the account.
About(c, account) == c.step \in {"read", "store"} /\ c.account = account

\* Nothing that PositionInOrder speaks of changes.
PositionUntouched(account) ==
    /\ rows'[account] = rows[account]
    /\ memory'[account] = memory[account]
    /\ expected'[account] = expected[account]
    /\ UnderWay(account)' = UnderWay(account)
    /\ \A h \in UnderWay(account) : call'[h] = call[h]
    /\ harmed \subseteq harmed'

LEMMA PositionKept ==
    ASSUME PositionsInOrder, NEW account \in Accounts \ harmed', PositionUntouched(account)
    PROVE  PositionInOrder(account)'
<1>1. PositionInOrder(account)
  BY DEF PositionsInOrder, PositionUntouched
<1>2. Held(account)' = Held(account)
  BY DEF Held, AmountsOf, PositionUntouched
<1> QED
  BY <1>1, <1>2 DEF PositionInOrder, PositionUntouched

\* A handler that turns from one thing to another leaves the accounts alone
\* that neither is about.
LEMMA CallElsewhere ==
    ASSUME TypesInOrder, NEW h \in Handlers, NEW c \in Calls,
           call' = [call EXCEPT ![h] = c],
           NEW account \in Accounts, ~About(call[h], account), ~About(c, account)
    PROVE  /\ UnderWay(account)' = UnderWay(account)
           /\ \A g \in UnderWay(account) : call'[g] = call[g]
<1>1. call'[h] = c /\ \A g \in Handlers \ {h} : call'[g] = call[g]
  BY CallChange
<1>2. h \notin UnderWay(account) /\ h \notin UnderWay(account)'
  BY <1>1 DEF UnderWay, About
<1>3. \A g \in Handlers : g \in UnderWay(account)' <=> g \in UnderWay(account)
  BY <1>1, <1>2 DEF UnderWay
<1>4. UnderWay(account)' = UnderWay(account)
  BY <1>3 DEF UnderWay
<1> QED
  BY <1>1, <1>2, <1>4 DEF UnderWay

\* A handler takes up the account, or goes on with it, and is alone with it.
LEMMA CallHere ==
    ASSUME TypesInOrder, NEW h \in Handlers, NEW c \in Calls,
           call' = [call EXCEPT ![h] = c],
           NEW account \in Accounts, UnderWay(account) \subseteq {h}
    PROVE  UnderWay(account)' = IF About(c, account) THEN {h} ELSE {}
<1>1. call'[h] = c /\ \A g \in Handlers \ {h} : call'[g] = call[g]
  BY CallChange
<1> QED
  BY <1>1 DEF UnderWay, About

LEMMA UpdatePositions ==
    ASSUME TypesInOrder, PositionsInOrder, NEW h \in Handlers, NEW account \in Accounts,
           NEW field \in Fields, NEW delta \in Int, Update(h, account, field, delta)
    PROVE  PositionsInOrder'
<1> DEFINE c == [step |-> "read", account |-> account, field |-> field, delta |-> delta]
<1>1. /\ c \in Calls /\ c.step = "read" /\ c.account = account
      /\ c.field = field /\ c.delta = delta
  BY DEF Calls
<1>2. call' = [call EXCEPT ![h] = c] /\ UNCHANGED <<rows, memory>> /\ call[h] = Idle
  BY DEF Update, database, memories
<1>3. expected' = [expected EXCEPT ![account] = WithDelta(expected[account], field, delta)]
  BY DEF Update, WithDelta, TypesInOrder
<1>4. harmed' = IF UnderWay(account) = {} THEN harmed ELSE harmed \cup {account}
  BY DEF Update
<1> HIDE DEF c
<1>5. ~About(call[h], account)
  BY <1>2 DEF About, Idle
<1>6. ASSUME NEW b \in Accounts \ harmed' PROVE PositionInOrder(b)'
  <2>1. CASE b # account
    <3>1. ~About(call[h], b) /\ ~About(c, b)
      BY <1>1, <1>2, <2>1 DEF About, Idle
    <3>2. PositionUntouched(b)
      BY <1>1, <1>2, <1>3, <1>4, <2>1, <3>1, CallElsewhere
         DEF PositionUntouched, TypesInOrder
    <3> QED
      BY <1>6, <3>2, PositionKept
  <2>2. CASE b = account
    <3>1. UnderWay(account) = {} /\ account \notin harmed
      BY <1>4, <1>6, <2>2
    <3>2. Held(account) = expected[account]
      BY <3>1 DEF PositionsInOrder, PositionInOrder
    <3>3. UnderWay(account)' = {h} /\ call'[h] = c
      BY <1>1, <1>2, <3>1, CallHere, CallChange DEF About
    <3>4. Held(account)' = Held(account)
      BY <1>2 DEF Held, AmountsOf
    <3>5. expected'[account] = WithDelta(expected[account], field, delta)
      BY <1>3 DEF TypesInOrder
    <3> QED
      BY <1>1, <2>2, <3>2, <3>3, <3>4, <3>5 DEF PositionInOrder
  <2> QED
    BY <2>1, <2>2
<1> QED
  BY <1>6 DEF PositionsInOrder

LEMMA SavePositions ==
    ASSUME TypesInOrder, PositionsInOrder, NEW h \in Handlers, NEW answered \in BOOLEAN,
           SaveUserPosition(h, answered)
    PROVE  PositionsInOrder'
<1> DEFINE account == call[h].account
           row == WithDelta(AmountsOf(getUserPosition(account, answered)),
                            call[h].field, call[h].delta)
           c == [step |-> "store", account |-> account, row |-> row]
<1>1. account \in Accounts /\ row \in Row
  BY CallFields, ServedRow, WithDeltaRow DEF SaveUserPosition
<1>2. /\ call[h].step = "read"
      /\ call' = [call EXCEPT ![h] = c]
      /\ memory' = [memory EXCEPT ![account] = row]
      /\ harmed' = IF ~answered /\ Behind(account) THEN harmed \cup {account} ELSE harmed
      /\ UNCHANGED <<rows, expected>>
  BY DEF SaveUserPosition, database
<1>3. c \in Calls /\ c.step = "store" /\ c.account = account /\ c.row = row
  BY <1>1 DEF Calls
<1>4. ASSUME NEW b \in Accounts \ harmed' PROVE PositionInOrder(b)'
  <2>1. CASE b # account
    <3> HIDE DEF c, row
    <3>1. ~About(call[h], b) /\ ~About(c, b)
      BY <1>3, <2>1 DEF About
    <3>2. PositionUntouched(b)
      BY <1>1, <1>2, <1>3, <2>1, <3>1, CallElsewhere
         DEF PositionUntouched, TypesInOrder, StoreTypeOK
    <3> QED
      BY <1>4, <3>2, PositionKept
  <2>2. CASE b = account
    <3>1. account \notin harmed /\ (answered \/ ~Behind(account))
      BY <1>2, <1>4, <2>2
    <3>2. h \in UnderWay(account)
      BY <1>2 DEF UnderWay
    <3>3. UnderWay(account) = {h}
      BY <1>1, <3>1, <3>2 DEF PositionsInOrder, PositionInOrder
    <3>4. AmountsOf(getUserPosition(account, answered)) = Held(account)
      BY <1>1, <3>1, ServedRow
    <3>5. row = expected[account]
      BY <1>1, <1>2, <3>1, <3>2, <3>4 DEF PositionsInOrder, PositionInOrder
    <3> HIDE DEF c, row
    <3>6. UnderWay(account)' = {h} /\ call'[h] = c
      BY <1>1, <1>2, <1>3, <3>3, CallHere, CallChange DEF About
    <3>7. memory'[account] = row
      BY <1>1, <1>2 DEF TypesInOrder, StoreTypeOK
    <3> QED
      BY <1>2, <1>3, <2>2, <3>5, <3>6, <3>7 DEF PositionInOrder
  <2> QED
    BY <2>1, <2>2
<1> QED
  BY <1>4 DEF PositionsInOrder

LEMMA PositionStoredPositions ==
    ASSUME TypesInOrder, PositionsInOrder, NEW h \in Handlers, NEW answered \in Answers,
           PositionStored(h, answered)
    PROVE  PositionsInOrder'
<1>1. PICK account \in Accounts :
         call[h].step = "store" /\ account = call[h].account /\ call[h].row \in Row
  BY CallFields DEF PositionStored
<1> DEFINE done == answered /\ Storable(account)
<1>2. /\ call' = [call EXCEPT ![h] = Idle]
      /\ rows' = IF done THEN [rows EXCEPT ![account] = call[h].row] ELSE rows
      /\ harmed' = IF ~done /\ rows[account] # NoRow THEN harmed \cup {account} ELSE harmed
      /\ UNCHANGED <<memory, expected>>
  BY <1>1 DEF PositionStored, memories
<1>3. ASSUME NEW b \in Accounts \ harmed' PROVE PositionInOrder(b)'
  <2> HIDE DEF done
  <2>1. CASE b # account
    <3>1. ~About(call[h], b) /\ ~About(Idle, b)
      BY <1>1, <2>1 DEF About, Idle
    <3>2. PositionUntouched(b)
      BY <1>1, <1>2, <2>1, <3>1, CallElsewhere, IdleCall
         DEF PositionUntouched, TypesInOrder, StoreTypeOK
    <3> QED
      BY <1>3, <3>2, PositionKept
  <2>2. CASE b = account
    <3>1. account \notin harmed /\ (done \/ rows[account] = NoRow)
      BY <1>2, <1>3, <2>2
    <3>2. h \in UnderWay(account)
      BY <1>1 DEF UnderWay
    <3>3. UnderWay(account) = {h}
      BY <1>1, <3>1, <3>2 DEF PositionsInOrder, PositionInOrder
    <3>4. call[h].row = expected[account] /\ memory[account] = expected[account]
      BY <1>1, <3>1, <3>2 DEF PositionsInOrder, PositionInOrder
    <3>5. UnderWay(account)' = {}
      BY <1>1, <1>2, <3>3, IdleCall, CallHere DEF About, Idle
    <3>6. Held(account)' = expected[account]
      <4>1. CASE done
        <5>1. rows'[account] = call[h].row
          BY <1>1, <1>2, <4>1 DEF TypesInOrder, StoreTypeOK
        <5> QED
          BY <1>1, <3>4, <5>1, StoreAssumption DEF Held
      <4>2. CASE ~done
        <5>1. rows'[account] = NoRow /\ memory'[account] = expected[account]
          BY <1>2, <3>1, <3>4, <4>2
        <5> QED
          BY <1>1, <3>4, <5>1, StoreAssumption DEF Held, AmountsOf
      <4> QED
        BY <4>1, <4>2
    <3> QED
      BY <1>2, <2>2, <3>5, <3>6 DEF PositionInOrder
  <2> QED
    BY <2>1, <2>2
<1> QED
  BY <1>3 DEF PositionsInOrder

\* A handler that turns to something else than a position, or from it.
OtherCall(h, c) ==
    /\ c \in Calls
    /\ call' = [call EXCEPT ![h] = c]
    /\ call[h].step \notin {"read", "store"}
    /\ c.step \notin {"read", "store"}
    /\ UNCHANGED <<rows, memory, expected, harmed>>

LEMMA OtherCallPositions ==
    ASSUME TypesInOrder, PositionsInOrder, NEW h \in Handlers, NEW c, OtherCall(h, c)
    PROVE  PositionsInOrder'
<1>1. ASSUME NEW b \in Accounts \ harmed' PROVE PositionInOrder(b)'
  <2>1. ~About(call[h], b) /\ ~About(c, b)
    BY DEF About, OtherCall
  <2>2. /\ UnderWay(b)' = UnderWay(b)
        /\ \A g \in UnderWay(b) : call'[g] = call[g]
    BY <2>1, CallElsewhere DEF OtherCall
  <2>3. PositionUntouched(b)
    BY <2>2 DEF PositionUntouched, OtherCall
  <2> QED
    BY <1>1, <2>3, PositionKept
<1> QED
  BY <1>1 DEF PositionsInOrder

LEMMA SaveMarketPositions ==
    ASSUME TypesInOrder, PositionsInOrder, NEW h \in Handlers, NEW total \in Totals,
           SaveMarket(h, total)
    PROVE  PositionsInOrder'
<1>1. [step |-> "market", total |-> total] \in Calls
  BY StoreAssumption DEF Calls
<1>2. OtherCall(h, [step |-> "market", total |-> total])
  BY <1>1 DEF OtherCall, SaveMarket, Idle, database
<1> QED
  BY <1>2, OtherCallPositions

LEMMA InsertEventPositions ==
    ASSUME TypesInOrder, PositionsInOrder, NEW h \in Handlers, NEW event \in Events,
           InsertEvent(h, event)
    PROVE  PositionsInOrder'
<1>1. [step |-> "event", event |-> event] \in Calls
  BY DEF Calls
<1>2. OtherCall(h, [step |-> "event", event |-> event])
  BY <1>1 DEF OtherCall, InsertEvent, Idle, database
<1> QED
  BY <1>2, OtherCallPositions

LEMMA MarketStoredPositions ==
    ASSUME TypesInOrder, PositionsInOrder, NEW h \in Handlers, NEW answered \in Answers,
           MarketStored(h, answered)
    PROVE  PositionsInOrder'
<1>1. OtherCall(h, Idle)
  BY IdleCall DEF OtherCall, MarketStored, Idle, memories
<1> QED
  BY <1>1, OtherCallPositions

LEMMA EventStoredPositions ==
    ASSUME TypesInOrder, PositionsInOrder, NEW h \in Handlers, NEW answered \in Answers,
           EventStored(h, answered)
    PROVE  PositionsInOrder'
<1>1. OtherCall(h, Idle)
  BY IdleCall DEF OtherCall, EventStored, Idle, memories
<1> QED
  BY <1>1, OtherCallPositions

\* After a restart memory is empty: an account that is not harmed had its row
\* stored, or never had an update.
LEMMA RestartPositions ==
    ASSUME TypesInOrder, PositionsInOrder, NEW answered \in BOOLEAN, Restart(answered)
    PROVE  PositionsInOrder'
<1>1. ASSUME NEW b \in Accounts \ harmed' PROVE PositionInOrder(b)'
  <2>1. /\ b \notin harmed /\ UnderWay(b) = {}
        /\ memory[b] = NoRow \/ memory[b] = rows[b]
    BY <1>1 DEF Restart
  <2>2. Held(b) = expected[b]
    BY <2>1 DEF PositionsInOrder, PositionInOrder
  <2>3. rows' = rows /\ expected' = expected /\ memory'[b] = NoRow
    BY DEF Restart
  <2>4. Held(b)' = Held(b)
    BY <2>1, <2>3 DEF Held, AmountsOf
  <2>5. UnderWay(b)' = {}
    BY DEF Restart, UnderWay, Idle
  <2> QED
    BY <2>2, <2>3, <2>4, <2>5 DEF PositionInOrder
<1> QED
  BY <1>1 DEF PositionsInOrder

----------------------------------------------------------------------------
(* The market.                                                              *)

\* A handler that is not saving a market goes on to something else.
LEMMA OtherCallSaving ==
    ASSUME TypesInOrder, NEW h \in Handlers, NEW c \in Calls,
           call' = [call EXCEPT ![h] = c], call[h].step # "market", c.step # "market"
    PROVE  Saving' = Saving /\ \A g \in Saving : call'[g] = call[g]
<1>1. call'[h] = c /\ \A g \in Handlers \ {h} : call'[g] = call[g]
  BY CallChange
<1>2. h \notin Saving /\ h \notin Saving'
  BY <1>1 DEF Saving
<1>3. \A g \in Handlers : g \in Saving' <=> g \in Saving
  BY <1>1, <1>2 DEF Saving
<1> QED
  BY <1>1, <1>2, <1>3 DEF Saving

\* Nothing that MarketInOrder speaks of changes.
LEMMA MarketKept ==
    ASSUME MarketInOrder, UNCHANGED <<marketRow, marketMemory, marketHarmed, lastSave>>,
           Saving' = Saving, \A g \in Saving : call'[g] = call[g]
    PROVE  MarketInOrder'
BY DEF MarketInOrder

LEMMA SaveMarketInOrder ==
    ASSUME TypesInOrder, MarketInOrder, NEW h \in Handlers, NEW total \in Totals,
           SaveMarket(h, total)
    PROVE  MarketInOrder'
<1> DEFINE c == [step |-> "market", total |-> total]
<1>1. c \in Calls /\ c.step = "market" /\ c.total = total
  BY StoreAssumption DEF Calls
<1>2. /\ call' = [call EXCEPT ![h] = c] /\ marketMemory' = total
      /\ lastSave' = {h}
  BY DEF SaveMarket
<1> HIDE DEF c
<1>3. call'[h] = c
  BY <1>1, <1>2, CallChange
<1> QED
  BY <1>1, <1>2, <1>3 DEF MarketInOrder, Saving

\* The last save reaches the table or leaves a mark; an older one leaves a mark.
LEMMA MarketStoredInOrder ==
    ASSUME TypesInOrder, MarketInOrder, NEW h \in Handlers, NEW answered \in Answers,
           MarketStored(h, answered)
    PROVE  MarketInOrder'
<1>1. call'[h] = Idle /\ \A g \in Handlers \ {h} : call'[g] = call[g]
  BY IdleCall, CallChange DEF MarketStored
<1>2. marketMemory' = marketMemory /\ lastSave' = lastSave \ {h}
  BY DEF MarketStored, memories
<1>3. \A g \in lastSave' : g \in Saving' /\ call'[g].total = marketMemory
  BY <1>1, <1>2 DEF MarketInOrder, Saving
<1>4. ASSUME lastSave' = {}, ~marketHarmed', marketMemory # NoRow
      PROVE  marketRow' \in {NoRow, marketMemory}
  <2>1. CASE h \in lastSave
    BY <1>4, <2>1 DEF MarketStored, MarketInOrder
  <2>2. CASE h \notin lastSave
    <3>1. lastSave = {} /\ ~answered /\ ~marketHarmed /\ marketRow' = marketRow
      BY <1>2, <1>4, <2>2 DEF MarketStored
    <3> QED
      BY <1>4, <3>1 DEF MarketInOrder
  <2> QED
    BY <2>1, <2>2
<1> QED
  BY <1>2, <1>3, <1>4 DEF MarketInOrder

LEMMA RestartMarketInOrder ==
    ASSUME NEW answered \in BOOLEAN, Restart(answered)
    PROVE  MarketInOrder'
<1>1. lastSave' = {} /\ marketMemory' = NoRow
  BY DEF Restart
<1> QED
  BY <1>1 DEF MarketInOrder

----------------------------------------------------------------------------
(* The feed.                                                                *)

\* A handler that is not inserting an event goes on to something else.
LEMMA OtherCallInserting ==
    ASSUME TypesInOrder, NEW h \in Handlers, NEW c \in Calls,
           call' = [call EXCEPT ![h] = c], call[h].step # "event", c.step # "event"
    PROVE  Inserting' = Inserting /\ \A g \in Inserting : call'[g] = call[g]
<1>1. call'[h] = c /\ \A g \in Handlers \ {h} : call'[g] = call[g]
  BY CallChange
<1>2. h \notin Inserting /\ h \notin Inserting'
  BY <1>1 DEF Inserting
<1>3. \A g \in Handlers : g \in Inserting' <=> g \in Inserting
  BY <1>1, <1>2 DEF Inserting
<1> QED
  BY <1>1, <1>2, <1>3 DEF Inserting

\* Nothing that FeedInOrder speaks of changes.
LEMMA FeedKept ==
    ASSUME eventsHarmed \/ FeedInOrder, UNCHANGED <<eventRows, memoryEvents, eventsHarmed>>,
           Inserting' = Inserting, \A g \in Inserting : call'[g] = call[g]
    PROVE  (eventsHarmed \/ FeedInOrder)'
BY DEF FeedInOrder, Newest

LEMMA InsertEventInOrder ==
    ASSUME TypesInOrder, eventsHarmed \/ FeedInOrder, NEW h \in Handlers,
           NEW event \in Events, InsertEvent(h, event)
    PROVE  (eventsHarmed \/ FeedInOrder)'
<1> SUFFICES ASSUME ~eventsHarmed' PROVE FeedInOrder'
  OBVIOUS
<1> DEFINE c == [step |-> "event", event |-> event]
<1>1. c \in Calls /\ c.step = "event" /\ c.event = event
  BY DEF Calls
<1>2. /\ call' = [call EXCEPT ![h] = c] /\ memoryEvents' = Remembered(event)
      /\ eventRows' = eventRows
      /\ ~eventsHarmed /\ event \notin Range(eventRows) /\ Inserting = {}
  BY DEF InsertEvent, Inserting, database
<1> HIDE DEF c
<1>3. call'[h] = c /\ \A g \in Handlers \ {h} : call'[g] = call[g]
  BY <1>1, <1>2, CallChange
<1>4. Inserting' = {h}
  BY <1>1, <1>2, <1>3 DEF Inserting
<1>5. memoryEvents = Newest(eventRows) /\ eventRows \in Seq(Events)
  BY <1>2 DEF FeedInOrder, TypesInOrder, StoreTypeOK
<1>6. memoryEvents' = Newest(<<event>> \o eventRows)
  BY <1>2, <1>5, RememberedNewest, NewestOfFronted
<1>7. call'[h].event = event /\ Newest(<<event>> \o eventRows)' = Newest(<<event>> \o eventRows)
  BY <1>1, <1>2, <1>3 DEF Newest
<1>8. \A g, k \in Inserting' : g = k
  BY <1>4
<1>9. \A g \in Inserting' : /\ call'[g].event \notin Range(eventRows')
                            /\ memoryEvents' = Newest(<<call'[g].event>> \o eventRows)
  BY <1>2, <1>4, <1>6, <1>7
<1> QED
  BY <1>2, <1>4, <1>8, <1>9 DEF FeedInOrder, Newest

LEMMA EventStoredInOrder ==
    ASSUME TypesInOrder, eventsHarmed \/ FeedInOrder, NEW h \in Handlers,
           NEW answered \in Answers, EventStored(h, answered)
    PROVE  (eventsHarmed \/ FeedInOrder)'
<1> SUFFICES ASSUME ~eventsHarmed' PROVE FeedInOrder'
  OBVIOUS
<1>1. ~eventsHarmed /\ eventRows' = <<call[h].event>> \o eventRows
  BY DEF EventStored
<1>2. h \in Inserting
  BY DEF EventStored, Inserting
<1>3. memoryEvents = Newest(<<call[h].event>> \o eventRows) /\ Inserting = {h}
  BY <1>1, <1>2 DEF FeedInOrder
<1>4. call'[h] = Idle /\ \A g \in Handlers \ {h} : call'[g] = call[g]
  BY IdleCall, CallChange DEF EventStored
<1>5. Inserting' = {}
  BY <1>3, <1>4 DEF Inserting, Idle
<1>6. memoryEvents' = memoryEvents
  BY DEF EventStored, memories
<1> QED
  BY <1>1, <1>3, <1>5, <1>6 DEF FeedInOrder, Newest

----------------------------------------------------------------------------
(* Every step.                                                              *)

\* Updates leave the market and the feed alone.
PositionStep(h, c) ==
    /\ c \in Calls
    /\ call' = [call EXCEPT ![h] = c]
    /\ call[h].step \notin {"market", "event"}
    /\ c.step \notin {"market", "event"}
    /\ UNCHANGED <<marketRow, marketMemory, marketHarmed, lastSave>>
    /\ UNCHANGED <<eventRows, memoryEvents, eventsHarmed>>

LEMMA PositionSteps ==
    ASSUME StoreInv, NEW h \in Handlers, NEW c, PositionStep(h, c)
    PROVE  MarketInOrder' /\ (eventsHarmed \/ FeedInOrder)'
<1>1. MarketInOrder'
  BY OtherCallSaving, MarketKept DEF PositionStep, StoreInv
<1>2. (eventsHarmed \/ FeedInOrder)'
  BY OtherCallInserting, FeedKept DEF PositionStep, StoreInv
<1> QED
  BY <1>1, <1>2

LEMMA UpdateInv ==
    ASSUME StoreInv, NEW h \in Handlers, NEW account \in Accounts,
           NEW field \in Fields, NEW delta \in Int, Update(h, account, field, delta)
    PROVE  StoreInv'
<1>1. [step |-> "read", account |-> account, field |-> field, delta |-> delta] \in Calls
  BY DEF Calls
<1>2. PositionStep(h, [step |-> "read", account |-> account, field |-> field, delta |-> delta])
  BY <1>1 DEF PositionStep, Update, Idle, database, memories
<1> QED
  BY <1>2, PositionSteps, UpdateTypes, UpdatePositions DEF StoreInv

LEMMA SaveUserPositionInv ==
    ASSUME StoreInv, NEW h \in Handlers, NEW answered \in BOOLEAN,
           SaveUserPosition(h, answered)
    PROVE  StoreInv'
<1> DEFINE row == WithDelta(AmountsOf(getUserPosition(call[h].account, answered)),
                            call[h].field, call[h].delta)
           c == [step |-> "store", account |-> call[h].account, row |-> row]
<1>1. call[h].account \in Accounts /\ row \in Row
  BY CallFields, ServedRow, WithDeltaRow DEF SaveUserPosition, StoreInv
<1>2. c \in Calls
  BY <1>1 DEF Calls
<1>3. PositionStep(h, c)
  BY <1>2 DEF PositionStep, SaveUserPosition, database
<1> QED
  BY <1>3, PositionSteps, SaveTypes, SavePositions DEF StoreInv

LEMMA PositionStoredInv ==
    ASSUME StoreInv, NEW h \in Handlers, NEW answered \in Answers,
           PositionStored(h, answered)
    PROVE  StoreInv'
<1>1. PositionStep(h, Idle)
  BY IdleCall DEF PositionStep, PositionStored, Idle, memories
<1> QED
  BY <1>1, PositionSteps, PositionStoredTypes, PositionStoredPositions DEF StoreInv

LEMMA SaveMarketInv ==
    ASSUME StoreInv, NEW h \in Handlers, NEW total \in Totals, SaveMarket(h, total)
    PROVE  StoreInv'
<1> DEFINE c == [step |-> "market", total |-> total]
<1>1. c \in Calls /\ c.step = "market"
  BY StoreAssumption DEF Calls
<1>2. /\ call' = [call EXCEPT ![h] = c] /\ call[h].step = "idle"
      /\ UNCHANGED <<eventRows, memoryEvents, eventsHarmed>>
  BY DEF SaveMarket, Idle, database
<1>3. (eventsHarmed \/ FeedInOrder)'
  BY <1>1, <1>2, OtherCallInserting, FeedKept DEF StoreInv
<1> QED
  BY <1>3, SaveMarketTypes, SaveMarketPositions, SaveMarketInOrder DEF StoreInv

LEMMA MarketStoredInv ==
    ASSUME StoreInv, NEW h \in Handlers, NEW answered \in Answers,
           MarketStored(h, answered)
    PROVE  StoreInv'
<1>1. /\ call' = [call EXCEPT ![h] = Idle] /\ call[h].step = "market"
      /\ UNCHANGED <<eventRows, memoryEvents, eventsHarmed>>
  BY DEF MarketStored, memories
<1>2. (eventsHarmed \/ FeedInOrder)'
  BY <1>1, IdleCall, OtherCallInserting, FeedKept DEF StoreInv, Idle
<1> QED
  BY <1>2, MarketStoredTypes, MarketStoredPositions, MarketStoredInOrder DEF StoreInv

LEMMA InsertEventInv ==
    ASSUME StoreInv, NEW h \in Handlers, NEW event \in Events, InsertEvent(h, event)
    PROVE  StoreInv'
<1> DEFINE c == [step |-> "event", event |-> event]
<1>1. c \in Calls /\ c.step = "event"
  BY DEF Calls
<1>2. /\ call' = [call EXCEPT ![h] = c] /\ call[h].step = "idle"
      /\ UNCHANGED <<marketRow, marketMemory, marketHarmed, lastSave>>
  BY DEF InsertEvent, Idle, database
<1>3. MarketInOrder'
  BY <1>1, <1>2, OtherCallSaving, MarketKept DEF StoreInv
<1> QED
  BY <1>3, InsertEventTypes, InsertEventPositions, InsertEventInOrder DEF StoreInv

LEMMA EventStoredInv ==
    ASSUME StoreInv, NEW h \in Handlers, NEW answered \in Answers,
           EventStored(h, answered)
    PROVE  StoreInv'
<1>1. /\ call' = [call EXCEPT ![h] = Idle] /\ call[h].step = "event"
      /\ UNCHANGED <<marketRow, marketMemory, marketHarmed, lastSave>>
  BY DEF EventStored, memories
<1>2. MarketInOrder'
  BY <1>1, IdleCall, OtherCallSaving, MarketKept DEF StoreInv, Idle
<1> QED
  BY <1>2, EventStoredTypes, EventStoredPositions, EventStoredInOrder DEF StoreInv

LEMMA RestartInv ==
    ASSUME StoreInv, NEW answered \in BOOLEAN, Restart(answered)
    PROVE  StoreInv'
<1>1. eventsHarmed'
  BY DEF Restart
<1> QED
  BY <1>1, RestartTypes, RestartPositions, RestartMarketInOrder DEF StoreInv

LEMMA InitInv == StoreInit => StoreInv
<1> SUFFICES ASSUME StoreInit PROVE StoreInv
  OBVIOUS
<1>1. \A h \in Handlers : call[h].step = "idle"
  BY DEF StoreInit, Idle
<1>2. Saving = {} /\ Inserting = {} /\ \A a \in Accounts : UnderWay(a) = {}
  BY <1>1 DEF Saving, Inserting, UnderWay
<1>3. MarketInOrder
  BY <1>2 DEF MarketInOrder, StoreInit
<1>4. PositionsInOrder
  BY <1>2 DEF PositionsInOrder, PositionInOrder, Held, AmountsOf, StoreInit
<1>5. FeedInOrder
  <2>1. eventRows = << >> /\ memoryEvents = << >>
    BY DEF StoreInit
  <2>2. MinOf(MemoryLimit, 0) = 0
    BY StoreAssumption DEF MinOf
  <2>3. Newest(<< >>) = << >>
    BY <2>2 DEF Newest
  <2> QED
    BY <1>2, <2>1, <2>3 DEF FeedInOrder
<1> QED
  BY <1>3, <1>4, <1>5, InitTypes DEF StoreInv

LEMMA NextInv ==
    ASSUME StoreInv, [StoreNext]_store_vars
    PROVE  StoreInv'
<1>1. CASE UNCHANGED store_vars
  <2>1. UNCHANGED <<tables, rows, marketRow, eventRows, memory, marketMemory,
                    memoryEvents, call, expected, harmed, marketHarmed, eventsHarmed,
                    lastSave>>
    BY <1>1 DEF store_vars, database, memories, auxiliary
  <2>2. TypesInOrder'
    BY <2>1 DEF StoreInv, TypesInOrder, StoreTypeOK
  <2>3. Saving' = Saving /\ Inserting' = Inserting
    BY <2>1 DEF Saving, Inserting
  <2>4. \A account \in Accounts : PositionUntouched(account)
    BY <2>1 DEF PositionUntouched, UnderWay
  <2>5. PositionsInOrder'
    BY <2>1, <2>4, PositionKept DEF StoreInv, PositionsInOrder
  <2> QED
    BY <2>1, <2>2, <2>3, <2>5, MarketKept, FeedKept DEF StoreInv
<1>2. CASE StoreNext
  <2>1. ASSUME NEW h \in Handlers, NEW account \in Accounts, NEW field \in Fields,
               NEW amount \in Deltas, NEW delta \in {amount, -amount},
               Update(h, account, field, delta)
        PROVE  StoreInv'
    <3>1. delta \in Int
      BY StoreAssumption
    <3> QED
      BY <2>1, <3>1, UpdateInv
  <2>2. ASSUME NEW h \in Handlers, NEW answered \in Answers,
               \/ SaveUserPosition(h, answered) \/ PositionStored(h, answered)
               \/ MarketStored(h, answered) \/ EventStored(h, answered)
        PROVE  StoreInv'
    <3>1. answered \in BOOLEAN
      BY AnswersBoolean
    <3> QED
      BY <2>2, <3>1, SaveUserPositionInv, PositionStoredInv, MarketStoredInv, EventStoredInv
  <2>3. ASSUME NEW h \in Handlers, NEW total \in Totals, SaveMarket(h, total)
        PROVE  StoreInv'
    BY <2>3, SaveMarketInv
  <2>4. ASSUME NEW h \in Handlers, NEW event \in Events, InsertEvent(h, event)
        PROVE  StoreInv'
    BY <2>4, InsertEventInv
  <2>5. ASSUME NEW answered \in BOOLEAN, Restart(answered)
        PROVE  StoreInv'
    BY <2>5, RestartInv
  <2> QED
    BY <1>2, <2>1, <2>2, <2>3, <2>4, <2>5 DEF StoreNext
<1> QED
  BY <1>1, <1>2

LEMMA StoreStaysInOrder == StoreSpec => []StoreInv
<1>1. StoreInv /\ [StoreNext]_store_vars => StoreInv'
  BY NextInv
<1> QED
  BY <1>1, InitInv, PTL DEF StoreSpec

----------------------------------------------------------------------------
(* What is served.                                                          *)

\* What the tables and the memory hold is what their columns allow, and there
\* is nothing in tables that were not created.
THEOREM StoreTypeCorrect == StoreSpec => []StoreTypeOK
<1>1. StoreInv => StoreTypeOK
  BY DEF StoreInv, TypesInOrder
<1> QED
  BY <1>1, StoreStaysInOrder, PTL

\* Whatever handlers of other accounts, failed queries and restarts come in
\* between, a position that is served is the sum of its events.
THEOREM PositionsAddUp == StoreSpec => []PositionIsSumOfItsEvents
<1>1. ASSUME StoreInv PROVE PositionIsSumOfItsEvents
  <2> SUFFICES ASSUME NEW account \in Accounts, account \notin harmed,
                      UnderWay(account) = {},
                      NEW answered \in Answers, answered \/ ~Behind(account)
               PROVE  AmountsOf(getUserPosition(account, answered)) = expected[account]
    BY DEF PositionIsSumOfItsEvents
  <2>1. AmountsOf(getUserPosition(account, answered)) = Held(account)
    BY <1>1, AnswersBoolean, ServedRow DEF StoreInv
  <2>2. Held(account) = expected[account]
    BY <1>1 DEF StoreInv, PositionsInOrder, PositionInOrder
  <2> QED
    BY <2>1, <2>2
<1> QED
  BY <1>1, StoreStaysInOrder, PTL

\* The market that is served is the last one saved, or the default where a
\* total of zero is in memory only.
THEOREM MarketsServed == StoreSpec => []MarketServedIsLastSaved
<1>1. ASSUME StoreInv PROVE MarketServedIsLastSaved
  <2> SUFFICES ASSUME marketMemory # NoRow, ~marketHarmed,
                      lastSave = {},
                      NEW answered \in Answers
               PROVE  \/ MarketServed(answered) = marketMemory
                      \/ /\ marketMemory = 0
                         /\ ~answered \/ marketRow = NoRow
                         /\ MarketServed(answered) = DefaultTotal
    BY DEF MarketServedIsLastSaved
  <2>1. marketRow \in {NoRow, marketMemory}
    BY <1>1 DEF StoreInv, MarketInOrder
  <2> QED
    BY <2>1 DEF MarketServed
<1> QED
  BY <1>1, StoreStaysInOrder, PTL

\* The feed is the same from the table and from memory, up to what memory keeps.
THEOREM FeedsAgree == StoreSpec => []FeedSourcesAgree
<1>1. ASSUME StoreInv PROVE FeedSourcesAgree
  <2> SUFFICES ASSUME ~eventsHarmed, \A h \in Handlers : call[h].step # "event",
                      NEW limit \in Limits, NEW answered \in Answers
               PROVE  getRecentEvents(limit, FALSE)
                        = getRecentEvents(MinOf(limit, MemoryLimit), answered)
    BY DEF FeedSourcesAgree
  <2>1. memoryEvents = Newest(eventRows) /\ eventRows \in Seq(Events)
    BY <1>1 DEF StoreInv, FeedInOrder, Inserting, TypesInOrder, StoreTypeOK
  <2>2. /\ memoryEvents \in Seq(Events)
        /\ Len(memoryEvents) = MinOf(MemoryLimit, Len(eventRows))
        /\ \A i \in 1..Len(memoryEvents) : memoryEvents[i] = eventRows[i]
    BY <2>1, NewestFacts
  <2> DEFINE n == MinOf(limit, Len(memoryEvents))
  <2>3. /\ MinOf(MinOf(limit, MemoryLimit), Len(eventRows)) = n
        /\ MinOf(MinOf(limit, MemoryLimit), Len(memoryEvents)) = n
        /\ n \in 0..Len(eventRows) /\ n <= Len(memoryEvents)
    BY <2>1, <2>2, StoreAssumption DEF MinOf
  <2> HIDE DEF n
  <2>5. /\ SubSeq(eventRows, 1, n) \in Seq(Events) /\ Len(SubSeq(eventRows, 1, n)) = n
        /\ \A i \in 1..n : SubSeq(eventRows, 1, n)[i] = eventRows[i]
    BY <2>1, <2>3
  <2>6. /\ SubSeq(memoryEvents, 1, n) \in Seq(Events) /\ Len(SubSeq(memoryEvents, 1, n)) = n
        /\ \A i \in 1..n : SubSeq(memoryEvents, 1, n)[i] = memoryEvents[i]
    BY <2>2, <2>3
  <2>7. \A i \in 1..n : SubSeq(eventRows, 1, n)[i] = SubSeq(memoryEvents, 1, n)[i]
    BY <2>2, <2>3, <2>5, <2>6
  <2>8. SubSeq(eventRows, 1, n) = SubSeq(memoryEvents, 1, n)
    BY <2>5, <2>6, <2>7, SameFeed
  <2>9. getRecentEvents(limit, FALSE) = SubSeq(memoryEvents, 1, n)
    BY DEF getRecentEvents, n
  <2>10. getRecentEvents(MinOf(limit, MemoryLimit), answered)
           \in {SubSeq(memoryEvents, 1, n), SubSeq(eventRows, 1, n)}
    BY <2>3 DEF getRecentEvents
  <2> QED
    BY <2>8, <2>9, <2>10
<1> QED
  BY <1>1, StoreStaysInOrder, PTL

----------------------------------------------------------------------------
(* What is offered.                                                         *)

\* A quotient rounded down.
LEMMA QuotientBounds ==
    ASSUME NEW a \in Nat, NEW b \in Nat \ {0}
    PROVE  a \div b \in Nat /\ (a \div b) * b <= a /\ a < (a \div b + 1) * b
BY SMTT(30)

LEMMA MoreOf ==
    ASSUME NEW a \in Nat, NEW b \in Nat, NEW c \in Nat, a <= b
    PROVE  a * c \in Nat /\ b * c \in Nat /\ a * c <= b * c
BY SMTT(30)

\* A quotient does not fall with what is divided.
LEMMA QuotientMonotone ==
    ASSUME NEW a \in Nat, NEW b \in Nat, NEW c \in Nat \ {0}, a <= b
    PROVE  a \div c <= b \div c
<1> DEFINE p == a \div c
           q == b \div c
<1>1. p \in Nat /\ q \in Nat /\ p * c <= a /\ b < (q + 1) * c
  BY QuotientBounds
<1> HIDE DEF p, q
<1>2. ASSUME q + 1 <= p PROVE FALSE
  <2>1. (q + 1) * c <= p * c /\ (q + 1) * c \in Nat /\ p * c \in Nat
    BY <1>1, <1>2, MoreOf
  <2> QED
    BY <1>1, <2>1
<1>3. p <= q
  BY <1>1, <1>2
<1> QED
  BY <1>3 DEF p, q

\* What is worth the debt at least, is worth the whole of it.
LEMMA QuotientAtLeast ==
    ASSUME NEW worth \in Nat, NEW debt \in Nat \ {0}, debt <= worth,
           NEW scale \in Nat \ {0}
    PROVE  (worth * scale) \div debt >= scale
<1>1. debt * scale <= worth * scale /\ debt * scale \in Nat /\ worth * scale \in Nat
  BY MoreOf
<1> DEFINE q == (worth * scale) \div debt
<1>2. q \in Nat /\ worth * scale < (q + 1) * debt
  BY <1>1, QuotientBounds
<1> HIDE DEF q
<1>3. ASSUME q + 1 <= scale PROVE FALSE
  <2>1. (q + 1) * debt <= scale * debt /\ (q + 1) * debt \in Nat /\ scale * debt \in Nat
    BY <1>2, <1>3, MoreOf
  <2>2. scale * debt = debt * scale
    OBVIOUS
  <2> QED
    BY <1>1, <1>2, <2>1, <2>2
<1>4. q >= scale
  BY <1>2, <1>3
<1> QED
  BY <1>4 DEF q

\* A debt up to the capacity of a collateral is not liquidatable.
LEMMA CapacityIsHealthy ==
    ASSUME NEW worth \in Nat, MaxLtvBps <= ThresholdBps,
           calculateBorrowCapacity(worth, MaxLtvBps) > 0
    PROVE  calculateHealthFactor(worth, calculateBorrowCapacity(worth, MaxLtvBps),
                                 ThresholdBps).status # "liquidatable"
<1> DEFINE capacity == applyBps(worth, MaxLtvBps)
           backing  == applyBps(worth, ThresholdBps)
           hfBps    == (backing * BPS_DIVISOR) \div capacity
<1>1. /\ MaxLtvBps \in Nat /\ ThresholdBps \in Nat
      /\ BPS_DIVISOR \in Nat \ {0}
  BY StoreAssumption, SharedAssumption
<1>2. /\ worth * MaxLtvBps \in Nat /\ worth * ThresholdBps \in Nat
      /\ worth * MaxLtvBps <= worth * ThresholdBps
  <2>1. /\ MaxLtvBps * worth <= ThresholdBps * worth
        /\ MaxLtvBps * worth \in Nat /\ ThresholdBps * worth \in Nat
    BY <1>1, MoreOf
  <2>2. MaxLtvBps * worth = worth * MaxLtvBps /\ ThresholdBps * worth = worth * ThresholdBps
    BY <1>1
  <2> QED
    BY <2>1, <2>2
<1>3. capacity \in Nat /\ backing \in Nat /\ capacity <= backing
  <2>1. /\ (worth * MaxLtvBps) \div BPS_DIVISOR \in Nat
        /\ (worth * ThresholdBps) \div BPS_DIVISOR \in Nat
    BY <1>1, <1>2, QuotientBounds
  <2>2. (worth * MaxLtvBps) \div BPS_DIVISOR <= (worth * ThresholdBps) \div BPS_DIVISOR
    BY <1>1, <1>2, QuotientMonotone
  <2> QED
    BY <2>1, <2>2 DEF applyBps, mulDivDown
<1>4. capacity > 0
  BY DEF calculateBorrowCapacity
<1>5. calculateHealthFactor(worth, capacity, ThresholdBps).status = StatusOf(hfBps)
  BY <1>3, <1>4 DEF calculateHealthFactor, mulDivDown
<1> HIDE DEF capacity, backing
<1>6. hfBps >= BPS_DIVISOR
  BY <1>1, <1>3, <1>4, QuotientAtLeast
<1>7. hfBps \in Nat
  <2>1. backing * BPS_DIVISOR \in Nat
    BY <1>1, <1>3, MoreOf
  <2> QED
    BY <1>3, <1>4, <2>1, QuotientBounds
<1> HIDE DEF hfBps
<1>8. StatusOf(hfBps) # "liquidatable"
  BY <1>1, <1>6, <1>7 DEF StatusOf
<1> QED
  BY <1>5, <1>8 DEF capacity, calculateBorrowCapacity

\* What the API offers on top of the debt does not make the position it offers
\* it to liquidatable.
THEOREM OffersHealthy == StoreSpec => []ServedOfferIsHealthy
<1>1. ASSUME StoreInv PROVE ServedOfferIsHealthy
  <2> SUFFICES ASSUME NEW account \in Accounts, NEW answered \in Answers,
                      NEW row, row = AmountsOf(getUserPosition(account, answered)),
                      MaxLtvBps <= ThresholdBps,
                      PositionServed(row).availableToBorrowUsd > 0
               PROVE  calculateHealthFactor(
                          PositionServed(row).collateralValueUsd,
                          PositionServed(row).borrowedValueUsd
                            + PositionServed(row).availableToBorrowUsd,
                          ThresholdBps).status # "liquidatable"
    BY DEF ServedOfferIsHealthy
  <2>1. row \in Row
    BY <1>1, AnswersBoolean, ServedRow DEF StoreInv
  <2> DEFINE p == PositionServed(row)
             capacity == calculateBorrowCapacity(p.collateralValueUsd, MaxLtvBps)
  <2>2. /\ CollateralPrice \in Nat /\ BorrowPrice \in Nat
        /\ MaxLtvBps \in Nat /\ BPS_DIVISOR \in Nat \ {0} /\ TokenUnit \in Nat \ {0}
    BY StoreAssumption, SharedAssumption
  <2>3. p.collateralValueUsd \in Nat /\ p.borrowedValueUsd \in Nat
    <3>1. row["collateral_amount"] \in Nat /\ row["borrowed_amount"] \in Nat
      BY <2>1 DEF Row, Fields
    <3>2. /\ row["collateral_amount"] * CollateralPrice \in Nat
          /\ row["borrowed_amount"] * BorrowPrice \in Nat
      BY <2>2, <3>1, MoreOf
    <3> QED
      BY <2>2, <3>2, QuotientBounds DEF PositionServed, tokenAmountToUsd, mulDivDown
  <2>4. p.availableToBorrowUsd = IF capacity > p.borrowedValueUsd
                                 THEN capacity - p.borrowedValueUsd ELSE 0
    BY DEF PositionServed
  <2>5. capacity \in Nat
    <3>1. p.collateralValueUsd * MaxLtvBps \in Nat
      BY <2>2, <2>3, MoreOf
    <3> QED
      BY <2>2, <3>1, QuotientBounds DEF calculateBorrowCapacity, applyBps, mulDivDown
  <2> HIDE DEF p, capacity
  <2>6. p.availableToBorrowUsd > 0
    BY DEF p
  <2>7. p.borrowedValueUsd + p.availableToBorrowUsd = capacity /\ capacity > 0
    BY <2>3, <2>4, <2>5, <2>6
  <2>8. calculateHealthFactor(p.collateralValueUsd, capacity, ThresholdBps).status
          # "liquidatable"
    BY <2>3, <2>7, CapacityIsHealthy DEF capacity
  <2> QED
    BY <2>7, <2>8 DEF p
<1> QED
  BY <1>1, StoreStaysInOrder, PTL
=============================================================================
