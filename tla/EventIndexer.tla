---------------------------- MODULE EventIndexer ----------------------------
(***************************************************************************)
(* apps/indexer: the poller that reads the contracts' events from an RPC   *)
(* node page by page and passes each one to the handlers, and the tracker  *)
(* that keeps its cursor in memory and in a database that may be out of    *)
(* reach.  Every await of pollOnce is a step of its own, so ledgers close, *)
(* calls fail and the process crashes between any two of them.             *)
(***************************************************************************)
EXTENDS Integers, Sequences, FiniteSets

CONSTANTS Lookback,   \* 100 in the code: how far back a first poll starts
          PageLimit,  \* events the RPC node puts in one answer
          MaxLedger,  \* bound on the ledgers that close
          MaxEvents,  \* bound on the events of one ledger
          MaxFaults   \* bound on the crashes and failed database calls

ASSUME IndexerAssumption ==
    /\ Lookback \in Nat
    /\ PageLimit \in Nat \ {0}
    /\ MaxLedger \in Nat \ {0}
    /\ MaxEvents \in Nat
    /\ MaxFaults \in Nat

VARIABLES
    head,          \* sequence number of the latest ledger
    log,           \* the ledger each of the contracts' events was emitted in
    memoryCursor,  \* ledger of CursorTracker.memoryCursors, 0 without an entry
    dbCursor,      \* last_ledger of indexer_cursors, 0 without a row
    poll,          \* where pollOnce is, and its local variables
    handled,       \* history: the events passed to the handlers, in order
    faults,        \* history: crashes and failed database calls so far
    origin,        \* history: where the last poll without a cursor started
    truncated      \* history: an answer was cut at PageLimit

chain_vars == <<head, log>>
cursor_vars == <<memoryCursor, dbCursor>>
history_vars == <<handled, faults, origin, truncated>>
indexer_vars == <<chain_vars, cursor_vars, poll, history_vars>>

Poll == [at : {"waiting", "asked", "fetching", "handling", "saving"},
         start : Nat,   \* startLedger
         latest : Nat,  \* the ledger the last answer of the node was made at
         next : Nat,    \* the next event of the answer to handle
         last : Nat]    \* the last event of the answer

IndexerTypeOK ==
    /\ head \in 1..MaxLedger
    /\ log \in Seq(1..head)
    /\ memoryCursor \in 0..head
    /\ dbCursor \in 0..head
    /\ poll \in Poll
    /\ handled \in Seq(1..Len(log))
    /\ faults \in 0..MaxFaults
    /\ origin \in 0..head
    /\ truncated \in BOOLEAN

----------------------------------------------------------------------------
Waiting == [at |-> "waiting", start |-> 0, latest |-> 0, next |-> 1, last |-> 0]

IndexerInit ==
    /\ head = 1
    /\ log = <<>>
    /\ memoryCursor = 0
    /\ dbCursor = 0
    /\ poll = Waiting
    /\ handled = <<>>
    /\ faults = 0
    /\ origin = 0
    /\ truncated = FALSE

\* A ledger closes with n events of the contracts in it.
CloseLedger(n) ==
    /\ head < MaxLedger
    /\ head' = head + 1
    /\ log' = log \o [i \in 1..n |-> head + 1]
    /\ UNCHANGED <<cursor_vars, poll, history_vars>>

\* getLatestLedger answers.
GetLatestLedger ==
    /\ poll.at = "waiting"
    /\ poll' = [poll EXCEPT !.at = "asked", !.latest = head]
    /\ UNCHANGED <<chain_vars, cursor_vars, history_vars>>

\* getCursor: the row of the database when the query succeeds and there is one,
\* else what memory has.
CursorRead(queryOK) ==
    IF queryOK /\ dbCursor > 0 THEN dbCursor ELSE memoryCursor

FirstStart(latest) == IF latest - Lookback > 1 THEN latest - Lookback ELSE 1

\* Mutants of StartLedger: the ledger of the cursor is fetched again; one
\* ledger is skipped.
StartLedgerAtCursor(cursor, latest) ==
    IF cursor > 0 THEN cursor ELSE FirstStart(latest)
StartLedgerTooFar(cursor, latest) ==
    IF cursor > 0 THEN cursor + 2 ELSE FirstStart(latest)

StartLedger(cursor, latest) ==
    IF cursor > 0 THEN cursor + 1 ELSE FirstStart(latest)

\* A failed database call is caught, and counted here.
DatabaseCall(ok) ==
    IF ok THEN faults' = faults
    ELSE faults < MaxFaults /\ faults' = faults + 1

GetCursor(queryOK) ==
    /\ poll.at = "asked"
    /\ DatabaseCall(queryOK)
    /\ LET cursor == CursorRead(queryOK)
       IN  /\ poll' = [poll EXCEPT !.at = "fetching",
                                   !.start = StartLedger(cursor, poll.latest)]
           /\ origin' = IF cursor = 0 THEN FirstStart(poll.latest) ELSE origin
    /\ UNCHANGED <<chain_vars, cursor_vars, handled, truncated>>

\* getEvents answers: the node refuses a start after its latest ledger and
\* otherwise returns the first events from there, at most PageLimit of them,
\* with the number of its latest ledger.
GetEvents ==
    /\ poll.at = "fetching"
    /\ poll.start <= head
    /\ LET first == Cardinality({n \in DOMAIN log : log[n] < poll.start}) + 1
           last  == IF Len(log) < first + PageLimit THEN Len(log)
                    ELSE first + PageLimit - 1
       IN  /\ poll' = [poll EXCEPT !.at = "handling", !.latest = head,
                                   !.next = first, !.last = last]
           /\ truncated' = (truncated \/ last < Len(log))
    /\ UNCHANGED <<chain_vars, cursor_vars, handled, faults, origin>>

\* A call of the node throws: pollOnce catches it and the next poll starts over.
RpcFails ==
    /\ poll.at = "fetching"
    /\ poll' = Waiting
    /\ UNCHANGED <<chain_vars, cursor_vars, history_vars>>

\* The handlers are awaited for one event.
HandleEvent ==
    /\ poll.at = "handling"
    /\ poll.next <= poll.last
    /\ handled' = Append(handled, poll.next)
    /\ poll' = [poll EXCEPT !.next = @ + 1]
    /\ UNCHANGED <<chain_vars, cursor_vars, faults, origin, truncated>>

\* Mutants of SavedLedger: the node's latest ledger by now; the one after.
SavedLedgerOfNow(latest) == head
SavedLedgerNext(latest) == latest + 1

\* The ledger saved is the latest one of the answer just handled.
SavedLedger(latest) == latest

\* saveCursor writes memory and sends the query.
SaveCursor ==
    /\ poll.at = "handling"
    /\ poll.next > poll.last
    /\ memoryCursor' = SavedLedger(poll.latest)
    /\ poll' = [poll EXCEPT !.at = "saving"]
    /\ UNCHANGED <<chain_vars, dbCursor, history_vars>>

\* The upsert ends, well or not; the next poll is scheduled.
CursorStored(queryOK) ==
    /\ poll.at = "saving"
    /\ DatabaseCall(queryOK)
    /\ dbCursor' = IF queryOK THEN memoryCursor ELSE dbCursor
    /\ poll' = Waiting
    /\ UNCHANGED <<chain_vars, memoryCursor, handled, origin, truncated>>

\* The process dies and is started again: memory is gone, the database is not.
Crash ==
    /\ faults < MaxFaults
    /\ faults' = faults + 1
    /\ memoryCursor' = 0
    /\ poll' = Waiting
    /\ UNCHANGED <<chain_vars, dbCursor, handled, origin, truncated>>

----------------------------------------------------------------------------
PollStep ==
    \/ GetLatestLedger
    \/ \E ok \in BOOLEAN : GetCursor(ok)
    \/ GetEvents
    \/ HandleEvent
    \/ SaveCursor
    \/ \E ok \in BOOLEAN : CursorStored(ok)
    \/ RpcFails

IndexerNext ==
    \/ \E n \in 0..MaxEvents : CloseLedger(n)
    \/ PollStep
    \/ Crash

\* start schedules the next poll in a finally block, whatever became of the
\* last one, and every await of a poll settles: the poller never stays where it
\* is.  The node does not fail every request for ever.
IndexerFairness ==
    /\ WF_indexer_vars(PollStep)
    /\ SF_indexer_vars(GetEvents)

IndexerSpec == IndexerInit /\ [][IndexerNext]_indexer_vars

FairIndexerSpec == IndexerSpec /\ IndexerFairness

----------------------------------------------------------------------------
Handled == {handled[i] : i \in DOMAIN handled}

\* The cursor never passes an event that was not handled, in memory or in the
\* database, whichever of them was lost, out of reach or behind, and however
\* far the chain advanced during the poll.  Two cases are not the cursor's: the
\* ledgers before the lookback of a poll that found no cursor (the first one, or
\* one after a crash with nothing stored or the database out of reach), and an
\* answer that was cut (see EmittedEventsAreRecorded).
CursorPassesNoEvent ==
    ~truncated =>
        \A n \in DOMAIN log :
            /\ origin <= log[n]
            /\ log[n] <= memoryCursor \/ log[n] <= dbCursor
            => n \in Handled

\* As long as the process and the database hold, no event is handled twice or
\* out of order, though failed requests are retried from the saved cursor.
HandledOnceInOrder ==
    faults = 0 =>
        \A i, j \in DOMAIN handled : i < j => handled[i] < handled[j]

\* Every event is handled in the end, after any finite number of crashes and
\* failed calls, except for the two cases of CursorPassesNoEvent.
EventuallyHandled ==
    \A n \in 1..(MaxLedger * MaxEvents) :
        n \in DOMAIN log ~>
            \/ n \in Handled
            \/ truncated
            \/ n \in DOMAIN log /\ log[n] < origin

\* The off-chain indexer records the events the contracts emit
\* (docs/architecture/data-flow.md): with no fault at all, an event at or below
\* the stored cursor has been handled.  An answer cut at PageLimit loses the
\* rest, since the node's latest ledger is saved and its paging cursor, saved
\* next to it, is never used.
EmittedEventsAreRecorded ==
    faults = 0 /\ Lookback >= MaxLedger =>
        \A n \in DOMAIN log : log[n] <= dbCursor => n \in Handled
============================================================================
