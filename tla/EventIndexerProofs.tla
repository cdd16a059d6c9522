------------------------- MODULE EventIndexerProofs -------------------------
(***************************************************************************)
(* Theorems about the indexer's poller, for every lookback, page size,     *)
(* number of ledgers, events and faults: its cursor passes no event that   *)
(* was not handled, and without a fault every event is handled at most     *)
(* once and in order.                                                      *)
(*                                                                         *)
(* Neither property is inductive.  What a poll knows between two of its    *)
(* awaits is what carries them: which events come before the page it asked *)
(* for (NothingPassed), where the page starts and ends in the log          *)
(* (PollInOrder), and that the log is sorted by ledger (LogSorted).        *)
(***************************************************************************)
EXTENDS EventIndexer, FiniteSetTheorems, WellFoundedInduction, TLAPS

\* Events are logged in the order of their ledgers.
LogSorted == \A i, j \in DOMAIN log : i <= j => log[i] <= log[j]

\* What the local variables of a poll say about the log.
PollInOrder ==
    /\ poll.latest <= head
    /\ poll.at = "fetching" => poll.start <= head + 1
    /\ poll.at = "handling" =>
         /\ poll.next \in 1..(poll.last + 1)
         /\ poll.last <= Len(log)
         /\ \A n \in 1..poll.last : log[n] <= poll.latest
    /\ origin <= FirstStart(head)
    /\ poll.at = "asked" => origin <= FirstStart(poll.latest)

\* The events of the ledgers up to this one have been handled.
HandledUpTo(ledger) ==
    \A n \in DOMAIN log : origin <= log[n] /\ log[n] <= ledger => n \in Handled

\* Nothing is left behind by a cursor, by the start of the page asked for, or
\* by the next event of the page being handled, and the page goes up to the
\* ledger that is saved when it ends.
NothingPassed ==
    ~truncated =>
        /\ HandledUpTo(memoryCursor)
        /\ HandledUpTo(dbCursor)
        /\ poll.at = "fetching" => HandledUpTo(poll.start - 1)
        /\ poll.at = "handling" =>
             /\ \A n \in DOMAIN log :
                    origin <= log[n] /\ n < poll.next => n \in Handled
             /\ \A n \in DOMAIN log : log[n] <= poll.latest => n <= poll.last

\* Without a fault both cursors agree between polls, and what is to come is
\* after what was handled.
InOrderSoFar ==
    faults = 0 =>
        /\ \A i, j \in DOMAIN handled : i < j => handled[i] < handled[j]
        /\ poll.at \in {"waiting", "asked", "fetching"} => dbCursor = memoryCursor
        /\ poll.at # "handling" => \A n \in Handled : log[n] <= memoryCursor
        /\ poll.at = "fetching" => \A n \in Handled : log[n] < poll.start
        /\ poll.at = "handling" => \A n \in Handled : n < poll.next

IndexerInv ==
    /\ IndexerTypeOK
    /\ LogSorted
    /\ PollInOrder
    /\ NothingPassed
    /\ InOrderSoFar

----------------------------------------------------------------------------
\* A set of naturals that is not empty has a least member.
LEMMA LeastNumber ==
    ASSUME NEW T, T \subseteq Nat, T # {}
    PROVE  \E n \in T : \A k \in T : n <= k
<1> DEFINE R == {p \in Nat \X Nat : p[1] < p[2]}
<1>1. IsWellFoundedOn(R, Nat)
  BY NatLessThanWellFounded DEF OpToRel
<1>2. PICK n \in T : \A k \in T : ~(<<k, n>> \in R)
  <2> HIDE DEF R
  <2> QED
    BY <1>1, WFMin
<1>3. \A k \in T : ~(k < n)
  BY <1>2
<1> QED
  BY <1>3

\* In a sorted log the events of the earlier ledgers come first: as many as
\* there are.  This is what makes the page start where getEvents cuts it.
LEMMA EarlierEventsComeFirst ==
    ASSUME NEW s \in Seq(Nat), NEW ledger \in Nat,
           \A i, j \in DOMAIN s : i <= j => s[i] <= s[j]
    PROVE  LET earlier == {n \in DOMAIN s : s[n] < ledger}
           IN  /\ Cardinality(earlier) \in 0..Len(s)
               /\ earlier = 1..Cardinality(earlier)
<1> DEFINE earlier == {n \in DOMAIN s : s[n] < ledger}
           Late == {n \in 1..(Len(s) + 1) : n = Len(s) + 1 \/ s[n] >= ledger}
<1>1. Len(s) \in Nat /\ DOMAIN s = 1..Len(s) /\ \A n \in DOMAIN s : s[n] \in Nat
  OBVIOUS
<1>2. Len(s) + 1 \in Late /\ Late \subseteq Nat
  BY <1>1
<1>3. PICK m \in Late : \A k \in Late : m <= k
  BY <1>2, LeastNumber
<1>4. m \in Nat /\ 1 <= m /\ m <= Len(s) + 1
  BY <1>1, <1>3
<1>5. ASSUME NEW n \in 1..(m - 1) PROVE n \in earlier
  BY <1>1, <1>3, <1>4
<1>6. ASSUME NEW n \in earlier PROVE n \in 1..(m - 1)
  <2>1. CASE m = Len(s) + 1
    BY <1>1, <2>1
  <2>2. CASE m # Len(s) + 1
    <3>1. m \in DOMAIN s /\ s[m] >= ledger
      BY <1>1, <1>3, <1>4, <2>2
    <3>2. n \in DOMAIN s /\ s[n] < ledger
      OBVIOUS
    <3>3. m <= n => s[m] <= s[n]
      BY <3>1, <3>2
    <3> QED
      BY <1>1, <1>4, <3>1, <3>2, <3>3
  <2> QED
    BY <2>1, <2>2
<1>7. earlier = 1..(m - 1)
  BY <1>5, <1>6
<1>8. Cardinality(1..(m - 1)) = m - 1
  BY <1>4, FS_Interval
<1>9. Cardinality(earlier) = m - 1 /\ m - 1 \in 0..Len(s)
  <2> HIDE DEF earlier
  <2> QED
    BY <1>1, <1>4, <1>7, <1>8
<1>10. Cardinality(earlier) \in 0..Len(s) /\ earlier = 1..Cardinality(earlier)
  <2> HIDE DEF earlier
  <2> QED
    BY <1>7, <1>9
<1> QED
  BY <1>10

\* A first poll starts in a ledger there is, and later ones not earlier.
LEMMA FirstStartInRange ==
    ASSUME NEW latest \in Nat \ {0}
    PROVE  FirstStart(latest) \in 1..latest
BY IndexerAssumption DEF FirstStart

LEMMA FirstStartGrows ==
    ASSUME NEW latest \in Nat, NEW later \in Nat, latest <= later
    PROVE  FirstStart(latest) <= FirstStart(later)
BY IndexerAssumption DEF FirstStart

\* What type correctness says of the numbers.
LEMMA IndexerNumbers ==
    ASSUME IndexerTypeOK
    PROVE  /\ head \in Nat /\ 1 <= head /\ head <= MaxLedger /\ MaxLedger \in Nat
           /\ log \in Seq(Nat) /\ Len(log) \in Nat /\ DOMAIN log = 1..Len(log)
           /\ \A n \in DOMAIN log : log[n] \in Nat /\ 1 <= log[n] /\ log[n] <= head
           /\ memoryCursor \in Nat /\ memoryCursor <= head
           /\ dbCursor \in Nat /\ dbCursor <= head
           /\ origin \in Nat /\ origin <= head
           /\ faults \in Nat /\ faults <= MaxFaults /\ MaxFaults \in Nat
           /\ poll.start \in Nat /\ poll.latest \in Nat
           /\ poll.next \in Nat /\ poll.last \in Nat
           /\ poll.at \in {"waiting", "asked", "fetching", "handling", "saving"}
           /\ Handled \subseteq DOMAIN log
<1>1. head \in Nat /\ 1 <= head /\ head <= MaxLedger /\ MaxLedger \in Nat
  BY IndexerAssumption DEF IndexerTypeOK
<1>2. /\ log \in Seq(1..head) /\ 1..head \subseteq Nat
      /\ Len(log) \in Nat /\ DOMAIN log = 1..Len(log)
  BY <1>1 DEF IndexerTypeOK
<1>3. \A n \in DOMAIN log : log[n] \in 1..head
  <2> DEFINE Ledgers == 1..head
  <2>1. log \in Seq(Ledgers)
    BY <1>2
  <2> HIDE DEF Ledgers
  <2>2. \A n \in DOMAIN log : log[n] \in Ledgers
    BY <2>1
  <2> QED
    BY <2>2 DEF Ledgers
<1>4. log \in Seq(Nat)
  BY <1>2, <1>3
<1>5. Handled \subseteq DOMAIN log
  BY <1>2 DEF IndexerTypeOK, Handled
<1>6. /\ poll.start \in Nat /\ poll.latest \in Nat
      /\ poll.next \in Nat /\ poll.last \in Nat
      /\ poll.at \in {"waiting", "asked", "fetching", "handling", "saving"}
  BY DEF IndexerTypeOK, Poll
<1> QED
  BY <1>1, <1>2, <1>3, <1>4, <1>5, <1>6, IndexerAssumption DEF IndexerTypeOK

----------------------------------------------------------------------------
LEMMA IndexerInitInv == IndexerInit => IndexerInv
<1> SUFFICES ASSUME IndexerInit PROVE IndexerInv
  OBVIOUS
<1> USE IndexerAssumption DEF IndexerInit
<1>1. IndexerTypeOK
  <2>1. poll \in Poll
    BY DEF Poll, Waiting
  <2>2. log \in Seq(1..head) /\ handled \in Seq(1..Len(log))
    OBVIOUS
  <2>3. /\ head \in 1..MaxLedger
        /\ memoryCursor \in 0..head /\ dbCursor \in 0..head /\ origin \in 0..head
        /\ faults \in 0..MaxFaults
    <3>1. /\ head = 1 /\ memoryCursor = 0 /\ dbCursor = 0 /\ origin = 0
          /\ faults = 0
      BY DEF IndexerInit
    <3>2. MaxLedger \in Nat \ {0} /\ MaxFaults \in Nat
      BY IndexerAssumption
    <3> HIDE IndexerAssumption DEF IndexerInit
    <3> QED
      BY <3>1, <3>2
  <2>4. truncated \in BOOLEAN
    OBVIOUS
  <2> HIDE DEF IndexerInit
  <2> QED
    BY <2>1, <2>2, <2>3, <2>4 DEF IndexerTypeOK
<1>2. PollInOrder
  BY DEF PollInOrder, Waiting, FirstStart
<1>3. LogSorted /\ NothingPassed /\ InOrderSoFar
  BY DEF LogSorted, NothingPassed, HandledUpTo, InOrderSoFar, Handled, Waiting
<1> QED
  BY <1>1, <1>2, <1>3 DEF IndexerInv

----------------------------------------------------------------------------
\* A ledger that closes only appends events of a ledger no poll has seen.
LEMMA CloseLedgerKeepsInv ==
    ASSUME IndexerInv, NEW n \in 0..MaxEvents, CloseLedger(n)
    PROVE  IndexerInv'
<1> DEFINE new == [i \in 1..n |-> head + 1]
<1> USE DEF IndexerInv
<1>1. n \in Nat
  BY IndexerAssumption
<1>2. /\ head' = head + 1 /\ head < MaxLedger /\ log' = log \o new
      /\ memoryCursor' = memoryCursor /\ dbCursor' = dbCursor /\ poll' = poll
      /\ handled' = handled /\ faults' = faults /\ origin' = origin
      /\ truncated' = truncated
  BY DEF CloseLedger, cursor_vars, history_vars
<1>3. new \in Seq(Nat) /\ Len(new) = n /\ \A i \in 1..n : new[i] = head + 1
  BY <1>1, IndexerNumbers
<1>4. /\ Len(log') = Len(log) + n /\ DOMAIN log' = 1..(Len(log) + n)
      /\ \A i \in DOMAIN log : log'[i] = log[i]
      /\ \A i \in DOMAIN log' : i \notin DOMAIN log => log'[i] = head + 1
      /\ DOMAIN log \subseteq DOMAIN log'
  <2> HIDE DEF new
  <2>1. /\ log' = log \o new /\ log \in Seq(Nat) /\ new \in Seq(Nat)
        /\ Len(log) \in Nat /\ DOMAIN log = 1..Len(log)
    BY <1>2, <1>3, IndexerNumbers
  <2> QED
    BY <1>1, <1>3, <2>1
<1>5. Handled' = Handled /\ Handled \subseteq DOMAIN log
  BY <1>2, IndexerNumbers DEF Handled
<1>6. /\ head \in Nat /\ Len(log) \in Nat /\ DOMAIN log = 1..Len(log)
      /\ \A i \in DOMAIN log : log[i] \in Nat /\ 1 <= log[i] /\ log[i] <= head
  BY IndexerNumbers
<1>7. ASSUME NEW i \in DOMAIN log'
      PROVE  \/ i \in DOMAIN log /\ log'[i] = log[i]
             \/ i > Len(log) /\ log'[i] = head + 1
  BY <1>1, <1>4, <1>6
<1>8. IndexerTypeOK'
  <2>1. log' \in Seq(1..head')
    <3>1. ASSUME NEW i \in DOMAIN log' PROVE log'[i] \in 1..head'
      BY <1>2, <1>7, <1>6
    <3>2. log' \in Seq(Nat)
      <4> HIDE DEF new
      <4> QED
        BY <1>2, <1>3, IndexerNumbers
    <3> DEFINE Ledgers == 1..head'
    <3>3. \A i \in 1..Len(log') : log'[i] \in Ledgers
      BY <3>1, <1>4
    <3> HIDE DEF Ledgers
    <3>4. log' \in Seq(Ledgers)
      BY <3>2, <3>3
    <3> QED
      BY <3>4 DEF Ledgers
  <2>2. handled' \in Seq(1..Len(log'))
    <3>1. 1..Len(log) \subseteq 1..Len(log')
      BY <1>1, <1>4, IndexerNumbers
    <3> QED
      BY <1>2, <3>1 DEF IndexerTypeOK
  <2>3. /\ head' \in 1..MaxLedger
        /\ memoryCursor' \in 0..head' /\ dbCursor' \in 0..head' /\ origin' \in 0..head'
    BY <1>2, IndexerNumbers
  <2> QED
    BY <1>2, <2>1, <2>2, <2>3 DEF IndexerTypeOK
<1>9. LogSorted'
  <2>1. ASSUME NEW i \in DOMAIN log', NEW j \in DOMAIN log', i <= j
        PROVE  log'[i] <= log'[j]
    <3>1. i \in Nat /\ j \in Nat
      BY <1>1, <1>4, <1>6
    <3>2. CASE i \in DOMAIN log /\ j \in DOMAIN log
      BY <1>4, <2>1, <3>2 DEF LogSorted
    <3>3. CASE i \in DOMAIN log /\ j \notin DOMAIN log
      BY <1>4, <1>6, <3>3
    <3>4. CASE i \notin DOMAIN log
      BY <1>7, <1>6, <2>1, <3>1, <3>4
    <3> QED
      BY <3>2, <3>3, <3>4
  <2> QED
    BY <2>1 DEF LogSorted
<1>10. PollInOrder'
  <2>1. FirstStart(head) <= FirstStart(head')
    BY <1>2, IndexerNumbers, FirstStartGrows
  <2>2. FirstStart(head) \in Nat /\ FirstStart(head') \in Nat
    BY <1>2, IndexerNumbers, IndexerAssumption DEF FirstStart
  <2>3. origin <= FirstStart(head) /\ poll.latest <= head
    BY DEF PollInOrder
  <2>4. origin' <= FirstStart(head)' /\ poll'.latest <= head'
    BY <1>2, <2>1, <2>2, <2>3, IndexerNumbers DEF FirstStart
  <2>5. poll'.at = "fetching" => poll'.start <= head' + 1
    BY <1>2, IndexerNumbers DEF PollInOrder
  <2>6. ASSUME poll'.at = "handling"
        PROVE  /\ poll'.next \in 1..(poll'.last + 1)
               /\ poll'.last <= Len(log')
               /\ \A i \in 1..poll'.last : log'[i] <= poll'.latest
    <3>1. /\ poll.next \in 1..(poll.last + 1)
          /\ poll.last <= Len(log) /\ poll.last \in Nat
          /\ \A i \in 1..poll.last : log[i] <= poll.latest
      BY <1>2, <2>6, IndexerNumbers DEF PollInOrder
    <3> QED
      BY <1>1, <1>2, <1>4, <1>6, <3>1
  <2>7. poll'.at = "asked" => origin' <= FirstStart(poll.latest)'
    BY <1>2 DEF PollInOrder, FirstStart
  <2> QED
    BY <2>4, <2>5, <2>6, <2>7 DEF PollInOrder
<1>11. NothingPassed'
  <2> SUFFICES ASSUME ~truncated'
               PROVE  /\ HandledUpTo(memoryCursor)' /\ HandledUpTo(dbCursor)'
                      /\ poll'.at = "fetching" => HandledUpTo(poll.start - 1)'
                      /\ poll'.at = "handling" =>
                           /\ \A i \in DOMAIN log' :
                                  origin' <= log'[i] /\ i < poll'.next => i \in Handled'
                           /\ \A i \in DOMAIN log' :
                                  log'[i] <= poll'.latest => i <= poll'.last
    BY DEF NothingPassed
  <2>2. ~truncated
    BY <1>2
  <2>1. ASSUME NEW ledger \in Int, ledger <= head,
               \A i \in DOMAIN log :
                   origin <= log[i] /\ log[i] <= ledger => i \in Handled
        PROVE  \A i \in DOMAIN log' :
                   origin <= log'[i] /\ log'[i] <= ledger => i \in Handled'
    BY <1>7, <1>5, <1>6, <2>1
  <2>3. HandledUpTo(memoryCursor)' /\ HandledUpTo(dbCursor)'
    <3>1. /\ memoryCursor \in Int /\ memoryCursor <= head
          /\ dbCursor \in Int /\ dbCursor <= head
      BY IndexerNumbers
    <3>2. HandledUpTo(memoryCursor)'
      BY <1>2, <2>1, <2>2, <3>1 DEF HandledUpTo, NothingPassed
    <3>3. HandledUpTo(dbCursor)'
      BY <1>2, <2>1, <2>2, <3>1 DEF HandledUpTo, NothingPassed
    <3> QED
      BY <3>2, <3>3
  <2>4. ASSUME poll'.at = "fetching" PROVE HandledUpTo(poll.start - 1)'
    <3> DEFINE upTo == poll.start - 1
    <3>1. HandledUpTo(upTo) /\ upTo \in Int /\ upTo <= head /\ poll'.start - 1 = upTo
      BY <1>2, <2>2, <2>4, IndexerNumbers DEF NothingPassed, PollInOrder
    <3> HIDE DEF upTo
    <3> QED
      BY <1>2, <2>1, <3>1 DEF HandledUpTo
  <2>5. ASSUME poll'.at = "handling"
        PROVE  /\ \A i \in DOMAIN log' :
                      origin' <= log'[i] /\ i < poll'.next => i \in Handled'
               /\ \A i \in DOMAIN log' : log'[i] <= poll'.latest => i <= poll'.last
    <3>1. /\ poll.next \in 1..(poll.last + 1) /\ poll.last <= Len(log)
          /\ poll.latest <= head /\ poll.latest \in Nat /\ poll.last \in Nat
      BY <1>2, <2>5, IndexerNumbers DEF PollInOrder
    <3>2. /\ \A i \in DOMAIN log : origin <= log[i] /\ i < poll.next => i \in Handled
          /\ \A i \in DOMAIN log : log[i] <= poll.latest => i <= poll.last
      BY <1>2, <2>2, <2>5 DEF NothingPassed
    <3>3. ASSUME NEW i \in DOMAIN log', origin' <= log'[i], i < poll'.next
          PROVE  i \in Handled'
      BY <1>2, <1>7, <1>5, <1>6, <3>1, <3>2, <3>3
    <3>4. ASSUME NEW i \in DOMAIN log', log'[i] <= poll'.latest
          PROVE  i <= poll'.last
      BY <1>2, <1>7, <1>5, <1>6, <3>1, <3>2, <3>4
    <3> QED
      BY <3>3, <3>4
  <2> QED
    BY <2>3, <2>4, <2>5
<1>12. InOrderSoFar'
  BY <1>2, <1>4, <1>5, IndexerNumbers DEF InOrderSoFar
<1> QED
  BY <1>8, <1>9, <1>10, <1>11, <1>12

\* Steps that end a poll, or start one, without a cursor being written.
LEMMA GetLatestLedgerKeepsInv ==
    ASSUME IndexerInv, GetLatestLedger
    PROVE  IndexerInv'
<1> USE DEF IndexerInv
<1>1. /\ head' = head /\ log' = log
      /\ memoryCursor' = memoryCursor /\ dbCursor' = dbCursor
      /\ handled' = handled /\ faults' = faults /\ origin' = origin
      /\ truncated' = truncated /\ Handled' = Handled
  BY DEF GetLatestLedger, chain_vars, cursor_vars, history_vars, Handled
<1>2. /\ poll.at = "waiting" /\ poll'.at = "asked" /\ poll'.latest = head
      /\ poll' \in Poll
  BY IndexerNumbers DEF GetLatestLedger, Poll, IndexerTypeOK
<1>3. IndexerTypeOK' /\ LogSorted'
  BY <1>1, <1>2 DEF IndexerTypeOK, LogSorted
<1>4. PollInOrder' /\ NothingPassed' /\ InOrderSoFar'
  BY <1>1, <1>2, IndexerNumbers
     DEF PollInOrder, NothingPassed, HandledUpTo, InOrderSoFar
<1> QED
  BY <1>3, <1>4

LEMMA RpcFailsKeepsInv ==
    ASSUME IndexerInv, RpcFails
    PROVE  IndexerInv'
<1> USE DEF IndexerInv
<1>1. /\ head' = head /\ log' = log
      /\ memoryCursor' = memoryCursor /\ dbCursor' = dbCursor
      /\ handled' = handled /\ faults' = faults /\ origin' = origin
      /\ truncated' = truncated /\ Handled' = Handled
  BY DEF RpcFails, chain_vars, cursor_vars, history_vars, Handled
<1>2. /\ poll.at = "fetching" /\ poll'.at = "waiting" /\ poll'.latest = 0
      /\ poll' \in Poll
  BY DEF RpcFails, Waiting, Poll
<1>3. IndexerTypeOK' /\ LogSorted'
  BY <1>1, <1>2 DEF IndexerTypeOK, LogSorted
<1>4. PollInOrder' /\ NothingPassed' /\ InOrderSoFar'
  BY <1>1, <1>2, IndexerNumbers
     DEF PollInOrder, NothingPassed, HandledUpTo, InOrderSoFar
<1> QED
  BY <1>3, <1>4

LEMMA CrashKeepsInv ==
    ASSUME IndexerInv, Crash
    PROVE  IndexerInv'
<1> USE DEF IndexerInv
<1>1. /\ head' = head /\ log' = log
      /\ memoryCursor' = 0 /\ dbCursor' = dbCursor
      /\ handled' = handled /\ faults' = faults + 1 /\ faults < MaxFaults
      /\ origin' = origin /\ truncated' = truncated /\ Handled' = Handled
  BY DEF Crash, chain_vars, Handled
<1>2. poll'.at = "waiting" /\ poll'.latest = 0 /\ poll' \in Poll
  BY DEF Crash, Waiting, Poll
<1>3. IndexerTypeOK' /\ LogSorted'
  <2>1. memoryCursor' \in 0..head' /\ faults' \in 0..MaxFaults
    BY <1>1, IndexerNumbers
  <2> QED
    BY <1>1, <1>2, <2>1 DEF IndexerTypeOK, LogSorted
<1>4. PollInOrder' /\ NothingPassed' /\ InOrderSoFar'
  BY <1>1, <1>2, IndexerNumbers
     DEF PollInOrder, NothingPassed, HandledUpTo, InOrderSoFar
<1> QED
  BY <1>3, <1>4

\* The start of the next page follows from the cursor read: from the first
\* ledgers of the lookback without one, else from the ledger after it.
LEMMA GetCursorKeepsInv ==
    ASSUME IndexerInv, NEW queryOK \in BOOLEAN, GetCursor(queryOK)
    PROVE  IndexerInv'
<1> DEFINE cursor == CursorRead(queryOK)
<1> USE DEF IndexerInv
<1>1. /\ head' = head /\ log' = log
      /\ memoryCursor' = memoryCursor /\ dbCursor' = dbCursor
      /\ handled' = handled /\ truncated' = truncated /\ Handled' = Handled
      /\ origin' = IF cursor = 0 THEN FirstStart(poll.latest) ELSE origin
  BY DEF GetCursor, chain_vars, cursor_vars, Handled
<1>2. /\ poll.at = "asked" /\ poll'.at = "fetching" /\ poll'.latest = poll.latest
      /\ poll'.start = StartLedger(cursor, poll.latest)
      /\ poll'.next = poll.next /\ poll'.last = poll.last
  BY DEF GetCursor, IndexerTypeOK, Poll
<1>3. /\ cursor \in {memoryCursor, dbCursor} /\ cursor \in Nat /\ cursor <= head
  BY IndexerNumbers DEF CursorRead
<1>4. /\ faults' \in 0..MaxFaults
      /\ faults' = 0 => faults = 0 /\ queryOK
  BY IndexerNumbers DEF GetCursor, DatabaseCall
<1>5. /\ FirstStart(poll.latest) \in Nat /\ 1 <= FirstStart(poll.latest)
      /\ FirstStart(head) \in Nat /\ FirstStart(head) <= head
      /\ FirstStart(poll.latest) <= FirstStart(head)
      /\ origin <= FirstStart(head) /\ origin <= FirstStart(poll.latest)
  <2>1. FirstStart(head) \in 1..head
    BY IndexerNumbers, FirstStartInRange
  <2>2. poll.latest <= head /\ origin <= FirstStart(head)
        /\ origin <= FirstStart(poll.latest)
    BY <1>2 DEF PollInOrder
  <2>3. FirstStart(poll.latest) \in Nat /\ 1 <= FirstStart(poll.latest)
    BY IndexerNumbers, IndexerAssumption DEF FirstStart
  <2> QED
    BY <2>1, <2>2, <2>3, IndexerNumbers, FirstStartGrows
<1>6. /\ cursor = 0 => poll'.start = FirstStart(poll.latest) /\ origin' = poll'.start
      /\ cursor # 0 => poll'.start = cursor + 1 /\ origin' = origin
  BY <1>1, <1>2, <1>3 DEF StartLedger
<1>7. /\ poll'.start \in Nat /\ 1 <= poll'.start /\ poll'.start <= head + 1
      /\ origin' \in Nat /\ origin <= origin' /\ origin' <= FirstStart(head)
  <2> HIDE DEF cursor
  <2>1. head \in Nat /\ origin \in Nat
    BY IndexerNumbers
  <2>2. CASE cursor = 0
    BY <1>5, <1>6, <2>1, <2>2
  <2>3. CASE cursor # 0
    BY <1>3, <1>5, <1>6, <2>1, <2>3
  <2> QED
    BY <2>2, <2>3
<1>8. IndexerTypeOK' /\ LogSorted'
  <2>1. poll' \in Poll
    BY <1>7 DEF GetCursor, IndexerTypeOK, Poll
  <2>2. origin' \in 0..head'
    BY <1>1, <1>5, <1>7, IndexerNumbers
  <2> QED
    BY <1>1, <1>4, <2>1, <2>2 DEF IndexerTypeOK, LogSorted
<1>9. PollInOrder'
  BY <1>1, <1>2, <1>7, IndexerNumbers DEF PollInOrder, FirstStart
<1>10. NothingPassed'
  <2> SUFFICES ASSUME ~truncated'
               PROVE  /\ HandledUpTo(memoryCursor)' /\ HandledUpTo(dbCursor)'
                      /\ HandledUpTo(poll.start - 1)'
    BY <1>2 DEF NothingPassed
  <2>1. HandledUpTo(memoryCursor) /\ HandledUpTo(dbCursor) /\ HandledUpTo(cursor)
    BY <1>1, <1>3 DEF NothingPassed
  <2>2. HandledUpTo(memoryCursor)' /\ HandledUpTo(dbCursor)'
    <3>1. ASSUME NEW n \in DOMAIN log, origin' <= log[n] PROVE origin <= log[n]
      BY <1>7, <3>1, IndexerNumbers
    <3> QED
      BY <1>1, <2>1, <3>1 DEF HandledUpTo
  <2>3. ASSUME NEW n \in DOMAIN log, origin' <= log[n], log[n] <= poll'.start - 1
        PROVE  n \in Handled
    <3>1. log[n] \in Nat /\ origin \in Nat
      BY IndexerNumbers
    <3>2. cursor # 0
      BY <1>6, <1>7, <2>3, <3>1
    <3>3. origin <= log[n] /\ log[n] <= cursor
      <4> HIDE DEF cursor
      <4> QED
        BY <1>3, <1>6, <1>7, <2>3, <3>1, <3>2
    <3> QED
      BY <2>1, <3>3 DEF HandledUpTo
  <2>4. HandledUpTo(poll.start - 1)'
    BY <1>1, <2>3 DEF HandledUpTo
  <2> QED
    BY <2>2, <2>4
<1>11. InOrderSoFar'
  <2> SUFFICES ASSUME faults' = 0 PROVE InOrderSoFar'
    BY DEF InOrderSoFar
  <2>1. /\ faults = 0 /\ queryOK /\ dbCursor = memoryCursor
        /\ \A n \in Handled : log[n] <= memoryCursor
        /\ \A i, j \in DOMAIN handled : i < j => handled[i] < handled[j]
    BY <1>2, <1>4 DEF InOrderSoFar
  <2>2. cursor = memoryCursor
    BY <2>1 DEF CursorRead
  <2>3. ASSUME NEW n \in Handled PROVE log[n] < poll'.start
    <3>1. log[n] \in Nat /\ 1 <= log[n] /\ log[n] <= memoryCursor /\ memoryCursor \in Nat
      BY <2>1, IndexerNumbers
    <3>2. cursor # 0
      <4> HIDE DEF cursor
      <4> QED
        BY <2>2, <3>1
    <3> HIDE DEF cursor
    <3> QED
      BY <1>6, <2>2, <3>1, <3>2
  <2> QED
    BY <1>1, <1>2, <2>1, <2>3 DEF InOrderSoFar
<1> QED
  BY <1>8, <1>9, <1>10, <1>11

\* The page: it starts at the first event of the ledger asked for, and unless
\* it was cut it goes up to the end of the log.
LEMMA GetEventsKeepsInv ==
    ASSUME IndexerInv, GetEvents
    PROVE  IndexerInv'
<1> USE DEF IndexerInv
<1> DEFINE before == Cardinality({n \in DOMAIN log : log[n] < poll.start})
           first == before + 1
           last  == IF Len(log) < first + PageLimit THEN Len(log)
                    ELSE first + PageLimit - 1
<1>1. /\ head' = head /\ log' = log
      /\ memoryCursor' = memoryCursor /\ dbCursor' = dbCursor
      /\ handled' = handled /\ faults' = faults /\ origin' = origin
      /\ Handled' = Handled /\ truncated' = (truncated \/ last < Len(log))
  BY DEF GetEvents, chain_vars, cursor_vars, Handled
<1>2. /\ poll.at = "fetching" /\ poll'.at = "handling" /\ poll'.latest = head
      /\ poll'.next = first /\ poll'.last = last /\ poll'.start = poll.start
  BY DEF GetEvents, IndexerTypeOK, Poll
<1>3. /\ before \in 0..Len(log)
      /\ \A n \in DOMAIN log : log[n] < poll.start <=> n \in 1..before
  BY IndexerNumbers, EarlierEventsComeFirst DEF LogSorted
<1>4. /\ before \in Nat /\ before <= Len(log) /\ Len(log) \in Nat
      /\ DOMAIN log = 1..Len(log)
      /\ \A n \in DOMAIN log : log[n] < poll.start <=> n < first
  <2> HIDE DEF before
  <2> QED
    BY <1>3, IndexerNumbers
<1>5. /\ first \in Nat /\ last \in Nat /\ first \in 1..(last + 1)
      /\ last <= Len(log)
  <2> HIDE DEF before
  <2> QED
    BY <1>4, IndexerAssumption
<1> HIDE DEF before, first, last
<1>6. IndexerTypeOK' /\ LogSorted'
  <2>1. poll' \in Poll
    BY <1>2, <1>5, IndexerNumbers DEF GetEvents, IndexerTypeOK, Poll
  <2>2. truncated' \in BOOLEAN
    BY <1>1 DEF IndexerTypeOK
  <2> QED
    BY <1>1, <2>1, <2>2 DEF IndexerTypeOK, LogSorted
<1>7. PollInOrder'
  <2>1. \A n \in 1..last : n \in DOMAIN log
    BY <1>4, <1>5
  <2>2. \A n \in 1..last : log[n] <= head
    BY <2>1, IndexerNumbers
  <2> QED
    BY <1>1, <1>2, <1>5, <2>2, IndexerNumbers DEF PollInOrder, FirstStart
<1>8. NothingPassed'
  <2> SUFFICES ASSUME ~truncated' PROVE NothingPassed'
    BY DEF NothingPassed
  <2>1. ~truncated /\ last = Len(log)
    <3>1. ~truncated
      BY <1>1
    <3>2. ~(last < Len(log))
      BY <1>1
    <3>3. last = Len(log)
      <4>1. last \in Nat /\ Len(log) \in Nat /\ last <= Len(log)
        BY <1>4, <1>5
      <4> HIDE DEF IndexerInv
      <4> QED
        BY <3>2, <4>1
    <3> QED
      BY <3>1, <3>3
  <2>2. /\ HandledUpTo(memoryCursor) /\ HandledUpTo(dbCursor)
        /\ HandledUpTo(poll.start - 1)
    BY <1>2, <2>1 DEF NothingPassed
  <2>3. HandledUpTo(memoryCursor)' /\ HandledUpTo(dbCursor)'
    BY <1>1, <2>2 DEF HandledUpTo
  <2>4. ASSUME NEW n \in DOMAIN log, origin <= log[n], n < first
        PROVE  n \in Handled
    <3>1. log[n] <= poll.start - 1
      BY <1>4, <2>4, IndexerNumbers
    <3> QED
      BY <2>2, <2>4, <3>1 DEF HandledUpTo
  <2>5. \A n \in DOMAIN log : n <= last
    BY <1>4, <2>1
  <2> QED
    BY <1>1, <1>2, <2>3, <2>4, <2>5 DEF NothingPassed
<1>9. InOrderSoFar'
  <2> SUFFICES ASSUME faults' = 0 PROVE InOrderSoFar'
    BY DEF InOrderSoFar
  <2>1. /\ faults = 0
        /\ \A i, j \in DOMAIN handled : i < j => handled[i] < handled[j]
        /\ \A n \in Handled : log[n] < poll.start
    BY <1>1, <1>2 DEF InOrderSoFar
  <2>2. \A n \in Handled : n < first
    BY <1>4, <2>1, IndexerNumbers
  <2> QED
    BY <1>1, <1>2, <2>1, <2>2 DEF InOrderSoFar
<1> QED
  BY <1>6, <1>7, <1>8, <1>9
LEMMA HandleEventKeepsInv ==
    ASSUME IndexerInv, HandleEvent
    PROVE  IndexerInv'
<1> USE DEF IndexerInv
<1>1. /\ head' = head /\ log' = log
      /\ memoryCursor' = memoryCursor /\ dbCursor' = dbCursor
      /\ handled' = Append(handled, poll.next) /\ faults' = faults
      /\ origin' = origin /\ truncated' = truncated
  BY DEF HandleEvent, chain_vars, cursor_vars
<1>2. /\ poll.at = "handling" /\ poll'.at = "handling" /\ poll'.latest = poll.latest
      /\ poll'.next = poll.next + 1 /\ poll'.last = poll.last /\ poll' \in Poll
  <2>1. poll \in Poll /\ poll.next + 1 \in Nat
    BY IndexerNumbers DEF IndexerTypeOK
  <2> HIDE DEF IndexerInv
  <2> QED
    BY <2>1 DEF HandleEvent, Poll
<1>3. /\ poll.next \in Nat /\ 1 <= poll.next /\ poll.next <= poll.last
      /\ poll.last \in Nat /\ poll.last <= Len(log)
      /\ Len(log) \in Nat /\ DOMAIN log = 1..Len(log)
      /\ \A n \in 1..poll.last : log[n] <= poll.latest
  BY <1>2, IndexerNumbers DEF HandleEvent, PollInOrder
<1>4. handled \in Seq(Nat) /\ handled \in Seq(1..Len(log))
  <2> DEFINE Places == 1..Len(log)
  <2>1. handled \in Seq(Places) /\ Places \subseteq Nat
    BY DEF IndexerTypeOK
  <2> HIDE DEF Places
  <2>2. \A i \in 1..Len(handled) : handled[i] \in Nat
    <3> HIDE DEF IndexerInv
    <3>1. \A i \in 1..Len(handled) : handled[i] \in Places
      BY <2>1
    <3> QED
      BY <2>1, <3>1
  <2>3. handled \in Seq(Nat)
    BY <2>1, <2>2
  <2> QED
    BY <2>3 DEF IndexerTypeOK
<1>5. /\ Len(handled) \in Nat /\ DOMAIN handled = 1..Len(handled)
      /\ DOMAIN handled' = 1..(Len(handled) + 1)
      /\ \A i \in DOMAIN handled : handled'[i] = handled[i] /\ handled[i] \in Nat
      /\ handled'[Len(handled) + 1] = poll.next
  BY <1>1, <1>3, <1>4
<1>6. Handled' = Handled \cup {poll.next}
  BY <1>5 DEF Handled
<1>7. IndexerTypeOK' /\ LogSorted'
  <2>1. handled' \in Seq(1..Len(log))
    BY <1>1, <1>3, <1>4
  <2> QED
    BY <1>1, <1>2, <2>1 DEF IndexerTypeOK, LogSorted
<1>8. PollInOrder'
  <2>1. poll.next + 1 \in 1..(poll.last + 1)
    BY <1>3
  <2>2. /\ poll.latest <= head /\ origin <= FirstStart(head)
        /\ FirstStart(head)' = FirstStart(head)
    BY <1>1 DEF PollInOrder, FirstStart
  <2> QED
    BY <1>1, <1>2, <1>3, <2>1, <2>2 DEF PollInOrder
<1>9. NothingPassed'
  <2> SUFFICES ASSUME ~truncated' PROVE NothingPassed'
    BY DEF NothingPassed
  <2>1. /\ HandledUpTo(memoryCursor) /\ HandledUpTo(dbCursor)
        /\ \A n \in DOMAIN log : origin <= log[n] /\ n < poll.next => n \in Handled
        /\ \A n \in DOMAIN log : log[n] <= poll.latest => n <= poll.last
    BY <1>1, <1>2 DEF NothingPassed
  <2>2. HandledUpTo(memoryCursor)' /\ HandledUpTo(dbCursor)'
    BY <1>1, <1>6, <2>1 DEF HandledUpTo
  <2>3. ASSUME NEW n \in DOMAIN log, origin <= log[n], n < poll.next + 1
        PROVE  n \in Handled'
    <3>1. n < poll.next \/ n = poll.next
      BY <1>3, <2>3
    <3> QED
      BY <1>6, <2>1, <2>3, <3>1
  <2> QED
    BY <1>1, <1>2, <2>1, <2>2, <2>3 DEF NothingPassed
<1>10. InOrderSoFar'
  <2> SUFFICES ASSUME faults' = 0 PROVE InOrderSoFar'
    BY DEF InOrderSoFar
  <2>1. /\ faults = 0
        /\ \A i, j \in DOMAIN handled : i < j => handled[i] < handled[j]
        /\ \A n \in Handled : n < poll.next
    BY <1>1, <1>2 DEF InOrderSoFar
  <2>2. ASSUME NEW i \in DOMAIN handled', NEW j \in DOMAIN handled', i < j
        PROVE  handled'[i] < handled'[j]
    <3>1. i \in DOMAIN handled
      BY <1>5, <2>2
    <3>2. CASE j \in DOMAIN handled
      BY <1>5, <2>1, <2>2, <3>1, <3>2
    <3>3. CASE j \notin DOMAIN handled
      <4>1. j = Len(handled) + 1
        BY <1>5, <3>3
      <4>2. handled[i] \in Handled
        BY <3>1 DEF Handled
      <4> QED
        BY <1>5, <2>1, <3>1, <4>1, <4>2
    <3> QED
      BY <3>2, <3>3
  <2>3. \A n \in Handled' : n < poll.next + 1
    BY <1>3, <1>6, <2>1, IndexerNumbers
  <2> QED
    BY <1>2, <2>2, <2>3 DEF InOrderSoFar
<1> QED
  BY <1>7, <1>8, <1>9, <1>10

\* The page is done: every event up to the ledger of the answer was handled, and
\* none after it.
LEMMA SaveCursorKeepsInv ==
    ASSUME IndexerInv, SaveCursor
    PROVE  IndexerInv'
<1> USE DEF IndexerInv
<1>1. /\ head' = head /\ log' = log
      /\ memoryCursor' = poll.latest /\ dbCursor' = dbCursor
      /\ handled' = handled /\ faults' = faults /\ origin' = origin
      /\ truncated' = truncated /\ Handled' = Handled
  BY DEF SaveCursor, SavedLedger, chain_vars, history_vars, Handled
<1>2. /\ poll.at = "handling" /\ poll'.at = "saving" /\ poll'.latest = poll.latest
      /\ poll' \in Poll
  BY DEF SaveCursor, IndexerTypeOK, Poll
<1>3. /\ poll.next \in Nat /\ poll.last \in Nat /\ poll.next = poll.last + 1
      /\ poll.latest \in Nat /\ poll.latest <= head
      /\ \A n \in 1..poll.last : log[n] <= poll.latest
      /\ \A n \in DOMAIN log : n \in Nat /\ 1 <= n
  BY <1>2, IndexerNumbers DEF SaveCursor, PollInOrder
<1>4. IndexerTypeOK' /\ LogSorted'
  <2>1. memoryCursor' \in 0..head'
    BY <1>1, <1>3, IndexerNumbers
  <2> QED
    BY <1>1, <1>2, <2>1 DEF IndexerTypeOK, LogSorted
<1>5. PollInOrder'
  BY <1>1, <1>2, <1>3, IndexerNumbers DEF PollInOrder, FirstStart
<1>6. NothingPassed'
  <2> SUFFICES ASSUME ~truncated' PROVE NothingPassed'
    BY DEF NothingPassed
  <2>1. /\ HandledUpTo(dbCursor)
        /\ \A n \in DOMAIN log : origin <= log[n] /\ n < poll.next => n \in Handled
        /\ \A n \in DOMAIN log : log[n] <= poll.latest => n <= poll.last
    BY <1>1, <1>2 DEF NothingPassed
  <2>2. HandledUpTo(dbCursor)'
    BY <1>1, <2>1 DEF HandledUpTo
  <2>3. ASSUME NEW n \in DOMAIN log, origin <= log[n], log[n] <= poll.latest
        PROVE  n \in Handled
    BY <1>3, <2>1, <2>3
  <2>4. HandledUpTo(memoryCursor)'
    BY <1>1, <2>3 DEF HandledUpTo
  <2> QED
    BY <1>2, <2>2, <2>4 DEF NothingPassed
<1>7. InOrderSoFar'
  <2> SUFFICES ASSUME faults' = 0 PROVE InOrderSoFar'
    BY DEF InOrderSoFar
  <2>1. /\ faults = 0
        /\ \A i, j \in DOMAIN handled : i < j => handled[i] < handled[j]
        /\ \A n \in Handled : n < poll.next
    BY <1>1, <1>2 DEF InOrderSoFar
  <2>2. ASSUME NEW n \in Handled PROVE log[n] <= memoryCursor'
    <3>1. n \in DOMAIN log /\ n < poll.next
      BY <2>1, IndexerNumbers
    <3>2. n \in 1..poll.last
      BY <1>3, <3>1
    <3> QED
      BY <1>1, <1>3, <3>2
  <2> QED
    BY <1>1, <1>2, <2>1, <2>2 DEF InOrderSoFar
<1> QED
  BY <1>4, <1>5, <1>6, <1>7

LEMMA CursorStoredKeepsInv ==
    ASSUME IndexerInv, NEW queryOK \in BOOLEAN, CursorStored(queryOK)
    PROVE  IndexerInv'
<1> USE DEF IndexerInv
<1>1. /\ head' = head /\ log' = log
      /\ memoryCursor' = memoryCursor
      /\ dbCursor' = IF queryOK THEN memoryCursor ELSE dbCursor
      /\ handled' = handled /\ origin' = origin
      /\ truncated' = truncated /\ Handled' = Handled
  BY DEF CursorStored, chain_vars, Handled
<1>2. /\ poll.at = "saving" /\ poll'.at = "waiting" /\ poll'.latest = 0
      /\ poll' \in Poll
  BY DEF CursorStored, Waiting, Poll
<1>3. /\ faults' \in 0..MaxFaults
      /\ faults' = 0 => faults = 0 /\ queryOK
  BY IndexerNumbers DEF CursorStored, DatabaseCall
<1>4. IndexerTypeOK' /\ LogSorted'
  BY <1>1, <1>2, <1>3 DEF IndexerTypeOK, LogSorted
<1>5. PollInOrder'
  BY <1>1, <1>2, IndexerNumbers DEF PollInOrder, FirstStart
<1>6. NothingPassed' /\ InOrderSoFar'
  BY <1>1, <1>2, <1>3 DEF NothingPassed, HandledUpTo, InOrderSoFar
<1> QED
  BY <1>4, <1>5, <1>6

----------------------------------------------------------------------------
LEMMA IndexerStutters ==
    ASSUME IndexerInv, UNCHANGED indexer_vars
    PROVE  IndexerInv'
BY DEF IndexerInv, IndexerTypeOK, LogSorted, PollInOrder, NothingPassed,
   HandledUpTo, InOrderSoFar, Handled, FirstStart, indexer_vars, chain_vars,
   cursor_vars, history_vars

LEMMA IndexerNextKeepsInv ==
    IndexerInv /\ [IndexerNext]_indexer_vars => IndexerInv'
<1> SUFFICES ASSUME IndexerInv, [IndexerNext]_indexer_vars PROVE IndexerInv'
  OBVIOUS
<1>1. CASE \E n \in 0..MaxEvents : CloseLedger(n)
  BY <1>1, CloseLedgerKeepsInv
<1>2. CASE PollStep
  BY <1>2, GetLatestLedgerKeepsInv, GetCursorKeepsInv, GetEventsKeepsInv,
     HandleEventKeepsInv, SaveCursorKeepsInv, CursorStoredKeepsInv, RpcFailsKeepsInv
     DEF PollStep
<1>3. CASE Crash
  BY <1>3, CrashKeepsInv
<1>4. CASE UNCHANGED indexer_vars
  BY <1>4, IndexerStutters
<1> QED
  BY <1>1, <1>2, <1>3, <1>4 DEF IndexerNext

LEMMA IndexerAlwaysInv == IndexerSpec => []IndexerInv
<1>1. IndexerInit => IndexerInv
  BY IndexerInitInv
<1>2. IndexerInv /\ [IndexerNext]_indexer_vars => IndexerInv'
  BY IndexerNextKeepsInv
<1> QED
  BY <1>1, <1>2, PTL DEF IndexerSpec

\* Every variable of the poller keeps to its type: no page, cursor or event
\* number leaves the log or the ledgers there are.  None of the three theorems
\* needs the fairness of FairIndexerSpec, so each states both specifications.
THEOREM IndexerTypeCorrect == IndexerSpec \/ FairIndexerSpec => []IndexerTypeOK
<1>1. IndexerInv => IndexerTypeOK
  BY DEF IndexerInv
<1> QED
  BY <1>1, IndexerAlwaysInv, PTL DEF FairIndexerSpec

\* The stored cursor never passes an event that was not handled, whatever
\* crashes, failed calls and ledgers closing there are between the awaits of
\* pollOnce, unless an answer of the node was cut.
THEOREM NoEventIsPassed == IndexerSpec \/ FairIndexerSpec => []CursorPassesNoEvent
<1>1. IndexerInv => CursorPassesNoEvent
  BY DEF IndexerInv, NothingPassed, HandledUpTo, CursorPassesNoEvent
<1> QED
  BY <1>1, IndexerAlwaysInv, PTL DEF FairIndexerSpec

\* Without a crash or a failed call of the database, the handlers get every
\* event at most once and in the order of the log.
THEOREM EventsInOrder == IndexerSpec \/ FairIndexerSpec => []HandledOnceInOrder
<1>1. IndexerInv => HandledOnceInOrder
  BY DEF IndexerInv, InOrderSoFar, HandledOnceInOrder
<1> QED
  BY <1>1, IndexerAlwaysInv, PTL DEF FairIndexerSpec
============================================================================
