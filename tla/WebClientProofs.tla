--------------------------- MODULE WebClientProofs ---------------------------
(***************************************************************************)
(* Theorems about the web application's calls, for any number of calls,    *)
(* refreshes, accounts and transactions: a call in doubt is not applied    *)
(* twice behind the user's back, the one status and the one loading flag   *)
(* say what they should while the account stays, and a position on display *)
(* includes what was reported as done.                                     *)
(*                                                                         *)
(* The inductive invariant has one part per question.  CallsInOrder: what  *)
(* each call knows of the ledger at each await.  NumbersInOrder: how the   *)
(* sequence numbers of two calls order what they saw.  Alone: that nothing *)
(* else runs while a call or a refresh does, until the account changes     *)
(* under it.  ReadsInOrder: what an answer on its way includes.            *)
(***************************************************************************)
EXTENDS WebClient, FiniteSetTheorems, TLAPS

\* Before sendTransaction is called.
Unsent == {"idle", "building", "simulating", "signing", "sending"}

\* Where a call is, against its transaction on the ledger and its refresh.
CallInOrder(c) ==
    /\ call[c].at # "idle" => call[c].account \in Accounts
    /\ call[c].at \in {"idle", "building"} =>
         call[c].seq = 0 /\ call[c].verdict = "none"
    /\ call[c].at \in Unsent => tx[c] = "none"
    /\ call[c].at \notin {"idle", "building", "ended"} => call[c].seq > 0
    /\ tx[c] # "none" => call[c].seq > 0
    /\ call[c].seq > 0 =>
         /\ call[c].account \in Accounts
         /\ call[c].seq <= sequence[call[c].account] + 1
    /\ c \in Landed => call[c].seq <= sequence[call[c].account]
    /\ call[c].verdict = "successful" => tx[c] = "success"
    /\ call[c].verdict = "refused" => tx[c] = "failed"
    /\ load[c].at # "idle" => call[c].at = "refreshing"
    /\ call[c].at = "refreshing" => load[c].at # "idle"
    /\ load[c].at # "idle" => load[c].account = call[c].account

CallsInOrder == \A c \in Calls : CallInOrder(c)

\* Of two calls of an account, the one with the higher number saw the other one
\* if that landed; no two that landed have the same number.
SawEarlier(c, d) ==
    c # d /\ call[c].account = call[d].account /\ c \in Landed =>
        /\ call[c].seq < call[d].seq => c \in call[d].seen
        /\ d \in Landed => call[c].seq # call[d].seq

NumbersInOrder == \A c, d \in Calls : SawEarlier(c, d)

\* The calls and the refreshes of effects; the refresh of a call is its last step.
Busy == CallsUnderWay \cup {r \in Loads : load[r].at # "idle"}

\* Whose position is on display at rest; without a viewer it may be anybody's.
ShownIsTheirs ==
    /\ address # NoAccount => shown # NoPosition /\ shown.account = address
    /\ address = NoAccount /\ ADMIN_ADDRESS # NoAccount => shown = NoPosition

Alone ==
    ~disturbed =>
        /\ \A r, s \in Busy : r = s
        /\ \A r \in Busy : isLoading
        /\ \A c \in CallsUnderWay : c = newest /\ call[c].account = address
        /\ \A r \in LoadsUnderWay : load[r].account = address
        /\ status = "successful" /\ newest # NoCall => tx[newest] = "success"
        /\ ~stale /\ LoadsUnderWay = {} => ShownIsTheirs

\* What an answer read from the ledger includes: all that was reported so far.
ReadIncludes(r, c) ==
    /\ load[r].at = "read"
    /\ call[c].verdict = "successful"
    /\ call[c].account = load[r].account
    => call[c].seq <= load[r].version

ReadsInOrder ==
    /\ \A r \in Refreshes \ overtaken, c \in Calls : ReadIncludes(r, c)
    /\ ShownIncludesSuccess

WebInv ==
    /\ WebTypeOK
    /\ CallsInOrder
    /\ NumbersInOrder
    /\ Alone
    /\ ReadsInOrder

----------------------------------------------------------------------------
\* Type correctness, one call, refresh and account at a time.
LEMMA WebTypes ==
    ASSUME WebTypeOK
    PROVE  /\ \A a \in Accounts : sequence[a] \in 0..MaxSequence /\ sequence[a] \in Nat
           /\ \A c \in Calls : /\ tx[c] \in {"none", "pending", "success", "failed"}
                               /\ call[c] \in Call
                               /\ call[c].seq \in Nat /\ call[c].seen \subseteq Calls
                               /\ call[c].account \in Accounts \cup {NoAccount}
                               /\ c \in Refreshes /\ c \notin Loads
           /\ \A r \in Refreshes : /\ load[r].at \in {"idle", "asked", "read"}
                                   /\ load[r].account \in Accounts \cup {NoAccount}
                                   /\ load[r].version \in 0..MaxSequence
                                   /\ load[r].version \in Nat
           /\ \A r \in Loads : r \in Refreshes /\ r \notin Calls
           /\ MaxSequence \in Nat /\ ChangeLimit \in Nat /\ changes \in Nat
           /\ shown # NoPosition => shown.account \in Accounts /\ shown.version \in Nat
BY WebAssumption DEF WebTypeOK, Call, Refreshes

LEMMA WebInitInv == WebInit => WebInv
<1> SUFFICES ASSUME WebInit PROVE WebInv
  OBVIOUS
<1> DEFINE l0 == CHOOSE l \in Loads : TRUE
<1>1. l0 \in Loads /\ l0 \notin Calls
  BY WebAssumption
<1> HIDE DEF l0
<1>2. /\ sequence = [a \in Accounts |-> 0] /\ tx = [c \in Calls |-> "none"]
      /\ address = NoAccount /\ connecting = 0 /\ changes = 0
      /\ ADMIN_ADDRESS \in Accounts \cup {NoAccount}
      /\ call = [c \in Calls |-> [at |-> "idle", account |-> NoAccount,
                                  seq |-> 0, seen |-> {}, verdict |-> "none"]]
      /\ load = [r \in Refreshes |-> IF ADMIN_ADDRESS # NoAccount /\ r = l0
                                    THEN Asked(NoAccount) ELSE Idle]
      /\ status = "none" /\ isLoading = (ADMIN_ADDRESS # NoAccount)
      /\ shown = NoPosition /\ newest = NoCall /\ disturbed = FALSE
      /\ overtaken = {} /\ outdated = FALSE /\ stale = FALSE
  BY WebAssumption DEF WebInit, ViewerAddress, l0
<1>3. /\ Asked(NoAccount).at = "asked" /\ Asked(NoAccount).account = NoAccount
      /\ Idle.at = "idle"
      /\ \A r \in Refreshes : /\ load[r].at = "asked" \/ load[r].at = "idle"
                              /\ load[r].at = "asked" => r = l0 /\ ADMIN_ADDRESS # NoAccount
                              /\ load[r].account = NoAccount
  BY <1>2 DEF Asked, Idle
<1>4. WebTypeOK
  <2>1. call \in [Calls -> Call]
    BY <1>2, WebAssumption DEF Call
  <2>2. load \in [Refreshes -> [at : {"idle", "asked", "read"},
                                account : Accounts \cup {NoAccount},
                                version : 0..MaxSequence]]
    BY <1>2, WebAssumption DEF Asked, Idle
  <2>3. /\ sequence \in [Accounts -> 0..MaxSequence]
        /\ changes \in 0..ChangeLimit /\ connecting \in 0..changes
    BY <1>2, WebAssumption
  <2> HIDE DEF WebInit
  <2> QED
    BY <1>2, <2>1, <2>2, <2>3 DEF WebTypeOK, TransactionLifecycleStatus
<1>5. CallsInOrder
  BY <1>1, <1>2, <1>3 DEF CallsInOrder, CallInOrder, Landed, Refreshes, Unsent
<1>6. NumbersInOrder
  BY <1>2 DEF NumbersInOrder, SawEarlier, Landed
<1>7. /\ CallsUnderWay = {} /\ LoadsUnderWay \subseteq {l0} /\ Busy \subseteq {l0}
      /\ Busy # {} => ADMIN_ADDRESS # NoAccount
  BY <1>1, <1>2, <1>3 DEF CallsUnderWay, LoadsUnderWay, Busy, Refreshes
<1>8. Alone
  BY <1>1, <1>2, <1>3, <1>7 DEF Alone, ShownIsTheirs, LoadsUnderWay
<1>9. ReadsInOrder
  BY <1>2, <1>3 DEF ReadsInOrder, ReadIncludes, ShownIncludesSuccess
<1> QED
  BY <1>4, <1>5, <1>6, <1>8, <1>9 DEF WebInv
----------------------------------------------------------------------------
\* A step of a call that is under way and not refreshing, other than its
\* success: it moves on or ends, keeps its account and number (or takes both
\* what it saw and its number from the ledger), and may send its transaction.
CallMoves(c) ==
    /\ call[c].at \notin {"idle", "ended", "refreshing"}
    /\ call' \in [Calls -> Call]
    /\ \A d \in Calls : d # c => call'[d] = call[d] /\ tx'[d] = tx[d]
    /\ call'[c].account = call[c].account
    /\ call'[c].at \notin {"idle", "building", "refreshing"}
    /\ call'[c].verdict \in {"none", "failed", "refused"}
    /\ call'[c].verdict = "refused" => tx[c] = "failed"
    /\ \/ call'[c].seq = call[c].seq /\ call'[c].seen = call[c].seen
       \/ /\ call[c].at = "building"
          /\ call'[c].seq = sequence[call[c].account] + 1
          /\ call'[c].seen = Landed
    /\ call'[c].at # "ended" => call'[c].seq > 0
    /\ \/ tx'[c] = tx[c] /\ (call'[c].at \in Unsent => tx[c] = "none")
       \/ call[c].at = "sending" /\ tx'[c] = "pending" /\ call'[c].at \notin Unsent
    /\ isLoading' \in BOOLEAN
    /\ call'[c].at # "ended" => isLoading' = isLoading
    /\ status' \in TransactionLifecycleStatus \cup {"none"}
    /\ status' = "successful" => status' = status
    /\ tx' \in [Calls -> {"none", "pending", "success", "failed"}]
    /\ UNCHANGED <<sequence, wallet_vars, load, shown, history_vars>>

LEMMA CallMovesKeepsInv ==
    ASSUME WebInv, NEW c \in Calls, CallMoves(c)
    PROVE  WebInv'
<1> USE DEF WebInv
<1>1. /\ sequence' = sequence /\ address' = address /\ ADMIN_ADDRESS' = ADMIN_ADDRESS
      /\ connecting' = connecting
      /\ changes' = changes /\ load' = load /\ shown' = shown /\ newest' = newest
      /\ disturbed' = disturbed /\ overtaken' = overtaken /\ outdated' = outdated
      /\ stale' = stale
  BY DEF CallMoves, wallet_vars, history_vars
<1>2. CallInOrder(c) /\ c \in Calls /\ c \in Refreshes /\ c \notin Loads
  BY WebTypes DEF CallsInOrder
<1>3. \A d \in Calls : d # c => call'[d] = call[d] /\ tx'[d] = tx[d]
  BY DEF CallMoves
<1>4. /\ call[c].seq \in Nat /\ call'[c].seq \in Nat /\ sequence[call[c].account] \in Nat
      /\ call[c].account \in Accounts
  BY <1>2, WebTypes DEF CallMoves, CallInOrder, Call
<1>5. WebTypeOK'
  BY <1>1 DEF CallMoves, WebTypeOK
<1>6. Landed' = Landed
  <2>1. c \in Landed' <=> c \in Landed
    BY <1>2 DEF CallMoves, CallInOrder, Landed, Unsent
  <2>2. \A d \in Calls : d # c => (d \in Landed' <=> d \in Landed)
    BY <1>3 DEF Landed
  <2> QED
    BY <2>1, <2>2 DEF Landed
<1>7. CallInOrder(c)'
  <2>1. call'[c].seq <= sequence[call[c].account] + 1
    BY <1>2, <1>4 DEF CallMoves, CallInOrder
  <2>2. tx'[c] # "none" => call'[c].seq > 0
    BY <1>2, <1>4 DEF CallMoves, CallInOrder, Unsent
  <2>3. c \in Landed => call'[c].seq <= sequence[call[c].account]
    BY <1>2, <1>4 DEF CallMoves, CallInOrder, Unsent, Landed
  <2>4. call'[c].at \in Unsent => tx'[c] = "none"
    BY <1>2 DEF CallMoves, CallInOrder
  <2>5. call'[c].verdict = "refused" => tx'[c] = "failed"
    BY <1>2 DEF CallMoves, CallInOrder, Unsent
  <2>6. load'[c].at = "idle"
    BY <1>1, <1>2 DEF CallMoves, CallInOrder
  <2> QED
    BY <1>1, <1>4, <1>6, <2>1, <2>2, <2>3, <2>4, <2>5, <2>6
       DEF CallMoves, CallInOrder
<1>8. CallsInOrder'
  <2>1. ASSUME NEW d \in Calls, d # c PROVE CallInOrder(d)'
    <3>1. CallInOrder(d) /\ call'[d] = call[d] /\ tx'[d] = tx[d]
      BY <1>3, <2>1 DEF CallsInOrder
    <3> QED
      BY <1>1, <1>6, <3>1 DEF CallInOrder
  <2> QED
    BY <1>7, <2>1 DEF CallsInOrder
<1>9. NumbersInOrder'
  <2> SUFFICES ASSUME NEW d \in Calls, NEW e \in Calls,
                      d # e, call'[d].account = call'[e].account, d \in Landed
               PROVE  /\ call'[d].seq < call'[e].seq => d \in call'[e].seen
                      /\ e \in Landed => call'[d].seq # call'[e].seq
    BY <1>6 DEF NumbersInOrder, SawEarlier
  <2>1. call[d].account = call[e].account
    BY <1>3 DEF CallMoves
  <2>2. /\ call[d].seq < call[e].seq => d \in call[e].seen
        /\ e \in Landed => call[d].seq # call[e].seq
    BY <2>1 DEF NumbersInOrder, SawEarlier
  <2>3. c \in Landed => call[c].at # "building"
    BY <1>2 DEF CallInOrder, Landed, Unsent
  <2>4. call'[d].seq = call[d].seq
    BY <1>3, <2>3 DEF CallMoves
  <2>5. CASE e # c
    BY <1>3, <2>2, <2>4, <2>5
  <2>6. CASE e = c
    BY <2>2, <2>3, <2>4, <2>6 DEF CallMoves
  <2> QED
    BY <2>5, <2>6
<1>10. /\ LoadsUnderWay' = LoadsUnderWay
       /\ c \in CallsUnderWay /\ CallsUnderWay' \subseteq CallsUnderWay
       /\ Busy' \subseteq Busy /\ c \in Busy
       /\ call'[c].at = "ended" => c \notin Busy'
  <2>1. LoadsUnderWay' = LoadsUnderWay
    BY <1>1 DEF LoadsUnderWay
  <2>2. c \in CallsUnderWay /\ CallsUnderWay' \subseteq CallsUnderWay
    BY <1>3 DEF CallsUnderWay, CallMoves
  <2>3. call'[c].at = "ended" => c \notin CallsUnderWay'
    BY DEF CallsUnderWay
  <2> QED
    BY <1>1, <1>2, <2>1, <2>2, <2>3 DEF Busy
<1>11. Alone'
  <2> SUFFICES ASSUME ~disturbed' PROVE Alone'
    BY DEF Alone
  <2>1. /\ \A r, s \in Busy : r = s
        /\ \A r \in Busy : isLoading
        /\ \A d \in CallsUnderWay : d = newest /\ call[d].account = address
        /\ \A r \in LoadsUnderWay : load[r].account = address
        /\ status = "successful" /\ newest # NoCall => tx[newest] = "success"
        /\ ~stale /\ LoadsUnderWay = {} => ShownIsTheirs
    BY <1>1 DEF Alone
  <2>2. \A r, s \in Busy' : r = s
    BY <1>10, <2>1
  <2>3. \A r \in Busy' : isLoading'
    <3>1. CASE call'[c].at = "ended"
      BY <1>10, <2>1, <3>1
    <3>2. CASE call'[c].at # "ended"
      BY <1>10, <2>1, <3>2 DEF CallMoves
    <3> QED
      BY <3>1, <3>2
  <2>4. \A d \in CallsUnderWay' : d = newest' /\ call'[d].account = address'
    BY <1>1, <1>3, <1>10, <2>1 DEF CallMoves
  <2>5. status' = "successful" /\ newest' # NoCall => tx'[newest'] = "success"
    <3>1. ASSUME status' = "successful", newest' # NoCall PROVE tx'[newest'] = "success"
      <4>1. tx[newest] = "success" /\ newest \in Calls
        BY <1>1, <2>1, <3>1 DEF CallMoves, WebTypeOK
      <4> QED
        BY <1>1, <1>2, <1>3, <4>1 DEF CallMoves, CallInOrder, Unsent
    <3> QED
      BY <3>1
  <2> QED
    BY <1>1, <1>10, <2>1, <2>2, <2>3, <2>4, <2>5 DEF Alone, ShownIsTheirs
<1>12. ReadsInOrder'
  <2>1. call'[c].verdict # "successful"
    BY DEF CallMoves
  <2>2. \A r \in Refreshes \ overtaken, d \in Calls : ReadIncludes(r, d)'
    BY <1>1, <1>3, <2>1 DEF ReadIncludes, ReadsInOrder
  <2>3. ShownIncludesSuccess'
    BY <1>1, <1>3, <2>1 DEF ShownIncludesSuccess, ReadsInOrder
  <2> QED
    BY <1>1, <2>2, <2>3 DEF ReadsInOrder
<1> QED
  BY <1>5, <1>8, <1>9, <1>11, <1>12
\* An exception on the way, with or without the transaction having been queued.
CallThrows(c) ==
    /\ Throws(c)
    /\ call[c].at \notin {"idle", "ended", "refreshing"}
    /\ tx' \in [Calls -> {"none", "pending", "success", "failed"}]
    /\ \A d \in Calls : d # c => tx'[d] = tx[d]
    /\ tx'[c] = tx[c] \/ (call[c].at = "sending" /\ tx'[c] = "pending")
    /\ UNCHANGED <<sequence, wallet_vars, load, shown, history_vars>>

\* It is such a step.
LEMMA ThrowsMoves ==
    ASSUME WebInv, NEW c \in Calls, CallThrows(c)
    PROVE  CallMoves(c)
<1> USE DEF CallThrows
<1>1. call \in [Calls -> Call]
  BY DEF WebInv, WebTypeOK
<1>2. call' = [call EXCEPT ![c] = [call[c] EXCEPT !.at = "ended", !.verdict = "failed"]]
  BY <1>1 DEF Throws, Call
<1>3. [call[c] EXCEPT !.at = "ended", !.verdict = "failed"] \in Call
  BY <1>1 DEF Call
<1>4. /\ call' \in [Calls -> Call]
      /\ \A d \in Calls : d # c => call'[d] = call[d]
      /\ call'[c].account = call[c].account /\ call'[c].at = "ended"
      /\ call'[c].verdict = "failed" /\ call'[c].seq = call[c].seq
      /\ call'[c].seen = call[c].seen
  BY <1>1, <1>2, <1>3 DEF Call
<1>5. status' = "failed" /\ isLoading' = FALSE
  BY DEF Throws
<1> QED
  BY <1>4, <1>5 DEF CallMoves, Unsent, TransactionLifecycleStatus

LEMMA GetAccountMoves ==
    ASSUME WebInv, NEW c \in Calls, GetAccount(c)
    PROVE  CallMoves(c)
<1> DEFINE new == [call[c] EXCEPT !.at = "simulating", !.seq = NextSequence(c),
                                  !.seen = Landed]
<1>1. call \in [Calls -> Call] /\ tx \in [Calls -> {"none", "pending", "success", "failed"}]
  BY DEF WebInv, WebTypeOK
<1>2. call[c].at = "building" /\ tx' = tx
  BY DEF GetAccount, ledger_vars
<1>3. CASE Throws(c)
  <2>1. CallThrows(c)
    BY <1>1, <1>2, <1>3 DEF GetAccount, CallThrows, ledger_vars
  <2> QED
    BY <2>1, ThrowsMoves
<1>4. CASE /\ call' = [call EXCEPT ![c].at = "simulating",
                                   ![c].seq = NextSequence(c), ![c].seen = Landed]
           /\ UNCHANGED <<status, isLoading>>
  <2>1. call' = [call EXCEPT ![c] = new]
    BY <1>1, <1>4 DEF Call
  <2>2. CallInOrder(c)
    BY DEF WebInv, CallsInOrder
  <2>3. /\ call[c].account \in Accounts /\ tx[c] = "none" /\ call[c].verdict = "none"
        /\ sequence[call[c].account] \in 0..MaxSequence /\ MaxSequence \in Nat
    BY <1>2, <2>2, WebTypes DEF CallInOrder, Unsent, WebInv
  <2>4. NextSequence(c) \in 0..(MaxSequence + 1) /\ NextSequence(c) > 0
    BY <2>3 DEF NextSequence
  <2>5. new \in Call
    <3>1. call[c] \in Call /\ Landed \subseteq Calls
      BY <1>1 DEF Landed
    <3> HIDE DEF WebInv
    <3> QED
      BY <2>4, <3>1 DEF Call
  <2>6. call' \in [Calls -> Call] /\ call'[c] = new
        /\ \A d \in Calls : d # c => call'[d] = call[d]
    BY <1>1, <2>1, <2>5
  <2>7. /\ new.account = call[c].account /\ new.at = "simulating"
        /\ new.verdict = call[c].verdict
        /\ new.seq = NextSequence(c) /\ new.seen = Landed
    BY <1>1 DEF Call
  <2>8. isLoading' \in BOOLEAN /\ status' \in TransactionLifecycleStatus \cup {"none"}
    BY <1>4 DEF WebInv, WebTypeOK
  <2>9. UNCHANGED <<sequence, wallet_vars, load, shown, history_vars>>
    BY DEF GetAccount, ledger_vars
  <2>10. call'[c].seq = sequence[call[c].account] + 1
    BY <2>6, <2>7 DEF NextSequence
  <2> HIDE DEF new
  <2> QED
    BY <1>1, <1>2, <1>4, <2>3, <2>4, <2>6, <2>7, <2>8, <2>9, <2>10
       DEF CallMoves, Unsent
<1> QED
  BY <1>3, <1>4 DEF GetAccount

\* The steps that only move on, or throw.
LEMMA PrepareAndSignMove ==
    ASSUME WebInv, NEW c \in Calls, PrepareTransaction(c) \/ SignTransaction(c)
    PROVE  CallMoves(c)
<1> DEFINE next == IF call[c].at = "simulating" THEN "signing" ELSE "sending"
           new == [call[c] EXCEPT !.at = next]
<1>1. call \in [Calls -> Call] /\ tx \in [Calls -> {"none", "pending", "success", "failed"}]
  BY DEF WebInv, WebTypeOK
<1>2. /\ call[c].at \in {"simulating", "signing"} /\ tx' = tx
      /\ UNCHANGED <<sequence, wallet_vars, load, shown, history_vars>>
  BY DEF PrepareTransaction, SignTransaction, ledger_vars
<1>3. CASE Throws(c)
  <2>1. CallThrows(c)
    BY <1>1, <1>2, <1>3 DEF CallThrows
  <2> QED
    BY <2>1, ThrowsMoves
<1>4. CASE /\ call' = [call EXCEPT ![c].at = next]
           /\ isLoading' = isLoading /\ status' \in {status, "awaitingApproval"}
  <2>1. call' = [call EXCEPT ![c] = new] /\ new \in Call
    BY <1>1, <1>4 DEF Call
  <2>2. CallInOrder(c)
    BY DEF WebInv, CallsInOrder
  <2>3. tx[c] = "none" /\ call[c].seq > 0 /\ call[c].verdict \in {"none", "failed", "refused"}
        /\ call[c].verdict # "refused"
    BY <1>1, <1>2, <2>2 DEF CallInOrder, Unsent, Call
  <2>4. call' \in [Calls -> Call] /\ call'[c] = new
        /\ \A d \in Calls : d # c => call'[d] = call[d]
    BY <1>1, <2>1
  <2>5. /\ new.account = call[c].account /\ new.at \in {"signing", "sending"}
        /\ new.verdict = call[c].verdict
        /\ new.seq = call[c].seq /\ new.seen = call[c].seen
    BY <1>1 DEF Call
  <2>6. isLoading' \in BOOLEAN /\ status' \in TransactionLifecycleStatus \cup {"none"}
    BY <1>4 DEF WebInv, WebTypeOK, TransactionLifecycleStatus
  <2> HIDE DEF new
  <2> QED
    BY <1>1, <1>2, <1>4, <2>3, <2>4, <2>5, <2>6 DEF CallMoves
<1>5. CASE PrepareTransaction(c) /\ ~Throws(c)
  BY <1>4, <1>5 DEF PrepareTransaction, Report
<1>6. CASE SignTransaction(c) /\ ~Throws(c)
  BY <1>4, <1>6 DEF SignTransaction
<1> QED
  BY <1>3, <1>5, <1>6

LEMMA SendTransactionMoves ==
    ASSUME WebInv, NEW c \in Calls, SendTransaction(c)
    PROVE  CallMoves(c)
<1> DEFINE new == [call[c] EXCEPT !.at = "waiting"]
<1>1. call \in [Calls -> Call] /\ tx \in [Calls -> {"none", "pending", "success", "failed"}]
  BY DEF WebInv, WebTypeOK
<1>2. /\ call[c].at = "sending" /\ tx' \in {tx, [tx EXCEPT ![c] = "pending"]}
      /\ UNCHANGED <<sequence, wallet_vars, load, shown, history_vars>>
  BY DEF SendTransaction
<1>3. /\ tx' \in [Calls -> {"none", "pending", "success", "failed"}]
      /\ \A d \in Calls : d # c => tx'[d] = tx[d]
      /\ tx'[c] \in {tx[c], "pending"}
  BY <1>1, <1>2
<1>4. CASE Throws(c)
  <2>1. CallThrows(c)
    BY <1>2, <1>3, <1>4 DEF CallThrows
  <2> QED
    BY <2>1, ThrowsMoves
<1>5. CASE /\ call' = [call EXCEPT ![c].at = "waiting"]
           /\ isLoading' = isLoading /\ status' \in {status, "confirming"}
  <2>1. call' = [call EXCEPT ![c] = new] /\ new \in Call
    BY <1>1, <1>5 DEF Call
  <2>2. CallInOrder(c)
    BY DEF WebInv, CallsInOrder
  <2>3. tx[c] = "none" /\ call[c].seq > 0 /\ call[c].verdict \in {"none", "failed", "refused"}
        /\ call[c].verdict # "refused"
    BY <1>1, <1>2, <2>2 DEF CallInOrder, Unsent, Call
  <2>4. call' \in [Calls -> Call] /\ call'[c] = new
        /\ \A d \in Calls : d # c => call'[d] = call[d]
    BY <1>1, <2>1
  <2>5. /\ new.account = call[c].account /\ new.at = "waiting"
        /\ new.verdict = call[c].verdict
        /\ new.seq = call[c].seq /\ new.seen = call[c].seen
    BY <1>1 DEF Call
  <2>6. isLoading' \in BOOLEAN /\ status' \in TransactionLifecycleStatus \cup {"none"}
    BY <1>5 DEF WebInv, WebTypeOK, TransactionLifecycleStatus
  <2> HIDE DEF new
  <2> QED
    BY <1>2, <1>3, <1>5, <2>3, <2>4, <2>5, <2>6 DEF CallMoves, Unsent
<1> QED
  BY <1>4, <1>5 DEF SendTransaction, Report

LEMMA WaitingThrowsMoves ==
    ASSUME WebInv, NEW c \in Calls, WaitingThrows(c)
    PROVE  CallMoves(c)
<1>1. tx \in [Calls -> {"none", "pending", "success", "failed"}]
  BY DEF WebInv, WebTypeOK
<1>2. CallThrows(c)
  BY <1>1 DEF WaitingThrows, CallThrows, ledger_vars
<1> QED
  BY <1>2, ThrowsMoves

\* The ledger refused the call.
LEMMA RefusedMoves ==
    ASSUME WebInv, NEW c \in Calls, Confirmed(c), tx[c] # "success"
    PROVE  CallMoves(c)
<1> DEFINE new == [call[c] EXCEPT !.at = "ended", !.verdict = "refused"]
<1>1. call \in [Calls -> Call] /\ tx \in [Calls -> {"none", "pending", "success", "failed"}]
  BY DEF WebInv, WebTypeOK
<1>2. /\ call[c].at = "waiting" /\ tx[c] = "failed" /\ tx' = tx
      /\ UNCHANGED <<sequence, wallet_vars, load, shown, history_vars>>
      /\ call' = [call EXCEPT ![c].at = "ended", ![c].verdict = "refused"]
      /\ status' = "failed" /\ isLoading' = FALSE
  BY DEF Confirmed, Found, ledger_vars, history_vars
<1>3. call' = [call EXCEPT ![c] = new] /\ new \in Call
  BY <1>1, <1>2 DEF Call
<1>4. call' \in [Calls -> Call] /\ call'[c] = new
      /\ \A d \in Calls : d # c => call'[d] = call[d]
  BY <1>1, <1>3
<1>5. /\ new.account = call[c].account /\ new.at = "ended" /\ new.verdict = "refused"
      /\ new.seq = call[c].seq /\ new.seen = call[c].seen
  BY <1>1 DEF Call
<1> HIDE DEF new
<1> QED
  BY <1>1, <1>2, <1>4, <1>5 DEF CallMoves, Unsent, TransactionLifecycleStatus
\* The success of a call starts its refresh.
LEMMA SuccessKeepsInv ==
    ASSUME WebInv, NEW c \in Calls, Confirmed(c), tx[c] = "success"
    PROVE  WebInv'
<1> USE DEF WebInv
<1> DEFINE new == [call[c] EXCEPT !.at = "refreshing", !.verdict = "successful"]
<1>1. call \in [Calls -> Call] /\ call[c].at = "waiting"
  BY DEF WebTypeOK, Confirmed
<1>2. /\ sequence' = sequence /\ tx' = tx /\ address' = address /\ ADMIN_ADDRESS' = ADMIN_ADDRESS
      /\ connecting' = connecting /\ changes' = changes /\ shown' = shown
      /\ newest' = newest /\ disturbed' = disturbed /\ stale' = stale
      /\ status' = "successful" /\ isLoading' = TRUE
      /\ overtaken' = LoadsUnderWay /\ outdated' = outdated
      /\ call' = [call EXCEPT ![c].at = "refreshing", ![c].verdict = "successful"]
      /\ load' = [load EXCEPT ![c] = Asked(call[c].account)]
  BY DEF Confirmed, AfterSuccess, ledger_vars, wallet_vars
<1>3. CallInOrder(c) /\ c \in Refreshes /\ c \notin Loads
  BY WebTypes DEF CallsInOrder
<1>4. call[c].account \in Accounts /\ call[c].seq > 0 /\ load[c].at = "idle"
      /\ call[c].seq \in Nat
  BY <1>1, <1>3, WebTypes DEF CallInOrder
<1>5. /\ call' \in [Calls -> Call]
      /\ \A d \in Calls : d # c => call'[d] = call[d]
      /\ call'[c].at = "refreshing" /\ call'[c].verdict = "successful"
      /\ call'[c].account = call[c].account /\ call'[c].seq = call[c].seq
      /\ call'[c].seen = call[c].seen
  <2>1. call' = [call EXCEPT ![c] = new] /\ new \in Call
    BY <1>1, <1>2 DEF Call
  <2>2. /\ new.at = "refreshing" /\ new.verdict = "successful" /\ new.seen = call[c].seen
        /\ new.account = call[c].account /\ new.seq = call[c].seq
    BY <1>1 DEF Call
  <2> HIDE DEF new
  <2> QED
    BY <1>1, <2>1, <2>2
<1>6. /\ load' \in [Refreshes -> [at : {"idle", "asked", "read"},
                                  account : Accounts \cup {NoAccount},
                                  version : 0..MaxSequence]]
      /\ \A r \in Refreshes : r # c => load'[r] = load[r]
      /\ load'[c].at = "asked" /\ load'[c].account = call[c].account
  <2>1. Asked(call[c].account) \in [at : {"idle", "asked", "read"},
                                    account : Accounts \cup {NoAccount},
                                    version : 0..MaxSequence]
    BY <1>4, WebAssumption DEF Asked
  <2>2. load \in [Refreshes -> [at : {"idle", "asked", "read"},
                                account : Accounts \cup {NoAccount},
                                version : 0..MaxSequence]]
    BY DEF WebTypeOK
  <2>3. load'[c] = Asked(call[c].account)
    BY <1>2, <1>3, <2>2
  <2> QED
    BY <1>2, <1>3, <2>1, <2>2, <2>3 DEF Asked
<1>7. WebTypeOK'
  BY <1>2, <1>5, <1>6 DEF WebTypeOK, TransactionLifecycleStatus, LoadsUnderWay
<1>8. Landed' = Landed
  BY <1>2 DEF Landed
<1>9. CallsInOrder'
  <2>1. CallInOrder(c)'
    BY <1>2, <1>3, <1>4, <1>5, <1>6, <1>8 DEF CallInOrder, Unsent
  <2>2. ASSUME NEW d \in Calls, d # c PROVE CallInOrder(d)'
    <3>1. CallInOrder(d) /\ call'[d] = call[d] /\ load'[d] = load[d]
      BY <1>5, <1>6, <2>2, WebTypes DEF CallsInOrder
    <3> QED
      BY <1>2, <1>8, <3>1 DEF CallInOrder
  <2> QED
    BY <2>1, <2>2 DEF CallsInOrder
<1>10. NumbersInOrder'
  <2>1. \A d \in Calls : /\ call'[d].account = call[d].account
                         /\ call'[d].seq = call[d].seq /\ call'[d].seen = call[d].seen
    BY <1>5
  <2> QED
    BY <1>8, <2>1 DEF NumbersInOrder, SawEarlier
<1>11. /\ CallsUnderWay' = CallsUnderWay /\ Busy' = Busy /\ c \in CallsUnderWay
       /\ c \in Busy /\ c \in LoadsUnderWay'
       /\ \A r \in LoadsUnderWay' : r = c \/ r \in LoadsUnderWay
  <2>1. CallsUnderWay' = CallsUnderWay /\ c \in CallsUnderWay
    BY <1>1, <1>5 DEF CallsUnderWay
  <2>2. \A r \in Loads : load'[r].at = load[r].at
    BY <1>3, <1>6, WebTypes
  <2>3. c \in LoadsUnderWay' /\ \A r \in LoadsUnderWay' : r = c \/ r \in LoadsUnderWay
    BY <1>3, <1>6 DEF LoadsUnderWay
  <2> QED
    BY <2>1, <2>2, <2>3 DEF Busy
<1>12. Alone'
  <2> SUFFICES ASSUME ~disturbed' PROVE Alone'
    BY DEF Alone
  <2>1. /\ \A r, s \in Busy : r = s
        /\ \A d \in CallsUnderWay : d = newest /\ call[d].account = address
    BY <1>2 DEF Alone
  <2>2. c = newest /\ call[c].account = address
    BY <1>11, <2>1
  <2>3. LoadsUnderWay = {}
    <3> SUFFICES ASSUME NEW r \in LoadsUnderWay PROVE FALSE
      OBVIOUS
    <3>1. r \in Refreshes /\ load[r].at # "idle" /\ r # c
      BY <1>4 DEF LoadsUnderWay
    <3>2. CASE r \in Loads
      BY <1>11, <2>1, <3>1, <3>2 DEF Busy
    <3>3. CASE r \in Calls
      <4>1. call[r].at = "refreshing"
        BY <3>1, <3>3 DEF CallsInOrder, CallInOrder
      <4> QED
        BY <1>11, <2>1, <3>1, <3>3, <4>1 DEF Busy, CallsUnderWay
    <3> QED
      BY <3>1, <3>2, <3>3 DEF Refreshes
  <2>4. \A r, s \in Busy' : r = s
    BY <1>11, <2>1
  <2>5. \A d \in CallsUnderWay' : d = newest' /\ call'[d].account = address'
    BY <1>2, <1>5, <1>11, <2>1
  <2>6. \A r \in LoadsUnderWay' : load'[r].account = address'
    BY <1>2, <1>6, <1>11, <2>2, <2>3
  <2>7. LoadsUnderWay' # {}
    BY <1>11
  <2>8. tx'[newest'] = "success"
    BY <1>2, <2>2
  <2> QED
    BY <1>2, <2>4, <2>5, <2>6, <2>7, <2>8 DEF Alone
<1>13. ReadsInOrder'
  <2>1. \A r \in Refreshes \ overtaken' : load'[r].at # "read"
    BY <1>2, <1>6 DEF LoadsUnderWay
  <2>2. ShownIncludesSuccess'
    BY <1>2, <1>5 DEF ShownIncludesSuccess, ReadsInOrder
  <2> QED
    BY <2>1, <2>2 DEF ReadsInOrder, ReadIncludes
<1> QED
  BY <1>7, <1>9, <1>10, <1>12, <1>13

LEMMA CallStepKeepsInv ==
    ASSUME WebInv, NEW c \in Calls, CallStep(c)
    PROVE  WebInv'
<1>1. CASE Confirmed(c) /\ tx[c] = "success"
  BY <1>1, SuccessKeepsInv
<1>2. CASE ~(Confirmed(c) /\ tx[c] = "success")
  <2>1. CallMoves(c)
    BY <1>2, GetAccountMoves, PrepareAndSignMove, SendTransactionMoves,
       WaitingThrowsMoves, RefusedMoves DEF CallStep
  <2> QED
    BY <2>1, CallMovesKeepsInv
<1> QED
  BY <1>1, <1>2

----------------------------------------------------------------------------
\* The ledger takes in a transaction: its number is new, and no call built so
\* far has a higher one.
LEMMA LandKeepsInv ==
    ASSUME WebInv, NEW c \in Calls, NEW ok \in BOOLEAN, Land(c, ok)
    PROVE  WebInv'
<1> USE DEF WebInv
<1> DEFINE a == call[c].account
<1>1. /\ tx[c] = "pending" /\ call[c].seq = sequence[a] + 1 /\ sequence[a] < MaxSequence
      /\ address' = address /\ ADMIN_ADDRESS' = ADMIN_ADDRESS
      /\ connecting' = connecting /\ changes' = changes
      /\ call' = call /\ load' = load /\ status' = status /\ isLoading' = isLoading
      /\ shown' = shown /\ newest' = newest /\ disturbed' = disturbed
      /\ overtaken' = overtaken /\ outdated' = outdated /\ stale' = stale
  BY DEF Land, wallet_vars, history_vars
<1>2. CallInOrder(c) /\ call[c].seq \in Nat
  BY WebTypes DEF CallsInOrder
<1>3. /\ a \in Accounts /\ sequence[a] \in Nat /\ MaxSequence \in Nat
      /\ call[c].at \notin Unsent /\ call[c].verdict \notin {"successful", "refused"}
  BY <1>1, <1>2, WebTypes DEF CallInOrder
<1>4. /\ sequence' \in [Accounts -> 0..MaxSequence]
      /\ sequence'[a] = sequence[a] + 1
      /\ \A b \in Accounts : b # a => sequence'[b] = sequence[b]
      /\ tx' \in [Calls -> {"none", "pending", "success", "failed"}]
      /\ tx'[c] \in {"success", "failed"}
      /\ \A d \in Calls : d # c => tx'[d] = tx[d]
  BY <1>1, <1>3 DEF Land, WebTypeOK
<1> HIDE DEF a
<1>5. \A b \in Accounts : sequence[b] \in Nat /\ sequence'[b] \in Nat
                         /\ sequence[b] <= sequence'[b]
  BY <1>3, <1>4, WebTypes
<1>6. WebTypeOK'
  BY <1>1, <1>4 DEF WebTypeOK
<1>7. Landed' = Landed \cup {c} /\ c \notin Landed
  BY <1>1, <1>4 DEF Landed
<1>8. CallsInOrder'
  <2>1. CallInOrder(c)'
    BY <1>1, <1>2, <1>3, <1>4, <1>7 DEF CallInOrder, a
  <2>2. ASSUME NEW d \in Calls, d # c PROVE CallInOrder(d)'
    <3>1. CallInOrder(d) /\ tx'[d] = tx[d] /\ call[d].seq \in Nat
          /\ (d \in Landed' => d \in Landed)
      BY <1>4, <1>7, <2>2, WebTypes DEF CallsInOrder
    <3>2. call[d].seq > 0 => /\ call[d].account \in Accounts
                             /\ call[d].seq <= sequence'[call[d].account] + 1
      BY <1>5, <3>1 DEF CallInOrder
    <3>3. d \in Landed => call[d].seq <= sequence'[call[d].account]
      <4>1. d \in Landed => call[d].account \in Accounts
        BY <3>1 DEF CallInOrder, Landed
      <4> QED
        BY <1>5, <3>1, <4>1 DEF CallInOrder
    <3> QED
      BY <1>1, <3>1, <3>2, <3>3 DEF CallInOrder
  <2> QED
    BY <2>1, <2>2 DEF CallsInOrder
<1>9. NumbersInOrder'
  <2> SUFFICES ASSUME NEW d \in Calls, NEW e \in Calls,
                      d # e, call[d].account = call[e].account, d \in Landed'
               PROVE  /\ call[d].seq < call[e].seq => d \in call[e].seen
                      /\ e \in Landed' => call[d].seq # call[e].seq
    BY <1>1 DEF NumbersInOrder, SawEarlier
  <2>1. /\ CallInOrder(d) /\ CallInOrder(e) /\ call[d].seq \in Nat /\ call[e].seq \in Nat
        /\ SawEarlier(d, e)
    BY WebTypes DEF CallsInOrder, NumbersInOrder
  <2>2. CASE d = c
    <3>1. call[e].seq <= sequence[a] + 1
      BY <1>3, <2>1, <2>2 DEF CallInOrder, a
    <3>2. e \in Landed' => call[e].seq <= sequence[a]
      BY <1>7, <2>1, <2>2 DEF CallInOrder, a
    <3> QED
      BY <1>1, <1>3, <2>1, <2>2, <3>1, <3>2
  <2>3. CASE e = c
    <3>1. call[d].seq <= sequence[a]
      BY <1>7, <2>1, <2>3 DEF CallInOrder, a
    <3>2. call[d].seq < call[e].seq => d \in call[e].seen
      BY <1>7, <2>1, <2>3 DEF SawEarlier
    <3> QED
      BY <1>1, <1>3, <2>1, <2>3, <3>1, <3>2
  <2>4. CASE d # c /\ e # c
    BY <1>7, <2>1, <2>4 DEF SawEarlier
  <2> QED
    BY <2>2, <2>3, <2>4
<1>10. /\ CallsUnderWay' = CallsUnderWay /\ LoadsUnderWay' = LoadsUnderWay
       /\ Busy' = Busy
  BY <1>1 DEF CallsUnderWay, LoadsUnderWay, Busy
<1>11. Alone'
  <2>1. status = "successful" /\ newest # NoCall /\ tx[newest] = "success"
        => tx'[newest] = "success"
    BY <1>1, <1>4 DEF WebTypeOK
  <2> QED
    BY <1>1, <1>10, <2>1 DEF Alone, ShownIsTheirs
<1>12. ReadsInOrder'
  BY <1>1 DEF ReadsInOrder, ReadIncludes, ShownIncludesSuccess
<1> QED
  BY <1>6, <1>8, <1>9, <1>11, <1>12
LEMMA DroppedKeepsInv ==
    ASSUME WebInv, NEW c \in Calls, Dropped(c)
    PROVE  WebInv'
<1> USE DEF WebInv
<1>1. /\ tx[c] = "pending" /\ sequence' = sequence
      /\ address' = address /\ ADMIN_ADDRESS' = ADMIN_ADDRESS
      /\ connecting' = connecting /\ changes' = changes
      /\ call' = call /\ load' = load /\ status' = status /\ isLoading' = isLoading
      /\ shown' = shown /\ newest' = newest /\ disturbed' = disturbed
      /\ overtaken' = overtaken /\ outdated' = outdated /\ stale' = stale
  BY DEF Dropped, wallet_vars, history_vars
<1>2. /\ tx' \in [Calls -> {"none", "pending", "success", "failed"}]
      /\ tx'[c] = "none" /\ \A d \in Calls : d # c => tx'[d] = tx[d]
  BY DEF Dropped, WebTypeOK
<1>3. WebTypeOK'
  BY <1>1, <1>2 DEF WebTypeOK
<1>4. Landed' = Landed
  BY <1>1, <1>2 DEF Landed
<1>5. CallsInOrder' /\ NumbersInOrder'
  BY <1>1, <1>2, <1>4
     DEF CallsInOrder, CallInOrder, NumbersInOrder, SawEarlier, Landed
<1>6. /\ CallsUnderWay' = CallsUnderWay /\ LoadsUnderWay' = LoadsUnderWay
      /\ Busy' = Busy
  BY <1>1 DEF CallsUnderWay, LoadsUnderWay, Busy
<1>7. Alone'
  <2>1. status = "successful" /\ newest # NoCall /\ tx[newest] = "success"
        => tx'[newest] = "success"
    BY <1>1, <1>2 DEF WebTypeOK
  <2> QED
    BY <1>1, <1>6, <2>1 DEF Alone, ShownIsTheirs
<1>8. ReadsInOrder'
  BY <1>1 DEF ReadsInOrder, ReadIncludes, ShownIncludesSuccess
<1> QED
  BY <1>3, <1>5, <1>7, <1>8

LEMMA OtherTransactionKeepsInv ==
    ASSUME WebInv, NEW a \in Accounts, OtherTransaction(a)
    PROVE  WebInv'
<1> USE DEF WebInv
<1>1. /\ sequence[a] < MaxSequence /\ tx' = tx
      /\ address' = address /\ ADMIN_ADDRESS' = ADMIN_ADDRESS
      /\ connecting' = connecting /\ changes' = changes
      /\ call' = call /\ load' = load /\ status' = status /\ isLoading' = isLoading
      /\ shown' = shown /\ newest' = newest /\ disturbed' = disturbed
      /\ overtaken' = overtaken /\ outdated' = outdated /\ stale' = stale
  BY DEF OtherTransaction, wallet_vars, history_vars
<1>2. sequence' \in [Accounts -> 0..MaxSequence]
  BY <1>1, WebTypes DEF OtherTransaction, WebTypeOK
<1>3. \A b \in Accounts : sequence[b] \in Nat /\ sequence'[b] \in Nat
                         /\ sequence[b] <= sequence'[b]
  BY WebTypes DEF OtherTransaction, WebTypeOK
<1>4. WebTypeOK'
  BY <1>1, <1>2 DEF WebTypeOK
<1>5. Landed' = Landed
  BY <1>1 DEF Landed
<1>6. CallsInOrder'
  <2>1. ASSUME NEW d \in Calls PROVE CallInOrder(d)'
    <3>1. CallInOrder(d) /\ call[d].seq \in Nat
      BY WebTypes DEF CallsInOrder
    <3>2. call[d].seq > 0 => /\ call[d].account \in Accounts
                             /\ call[d].seq <= sequence'[call[d].account] + 1
      BY <1>3, <3>1 DEF CallInOrder
    <3>3. d \in Landed => call[d].seq <= sequence'[call[d].account]
      <4>1. d \in Landed => call[d].account \in Accounts
        BY <3>1 DEF CallInOrder, Landed
      <4> QED
        BY <1>3, <3>1, <4>1 DEF CallInOrder
    <3> QED
      BY <1>1, <1>5, <3>1, <3>2, <3>3 DEF CallInOrder
  <2> QED
    BY <2>1 DEF CallsInOrder
<1>7. NumbersInOrder'
  BY <1>1, <1>5 DEF NumbersInOrder, SawEarlier
<1>8. /\ CallsUnderWay' = CallsUnderWay /\ LoadsUnderWay' = LoadsUnderWay
      /\ Busy' = Busy
  BY <1>1 DEF CallsUnderWay, LoadsUnderWay, Busy
<1>9. Alone' /\ ReadsInOrder'
  BY <1>1, <1>8 DEF Alone, ShownIsTheirs, ReadsInOrder, ReadIncludes, ShownIncludesSuccess
<1> QED
  BY <1>4, <1>6, <1>7, <1>9

----------------------------------------------------------------------------
\* A refresh under way is that of an effect, or the last step of its call.
LEMMA RefreshesAreBusy ==
    ASSUME CallsInOrder
    PROVE  \A r \in LoadsUnderWay : r \in Busy /\ r \in Refreshes
BY DEF CallsInOrder, CallInOrder, LoadsUnderWay, CallsUnderWay, Busy, Refreshes

\* The account changes: nothing is under way, or it is disturbed from now on.
LEMMA AccountBecomesKeepsInv ==
    ASSUME WebInv, NEW a \in Accounts \cup {NoAccount}, AccountBecomes(a),
           changes' \in 0..ChangeLimit, connecting' \in 0..changes'
    PROVE  WebInv'
<1> USE DEF WebInv
<1>1. /\ sequence' = sequence /\ tx' = tx /\ address' = a /\ call' = call
      /\ ADMIN_ADDRESS' = ADMIN_ADDRESS
      /\ status' = status /\ shown' = shown /\ newest' = newest /\ stale' = stale
      /\ outdated' = outdated
      /\ disturbed' = (disturbed \/ (a # address /\ LoadsUnderWay \cup CallsUnderWay # {}))
  BY DEF AccountBecomes, ledger_vars
<1>2. Landed' = Landed /\ CallsUnderWay' = CallsUnderWay
  BY <1>1 DEF Landed, CallsUnderWay
<1>3. NumbersInOrder'
  BY <1>1, <1>2 DEF NumbersInOrder, SawEarlier
<1>4. a # address /\ ~disturbed' => LoadsUnderWay = {} /\ CallsUnderWay = {} /\ Busy = {}
  BY <1>1, WebTypes DEF Busy, LoadsUnderWay
<1>5. CASE a = address \/ ViewerAddress(a) = NoAccount
  <2>1. load' = load /\ isLoading' = isLoading /\ overtaken' = overtaken
    BY <1>5 DEF AccountBecomes
  <2>2. WebTypeOK' /\ CallsInOrder'
    BY <1>1, <1>2, <2>1 DEF WebTypeOK, CallsInOrder, CallInOrder
  <2>3. LoadsUnderWay' = LoadsUnderWay /\ Busy' = Busy
    BY <1>2, <2>1 DEF LoadsUnderWay, Busy
  <2>4. ReadsInOrder'
    BY <1>1, <2>1 DEF ReadsInOrder, ReadIncludes, ShownIncludesSuccess
  <2>5. Alone'
    <3>1. CASE a = address
      BY <1>1, <1>2, <2>1, <2>3, <3>1 DEF Alone, ShownIsTheirs
    <3>2. CASE a # address
      <4>1. a = NoAccount /\ ADMIN_ADDRESS = NoAccount
        BY <1>5, <3>2 DEF ViewerAddress
      <4> QED
        BY <1>1, <1>2, <1>4, <2>1, <2>3, <3>2, <4>1 DEF Alone, ShownIsTheirs
    <3> QED
      BY <3>1, <3>2
  <2> QED
    BY <1>3, <2>2, <2>4, <2>5
<1>6. CASE a # address /\ ViewerAddress(a) # NoAccount
  <2>1. /\ load' = [load EXCEPT ![FreeLoad] = Asked(a)] /\ isLoading' = TRUE
        /\ overtaken' = LoadsUnderWay
        /\ \E r \in Loads : load[r].at = "idle"
    BY <1>6 DEF AccountBecomes
  <2>2. FreeLoad \in Loads /\ load[FreeLoad].at = "idle"
    BY <2>1 DEF FreeLoad
  <2> DEFINE free == FreeLoad
  <2> HIDE DEF free
  <2>3. free \in Loads /\ free \in Refreshes /\ free \notin Calls /\ load[free].at = "idle"
    BY <2>2, WebTypes DEF free
  <2>4. /\ load' \in [Refreshes -> [at : {"idle", "asked", "read"},
                                    account : Accounts \cup {NoAccount},
                                    version : 0..MaxSequence]]
        /\ load'[free].at = "asked" /\ load'[free].account = a
        /\ \A r \in Refreshes : r # free => load'[r] = load[r]
    BY <2>1, <2>3, WebAssumption DEF WebTypeOK, Asked, free
  <2>5. WebTypeOK'
    BY <1>1, <2>1, <2>4 DEF WebTypeOK, LoadsUnderWay
  <2>6. CallsInOrder'
    <3>1. \A c \in Calls : load'[c] = load[c]
      BY <2>3, <2>4, WebTypes
    <3> QED
      BY <1>1, <1>2, <3>1 DEF CallsInOrder, CallInOrder
  <2>7. /\ free \in LoadsUnderWay'
        /\ \A r \in LoadsUnderWay' : r = free \/ r \in LoadsUnderWay
    BY <2>3, <2>4 DEF LoadsUnderWay
  <2>8. \A r \in Busy' : r = free \/ r \in Busy
    BY <1>2, <2>4, WebTypes DEF Busy
  <2>9. Alone'
    <3> SUFFICES ASSUME ~disturbed' PROVE Alone'
      BY DEF Alone
    <3>1. ~disturbed /\ LoadsUnderWay = {} /\ CallsUnderWay = {} /\ Busy = {}
      BY <1>1, <1>4, <1>6
    <3>2. status = "successful" /\ newest # NoCall => tx[newest] = "success"
      BY <3>1 DEF Alone
    <3>3. LoadsUnderWay' # {} /\ \A r \in LoadsUnderWay' : load'[r].account = address'
      BY <1>1, <2>4, <2>7, <3>1
    <3>4. /\ \A r, s \in Busy' : r = s
          /\ \A r \in Busy' : isLoading'
      BY <2>1, <2>8, <3>1
    <3> QED
      BY <1>1, <1>2, <3>1, <3>2, <3>3, <3>4 DEF Alone
  <2>10. ReadsInOrder'
    <3>1. ShownIncludesSuccess'
      BY <1>1 DEF ReadsInOrder, ShownIncludesSuccess
    <3>2. \A r \in Refreshes \ overtaken' : load'[r].at # "read"
      BY <2>1, <2>4 DEF LoadsUnderWay
    <3> QED
      BY <3>1, <3>2 DEF ReadsInOrder, ReadIncludes
  <2> QED
    BY <1>3, <2>5, <2>6, <2>9, <2>10
<1> QED
  BY <1>5, <1>6

LEMMA WalletStepKeepsInv ==
    ASSUME WebInv, WalletStep
    PROVE  WebInv'
<1>1. /\ changes \in Nat /\ changes <= ChangeLimit /\ ChangeLimit \in Nat
      /\ connecting \in Nat /\ connecting <= changes
  BY WebAssumption DEF WebInv, WebTypeOK
<1>2. CASE Connect
  <2>1. /\ changes' \in 0..ChangeLimit /\ connecting' \in 0..changes'
        /\ UNCHANGED <<ledger_vars, ADMIN_ADDRESS, address, call, load, status, isLoading,
                       shown, history_vars>>
    BY <1>1, <1>2 DEF Connect
  <2> QED
    BY <2>1 DEF WebInv, WebTypeOK, CallsInOrder, CallInOrder, NumbersInOrder, SawEarlier,
       Alone, ShownIsTheirs, ReadsInOrder, ReadIncludes, ShownIncludesSuccess, Landed,
       CallsUnderWay, LoadsUnderWay, Busy, ledger_vars, history_vars
<1>3. ASSUME NEW a \in Accounts \cup {NoAccount}, ConnectAnswers(a) PROVE WebInv'
  <2>1. changes' \in 0..ChangeLimit /\ connecting' \in 0..changes' /\ AccountBecomes(a)
    BY <1>1, <1>3 DEF ConnectAnswers
  <2> QED
    BY <2>1, AccountBecomesKeepsInv
<1>4. CASE Disconnect
  <2>1. changes' \in 0..ChangeLimit /\ connecting' \in 0..changes'
        /\ AccountBecomes(NoAccount)
    BY <1>1, <1>4 DEF Disconnect
  <2> QED
    BY <2>1, AccountBecomesKeepsInv
<1> QED
  BY <1>2, <1>3, <1>4 DEF WalletStep
----------------------------------------------------------------------------
\* A button is pressed: the flag says that nothing is under way, unless the
\* account changed before.
LEMMA PressKeepsInv ==
    ASSUME WebInv, NEW c \in Calls, Press(c)
    PROVE  WebInv'
<1> USE DEF WebInv
<1> DEFINE new == [call[c] EXCEPT !.at = "building", !.account = address]
<1>1. /\ sequence' = sequence /\ tx' = tx /\ address' = address /\ ADMIN_ADDRESS' = ADMIN_ADDRESS
      /\ connecting' = connecting /\ changes' = changes /\ load' = load
      /\ shown' = shown /\ disturbed' = disturbed /\ overtaken' = overtaken
      /\ outdated' = outdated
      /\ stale' = stale /\ status' = "preparing" /\ isLoading' = TRUE /\ newest' = c
      /\ isLoading = FALSE /\ address \in Accounts /\ call[c].at = "idle"
  BY DEF Press, CanPress, ledger_vars, wallet_vars, WebTypeOK
<1>2. CallInOrder(c) /\ c \in Refreshes /\ c \notin Loads /\ call[c].seq \in Nat
      /\ call \in [Calls -> Call]
  BY WebTypes DEF CallsInOrder, WebTypeOK
<1>3. call[c].seq = 0 /\ call[c].verdict = "none" /\ tx[c] = "none" /\ load[c].at = "idle"
  BY <1>1, <1>2 DEF CallInOrder, Unsent
<1>4. /\ call' \in [Calls -> Call]
      /\ \A d \in Calls : d # c => call'[d] = call[d]
      /\ call'[c].at = "building" /\ call'[c].verdict = "none"
      /\ call'[c].account = address /\ call'[c].seq = 0
  <2>1. call' = [call EXCEPT ![c] = new] /\ new \in Call
    BY <1>1, <1>2 DEF Press, Call
  <2>2. /\ new.at = "building" /\ new.verdict = "none" /\ new.account = address
        /\ new.seq = 0
    BY <1>2, <1>3 DEF Call
  <2> HIDE DEF new
  <2> QED
    BY <1>2, <2>1, <2>2
<1>5. WebTypeOK'
  BY <1>1, <1>4 DEF WebTypeOK, TransactionLifecycleStatus
<1>6. Landed' = Landed /\ c \notin Landed
  BY <1>1, <1>3 DEF Landed
<1>7. CallsInOrder'
  <2>1. CallInOrder(c)'
    BY <1>1, <1>3, <1>4, <1>6 DEF CallInOrder, Unsent
  <2>2. ASSUME NEW d \in Calls, d # c PROVE CallInOrder(d)'
    <3>1. CallInOrder(d) /\ call'[d] = call[d]
      BY <1>4, <2>2 DEF CallsInOrder
    <3> QED
      BY <1>1, <1>6, <3>1 DEF CallInOrder
  <2> QED
    BY <2>1, <2>2 DEF CallsInOrder
<1>8. NumbersInOrder'
  <2> SUFFICES ASSUME NEW d \in Calls, NEW e \in Calls,
                      d # e, call'[d].account = call'[e].account, d \in Landed
               PROVE  /\ call'[d].seq < call'[e].seq => d \in call'[e].seen
                      /\ e \in Landed => call'[d].seq # call'[e].seq
    BY <1>6 DEF NumbersInOrder, SawEarlier
  <2>1. call'[d] = call[d] /\ call[d].seq \in Nat
    BY <1>4, <1>6, WebTypes
  <2>2. CASE e = c
    BY <1>4, <1>6, <2>1, <2>2
  <2>3. CASE e # c
    BY <1>4, <2>1, <2>3 DEF NumbersInOrder, SawEarlier
  <2> QED
    BY <2>2, <2>3
<1>9. /\ LoadsUnderWay' = LoadsUnderWay
      /\ \A r \in Busy' : r = c \/ r \in Busy
      /\ \A d \in CallsUnderWay' : d = c \/ d \in Busy
  BY <1>1, <1>4 DEF LoadsUnderWay, CallsUnderWay, Busy
<1>10. Alone'
  <2> SUFFICES ASSUME ~disturbed' PROVE Alone'
    BY DEF Alone
  <2>1. ~disturbed /\ Busy = {}
    BY <1>1 DEF Alone
  <2>2. LoadsUnderWay = {}
    BY <2>1, RefreshesAreBusy
  <2>3. ~stale => ShownIsTheirs /\ ShownIsTheirs'
    BY <1>1, <2>1, <2>2 DEF Alone, ShownIsTheirs
  <2>4. \A d \in CallsUnderWay' : d = newest' /\ call'[d].account = address'
    BY <1>1, <1>4, <1>9, <2>1
  <2>5. (\A r, s \in Busy' : r = s) /\ \A r \in Busy' : isLoading'
    BY <1>1, <1>9, <2>1
  <2> QED
    BY <1>1, <1>9, <2>1, <2>2, <2>3, <2>4, <2>5 DEF Alone
<1>11. ReadsInOrder'
  <2>1. \A r \in Refreshes \ overtaken', d \in Calls : ReadIncludes(r, d)'
    BY <1>1, <1>4 DEF ReadIncludes, ReadsInOrder
  <2>2. ShownIncludesSuccess'
    BY <1>1, <1>4 DEF ShownIncludesSuccess, ReadsInOrder
  <2> QED
    BY <2>1, <2>2 DEF ReadsInOrder
<1> QED
  BY <1>5, <1>7, <1>8, <1>10, <1>11

LEMMA PressWithoutWalletKeepsInv ==
    ASSUME WebInv, PressWithoutWallet
    PROVE  WebInv'
<1>1. /\ status' = "none"
      /\ UNCHANGED <<sequence, tx, ADMIN_ADDRESS, address, connecting, changes, call,
                     load, isLoading, shown, newest, disturbed, overtaken, outdated, stale>>
  BY DEF PressWithoutWallet, ledger_vars, wallet_vars, history_vars
<1> QED
  BY <1>1 DEF WebInv, WebTypeOK, CallsInOrder, CallInOrder, NumbersInOrder, SawEarlier,
     Alone, ShownIsTheirs, ReadsInOrder, ReadIncludes, ShownIncludesSuccess, Landed,
     CallsUnderWay, LoadsUnderWay, Busy

----------------------------------------------------------------------------
\* The answer of the node includes all that has landed for the account.
LEMMA RefreshReadKeepsInv ==
    ASSUME WebInv, NEW r \in Refreshes, RefreshRead(r)
    PROVE  WebInv'
<1> USE DEF WebInv
<1> DEFINE version == IF load[r].account = NoAccount THEN 0
                      ELSE sequence[load[r].account]
           new == [load[r] EXCEPT !.at = "read", !.version = version]
<1>1. /\ sequence' = sequence /\ tx' = tx /\ address' = address /\ ADMIN_ADDRESS' = ADMIN_ADDRESS
      /\ connecting' = connecting /\ changes' = changes /\ call' = call
      /\ status' = status /\ isLoading' = isLoading /\ shown' = shown
      /\ newest' = newest /\ disturbed' = disturbed /\ overtaken' = overtaken
      /\ outdated' = outdated /\ stale' = stale /\ load[r].at = "asked"
  BY DEF RefreshRead, ledger_vars, wallet_vars, history_vars
<1>2. version \in 0..MaxSequence
  BY WebTypes
<1>3. /\ load' \in [Refreshes -> [at : {"idle", "asked", "read"},
                                  account : Accounts \cup {NoAccount},
                                  version : 0..MaxSequence]]
      /\ \A s \in Refreshes : s # r => load'[s] = load[s]
      /\ load'[r].at = "read" /\ load'[r].account = load[r].account
      /\ load'[r].version = version
  <2>1. load \in [Refreshes -> [at : {"idle", "asked", "read"},
                                account : Accounts \cup {NoAccount},
                                version : 0..MaxSequence]]
    BY DEF WebTypeOK
  <2>2. load' = [load EXCEPT ![r] = new]
    BY <2>1 DEF RefreshRead
  <2> HIDE DEF version
  <2>3. /\ new \in [at : {"idle", "asked", "read"},
                    account : Accounts \cup {NoAccount}, version : 0..MaxSequence]
        /\ new.at = "read" /\ new.account = load[r].account /\ new.version = version
    BY <1>2, <2>1
  <2> HIDE DEF new
  <2> QED
    BY <2>1, <2>2, <2>3
<1>4. WebTypeOK'
  BY <1>1, <1>3 DEF WebTypeOK
<1>5. Landed' = Landed /\ CallsUnderWay' = CallsUnderWay
  BY <1>1 DEF Landed, CallsUnderWay
<1>6. \A s \in Refreshes : /\ load'[s].account = load[s].account
                           /\ load'[s].at # "idle" <=> load[s].at # "idle"
  BY <1>1, <1>3
<1>7. LoadsUnderWay' = LoadsUnderWay /\ Busy' = Busy
  BY <1>5, <1>6, WebTypes DEF LoadsUnderWay, Busy
<1>8. CallsInOrder' /\ NumbersInOrder'
  BY <1>1, <1>5, <1>6, WebTypes
     DEF CallsInOrder, CallInOrder, NumbersInOrder, SawEarlier
<1>9. Alone'
  <2>1. \A s \in LoadsUnderWay : load'[s].account = load[s].account
    BY <1>6 DEF LoadsUnderWay
  <2> QED
    BY <1>1, <1>5, <1>7, <2>1 DEF Alone, ShownIsTheirs
<1>10. ReadsInOrder'
  <2>1. \A s \in Refreshes \ overtaken, c \in Calls : ReadIncludes(s, c)
    BY DEF ReadsInOrder
  <2>2. ASSUME NEW c \in Calls, call[c].verdict = "successful",
               call[c].account = load[r].account
        PROVE  call[c].seq <= version
    <3>1. CallInOrder(c)
      BY DEF CallsInOrder
    <3>2. tx[c] = "success" /\ c \in Landed
      BY <2>2, <3>1 DEF CallInOrder, Landed
    <3>3. call[c].account \in Accounts /\ call[c].seq <= sequence[call[c].account]
      BY <3>1, <3>2 DEF CallInOrder
    <3> QED
      BY <2>2, <3>3, WebAssumption
  <2>3. \A s \in Refreshes \ overtaken, c \in Calls : ReadIncludes(s, c)'
    <3> HIDE DEF version
    <3> QED
      BY <1>1, <1>3, <2>1, <2>2 DEF ReadIncludes
  <2>4. ShownIncludesSuccess'
    BY <1>1 DEF ShownIncludesSuccess, ReadsInOrder
  <2> QED
    BY <1>1, <2>3, <2>4 DEF ReadsInOrder
<1> QED
  BY <1>4, <1>8, <1>9, <1>10

\* What the end of a refresh, good or bad, does to the call it belongs to.
RefreshEnds(r) ==
    /\ load[r].at # "idle"
    /\ load' = [load EXCEPT ![r] = Idle]
    /\ call' \in [Calls -> Call]
    /\ \A c \in Calls : c # r => call'[c] = call[c]
    /\ r \in Calls =>
         /\ call'[r].at = "ended" /\ call'[r].account = call[r].account
         /\ call'[r].seq = call[r].seq /\ call'[r].seen = call[r].seen
         /\ call'[r].verdict \in {call[r].verdict, "failed"}
    /\ isLoading' \in BOOLEAN
    /\ status' \in {status, "failed"}
    /\ stale' \in BOOLEAN
    /\ outdated' \in BOOLEAN
    /\ overtaken' = overtaken \ {r}
    /\ UNCHANGED <<ledger_vars, wallet_vars, newest, disturbed>>

\* Everything but the position on display survives it.
LEMMA RefreshEndsInOrder ==
    ASSUME WebInv, NEW r \in Refreshes, RefreshEnds(r)
    PROVE  /\ shown' \in [account : Accounts, version : 0..MaxSequence] \cup {NoPosition}
              => WebTypeOK'
           /\ CallsInOrder' /\ NumbersInOrder'
           /\ \A s \in LoadsUnderWay' : s \in LoadsUnderWay /\ s # r /\ load'[s] = load[s]
           /\ r \in LoadsUnderWay
           /\ ~disturbed => Busy' = {} /\ CallsUnderWay' = {} /\ LoadsUnderWay' = {}
           /\ \A s \in Refreshes \ overtaken' : load'[s].at = "read" => s \notin overtaken /\ s # r
<1> USE DEF WebInv
<1>1. /\ sequence' = sequence /\ tx' = tx /\ address' = address /\ ADMIN_ADDRESS' = ADMIN_ADDRESS
      /\ connecting' = connecting /\ changes' = changes
      /\ newest' = newest /\ disturbed' = disturbed
  BY DEF RefreshEnds, ledger_vars, wallet_vars
<1>2. /\ load' \in [Refreshes -> [at : {"idle", "asked", "read"},
                                  account : Accounts \cup {NoAccount},
                                  version : 0..MaxSequence]]
      /\ \A s \in Refreshes : s # r => load'[s] = load[s]
      /\ load'[r].at = "idle"
  <2>1. load \in [Refreshes -> [at : {"idle", "asked", "read"},
                                account : Accounts \cup {NoAccount},
                                version : 0..MaxSequence]]
    BY DEF WebTypeOK
  <2> QED
    BY <2>1, WebAssumption DEF RefreshEnds, Idle
<1>3. shown' \in [account : Accounts, version : 0..MaxSequence] \cup {NoPosition}
      => WebTypeOK'
  BY <1>1, <1>2 DEF WebTypeOK, RefreshEnds, TransactionLifecycleStatus
<1>4. Landed' = Landed
  BY <1>1 DEF Landed
<1>5. CallsInOrder'
  <2>1. ASSUME r \in Calls PROVE CallInOrder(r)'
    <3>1. CallInOrder(r) /\ call[r].at = "refreshing"
      BY <2>1 DEF CallsInOrder, CallInOrder, RefreshEnds
    <3> QED
      BY <1>1, <1>2, <1>4, <2>1, <3>1 DEF CallInOrder, RefreshEnds, Unsent
  <2>2. ASSUME NEW c \in Calls, c # r PROVE CallInOrder(c)'
    <3>1. CallInOrder(c) /\ call'[c] = call[c] /\ load'[c] = load[c]
      BY <1>2, <2>2, WebTypes DEF CallsInOrder, RefreshEnds
    <3> QED
      BY <1>1, <1>4, <3>1 DEF CallInOrder
  <2> QED
    BY <2>1, <2>2 DEF CallsInOrder
<1>6. NumbersInOrder'
  <2>1. \A c \in Calls : /\ call'[c].account = call[c].account
                         /\ call'[c].seq = call[c].seq /\ call'[c].seen = call[c].seen
    BY DEF RefreshEnds
  <2> QED
    BY <1>4, <2>1 DEF NumbersInOrder, SawEarlier
<1>7. /\ r \in LoadsUnderWay
      /\ \A s \in LoadsUnderWay' : s \in LoadsUnderWay /\ s # r /\ load'[s] = load[s]
  BY <1>2 DEF LoadsUnderWay, RefreshEnds
<1>8. \A s \in Refreshes \ overtaken' :
        load'[s].at = "read" => s \notin overtaken /\ s # r
  BY <1>2 DEF RefreshEnds
<1>9. ~disturbed => Busy' = {} /\ CallsUnderWay' = {} /\ LoadsUnderWay' = {}
  <2> SUFFICES ASSUME ~disturbed
               PROVE  Busy' = {} /\ CallsUnderWay' = {} /\ LoadsUnderWay' = {}
    OBVIOUS
  <2>1. \A s \in Busy : s = r
    BY <1>7, RefreshesAreBusy DEF Alone
  <2>2. CallsUnderWay' = {}
    <3> SUFFICES ASSUME NEW c \in CallsUnderWay' PROVE FALSE
      OBVIOUS
    <3>1. c \in Calls /\ c # r
      BY DEF CallsUnderWay, RefreshEnds
    <3>2. c \in Busy
      BY <3>1 DEF CallsUnderWay, RefreshEnds, Busy
    <3> QED
      BY <2>1, <3>1, <3>2
  <2>3. LoadsUnderWay' = {}
    BY <1>7, <2>1, RefreshesAreBusy
  <2>4. Busy' = {}
    BY <2>2, <2>3, WebTypes DEF Busy, LoadsUnderWay
  <2> QED
    BY <2>2, <2>3, <2>4
<1> QED
  BY <1>3, <1>5, <1>6, <1>7, <1>8, <1>9
\* The answer arrives.  It is for the account of the refresh: undisturbed, that
\* is the connected one.
LEMMA RefreshShowsKeepsInv ==
    ASSUME WebInv, NEW r \in Refreshes, RefreshShows(r)
    PROVE  WebInv'
<1> USE DEF WebInv
<1>1. /\ load[r].at = "read" /\ shown' = PositionOf(load[r]) /\ status' = status
      /\ stale' = FALSE /\ tx' = tx /\ newest' = newest
      /\ address' = address /\ ADMIN_ADDRESS' = ADMIN_ADDRESS
      /\ disturbed' = disturbed /\ outdated' = (r \in overtaken)
  BY DEF RefreshShows, ledger_vars, wallet_vars
<1>2. call \in [Calls -> Call]
  BY DEF WebTypeOK
<1>0. outdated' \in BOOLEAN /\ stale' \in BOOLEAN /\ overtaken' = overtaken \ {r}
  <2>1. (r \in overtaken) \in BOOLEAN
    OBVIOUS
  <2> QED
    BY <1>1, <2>1 DEF RefreshShows
<1>3. RefreshEnds(r) /\ \A c \in Calls : call'[c].verdict = call[c].verdict
  <2> DEFINE new == [call[r] EXCEPT !.at = "ended"]
  <2>1. CASE r \in Calls
    <3>1. call' = [call EXCEPT ![r] = new] /\ new \in Call
      <4>1. call' = [call EXCEPT ![r] = new]
        BY <2>1 DEF RefreshShows
      <4>2. call[r] \in Call
        BY <1>2, <2>1
      <4>3. new \in Call
        BY <4>2 DEF Call
      <4> QED
        BY <4>1, <4>3
    <3>2. /\ new.at = "ended" /\ new.account = call[r].account /\ new.seq = call[r].seq
          /\ new.seen = call[r].seen /\ new.verdict = call[r].verdict
      BY <1>2, <2>1 DEF Call
    <3> HIDE DEF new
    <3>3. call' \in [Calls -> Call] /\ call'[r] = new
          /\ \A c \in Calls : c # r => call'[c] = call[c]
      BY <1>2, <2>1, <3>1
    <3>4. isLoading' = FALSE
      BY <2>1 DEF RefreshShows
    <3> QED
      BY <1>1, <1>0, <2>1, <3>2, <3>3, <3>4 DEF RefreshEnds, RefreshShows
  <2>2. CASE r \notin Calls
    <3>1. call' = call /\ isLoading' = FALSE
      BY <2>2 DEF RefreshShows, LoadingAfterRefresh
    <3> QED
      BY <1>1, <1>2, <1>0, <2>2, <3>1 DEF RefreshEnds, RefreshShows
  <2> QED
    BY <2>1, <2>2
<1>4. /\ shown' \in [account : Accounts, version : 0..MaxSequence] \cup {NoPosition}
      /\ load[r].account = NoAccount => shown' = NoPosition
      /\ load[r].account # NoAccount =>
           /\ shown' # NoPosition
           /\ shown'.account = load[r].account /\ shown'.version = load[r].version
  BY <1>1, WebTypes, WebAssumption DEF PositionOf
<1>5. WebTypeOK' /\ CallsInOrder' /\ NumbersInOrder'
  BY <1>3, <1>4, RefreshEndsInOrder
<1>6. Alone'
  <2> SUFFICES ASSUME ~disturbed' PROVE Alone'
    BY DEF Alone
  <2>1. ~disturbed /\ Busy' = {} /\ CallsUnderWay' = {} /\ LoadsUnderWay' = {}
    BY <1>1, <1>3, RefreshEndsInOrder
  <2>2. load[r].account = address
    BY <1>3, <2>1, RefreshEndsInOrder DEF Alone
  <2>3. ShownIsTheirs'
    BY <1>1, <1>4, <2>2 DEF ShownIsTheirs
  <2> QED
    BY <1>1, <2>1, <2>3 DEF Alone
<1>7. ReadsInOrder'
  <2>1. \A c \in Calls : /\ call'[c].account = call[c].account
                         /\ call'[c].seq = call[c].seq
                         /\ call'[c].verdict = call[c].verdict
    BY <1>3 DEF RefreshEnds
  <2>2. ASSUME NEW s \in Refreshes \ overtaken', NEW c \in Calls
        PROVE  ReadIncludes(s, c)'
    <3> SUFFICES ASSUME load'[s].at = "read" PROVE ReadIncludes(s, c)'
      BY DEF ReadIncludes
    <3>1. s \in Refreshes \ overtaken /\ load'[s] = load[s]
      BY <1>3, RefreshEndsInOrder DEF LoadsUnderWay
    <3> QED
      BY <2>1, <3>1 DEF ReadsInOrder, ReadIncludes
  <2>3. ASSUME ~outdated', NEW c \in Calls, shown' # NoPosition,
               call'[c].verdict = "successful", call'[c].account = shown'.account
        PROVE  shown'.version >= call'[c].seq
    <3>1. shown'.account = load[r].account /\ shown'.version = load[r].version
      BY <1>4, <2>3
    <3>2. ReadIncludes(r, c)
      BY <1>1, <2>3 DEF ReadsInOrder
    <3>3. call[c].seq <= load[r].version
      BY <1>1, <2>1, <2>3, <3>1, <3>2 DEF ReadIncludes
    <3>4. call[c].seq \in Nat /\ load[r].version \in Nat
      BY WebTypes
    <3> QED
      BY <2>1, <3>1, <3>3, <3>4
  <2> QED
    BY <2>2, <2>3 DEF ReadsInOrder, ShownIncludesSuccess
<1> QED
  BY <1>5, <1>6, <1>7

LEMMA RefreshFailsKeepsInv ==
    ASSUME WebInv, NEW r \in Refreshes, RefreshFails(r)
    PROVE  WebInv'
<1> USE DEF WebInv
<1>1. /\ load[r].at # "idle" /\ shown' = shown /\ stale' = TRUE /\ tx' = tx
      /\ newest' = newest /\ disturbed' = disturbed /\ outdated' = outdated
  BY DEF RefreshFails, ledger_vars, wallet_vars
<1>2. call \in [Calls -> Call]
  BY DEF WebTypeOK
<1>0. outdated' \in BOOLEAN /\ stale' \in BOOLEAN /\ overtaken' = overtaken \ {r}
  BY <1>1 DEF RefreshFails, WebTypeOK
<1>3. /\ RefreshEnds(r)
      /\ \A c \in Calls : c # r => call'[c].verdict = call[c].verdict
      /\ r \in Calls => call'[r].verdict = "failed"
  <2> DEFINE new == [call[r] EXCEPT !.at = "ended", !.verdict = "failed"]
  <2>1. CASE r \in Calls
    <3>1. call' = [call EXCEPT ![r] = new] /\ new \in Call
      <4>1. call' = [call EXCEPT ![r] = new]
        BY <2>1 DEF RefreshFails, Throws
      <4>2. call[r] \in Call
        BY <1>2, <2>1
      <4>3. new \in Call
        BY <4>2 DEF Call
      <4> QED
        BY <4>1, <4>3
    <3>2. /\ new.at = "ended" /\ new.account = call[r].account /\ new.seq = call[r].seq
          /\ new.seen = call[r].seen /\ new.verdict = "failed"
      BY <1>2, <2>1 DEF Call
    <3> HIDE DEF new
    <3>3. call' \in [Calls -> Call] /\ call'[r] = new
          /\ \A c \in Calls : c # r => call'[c] = call[c]
      BY <1>2, <2>1, <3>1
    <3>4. isLoading' = FALSE /\ status' = "failed"
      BY <2>1 DEF RefreshFails, Throws
    <3> QED
      BY <1>1, <1>0, <2>1, <3>2, <3>3, <3>4 DEF RefreshEnds, RefreshFails
  <2>2. CASE r \notin Calls
    <3>1. call' = call /\ isLoading' = FALSE /\ status' = status
      BY <2>2 DEF RefreshFails, LoadingAfterRefresh
    <3> QED
      BY <1>1, <1>2, <1>0, <2>2, <3>1 DEF RefreshEnds, RefreshFails
  <2> QED
    BY <2>1, <2>2
<1>4. shown \in [account : Accounts, version : 0..MaxSequence] \cup {NoPosition}
  BY DEF WebTypeOK
<1>5. WebTypeOK' /\ CallsInOrder' /\ NumbersInOrder'
  BY <1>1, <1>3, <1>4, RefreshEndsInOrder
<1>6. Alone'
  <2> SUFFICES ASSUME ~disturbed' PROVE Alone'
    BY DEF Alone
  <2>1. ~disturbed /\ Busy' = {} /\ CallsUnderWay' = {} /\ LoadsUnderWay' = {}
    BY <1>1, <1>3, RefreshEndsInOrder
  <2>2. status = "successful" /\ newest # NoCall => tx[newest] = "success"
    BY <2>1 DEF Alone
  <2>3. status' \in {status, "failed"}
    BY <1>3 DEF RefreshEnds
  <2> QED
    BY <1>1, <2>1, <2>2, <2>3 DEF Alone
<1>7. ReadsInOrder'
  <2>1. \A c \in Calls : /\ call'[c].account = call[c].account
                         /\ call'[c].seq = call[c].seq
                         /\ call'[c].verdict = "successful" => call'[c] = call[c]
    BY <1>3 DEF RefreshEnds
  <2>2. ASSUME NEW s \in Refreshes \ overtaken', NEW c \in Calls
        PROVE  ReadIncludes(s, c)'
    <3> SUFFICES ASSUME load'[s].at = "read" PROVE ReadIncludes(s, c)'
      BY DEF ReadIncludes
    <3>1. s \in Refreshes \ overtaken /\ load'[s] = load[s]
      BY <1>3, RefreshEndsInOrder DEF LoadsUnderWay
    <3> QED
      BY <2>1, <3>1 DEF ReadsInOrder, ReadIncludes
  <2>3. ShownIncludesSuccess'
    BY <1>1, <2>1 DEF ShownIncludesSuccess, ReadsInOrder
  <2> QED
    BY <2>2, <2>3 DEF ReadsInOrder
<1> QED
  BY <1>5, <1>6, <1>7

----------------------------------------------------------------------------
LEMMA WebStutters ==
    ASSUME WebInv, UNCHANGED web_vars
    PROVE  WebInv'
BY DEF WebInv, WebTypeOK, CallsInOrder, CallInOrder, NumbersInOrder, SawEarlier,
   Alone, ShownIsTheirs, ReadsInOrder, ReadIncludes, ShownIncludesSuccess, Landed,
   CallsUnderWay, LoadsUnderWay, Busy, web_vars, ledger_vars, wallet_vars, history_vars

LEMMA WebNextKeepsInv == WebInv /\ [WebNext]_web_vars => WebInv'
<1> SUFFICES ASSUME WebInv, [WebNext]_web_vars PROVE WebInv'
  OBVIOUS
<1>1. CASE LedgerStep
  BY <1>1, LandKeepsInv, DroppedKeepsInv, OtherTransactionKeepsInv DEF LedgerStep
<1>2. CASE WalletStep
  BY <1>2, WalletStepKeepsInv
<1>3. CASE \E c \in Calls : Press(c)
  BY <1>3, PressKeepsInv
<1>4. CASE PressWithoutWallet
  BY <1>4, PressWithoutWalletKeepsInv
<1>5. CASE \E c \in Calls : CallStep(c)
  BY <1>5, CallStepKeepsInv
<1>6. CASE \E r \in Refreshes : RefreshStep(r)
  BY <1>6, RefreshReadKeepsInv, RefreshShowsKeepsInv, RefreshFailsKeepsInv
     DEF RefreshStep
<1>7. CASE UNCHANGED web_vars
  BY <1>7, WebStutters
<1> QED
  BY <1>1, <1>2, <1>3, <1>4, <1>5, <1>6, <1>7 DEF WebNext

LEMMA WebAlwaysInv == WebSpec => []WebInv
<1>1. WebInit => WebInv
  BY WebInitInv
<1>2. WebInv /\ [WebNext]_web_vars => WebInv'
  BY WebNextKeepsInv
<1> QED
  BY <1>1, <1>2, PTL DEF WebSpec

\* Every variable keeps to its type; a sequence number is never more than one
\* ahead of the bound of the ledger's.
THEOREM WebTypeCorrect == WebSpec => []WebTypeOK
<1>1. WebInv => WebTypeOK
  BY DEF WebInv
<1> QED
  BY <1>1, WebAlwaysInv, PTL

\* Of two calls of an account that both took effect, one was built when the
\* other had already landed, whatever answers were lost or late: withWallet
\* reads the account's number anew for each call.
THEOREM NothingAppliedTwice == WebSpec => []NoBlindDoubleApply
<1>1. WebInv => NoBlindDoubleApply
  <2> SUFFICES ASSUME WebInv, NEW c \in Calls, NEW d \in Calls, c # d,
                      call[c].account = call[d].account,
                      tx[c] = "success", tx[d] = "success"
               PROVE  c \in call[d].seen \/ d \in call[c].seen
    BY DEF NoBlindDoubleApply
  <2>1. c \in Landed /\ d \in Landed
    BY DEF Landed
  <2>2. SawEarlier(c, d) /\ SawEarlier(d, c)
    BY DEF WebInv, NumbersInOrder
  <2>3. call[c].seq \in Nat /\ call[d].seq \in Nat
    BY WebTypes DEF WebInv
  <2> QED
    BY <2>1, <2>2, <2>3 DEF SawEarlier
<1> QED
  BY <1>1, WebAlwaysInv, PTL

\* The one status of the provider speaks of the newest call and agrees with the
\* ledger, as long as the account does not change under something under way.
THEOREM StatusTrue == WebSpec => []StatusIsTrue
<1>1. WebInv => StatusIsTrue
  <2> SUFFICES ASSUME WebInv, ~disturbed, newest # NoCall
               PROVE  /\ status = "successful" => tx[newest] = "success"
                      /\ call[newest].verdict = "refused" => tx[newest] = "failed"
    BY DEF StatusIsTrue
  <2>1. newest \in Calls
    BY DEF WebInv, WebTypeOK
  <2> QED
    BY <2>1 DEF WebInv, Alone, CallsInOrder, CallInOrder
<1> QED
  BY <1>1, WebAlwaysInv, PTL

\* A position on display includes all that was reported as successful, unless
\* it came with an answer of a refresh that a newer one had overtaken.
THEOREM ShownIncludes == WebSpec => []ShownIncludesSuccess
<1>1. WebInv => ShownIncludesSuccess
  BY DEF WebInv, ReadsInOrder
<1> QED
  BY <1>1, WebAlwaysInv, PTL

\* With no refresh under way, the position on display is the connected account's.
THEOREM ShownIsTheConnecteds == WebSpec => []ShownIsOfTheConnected
<1>1. WebInv => ShownIsOfTheConnected
  BY DEF WebInv, Alone, ShownIsTheirs, ShownIsOfTheConnected
<1> QED
  BY <1>1, WebAlwaysInv, PTL

\* With an administrator to read as, a disconnect ends with no position on display.
THEOREM NothingShownDisconnected == WebSpec => []NothingShownWithoutAccount
<1>1. WebInv => NothingShownWithoutAccount
  BY DEF WebInv, Alone, ShownIsTheirs, NothingShownWithoutAccount
<1> QED
  BY <1>1, WebAlwaysInv, PTL

\* One loading flag, cleared by the end of any refresh, is enough to keep the
\* calls apart until the account changes under one of them.
THEOREM CallsKeptApart == WebSpec => []OneCallAtATime
<1>1. WebInv => OneCallAtATime
  <2> SUFFICES ASSUME WebInv, ~disturbed PROVE Cardinality(CallsUnderWay) <= 1
    BY DEF OneCallAtATime
  <2>1. \A c, d \in CallsUnderWay : c = d
    BY DEF WebInv, Alone, Busy
  <2>2. CASE CallsUnderWay = {}
    BY <2>2, FS_EmptySet
  <2>3. ASSUME NEW c \in CallsUnderWay PROVE Cardinality(CallsUnderWay) <= 1
    <3>1. CallsUnderWay = {c}
      BY <2>1
    <3>2. Cardinality({c}) = 1
      BY FS_Singleton
    <3> QED
      BY <3>1, <3>2
  <2> QED
    BY <2>2, <2>3
<1> QED
  BY <1>1, WebAlwaysInv, PTL
=============================================================================
