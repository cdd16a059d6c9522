----------------------------- MODULE WebClient -----------------------------
(***************************************************************************)
(* The web application's calls of the contracts: LumenLendProvider with    *)
(* its contract clients and transaction service, and the wallet.  Every    *)
(* await is a step of its own: ledgers close, requests fail, answers are   *)
(* lost, the wallet is disconnected and positions are refreshed between    *)
(* any two of them.  One status and one loading flag serve all calls.      *)
(***************************************************************************)
EXTENDS Integers, FiniteSets

CONSTANTS Calls,        \* presses of a confirm button
          Method,       \* what each of them calls
          Loads,        \* bound on the refreshes of effects under way at once
          Accounts,
          NoAccount,
          NoCall,
          NoPosition,
          AdminAddresses, \* what a build may have ADMIN_ADDRESS set to
          ChangeLimit,  \* bound on the presses of connect and disconnect
          MaxSequence   \* bound on the sequence number of an account

VARIABLES
    sequence,    \* ledger: sequence number of each account
    tx,          \* ledger: what became of each call's transaction
    ADMIN_ADDRESS, \* of the build: whom to read as without a wallet, or NoAccount
    address,     \* WalletProvider: the connected account
    connecting,  \* calls of connector.connect under way
    changes,     \* how often connect or disconnect was pressed
    call,        \* each call of withWallet: where it is, and its locals
    load,        \* each refresh under way, of an effect or of a call
    status,      \* transactionStatus
    isLoading,
    shown,       \* userPosition: whose it is, and as of which sequence number
    newest,      \* history: the last call that started
    disturbed,   \* history: the account changed while something was under way
    overtaken,   \* history: the refreshes under way that a newer one followed
    outdated,    \* history: the last answer shown was of such a refresh
    stale        \* history: the last refresh to end failed

ledger_vars == <<sequence, tx>>
wallet_vars == <<ADMIN_ADDRESS, address, connecting, changes>>
history_vars == <<newest, disturbed, overtaken, outdated, stale>>
web_vars == <<ledger_vars, wallet_vars, call, load, status, isLoading, shown,
              history_vars>>

ASSUME WebAssumption ==
    /\ Calls \cap Loads = {}
    /\ Method \in [Calls -> {"supply", "withdraw", "borrow", "repay",
                             "depositCollateral", "withdrawCollateral",
                             "setLiquidationThreshold", "liquidate"}]
    /\ NoAccount \notin Accounts
    /\ AdminAddresses \subseteq Accounts \cup {NoAccount}
    /\ NoCall \notin Calls
    /\ NoPosition \notin [account : Accounts, version : 0..MaxSequence]
    /\ Loads # {}
    /\ ChangeLimit \in Nat
    /\ MaxSequence \in Nat

Refreshes == Calls \cup Loads

\* The statuses clients report; "submitted" is followed by "confirming" with
\* nothing in between and is left out.
TransactionLifecycleStatus ==
    {"preparing", "awaitingApproval", "confirming", "successful", "failed"}

\* The calls whose client takes no onStatus.
Silent == {c \in Calls : Method[c] \in {"liquidate", "setLiquidationThreshold"}}

Call == [at : {"idle", "building", "simulating", "signing", "sending",
               "waiting", "refreshing", "ended"},
         account : Accounts \cup {NoAccount},
         seq : 0..(MaxSequence + 1),
         seen : SUBSET Calls,  \* history: landed before getAccount answered
         verdict : {"none", "successful", "refused", "failed"}]

WebTypeOK ==
    /\ sequence \in [Accounts -> 0..MaxSequence]
    /\ tx \in [Calls -> {"none", "pending", "success", "failed"}]
    /\ {ADMIN_ADDRESS, address} \subseteq Accounts \cup {NoAccount}
    /\ changes \in 0..ChangeLimit
    /\ connecting \in 0..changes
    /\ call \in [Calls -> Call]
    /\ load \in [Refreshes -> [at : {"idle", "asked", "read"},
                               account : Accounts \cup {NoAccount},
                               version : 0..MaxSequence]]
    /\ status \in TransactionLifecycleStatus \cup {"none"}
    /\ isLoading \in BOOLEAN
    /\ shown \in [account : Accounts, version : 0..MaxSequence]
                   \cup {NoPosition}
    /\ newest \in Calls \cup {NoCall}
    /\ disturbed \in BOOLEAN
    /\ overtaken \subseteq Refreshes
    /\ outdated \in BOOLEAN
    /\ stale \in BOOLEAN

Landed == {c \in Calls : tx[c] \in {"success", "failed"}}
CallsUnderWay == {c \in Calls : call[c].at \notin {"idle", "ended"}}
LoadsUnderWay == {r \in Refreshes : load[r].at # "idle"}

\* The bounded set of refreshes is used in a fixed order.
FreeLoad == CHOOSE r \in Loads : load[r].at = "idle"

Asked(account) == [at |-> "asked", account |-> account, version |-> 0]
Idle == [at |-> "idle", account |-> NoAccount, version |-> 0]

\* Mutant of ViewerAddress: reads are always made as the administrator.
ViewerAddressOfAdmin(account) == ADMIN_ADDRESS

\* As whom the application reads.  Without a viewer refresh returns at once.
ViewerAddress(account) == IF account # NoAccount THEN account ELSE ADMIN_ADDRESS

\* The effect of the provider calls refresh when the page is opened.
WebInit ==
    /\ sequence = [a \in Accounts |-> 0]
    /\ tx = [c \in Calls |-> "none"]
    /\ ADMIN_ADDRESS \in AdminAddresses
    /\ address = NoAccount
    /\ connecting = 0
    /\ changes = 0
    /\ call = [c \in Calls |-> [at |-> "idle", account |-> NoAccount,
                                seq |-> 0, seen |-> {}, verdict |-> "none"]]
    /\ load = [r \in Refreshes |->
                 IF /\ ViewerAddress(NoAccount) # NoAccount
                    /\ r = CHOOSE l \in Loads : TRUE
                 THEN Asked(NoAccount) ELSE Idle]
    /\ status = "none"
    /\ isLoading = (ViewerAddress(NoAccount) # NoAccount)
    /\ shown = NoPosition
    /\ newest = NoCall
    /\ disturbed = FALSE
    /\ overtaken = {}
    /\ outdated = FALSE
    /\ stale = FALSE

----------------------------------------------------------------------------
\* The ledger.

\* A ledger takes in the transaction that is next for its account, and the
\* contract accepts the call or not.  It has no time bound: it may still be
\* taken in when nobody waits for it any more.
Land(c, ok) ==
    /\ tx[c] = "pending"
    /\ sequence[call[c].account] < MaxSequence
    /\ call[c].seq = sequence[call[c].account] + 1
    /\ sequence' = [sequence EXCEPT ![call[c].account] = @ + 1]
    /\ tx' = [tx EXCEPT ![c] = IF ok THEN "success" ELSE "failed"]
    /\ UNCHANGED <<wallet_vars, call, load, status, isLoading, shown,
                   history_vars>>

\* The node drops a transaction from its queue.
Dropped(c) ==
    /\ tx[c] = "pending"
    /\ tx' = [tx EXCEPT ![c] = "none"]
    /\ UNCHANGED <<sequence, wallet_vars, call, load, status, isLoading, shown,
                   history_vars>>

\* The owner of the account uses it elsewhere.
OtherTransaction(a) ==
    /\ sequence[a] < MaxSequence
    /\ sequence' = [sequence EXCEPT ![a] = @ + 1]
    /\ UNCHANGED <<tx, wallet_vars, call, load, status, isLoading, shown,
                   history_vars>>

----------------------------------------------------------------------------
\* The wallet.  A new account, or none, makes the effect call refresh: it asks
\* for the account's position, or does nothing where nobody is there to read as.
AccountBecomes(a) ==
    /\ address' = a
    /\ IF a = address \/ ViewerAddress(a) = NoAccount
       THEN UNCHANGED <<load, isLoading, overtaken>>
       ELSE /\ \E r \in Loads : load[r].at = "idle"
            /\ load' = [load EXCEPT ![FreeLoad] = Asked(a)]
            /\ isLoading' = TRUE
            /\ overtaken' = LoadsUnderWay
    /\ disturbed' = (disturbed \/ (a # address /\ LoadsUnderWay \cup CallsUnderWay # {}))
    /\ UNCHANGED <<ledger_vars, ADMIN_ADDRESS, call, status, shown, newest, outdated,
                   stale>>

\* The pages offer to connect without an account, and to disconnect with one.
\* The header's button waits for a connection under way; the one of the
\* position summary does not.
ConnectOffered == address = NoAccount

Connect ==
    /\ ConnectOffered
    /\ changes < ChangeLimit
    /\ connecting' = connecting + 1
    /\ changes' = changes + 1
    /\ UNCHANGED <<ledger_vars, ADMIN_ADDRESS, address, call, load, status,
                   isLoading, shown, history_vars>>

\* The extension answers with an account, or is missing, refused or silent
\* about it; a connection that fails ends the one there is, and one that is
\* late takes effect after a disconnect.
ConnectAnswers(a) ==
    /\ connecting > 0
    /\ connecting' = connecting - 1
    /\ AccountBecomes(a)
    /\ UNCHANGED changes

Disconnect ==
    /\ ~ConnectOffered
    /\ changes < ChangeLimit
    /\ changes' = changes + 1
    /\ AccountBecomes(NoAccount)
    /\ UNCHANGED connecting

\* Mutant of CanPress: the button is enabled while something is loading.
CanPressWhileLoading == TRUE

\* Every confirm button is disabled while isLoading.
CanPress == ~isLoading

\* withWallet, up to its first await.
Press(c) ==
    /\ CanPress
    /\ address # NoAccount
    /\ call[c].at = "idle"
    /\ call' = [call EXCEPT ![c].at = "building", ![c].account = address]
    /\ status' = "preparing"
    /\ isLoading' = TRUE
    /\ newest' = c
    /\ UNCHANGED <<ledger_vars, wallet_vars, load, shown, disturbed, overtaken,
                   outdated, stale>>

\* withWallet throws when no wallet is connected; the modal has cleared the
\* status by then.
PressWithoutWallet ==
    /\ CanPress
    /\ address = NoAccount
    /\ status' = "none"
    /\ UNCHANGED <<ledger_vars, wallet_vars, call, load, isLoading, shown,
                   history_vars>>

\* The clients that take onStatus report what they are about to do.
Report(c, s) == IF c \in Silent THEN status ELSE s

\* What an exception on the way does: the catch and the finally of withWallet.
Throws(c) ==
    /\ call' = [call EXCEPT ![c].at = "ended", ![c].verdict = "failed"]
    /\ status' = "failed"
    /\ isLoading' = FALSE

\* Mutant of NextSequence: the calls still on their way are counted too.
NextSequenceAhead(c) ==
    sequence[call[c].account] + 1
      + Cardinality({d \in Calls \ {c} : tx[d] = "pending"})

\* The builder takes the number after the one getAccount has just answered.
NextSequence(c) == sequence[call[c].account] + 1

GetAccount(c) ==
    /\ call[c].at = "building"
    /\ \/ /\ call' = [call EXCEPT ![c].at = "simulating",
                                  ![c].seq = NextSequence(c),
                                  ![c].seen = Landed]
          /\ UNCHANGED <<status, isLoading>>
       \/ Throws(c)
    /\ UNCHANGED <<ledger_vars, wallet_vars, load, shown, history_vars>>

\* prepareTransaction simulates the call; it throws when the contract does.
PrepareTransaction(c) ==
    /\ call[c].at = "simulating"
    /\ \/ /\ call' = [call EXCEPT ![c].at = "signing"]
          /\ status' = Report(c, "awaitingApproval")
          /\ UNCHANGED isLoading
       \/ Throws(c)
    /\ UNCHANGED <<ledger_vars, wallet_vars, load, shown, history_vars>>

\* The wallet signs, or its user declines.
SignTransaction(c) ==
    /\ call[c].at = "signing"
    /\ \/ /\ call' = [call EXCEPT ![c].at = "sending"]
          /\ UNCHANGED <<status, isLoading>>
       \/ Throws(c)
    /\ UNCHANGED <<ledger_vars, wallet_vars, load, shown, history_vars>>

\* The node queues a transaction that is next for its account if it has none
\* of that account; it answers PENDING then, else ERROR or TRY_AGAIN_LATER.
Queues(c) ==
    /\ call[c].seq = sequence[call[c].account] + 1
    /\ \A d \in Calls : tx[d] = "pending" => call[d].account # call[c].account

\* The answer may be lost.  Only supply looks whether it is an error: the other
\* clients go on to wait for a transaction the node has refused.
SendTransaction(c) ==
    /\ call[c].at = "sending"
    /\ \E answer \in {"PENDING", "TRY_AGAIN_LATER", "ERROR"},
          delivered \in BOOLEAN :
          /\ answer = "PENDING" => Queues(c)
          /\ tx' = IF answer = "PENDING" THEN [tx EXCEPT ![c] = "pending"]
                   ELSE tx
          /\ IF delivered /\ ~(answer = "ERROR" /\ Method[c] = "supply")
             THEN /\ call' = [call EXCEPT ![c].at = "waiting"]
                  /\ status' = Report(c, "confirming")
                  /\ UNCHANGED isLoading
             ELSE Throws(c)
    /\ UNCHANGED <<sequence, wallet_vars, load, shown, history_vars>>

\* Mutant of Found: a queued transaction is taken for an answer.
FoundQueued(c) == tx[c] # "none"

\* getTransaction answers something else than NOT_FOUND.
Found(c) == tx[c] \in {"success", "failed"}

\* Mutant of AfterSuccess: the position is not refreshed.
AfterSuccessNothing == "ended"

\* withWallet refreshes after a successful call, as the account that made it.
AfterSuccess == "refreshing"

\* waitForTransaction returns, and withWallet goes on with its result.
Confirmed(c) ==
    /\ call[c].at = "waiting"
    /\ Found(c)
    /\ IF tx[c] = "success"
       THEN /\ call' = [call EXCEPT ![c].at = AfterSuccess,
                                    ![c].verdict = "successful"]
            /\ status' = "successful"
            /\ isLoading' = (AfterSuccess = "refreshing")
            /\ load' = [load EXCEPT ![c] =
                          IF AfterSuccess = "refreshing"
                          THEN Asked(call[c].account) ELSE @]
            /\ overtaken' = IF AfterSuccess = "refreshing" THEN LoadsUnderWay
                            ELSE overtaken
       ELSE /\ call' = [call EXCEPT ![c].at = "ended",
                                    ![c].verdict = "refused"]
            /\ status' = "failed"
            /\ isLoading' = FALSE
            /\ UNCHANGED <<load, overtaken>>
    /\ UNCHANGED <<ledger_vars, wallet_vars, shown, newest, disturbed, outdated, stale>>

\* waitForTransaction gives up after its last NOT_FOUND, or a request of its
\* fails; the transaction may have landed since, or land yet.
WaitingThrows(c) ==
    /\ call[c].at = "waiting"
    /\ Throws(c)
    /\ UNCHANGED <<ledger_vars, wallet_vars, load, shown, history_vars>>

----------------------------------------------------------------------------
\* The node answers the requests of a refresh; the answer is on its way.
RefreshRead(r) ==
    /\ load[r].at = "asked"
    /\ load' = [load EXCEPT ![r].at = "read",
                            ![r].version = IF load[r].account = NoAccount THEN 0
                                           ELSE sequence[load[r].account]]
    /\ UNCHANGED <<ledger_vars, wallet_vars, call, status, isLoading, shown,
                   history_vars>>

\* Mutant of LoadingAfterRefresh: a refresh leaves the flag alone.
LoadingLeftOn == isLoading

\* The finally of refresh.
LoadingAfterRefresh == FALSE

\* Mutant of PositionOf: without an account the position is left alone.
PositionOfSomeone(l) ==
    IF l.account = NoAccount THEN shown
    ELSE [account |-> l.account, version |-> l.version]

\* What refresh sets the position to; without an account, to null.
PositionOf(l) ==
    IF l.account = NoAccount THEN NoPosition
    ELSE [account |-> l.account, version |-> l.version]

\* The answer arrives: setUserPosition for the account the refresh was asked
\* for, whichever is connected now.
RefreshShows(r) ==
    /\ load[r].at = "read"
    /\ shown' = PositionOf(load[r])
    /\ stale' = FALSE
    /\ outdated' = (r \in overtaken)
    /\ overtaken' = overtaken \ {r}
    /\ load' = [load EXCEPT ![r] = Idle]
    /\ isLoading' = (IF r \in Calls THEN FALSE ELSE LoadingAfterRefresh)
    /\ call' = IF r \in Calls THEN [call EXCEPT ![r].at = "ended"] ELSE call
    /\ UNCHANGED <<ledger_vars, wallet_vars, status, newest, disturbed>>

\* A request fails.  The refresh of a call is inside its try: the call is
\* reported as failed after all.
RefreshFails(r) ==
    /\ load[r].at # "idle"
    /\ load' = [load EXCEPT ![r] = Idle]
    /\ IF r \in Calls THEN Throws(r)
       ELSE /\ isLoading' = LoadingAfterRefresh
            /\ UNCHANGED <<call, status>>
    /\ stale' = TRUE
    /\ overtaken' = overtaken \ {r}
    /\ UNCHANGED <<ledger_vars, wallet_vars, shown, newest, disturbed, outdated>>

----------------------------------------------------------------------------
LedgerStep ==
    \/ \E c \in Calls : (\E ok \in BOOLEAN : Land(c, ok)) \/ Dropped(c)
    \/ \E a \in Accounts : OtherTransaction(a)

WalletStep ==
    \/ Connect
    \/ \E a \in Accounts \cup {NoAccount} : ConnectAnswers(a)
    \/ Disconnect

CallStep(c) ==
    \/ GetAccount(c)
    \/ PrepareTransaction(c)
    \/ SignTransaction(c)
    \/ SendTransaction(c)
    \/ Confirmed(c)
    \/ WaitingThrows(c)

RefreshStep(r) ==
    \/ RefreshRead(r)
    \/ RefreshShows(r)
    \/ RefreshFails(r)

WebNext ==
    \/ LedgerStep
    \/ WalletStep
    \/ \E c \in Calls : Press(c)
    \/ PressWithoutWallet
    \/ \E c \in Calls : CallStep(c)
    \/ \E r \in Refreshes : RefreshStep(r)

\* Requests settle, the wallet's user decides, and waiting ends by its clock.
WebFairness ==
    /\ \A c \in Calls : WF_web_vars(CallStep(c))
    /\ \A r \in Refreshes : WF_web_vars(RefreshStep(r))

WebSpec == WebInit /\ [][WebNext]_web_vars /\ WebFairness

----------------------------------------------------------------------------
\* A call that ended in doubt (a timeout, a lost answer) can be tried again
\* without the transaction being applied twice behind the user's back: if two
\* calls of an account both took effect, the later one was built when the
\* earlier one had already landed.  Each call reads the account's sequence
\* number anew, so two calls in doubt compete for the same one.
NoBlindDoubleApply ==
    \A c, d \in Calls :
        /\ c # d
        /\ call[c].account = call[d].account
        /\ tx[c] = "success" /\ tx[d] = "success"
        => c \in call[d].seen \/ d \in call[c].seen

\* As long as the account does not change under a call, the one status speaks
\* of the newest call and says what the ledger says: a success is on the
\* ledger, and a failure the ledger reported is not going to take effect.  (A
\* failure by exception says nothing: see hazards.)
StatusIsTrue ==
    ~disturbed /\ newest # NoCall =>
        /\ status = "successful" => tx[newest] = "success"
        /\ call[newest].verdict = "refused" => tx[newest] = "failed"

\* A position on display includes every transaction of its account that was
\* reported as successful, however refreshes overlapped and failed, unless the
\* answer it came with is of a refresh that a newer one had overtaken.  The next
\* answer that arrives in order makes it good again.
ShownIncludesSuccess ==
    ~outdated /\ shown # NoPosition =>
        \A c \in Calls :
            /\ call[c].at = "ended"
            /\ call[c].verdict = "successful"
            /\ call[c].account = shown.account
            => shown.version >= call[c].seq

\* When no refresh is under way any more, the position on display is the one of
\* the connected account, however often the wallet was connected, disconnected
\* and connected late.  It takes a change of account under a call or a refresh,
\* or a refresh that failed, to leave another's position there.
ShownIsOfTheConnected ==
    ~disturbed /\ ~stale /\ LoadsUnderWay = {} /\ address # NoAccount =>
        shown # NoPosition /\ shown.account = address

\* Without an account no position is on display, when nothing went wrong as
\* above and there is an administrator to read as.  (Where ADMIN_ADDRESS is not
\* set, a disconnect leaves the last position in the provider: see hazards.)
NothingShownWithoutAccount ==
    /\ ADMIN_ADDRESS # NoAccount
    /\ ~disturbed /\ ~stale /\ LoadsUnderWay = {} /\ address = NoAccount
    => shown = NoPosition

\* The loading flag, which the end of any refresh clears, keeps calls apart as
\* long as the account does not change under one of them.
OneCallAtATime == ~disturbed => Cardinality(CallsUnderWay) <= 1

\* However calls and refreshes overlap and fail, the buttons come back.
NeverLeftLoading == isLoading ~> ~isLoading
============================================================================
