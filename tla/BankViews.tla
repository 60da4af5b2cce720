------------------------------ MODULE BankViews ------------------------------
(***************************************************************************)
(* The read side of the bank example, composed with its accounts and       *)
(* transfers (module BankTransfers) and with the document store (module    *)
(* DocumentStore).  The journal consumer takes one account event after the *)
(* other from the ledger, and three projections write it into documents    *)
(* (examples/bank/infra/projections/), which QueryHandler.ts reads.        *)
(*                                                                         *)
(* Polling and dispatching are those of module ProjectionPipeline with one *)
(* chain, no pause and no retry, of which only the order is kept: the      *)
(* dispatcher waits for a projection before it calls the next, and the     *)
(* consumer waits for the dispatcher.  A projection is the only writer of  *)
(* its documents, so that reading and writing back are one action.         *)
(***************************************************************************)
EXTENDS BankTransfers, DocumentStore

Seqs == INSTANCE SequencesExt

VARIABLES
  current,  \* the event being dispatched, and who has still to see it
  queried   \* the accounts that a query for all of them is about to read

viewVars == <<current, queried, storeVars>>
bankVars == <<transferVars, viewVars>>

STATS_ID == 0

(* The documents of the three types. *)
AccountSummary == [balance : Int, transactionCount : Nat]
Transaction == [type : EventTypes, amount : Int, balance : Int]
TransactionHistory ==
  [transactions : Seq(Transaction), totalDeposits : Int, totalWithdrawals : Int,
   totalRefunds : Int]
BankStatistics ==
  [totalAccounts : Nat, totalBalance : Int, totalDeposits : Int, totalWithdrawals : Int,
   totalRefunds : Int, totalTransactions : Nat, accountNumbers : Seq(AccountNumbers)]

View(type) ==
  CASE type = "AccountSummary" -> AccountSummary
    [] type = "TransactionHistory" -> TransactionHistory
    [] type = "BankStatistics" -> BankStatistics

ViewTypes == {"AccountSummary", "TransactionHistory", "BankStatistics"}

\* The store has room for the views, and its adapters can write them.
ASSUME ViewsAssumption ==
  /\ ViewTypes \subseteq DocTypes
  /\ AccountNumbers \cup {STATS_ID} \subseteq Ids
  /\ \A type \in ViewTypes :
       /\ Null \notin View(type)
       /\ \A state \in Unstorable : state \notin View(type)
       /\ NoDocument \notin [state : View(type), dataVersion : Nat]

NoEvent == [type |-> "none", account |-> STATS_ID, amount |-> 0]
Idle == [event |-> NoEvent, todo |-> <<>>]

\* Mutant: the statistics are registered first.
RegisterProjectionsStatisticsFirst ==
  <<"BankStatistics", "AccountSummary", "TransactionHistory">>

\* All three are registered for the same types of events, in this order.
RegisterProjections == <<"AccountSummary", "TransactionHistory", "BankStatistics">>

\* The consumer reads the journal in order and dispatches what it has read.
TakeEntry ==
  /\ current = Idle
  /\ ledger # <<>>
  /\ current' = [event |-> Head(ledger), todo |-> RegisterProjections]
  /\ ledger' = Tail(ledger)
  /\ UNCHANGED <<nextAccountNumber, balance, closed, coordinatorVars, queried, storeVars>>

\* The projection has confirmed; the next one is called, or the dispatch ends.
Confirmed ==
  current' = IF Len(current.todo) = 1 THEN Idle ELSE [current EXCEPT !.todo = Tail(@)]

\* A projection that finds no document throws.
ProjectInto(type, id, opened, updated) ==
  \/ /\ current.event.type = "AccountOpened"
     /\ Write(type, id, opened, 1, <<>>)
  \/ /\ current.event.type # "AccountOpened"
     /\ Found(type, id)
     /\ Write(type, id, updated, StateVersion(type, id) + 1, <<>>)

Turn(projection) ==
  /\ current.todo # <<>>
  /\ Head(current.todo) = projection
  /\ UNCHANGED <<transferVars, queried>>

----------------------------------------------------------------------------
(* The projections *)

OpenedSummary(event) == [balance |-> event.amount, transactionCount |-> 1]

\* Mutant: a refund is taken for a withdrawal.
SummaryAfterRefundOut(summary, event) ==
  [balance |-> IF event.type = "FundsDeposited" THEN summary.balance + event.amount
               ELSE summary.balance - event.amount,
   transactionCount |-> summary.transactionCount + 1]

SummaryAfter(summary, event) ==
  [balance |-> summary.balance + Effect(event),
   transactionCount |-> summary.transactionCount + 1]

ProjectSummary ==
  LET event == current.event
      summary == store["AccountSummary"][event.account].state
  IN  /\ Turn("AccountSummary")
      /\ ProjectInto("AccountSummary", event.account, OpenedSummary(event),
                      SummaryAfter(summary, event))
      /\ Confirmed

OpenedHistory(event) ==
  [transactions |-> <<[type |-> event.type, amount |-> event.amount,
                       balance |-> event.amount]>>,
   totalDeposits |-> event.amount, totalWithdrawals |-> 0, totalRefunds |-> 0]

\* The balance behind a transaction is computed from the one behind the last.
HistoryAfter(history, event) ==
  LET previous == Seqs!Last(history.transactions).balance
      Amount(type) == IF event.type = type THEN event.amount ELSE 0
  IN  [transactions |-> Append(history.transactions,
                               [type |-> event.type, amount |-> event.amount,
                                balance |-> previous + Effect(event)]),
       totalDeposits |-> history.totalDeposits + Amount("FundsDeposited"),
       totalWithdrawals |-> history.totalWithdrawals + Amount("FundsWithdrawn"),
       totalRefunds |-> history.totalRefunds + Amount("FundsRefunded")]

ProjectHistory ==
  LET event == current.event
      history == store["TransactionHistory"][event.account].state
  IN  /\ Turn("TransactionHistory")
      /\ ProjectInto("TransactionHistory", event.account, OpenedHistory(event),
                      HistoryAfter(history, event))
      /\ Confirmed

InitialStatistics ==
  [totalAccounts |-> 0, totalBalance |-> 0, totalDeposits |-> 0, totalWithdrawals |-> 0,
   totalRefunds |-> 0, totalTransactions |-> 0, accountNumbers |-> <<>>]

\* Mutant: the initial balance is no deposit.
OpenedStatisticsNoDeposit(stats, event) ==
  [stats EXCEPT !.totalAccounts = @ + 1,
                !.totalBalance = @ + event.amount,
                !.accountNumbers = Append(@, event.account)]

\* The initial balance counts as a deposit, and the opening not as a transaction.
OpenedStatistics(stats, event) ==
  [stats EXCEPT !.totalAccounts = @ + 1,
                !.totalBalance = @ + event.amount,
                !.totalDeposits = @ + event.amount,
                !.accountNumbers = Append(@, event.account)]

StatisticsAfter(stats, event) ==
  LET Amount(type) == IF event.type = type THEN event.amount ELSE 0
  IN  [stats EXCEPT !.totalBalance = @ + Effect(event),
                    !.totalDeposits = @ + Amount("FundsDeposited"),
                    !.totalWithdrawals = @ + Amount("FundsWithdrawn"),
                    !.totalRefunds = @ + Amount("FundsRefunded"),
                    !.totalTransactions = @ + 1]

\* getOrCreateStatistics writes the empty document before it is updated.
CreateStatistics ==
  /\ Turn("BankStatistics")
  /\ ~Found("BankStatistics", STATS_ID)
  /\ Write("BankStatistics", STATS_ID, InitialStatistics, 1, <<>>)
  /\ UNCHANGED current

ProjectStatistics ==
  LET stats == store["BankStatistics"][STATS_ID].state
      event == current.event
      updated == IF event.type = "AccountOpened" THEN OpenedStatistics(stats, event)
                 ELSE StatisticsAfter(stats, event)
  IN  /\ Turn("BankStatistics")
      /\ Found("BankStatistics", STATS_ID)
      /\ Write("BankStatistics", STATS_ID, updated,
               StateVersion("BankStatistics", STATS_ID) + 1, <<>>)
      /\ Confirmed

----------------------------------------------------------------------------
(* QueryHandler *)

GetAccountSummary(a) == store["AccountSummary"][a].state

GetBankStatistics == store["BankStatistics"][STATS_ID].state

\* getAllAccountSummaries up to its second await: the statistics list the accounts.
\* Without any the answer is empty, and nothing is under way.
AskForAllAccounts ==
  /\ queried = <<>>
  /\ Read("BankStatistics", STATS_ID)
  /\ queried' = IF Found("BankStatistics", STATS_ID) THEN GetBankStatistics.accountNumbers
                ELSE <<>>
  /\ UNCHANGED <<transferVars, current>>

SummaryBundles(numbers) ==
  [i \in DOMAIN numbers |-> [type |-> "AccountSummary", id |-> numbers[i]]]

\* What the query answers if its batch is read now: nothing at all when any of the
\* summaries is missing.
AllAccountSummaries(numbers) ==
  IF AllFound(SummaryBundles(numbers))
  THEN [i \in DOMAIN numbers |-> GetAccountSummary(numbers[i])]
  ELSE <<>>

\* The rest of the query, whose answer is AllAccountSummaries(queried).
AnswerForAllAccounts ==
  /\ queried # <<>>
  /\ ReadAll(SummaryBundles(queried))
  /\ queried' = <<>>
  /\ UNCHANGED <<transferVars, current>>

\* The last transactions, newest first; all of them without a limit.
GetTransactionHistory(a, limit) ==
  LET transactions == store["TransactionHistory"][a].state.transactions
      skipped == IF limit > 0 /\ limit < Len(transactions) THEN Len(transactions) - limit ELSE 0
  IN  Seqs!Reverse(SubSeq(transactions, skipped + 1, Len(transactions)))

----------------------------------------------------------------------------
BankInit == TransfersInit /\ StoreInit /\ current = Idle /\ queried = <<>>

ViewStep ==
  \/ TakeEntry
  \/ ProjectSummary
  \/ ProjectHistory
  \/ CreateStatistics
  \/ ProjectStatistics

Query == AskForAllAccounts \/ AnswerForAllAccounts

BankNext ==
  \/ TransfersNext /\ UNCHANGED viewVars
  \/ ViewStep
  \/ Query

BankSpec == BankInit /\ [][BankNext]_bankVars

----------------------------------------------------------------------------
(* Properties *)

\* The effects on an account of the events that a projection has not seen yet.
Unseen(a, projection) ==
  LET underWay == IF Seqs!Contains(current.todo, projection) THEN <<current.event>> ELSE <<>>
      Add(sum, event) == IF event.account = a THEN sum + Effect(event) ELSE sum
  IN  Seqs!FoldLeft(Add, 0, underWay \o ledger)

\* What a projection shows for an account, and 0 before it was opened there.
Shown(a, projection) ==
  IF ~Found(projection, a) THEN 0
  ELSE IF projection = "AccountSummary" THEN GetAccountSummary(a).balance
  ELSE GetTransactionHistory(a, 1)[1].balance

\* Every view lags behind its account by exactly the events its projection has not
\* seen: none is dropped, shown twice or shown with the wrong sign, while transfers
\* deposit, retry and refund from their timers.
ViewsFollowTheAccounts ==
  \A a \in AccountNumbers, projection \in {"AccountSummary", "TransactionHistory"} :
    balance[a] = Shown(a, projection) + Unseen(a, projection)

\* Whoever asks for all accounts gets all that the statistics listed when they were
\* read, at whatever moment the summaries are read after them (one that is missing
\* would leave the answer empty), and no projection ever fails for want of a document.
NoViewIsMissing ==
  /\ Len(AllAccountSummaries(queried)) = Len(queried)
  /\ current.event.type \notin {"none", "AccountOpened"} =>
       \A projection \in {"AccountSummary", "TransactionHistory"} :
         Found(projection, current.event.account)

\* Asked between two dispatches, the queries agree: the total of the bank is the sum
\* over the summaries of all accounts and what its deposits, withdrawals and refunds
\* amount to, and the transactions of a history are as many as its summary counts.
AnswersAgree ==
  LET stats == GetBankStatistics
      numbers == stats.accountNumbers
      summaries == AllAccountSummaries(numbers)
      Add(sum, summary) == sum + summary.balance
  IN  current = Idle /\ Found("BankStatistics", STATS_ID) =>
        /\ stats.totalBalance = Seqs!FoldLeft(Add, 0, summaries)
        /\ stats.totalBalance = stats.totalDeposits - stats.totalWithdrawals + stats.totalRefunds
        /\ stats.totalAccounts = Len(summaries)
        /\ \A i \in DOMAIN numbers :
             summaries[i].transactionCount = Len(GetTransactionHistory(numbers[i], 0))
=============================================================================
