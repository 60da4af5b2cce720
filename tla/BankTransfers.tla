---------------------------- MODULE BankTransfers ----------------------------
(***************************************************************************)
(* Transfers between the accounts of module BankAccounts: the bank         *)
(* (examples/bank/model/BankActor.ts), which handles one command at a      *)
(* time, and the coordinator (TransferCoordinatorActor.ts), which          *)
(* withdraws within the command and then deposits, retries and refunds     *)
(* from timers.                                                            *)
(*                                                                         *)
(* The timers run outside the coordinator's mailbox.  What they append to  *)
(* the coordinator's stream may therefore meet an append of the command or *)
(* of another timer that expects the same version: the journal takes the   *)
(* first and refuses the others.  An append is Request, which fixes the    *)
(* version, and an action that settles it, in the order of the journal's   *)
(* mailbox, and goes on behind the await.                                  *)
(***************************************************************************)
EXTENDS BankAccounts

CONSTANTS
  MaxTransfers, \* bound: transfers the bank is asked for
  MaxCommands   \* bound: these, and deposits and withdrawals without a transfer

ASSUME TransfersAssumption == MaxTransfers \in Nat /\ MaxCommands \in Nat

VARIABLES
  direct,           \* deposits and withdrawals so far
  asked,            \* the transfers asked for, in order
  chain,            \* transfer -> where its handler or timer stands
  pendingTransfers, \* the coordinator's map
  version,          \* of the coordinator and of its stream
  appends,          \* its appends in the journal's mailbox
  refusals,         \* transfer -> how many of its appends were refused
  moved             \* transfer -> how often its amount was moved, and how

coordinatorVars == <<direct, asked, chain, pendingTransfers, version, appends,
                     refusals, moved>>
transferVars == <<accountVars, coordinatorVars>>

MAX_RETRIES == 3

Transfers == 1 .. MaxTransfers
NoAccount == 0        \* the destination of a pending transfer may be ''
NotPending == [amount |-> 0, from |-> NoAccount, to |-> NoAccount, attempts |-> -1]
NotMoved == [withdrawn |-> 0, deposited |-> 0, refunded |-> 0]

InCommand == {"initiating", "withdrawing", "recording"}
Appending == {"initiating", "recording", "attempting", "completing", "failing", "refunded"}
Stages == InCommand \cup Appending
            \cup {"none", "timer", "depositing", "refunding", "ended"}

\* The bank's mailbox: no command while one waits for the coordinator.
BankIsIdle == \A t \in Transfers : chain[t].at \notin InCommand

IsPending(t) == pendingTransfers[t] # NotPending

At(t, stage) == chain' = [chain EXCEPT ![t].at = stage]

\* apply() up to its await: the next version is the one expected.
Request(t, queue, at) ==
  /\ appends' = Append(queue, [by |-> t, expected |-> version + 1])
  /\ chain' = [chain EXCEPT ![t].at = at]

\* Nothing more happens to a transfer that is not listed.
RequestIfPending(t, queue, at) ==
  IF IsPending(t) THEN Request(t, queue, at)
  ELSE At(t, "ended") /\ appends' = queue

\* The journal handles the append of t that is next in its mailbox.
Settles(t, stage) ==
  /\ chain[t].at = stage
  /\ appends # <<>>
  /\ Head(appends).by = t

Accepted == Head(appends).expected = version + 1

\* The entity's version follows its stream's; a refused append changes neither.
Taken ==
  /\ Accepted
  /\ version' = version + 1
  /\ UNCHANGED refusals

Refused(t) ==
  /\ ~Accepted
  /\ refusals' = [refusals EXCEPT ![t] = @ + 1]
  /\ UNCHANGED version

Count(t, field) == moved' = [moved EXCEPT ![t][field] = @ + 1]

SetPending(t, pending) == pendingTransfers' = [pendingTransfers EXCEPT ![t] = pending]

----------------------------------------------------------------------------
(* Commands of the bank *)

\* The account is registered with the coordinator, too.
OpenAccount(amount) ==
  /\ BankIsIdle
  /\ nextAccountNumber \in AccountNumbers
  /\ amount >= 0
  /\ Open(nextAccountNumber, amount)
  /\ UNCHANGED coordinatorVars

DirectCommand ==
  /\ BankIsIdle
  /\ direct + Len(asked) < MaxCommands
  /\ direct' = direct + 1
  /\ UNCHANGED <<asked, chain, pendingTransfers, version, appends, refusals, moved>>

BankDeposit(a, amount) ==
  /\ DirectCommand
  /\ IsOpen(a)
  /\ Deposits(a, amount)
  /\ Deposit(a, amount)

BankWithdraw(a, amount) ==
  /\ DirectCommand
  /\ IsOpen(a)
  /\ Withdraws(a, amount)
  /\ Withdraw(a, amount)

\* initiateTransfer up to its first await.  Nothing keeps the two accounts apart.
InitiateTransfer(from, to, amount) ==
  LET t == Len(asked) + 1
  IN  /\ BankIsIdle
      /\ t \in Transfers
      /\ direct + Len(asked) < MaxCommands
      /\ IsOpen(from) /\ IsOpen(to)
      /\ asked' = Append(asked, [from |-> from, to |-> to, amount |-> amount])
      /\ Request(t, appends, "initiating")
      /\ UNCHANGED <<accountVars, direct, pendingTransfers, version, refusals, moved>>

\* Mutant: the transfer is listed when its withdrawal is recorded.
InitiatedUnlisted(t) ==
  /\ Settles(t, "initiating")
  /\ appends' = Tail(appends)
  /\ \/ Taken /\ At(t, "withdrawing")
     \/ Refused(t) /\ At(t, "ended")
  /\ UNCHANGED <<accountVars, direct, asked, moved, pendingTransfers>>

\* TransferInitiated: the transfer is listed before anything is withdrawn.
Initiated(t) ==
  /\ Settles(t, "initiating")
  /\ appends' = Tail(appends)
  /\ \/ /\ Taken
        /\ SetPending(t, [from |-> asked[t].from, to |-> asked[t].to,
                          amount |-> asked[t].amount, attempts |-> 0])
        /\ At(t, "withdrawing")
     \/ /\ Refused(t)
        /\ At(t, "ended")
        /\ UNCHANGED pendingTransfers
  /\ UNCHANGED <<accountVars, direct, asked, moved>>

\* Mutant: the command goes on when the withdrawal was refused.
WithdrawFromUnchecked(t) ==
  /\ chain[t].at = "withdrawing"
  /\ \/ /\ Withdraws(asked[t].from, asked[t].amount)
        /\ Withdraw(asked[t].from, asked[t].amount)
        /\ Count(t, "withdrawn")
     \/ /\ ~Withdraws(asked[t].from, asked[t].amount)
        /\ UNCHANGED <<accountVars, moved>>
  /\ Request(t, appends, "recording")
  /\ UNCHANGED <<direct, asked, pendingTransfers, version, refusals>>

\* A withdrawal that is refused ends the command; the transfer stays listed.
WithdrawFrom(t) ==
  LET from == asked[t].from
      amount == asked[t].amount
  IN  /\ chain[t].at = "withdrawing"
      /\ \/ /\ Withdraws(from, amount)
            /\ Withdraw(from, amount)
            /\ Count(t, "withdrawn")
            /\ Request(t, appends, "recording")
         \/ /\ ~Withdraws(from, amount)
            /\ At(t, "ended")
            /\ UNCHANGED <<accountVars, moved, appends>>
      /\ UNCHANGED <<direct, asked, pendingTransfers, version, refusals>>

\* TransferWithdrawn: its consumer takes the destination from the map.  If the
\* append is refused the command fails, and nobody goes on with the transfer.
RecordedWithdrawal(t) ==
  /\ Settles(t, "recording")
  /\ appends' = Tail(appends)
  /\ \/ /\ Taken
        /\ SetPending(t, [from |-> asked[t].from, to |-> pendingTransfers[t].to,
                          amount |-> asked[t].amount, attempts |-> 0])
        /\ chain' = [chain EXCEPT ![t] = [at |-> "timer", attempt |-> 1]]
     \/ /\ Refused(t)
        /\ At(t, "ended")
        /\ UNCHANGED pendingTransfers
  /\ UNCHANGED <<accountVars, direct, asked, moved>>
----------------------------------------------------------------------------
(* Timers of the coordinator *)

\* attemptDepositAsync up to its first await.
TimerFires(t) ==
  /\ chain[t].at = "timer"
  /\ RequestIfPending(t, appends, "attempting")
  /\ UNCHANGED <<accountVars, direct, asked, pendingTransfers, version, refusals, moved>>

\* The catch of an attempt: whatever failed, the attempt is recorded as failed.
Catch(t, queue) == RequestIfPending(t, queue, "failing")

\* TransferDepositAttempted.
Attempted(t) ==
  /\ Settles(t, "attempting")
  /\ \/ /\ Taken
        /\ SetPending(t, [pendingTransfers[t] EXCEPT !.attempts = chain[t].attempt])
        /\ At(t, "depositing")
        /\ appends' = Tail(appends)
     \/ /\ Refused(t)
        /\ Catch(t, Tail(appends))
        /\ UNCHANGED pendingTransfers
  /\ UNCHANGED <<accountVars, direct, asked, moved>>

DepositTo(t) ==
  LET to == asked[t].to
      amount == asked[t].amount
  IN  /\ chain[t].at = "depositing"
      /\ \/ /\ Deposits(to, amount)
            /\ Deposit(to, amount)
            /\ Count(t, "deposited")
            /\ Request(t, appends, "completing")
         \/ /\ ~Deposits(to, amount)
            /\ Catch(t, appends)
            /\ UNCHANGED <<accountVars, moved>>
      /\ UNCHANGED <<direct, asked, pendingTransfers, version, refusals>>

\* TransferCompleted.  A refusal is taken for a deposit that failed.
Completed(t) ==
  /\ Settles(t, "completing")
  /\ \/ /\ Taken
        /\ SetPending(t, NotPending)
        /\ At(t, "ended")
        /\ appends' = Tail(appends)
     \/ /\ Refused(t)
        /\ Catch(t, Tail(appends))
        /\ UNCHANGED pendingTransfers
  /\ UNCHANGED <<accountVars, direct, asked, moved>>

\* Mutant: the last attempt is followed by nothing.
AfterFailureNoRefund(t) ==
  IF chain[t].attempt < MAX_RETRIES
  THEN chain' = [chain EXCEPT ![t] = [at |-> "timer", attempt |-> @.attempt + 1]]
  ELSE At(t, "ended")

\* Another timer, or the refund.
AfterFailure(t) ==
  IF chain[t].attempt < MAX_RETRIES
  THEN chain' = [chain EXCEPT ![t] = [at |-> "timer", attempt |-> @.attempt + 1]]
  ELSE At(t, "refunding")

\* TransferDepositFailed.  Nobody catches a refusal: the timer's chain ends.
Failed(t) ==
  /\ Settles(t, "failing")
  /\ appends' = Tail(appends)
  /\ \/ Taken /\ AfterFailure(t)
     \/ Refused(t) /\ At(t, "ended")
  /\ UNCHANGED <<accountVars, direct, asked, pendingTransfers, moved>>

\* processRefundAsync: an account that takes no refund is only logged.
RefundTo(t) ==
  LET from == pendingTransfers[t].from
  IN  /\ chain[t].at = "refunding"
      /\ \/ /\ IsPending(t) /\ Refunds(from)
            /\ Refund(from, pendingTransfers[t].amount)
            /\ Count(t, "refunded")
            /\ Request(t, appends, "refunded")
         \/ /\ ~(IsPending(t) /\ Refunds(from))
            /\ At(t, "ended")
            /\ UNCHANGED <<accountVars, moved, appends>>
      /\ UNCHANGED <<direct, asked, pendingTransfers, version, refusals>>

\* TransferRefunded.  A refusal is only logged.
Refunded(t) ==
  /\ Settles(t, "refunded")
  /\ appends' = Tail(appends)
  /\ At(t, "ended")
  /\ \/ Taken /\ SetPending(t, NotPending)
     \/ Refused(t) /\ UNCHANGED pendingTransfers
  /\ UNCHANGED <<accountVars, direct, asked, moved>>

----------------------------------------------------------------------------
TransfersInit ==
  /\ AccountsInit
  /\ direct = 0
  /\ asked = <<>>
  /\ chain = [t \in Transfers |-> [at |-> "none", attempt |-> 0]]
  /\ pendingTransfers = [t \in Transfers |-> NotPending]
  /\ version = 0
  /\ appends = <<>>
  /\ refusals = [t \in Transfers |-> 0]
  /\ moved = [t \in Transfers |-> NotMoved]

ChainStep(t) ==
  \/ Initiated(t)
  \/ WithdrawFrom(t)
  \/ RecordedWithdrawal(t)
  \/ TimerFires(t)
  \/ Attempted(t)
  \/ DepositTo(t)
  \/ Completed(t)
  \/ Failed(t)
  \/ RefundTo(t)
  \/ Refunded(t)

BankCommand ==
  \/ \E amount \in Amounts :
       \/ OpenAccount(amount)
       \/ \E a \in AccountNumbers : BankDeposit(a, amount) \/ BankWithdraw(a, amount)
       \/ \E from, to \in AccountNumbers : InitiateTransfer(from, to, amount)

Tombstone == \E a \in AccountNumbers : CloseAccount(a) /\ UNCHANGED coordinatorVars

TransfersNext ==
  \/ BankCommand
  \/ Tombstone
  \/ \E t \in Transfers : ChainStep(t)

TransfersSpec == TransfersInit /\ [][TransfersNext]_transferVars

\* Timers fire, mailboxes deliver and promises settle.
TransfersFairness == \A t \in Transfers : WF_transferVars(ChainStep(t))

FairTransfersSpec == TransfersSpec /\ TransfersFairness

----------------------------------------------------------------------------
(* Properties *)

Attempts == 0 .. MAX_RETRIES
PendingTransfer == [amount : Amounts, from : AccountNumbers,
                    to : AccountNumbers, attempts : Attempts]

TransfersTypeOK ==
  /\ AccountsTypeOK
  /\ direct \in 0 .. MaxCommands
  /\ asked \in Seq([from : AccountNumbers, to : AccountNumbers, amount : Amounts])
  /\ chain \in [Transfers -> [at : Stages, attempt : Attempts]]
  /\ pendingTransfers \in [Transfers -> PendingTransfer \cup {NotPending}]
  /\ version \in Nat
  /\ appends \in Seq([by : Transfers, expected : Nat])
  /\ refusals \in [Transfers -> Nat]
  /\ moved \in [Transfers -> [withdrawn : 0 .. 1, deposited : Attempts, refunded : 0 .. 1]]

\* Money that left an account and arrived nowhere is never forgotten: its transfer
\* is listed among the pending ones, with its accounts and its amount, through
\* refused appends, closed accounts and refunds that fail.
WithdrawnMoneyIsListed ==
  \A t \in Transfers :
    moved[t].withdrawn > moved[t].deposited + moved[t].refunded =>
      /\ IsPending(t)
      /\ \A field \in {"from", "to", "amount"} :
           pendingTransfers[t][field] = asked[t][field]

\* The amount of a transfer is paid out, to the destination or back, at most once
\* more than its appends were refused: without a version conflict on the
\* coordinator's stream nothing is paid twice, whatever the accounts refuse.
PaidAgainOnlyWhenRefused ==
  \A t \in Transfers :
    moved[t].deposited + moved[t].refunded <= moved[t].withdrawn + refusals[t]

\* As long as no append is refused and the source account is not closed, money
\* that was withdrawn is deposited or refunded, and the transfer leaves the list.
TransfersSettle ==
  \A t \in Transfers :
    (moved[t].withdrawn = 1) ~>
      \/ moved[t].deposited + moved[t].refunded = 1 /\ ~IsPending(t)
      \/ \E u \in Transfers : refusals[u] > 0
      \/ t \in DOMAIN asked /\ asked[t].from \in closed
=============================================================================
