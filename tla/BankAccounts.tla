---------------------------- MODULE BankAccounts ----------------------------
(***************************************************************************)
(* The accounts of the bank example (examples/bank/model/AccountActor.ts). *)
(* An account is an event-sourced entity and the only writer of its        *)
(* stream; its mailbox lets one handler run at a time, and a handler that  *)
(* decides, appends one event and applies it is one action.  Every event   *)
(* joins the ledger, from which the projections read.                      *)
(***************************************************************************)
EXTENDS Integers, Sequences, FiniteSets

CONSTANTS
  MaxAccounts,  \* bound: accounts opened
  Amounts       \* what the bank is asked to open an account with, or to move

ASSUME AccountsAssumption == MaxAccounts \in Nat /\ Amounts \subseteq Int

VARIABLES
  nextAccountNumber, \* of the bank: the accounts below it are open
  balance,           \* account -> its balance
  closed,            \* accounts whose stream somebody has tombstoned
  ledger             \* account events the journal consumer has not read yet

accountVars == <<nextAccountNumber, balance, closed, ledger>>

AccountNumbers == 1 .. MaxAccounts
EventTypes == {"AccountOpened", "FundsDeposited", "FundsWithdrawn", "FundsRefunded"}
AccountEvents == [type : EventTypes, account : AccountNumbers, amount : Amounts]

IsOpen(a) == a < nextAccountNumber
OpenAccounts == {a \in AccountNumbers : IsOpen(a)}

\* What an event adds to the balance of its account, by the consumers.
Effect(event) == IF event.type = "FundsWithdrawn" THEN -event.amount ELSE event.amount

\* The event is appended to the journal, then applied.
ApplyEvent(event) ==
  /\ ledger' = Append(ledger, event)
  /\ balance' = [balance EXCEPT ![event.account] = @ + Effect(event)]

\* The account appends its first event when it is made.
Open(a, amount) ==
  /\ ApplyEvent([type |-> "AccountOpened", account |-> a, amount |-> amount])
  /\ nextAccountNumber' = a + 1
  /\ UNCHANGED closed

\* A stream that is tombstoned takes no event, and apply() throws.
Deposits(a, amount) == amount >= 0 /\ a \notin closed

Deposit(a, amount) ==
  /\ ApplyEvent([type |-> "FundsDeposited", account |-> a, amount |-> amount])
  /\ UNCHANGED <<nextAccountNumber, closed>>

\* Mutant: the balance is not looked at.
WithdrawsAnything(a, amount) == amount >= 0 /\ a \notin closed

Withdraws(a, amount) == amount >= 0 /\ amount <= balance[a] /\ a \notin closed

Withdraw(a, amount) ==
  /\ ApplyEvent([type |-> "FundsWithdrawn", account |-> a, amount |-> amount])
  /\ UNCHANGED <<nextAccountNumber, closed>>

\* A refund is never refused for its amount.
Refunds(a) == a \notin closed

Refund(a, amount) ==
  /\ ApplyEvent([type |-> "FundsRefunded", account |-> a, amount |-> amount])
  /\ UNCHANGED <<nextAccountNumber, closed>>

\* Somebody tombstones the account's stream in the journal.
CloseAccount(a) ==
  /\ IsOpen(a)
  /\ a \notin closed
  /\ closed' = closed \cup {a}
  /\ UNCHANGED <<nextAccountNumber, balance, ledger>>

AccountsInit ==
  /\ nextAccountNumber = 1
  /\ balance = [a \in AccountNumbers |-> 0]
  /\ closed = {}
  /\ ledger = <<>>

\* No account is overdrawn.
AccountsTypeOK ==
  /\ nextAccountNumber \in 1 .. MaxAccounts + 1
  /\ balance \in [AccountNumbers -> Nat]
  /\ closed \subseteq OpenAccounts
  /\ ledger \in Seq(AccountEvents)
=============================================================================
