----------------------------- MODULE BankProofs -----------------------------
(***************************************************************************)
(* Proofs about modules BankTransfers and BankViews, for any number of     *)
(* accounts, amounts and transfers: what the coordinator of the bank       *)
(* example (examples/bank/model/TransferCoordinatorActor.ts) does with the *)
(* money of a transfer, whichever of its appends are refused and whichever *)
(* accounts are closed; and that the documents its three projections write *)
(* (examples/bank/infra/projections/) follow the accounts and agree with   *)
(* each other meanwhile.  What is shown of the transfers cites nothing of  *)
(* the views.                                                              *)
(***************************************************************************)
EXTENDS BankViews, Ranking, SequenceTheorems, TLAPS

----------------------------------------------------------------------------
(* Transfers: the invariant *)

Requests == [by : Transfers, expected : Nat]

\* Where a handler or a timer of a transfer stands once the money was withdrawn.
AfterWithdrawal == {"recording", "timer", "attempting", "depositing", "completing",
                    "failing", "refunding", "refunded"}

\* The transfer is in the coordinator's map as it was asked for.
IsListed(t) ==
  /\ pendingTransfers[t] \in PendingTransfer
  /\ \A field \in {"from", "to", "amount"} : pendingTransfers[t][field] = asked[t][field]

\* The transfers that were asked for are the first ones.
BegunWhenAsked(t) == chain[t].at = "none" <=> t > Len(asked)

NothingMovedYet(t) ==
  chain[t].at \in {"none", "initiating", "withdrawing"} => moved[t] = NotMoved

\* It is listed before its withdrawal and stays so until its chain ends.
ListedOnTheWay(t) ==
  chain[t].at \in AfterWithdrawal \cup {"withdrawing"} => IsListed(t)

WithdrawnOnce(t) ==
  chain[t].at \in AfterWithdrawal =>
    /\ moved[t].withdrawn = 1
    /\ moved[t].refunded = IF chain[t].at = "refunded" THEN 1 ELSE 0
    /\ asked[t].amount >= 0

\* After a deposit, another attempt is made only if the completion was refused.
DepositedPerRefusal(t) ==
  /\ chain[t].at \in AfterWithdrawal \ {"completing"} => moved[t].deposited <= refusals[t]
  /\ chain[t].at = "completing" => moved[t].deposited \in 1 .. refusals[t] + 1

\* An attempt deposits at most once.
DepositedPerAttempt(t) ==
  /\ chain[t].at \in {"recording", "timer", "attempting", "depositing"}
       => moved[t].deposited < IF chain[t].at = "recording" THEN 1 ELSE chain[t].attempt
  /\ chain[t].at \in {"completing", "failing"} => moved[t].deposited <= chain[t].attempt

\* What the end of a chain leaves behind, wherever it ended.
SettledAtTheEnd(t) ==
  chain[t].at = "ended" =>
    /\ moved[t].withdrawn > moved[t].deposited + moved[t].refunded => IsListed(t)
    /\ moved[t].deposited + moved[t].refunded <= moved[t].withdrawn + refusals[t]

ChainFits(t) ==
  /\ BegunWhenAsked(t)
  /\ NothingMovedYet(t)
  /\ ListedOnTheWay(t)
  /\ WithdrawnOnce(t)
  /\ DepositedPerRefusal(t)
  /\ DepositedPerAttempt(t)
  /\ SettledAtTheEnd(t)

TransfersInv ==
  /\ TransfersTypeOK
  /\ \A t \in Transfers : ChainFits(t)

----------------------------------------------------------------------------
(* Transfers: what the parts of an action do *)

Chains == [at : Stages, attempt : Attempts]

\* How often the amount of a transfer is moved, before any bound is known.
Movements == [withdrawn : Nat, deposited : Nat, refunded : Nat]

\* Everything that is kept of the other transfers stays.
OthersStay(t) ==
  \A u \in Transfers \ {t} : /\ chain'[u] = chain[u]
                              /\ pendingTransfers'[u] = pendingTransfers[u]
                              /\ refusals'[u] = refusals[u]
                              /\ moved'[u] = moved[u]

LEMMA PendingIsListed ==
  ASSUME TransfersInv, NEW t \in Transfers,
         chain[t].at \in AfterWithdrawal \cup {"withdrawing"}
  PROVE  /\ pendingTransfers[t] \in PendingTransfer /\ IsPending(t)
         /\ pendingTransfers[t].from = asked[t].from
         /\ pendingTransfers[t].to = asked[t].to
         /\ pendingTransfers[t].amount = asked[t].amount
<1>1. IsListed(t)
  BY DEF TransfersInv, ChainFits, ListedOnTheWay
<1> QED
  BY <1>1 DEF IsListed, IsPending, PendingTransfer, NotPending, Attempts, MAX_RETRIES

LEMMA AskedTransfer ==
  ASSUME TransfersInv, NEW t \in Transfers, chain[t].at # "none"
  PROVE  /\ t \in DOMAIN asked
         /\ asked[t] \in [from : AccountNumbers, to : AccountNumbers, amount : Amounts]
<1>1. ~(t > Len(asked)) /\ t \in Nat /\ t > 0
  BY TransfersAssumption DEF TransfersInv, ChainFits, BegunWhenAsked, Transfers
<1>2. asked \in Seq([from : AccountNumbers, to : AccountNumbers, amount : Amounts])
  BY DEF TransfersInv, TransfersTypeOK
<1>3. Len(asked) \in Nat /\ DOMAIN asked = 1 .. Len(asked)
  BY <1>2
<1>4. t \in DOMAIN asked
  BY <1>1, <1>3
<1> QED
  BY ONLY <1>2, <1>3, <1>4, ElementOfSeq

LEMMA StageReached ==
  ASSUME TransfersTypeOK, NEW t \in Transfers, NEW at \in Stages, At(t, at)
  PROVE  /\ chain' \in [Transfers -> Chains]
         /\ chain'[t].at = at /\ chain'[t].attempt = chain[t].attempt
         /\ \A u \in Transfers \ {t} : chain'[u] = chain[u]
BY DEF TransfersTypeOK, At, Chains

LEMMA TimerIsSet ==
  ASSUME TransfersTypeOK, NEW t \in Transfers, NEW attempt \in Attempts,
         chain' = [chain EXCEPT ![t] = [at |-> "timer", attempt |-> attempt]]
  PROVE  /\ chain' \in [Transfers -> Chains]
         /\ chain'[t].at = "timer" /\ chain'[t].attempt = attempt
         /\ \A u \in Transfers \ {t} : chain'[u] = chain[u]
BY DEF TransfersTypeOK, Chains, Stages, InCommand, Appending

LEMMA AppendIsRequested ==
  ASSUME TransfersTypeOK, NEW t \in Transfers, NEW queue \in Seq(Requests), NEW at,
         Request(t, queue, at)
  PROVE  At(t, at) /\ appends' \in Seq(Requests)
<1>1. [by |-> t, expected |-> version + 1] \in Requests
  BY DEF TransfersTypeOK, Requests
<1> QED
  BY <1>1 DEF Request, At

LEMMA MailboxIsTyped ==
  ASSUME TransfersTypeOK
  PROVE  /\ appends \in Seq(Requests)
         /\ appends # <<>> => Tail(appends) \in Seq(Requests)
BY DEF TransfersTypeOK, Requests

LEMMA TakenOrRefused ==
  ASSUME TransfersTypeOK, NEW t \in Transfers, Taken \/ Refused(t)
  PROVE  /\ version' \in Nat /\ refusals' \in [Transfers -> Nat]
         /\ \A u \in Transfers \ {t} : refusals'[u] = refusals[u]
         /\ refusals[t] \in Nat /\ refusals'[t] \in Nat
         /\ refusals'[t] >= refusals[t]
         /\ Refused(t) => refusals'[t] = refusals[t] + 1
<1>1. version \in Nat /\ refusals \in [Transfers -> Nat]
  BY DEF TransfersTypeOK
<1>2. CASE Taken
  BY <1>1, <1>2 DEF Taken, Refused
<1>3. CASE Refused(t)
  BY <1>1, <1>3 DEF Refused
<1> QED
  BY <1>2, <1>3

Bounded == [withdrawn : 0 .. 1, deposited : Attempts, refunded : 0 .. 1]

LEMMA MovementsAreBounded ==
  ASSUME TransfersTypeOK, NEW t \in Transfers
  PROVE  /\ moved[t] \in Movements /\ Attempts = 0 .. 3
         /\ moved[t].withdrawn \in 0 .. 1 /\ moved[t].refunded \in 0 .. 1
         /\ moved[t].deposited \in 0 .. 3 /\ refusals[t] \in Nat
         /\ chain[t].attempt \in 0 .. 3
<1>1. Attempts = 0 .. 3
  BY DEF Attempts, MAX_RETRIES
<1>2. /\ moved[t] \in [withdrawn : 0 .. 1, deposited : 0 .. 3, refunded : 0 .. 1]
      /\ refusals[t] \in Nat /\ chain[t].attempt \in 0 .. 3
  BY <1>1 DEF TransfersTypeOK
<1>3. 0 .. 3 \subseteq Nat /\ 0 .. 1 \subseteq Nat
  OBVIOUS
<1> QED
  BY <1>1, <1>2, <1>3 DEF Movements

LEMMA CountedOnce ==
  ASSUME TransfersTypeOK, NEW t \in Transfers,
         NEW field \in {"withdrawn", "deposited", "refunded"}, Count(t, field)
  PROVE  /\ \A u \in Transfers \ {t} : moved'[u] = moved[u]
         /\ \A other \in {"withdrawn", "deposited", "refunded"} :
              moved'[t][other] = IF other = field THEN moved[t][other] + 1 ELSE moved[t][other]
         /\ /\ moved'[t].withdrawn \in 0 .. 1 /\ moved'[t].refunded \in 0 .. 1
            /\ moved'[t].deposited \in 0 .. 3
            => moved' \in [Transfers -> Bounded]
<1>1. moved[t] \in Movements /\ Attempts = 0 .. 3
  BY MovementsAreBounded
<1>2. moved' = [moved EXCEPT ![t] = [moved[t] EXCEPT ![field] = @ + 1]]
  BY DEF Count
<1>3. [moved[t] EXCEPT ![field] = @ + 1] \in Movements
  BY <1>1 DEF Movements
<1>4. moved'[t] = [moved[t] EXCEPT ![field] = @ + 1] /\ moved'[t] \in Movements
  BY <1>2, <1>3 DEF TransfersTypeOK
<1>5. \A other \in {"withdrawn", "deposited", "refunded"} :
        moved'[t][other] = IF other = field THEN moved[t][other] + 1 ELSE moved[t][other]
  BY <1>1, <1>4 DEF Movements
<1>6. ASSUME moved'[t].withdrawn \in 0 .. 1, moved'[t].refunded \in 0 .. 1,
             moved'[t].deposited \in 0 .. 3
      PROVE  moved' \in [Transfers -> Bounded]
  <2>1. moved'[t] \in Bounded
    BY <1>1, <1>4, <1>6 DEF Movements, Bounded
  <2>2. moved' = [moved EXCEPT ![t] = moved'[t]]
    BY <1>2, <1>4
  <2> QED
    BY <2>1, <2>2 DEF TransfersTypeOK, Bounded
<1> QED
  BY <1>2, <1>5, <1>6 DEF TransfersTypeOK

LEMMA PendingIsSet ==
  ASSUME TransfersTypeOK, NEW t \in Transfers,
         NEW pending \in PendingTransfer \cup {NotPending}, SetPending(t, pending)
  PROVE  /\ pendingTransfers' \in [Transfers -> PendingTransfer \cup {NotPending}]
         /\ pendingTransfers'[t] = pending
         /\ \A u \in Transfers \ {t} : pendingTransfers'[u] = pendingTransfers[u]
BY DEF TransfersTypeOK, SetPending

\* An event that the account accepts leaves no account overdrawn.
LEMMA AccountsKept ==
  ASSUME AccountsTypeOK, NEW a \in AccountNumbers, NEW type \in EventTypes,
         NEW amount \in Amounts, amount >= 0,
         type = "FundsWithdrawn" => amount <= balance[a],
         ApplyEvent([type |-> type, account |-> a, amount |-> amount]),
         UNCHANGED <<nextAccountNumber, closed>>
  PROVE  AccountsTypeOK'
<1> DEFINE event == [type |-> type, account |-> a, amount |-> amount]
<1>1. event \in AccountEvents
  BY DEF AccountEvents
<1>2. ledger' \in Seq(AccountEvents)
  BY <1>1 DEF AccountsTypeOK, ApplyEvent
<1>3. balance[a] + Effect(event) \in Nat
  BY AccountsAssumption DEF AccountsTypeOK, Effect
<1>4. balance' = [balance EXCEPT ![a] = balance[a] + Effect(event)]
  BY DEF ApplyEvent
<1>5. balance' \in [AccountNumbers -> Nat]
  BY <1>3, <1>4 DEF AccountsTypeOK
<1> QED
  BY <1>2, <1>5 DEF AccountsTypeOK, OpenAccounts, IsOpen

\* A transfer that nobody acts on stays as it is.
LEMMA OthersFit ==
  ASSUME TransfersInv, NEW t, OthersStay(t), asked' = asked
  PROVE  \A u \in Transfers \ {t} : ChainFits(u)'
<1> SUFFICES ASSUME NEW u \in Transfers \ {t} PROVE ChainFits(u)'
  OBVIOUS
<1>1. ChainFits(u)
  BY DEF TransfersInv
<1>2. /\ chain'[u] = chain[u] /\ pendingTransfers'[u] = pendingTransfers[u]
      /\ refusals'[u] = refusals[u] /\ moved'[u] = moved[u]
  BY DEF OthersStay
<1> QED
  BY <1>1, <1>2 DEF ChainFits, BegunWhenAsked, NothingMovedYet, ListedOnTheWay, IsListed,
     WithdrawnOnce, DepositedPerRefusal, DepositedPerAttempt, SettledAtTheEnd

LEMMA OneChainStep ==
  ASSUME TransfersInv, NEW t \in Transfers, OthersStay(t), asked' = asked,
         TransfersTypeOK', ChainFits(t)'
  PROVE  TransfersInv'
BY OthersFit DEF TransfersInv

LEMMA AccountsStay ==
  ASSUME AccountsTypeOK, UNCHANGED accountVars
  PROVE  AccountsTypeOK'
BY DEF AccountsTypeOK, accountVars, OpenAccounts, IsOpen

----------------------------------------------------------------------------
(* Transfers: the command *)

LEMMA InitiatedKeeps ==
  ASSUME TransfersInv, NEW t \in Transfers, Initiated(t)
  PROVE  TransfersInv'
<1>1. TransfersTypeOK /\ ChainFits(t) /\ chain[t].at = "initiating"
  BY DEF TransfersInv, Initiated, Settles
<1>2. /\ asked[t] \in [from : AccountNumbers, to : AccountNumbers, amount : Amounts]
      /\ t \in DOMAIN asked
  BY <1>1, AskedTransfer
<1>3. /\ appends' \in Seq(Requests)
      /\ UNCHANGED <<accountVars, direct, asked, moved>>
      /\ Taken \/ Refused(t)
  BY <1>1, MailboxIsTyped DEF Initiated, Settles
<1>4. AccountsTypeOK'
  BY <1>1, <1>3, AccountsStay DEF TransfersTypeOK
<1>5. /\ version' \in Nat /\ refusals' \in [Transfers -> Nat]
      /\ \A u \in Transfers \ {t} : refusals'[u] = refusals[u]
  BY <1>1, <1>3, TakenOrRefused
<1>6. moved[t] = NotMoved /\ BegunWhenAsked(t)
  BY <1>1 DEF ChainFits, NothingMovedYet
<1>7. CASE Taken
  <2> DEFINE pending == [from |-> asked[t].from, to |-> asked[t].to,
                         amount |-> asked[t].amount, attempts |-> 0]
  <2>1. SetPending(t, pending) /\ At(t, "withdrawing")
    BY <1>7 DEF Initiated, Taken, Refused
  <2>2. pending \in PendingTransfer
    BY <1>2 DEF PendingTransfer, Attempts, MAX_RETRIES
  <2>3. /\ pendingTransfers' \in [Transfers -> PendingTransfer \cup {NotPending}]
        /\ pendingTransfers'[t] = pending
        /\ \A u \in Transfers \ {t} : pendingTransfers'[u] = pendingTransfers[u]
    <3> HIDE DEF pending
    <3> QED
      BY <1>1, <2>1, <2>2, PendingIsSet
  <2>4. /\ chain' \in [Transfers -> Chains]
        /\ chain'[t].at = "withdrawing"
        /\ \A u \in Transfers \ {t} : chain'[u] = chain[u]
    BY <1>1, <2>1, StageReached DEF Stages, InCommand
  <2>5. IsListed(t)'
    BY <1>3, <2>2, <2>3 DEF IsListed
  <2>6. ChainFits(t)'
    BY <1>1, <1>3, <1>6, <2>4, <2>5
       DEF ChainFits, BegunWhenAsked, NothingMovedYet, ListedOnTheWay, WithdrawnOnce,
           DepositedPerRefusal, DepositedPerAttempt, SettledAtTheEnd, AfterWithdrawal
  <2>7. TransfersTypeOK'
    BY <1>1, <1>3, <1>4, <1>5, <2>3, <2>4 DEF TransfersTypeOK, Chains, Requests, Bounded
  <2> QED
    BY <1>3, <1>5, <2>3, <2>4, <2>6, <2>7, OneChainStep DEF OthersStay
<1>8. CASE Refused(t)
  <2>1. At(t, "ended") /\ UNCHANGED pendingTransfers
    BY <1>8 DEF Initiated, Taken, Refused
  <2>2. /\ chain' \in [Transfers -> Chains]
        /\ chain'[t].at = "ended"
        /\ \A u \in Transfers \ {t} : chain'[u] = chain[u]
    BY <1>1, <2>1, StageReached DEF Stages
  <2>3. ChainFits(t)'
    BY <1>1, <1>3, <1>5, <1>6, <2>2
       DEF ChainFits, BegunWhenAsked, NothingMovedYet, ListedOnTheWay, WithdrawnOnce,
           DepositedPerRefusal, DepositedPerAttempt, SettledAtTheEnd, AfterWithdrawal, NotMoved
  <2>4. TransfersTypeOK'
    BY <1>1, <1>3, <1>4, <1>5, <2>1, <2>2 DEF TransfersTypeOK, Chains, Requests, Bounded
  <2> QED
    BY <1>3, <1>5, <2>1, <2>2, <2>3, <2>4, OneChainStep DEF OthersStay
<1> QED
  BY <1>3, <1>7, <1>8

\* A transfer is listed as long as its entry in the map is the one it had.
LEMMA StaysListed ==
  ASSUME TransfersInv, NEW t \in Transfers, asked' = asked,
         chain[t].at \in AfterWithdrawal \cup {"withdrawing"},
         pendingTransfers'[t] = pendingTransfers[t]
  PROVE  IsListed(t)'
BY DEF TransfersInv, ChainFits, ListedOnTheWay, IsListed

\* Wherever a chain ends, what it leaves behind is what matters.
LEMMA ChainEnds ==
  ASSUME TransfersInv, NEW t \in Transfers, asked' = asked,
         chain[t].at # "none", chain'[t].at = "ended", SettledAtTheEnd(t)'
  PROVE  ChainFits(t)'
BY DEF TransfersInv, ChainFits, BegunWhenAsked, NothingMovedYet, ListedOnTheWay,
       WithdrawnOnce, DepositedPerRefusal, DepositedPerAttempt, AfterWithdrawal

LEMMA WithdrawFromKeeps ==
  ASSUME TransfersInv, NEW t \in Transfers, WithdrawFrom(t)
  PROVE  TransfersInv'
<1> DEFINE from == asked[t].from
           amount == asked[t].amount
<1>1. TransfersTypeOK /\ ChainFits(t) /\ chain[t].at = "withdrawing"
  BY DEF TransfersInv, WithdrawFrom
<1>2. from \in AccountNumbers /\ amount \in Amounts
  BY <1>1, AskedTransfer
<1>3. UNCHANGED <<direct, asked, pendingTransfers, version, refusals>>
  BY DEF WithdrawFrom
<1>4. moved[t] = NotMoved /\ BegunWhenAsked(t)
  BY <1>1 DEF ChainFits, NothingMovedYet
<1>5. refusals[t] \in Nat
  BY <1>1 DEF TransfersTypeOK
<1>6. IsListed(t)'
  BY <1>1, <1>3, StaysListed
<1>7. CASE /\ Withdraws(from, amount) /\ Withdraw(from, amount)
           /\ Count(t, "withdrawn") /\ Request(t, appends, "recording")
  <2>1. amount >= 0 /\ amount <= balance[from]
    BY <1>7 DEF Withdraws
  <2>2. AccountsTypeOK'
    BY <1>1, <1>2, <1>7, <2>1, AccountsKept DEF TransfersTypeOK, Withdraw, EventTypes
  <2>3. At(t, "recording") /\ appends' \in Seq(Requests)
    BY <1>1, <1>7, AppendIsRequested, MailboxIsTyped
  <2>4. /\ chain' \in [Transfers -> Chains]
        /\ chain'[t].at = "recording"
        /\ \A u \in Transfers \ {t} : chain'[u] = chain[u]
    BY <1>1, <2>3, StageReached DEF Stages, InCommand
  <2>5. /\ \A u \in Transfers \ {t} : moved'[u] = moved[u]
        /\ moved'[t].withdrawn = 1 /\ moved'[t].deposited = 0 /\ moved'[t].refunded = 0
    BY <1>1, <1>4, <1>7, CountedOnce DEF NotMoved
  <2>6. moved' \in [Transfers -> Bounded]
    BY <1>1, <1>7, <2>5, CountedOnce
  <2>7. ChainFits(t)'
    BY <1>1, <1>3, <1>4, <1>5, <1>6, <2>1, <2>4, <2>5
       DEF ChainFits, BegunWhenAsked, NothingMovedYet, ListedOnTheWay, WithdrawnOnce,
           DepositedPerRefusal, DepositedPerAttempt, SettledAtTheEnd, AfterWithdrawal
  <2>8. TransfersTypeOK'
    BY <1>1, <1>3, <2>2, <2>3, <2>4, <2>6 DEF TransfersTypeOK, Chains, Requests, Bounded
  <2> QED
    BY <1>3, <2>4, <2>5, <2>7, <2>8, OneChainStep DEF OthersStay
<1>8. CASE At(t, "ended") /\ UNCHANGED <<accountVars, moved, appends>>
  <2>1. /\ chain' \in [Transfers -> Chains]
        /\ chain'[t].at = "ended"
        /\ \A u \in Transfers \ {t} : chain'[u] = chain[u]
    BY <1>1, <1>8, StageReached DEF Stages
  <2>2. SettledAtTheEnd(t)'
    BY <1>3, <1>4, <1>5, <1>8 DEF SettledAtTheEnd, NotMoved
  <2>3. TransfersTypeOK'
    BY <1>1, <1>3, <1>8, <2>1, AccountsStay DEF TransfersTypeOK, Chains
  <2> QED
    BY <1>1, <1>3, <1>8, <2>1, <2>2, <2>3, ChainEnds, OneChainStep DEF OthersStay
<1> QED
  BY <1>7, <1>8 DEF WithdrawFrom

LEMMA RecordedKeeps ==
  ASSUME TransfersInv, NEW t \in Transfers, RecordedWithdrawal(t)
  PROVE  TransfersInv'
<1>1. TransfersTypeOK /\ ChainFits(t) /\ chain[t].at = "recording"
  BY DEF TransfersInv, RecordedWithdrawal, Settles
<1>2. asked[t] \in [from : AccountNumbers, to : AccountNumbers, amount : Amounts]
  BY <1>1, AskedTransfer
<1>3. /\ appends' \in Seq(Requests)
      /\ UNCHANGED <<accountVars, direct, asked, moved>>
      /\ Taken \/ Refused(t)
  BY <1>1, MailboxIsTyped DEF RecordedWithdrawal, Settles
<1>4. AccountsTypeOK'
  BY <1>1, <1>3, AccountsStay DEF TransfersTypeOK
<1>5. /\ version' \in Nat /\ refusals' \in [Transfers -> Nat]
      /\ \A u \in Transfers \ {t} : refusals'[u] = refusals[u]
      /\ refusals'[t] >= refusals[t] /\ refusals[t] \in Nat /\ refusals'[t] \in Nat
  BY <1>1, <1>3, TakenOrRefused
<1>6. /\ moved[t].deposited = 0 /\ moved[t].refunded = 0 /\ moved[t].withdrawn = 1
      /\ asked[t].amount >= 0 /\ BegunWhenAsked(t)
  BY <1>1, MovementsAreBounded DEF ChainFits, WithdrawnOnce, DepositedPerAttempt, AfterWithdrawal
<1>7. CASE Taken
  <2> DEFINE pending == [from |-> asked[t].from, to |-> pendingTransfers[t].to,
                         amount |-> asked[t].amount, attempts |-> 0]
  <2>1. /\ SetPending(t, pending)
        /\ chain' = [chain EXCEPT ![t] = [at |-> "timer", attempt |-> 1]]
    BY <1>7 DEF RecordedWithdrawal, Taken, Refused
  <2>2. pending \in PendingTransfer /\ pending.to = asked[t].to
    BY <1>1, <1>2, PendingIsListed DEF PendingTransfer, Attempts, MAX_RETRIES, AfterWithdrawal
  <2>3. /\ pendingTransfers' \in [Transfers -> PendingTransfer \cup {NotPending}]
        /\ pendingTransfers'[t] = pending
        /\ \A u \in Transfers \ {t} : pendingTransfers'[u] = pendingTransfers[u]
    <3> HIDE DEF pending
    <3> QED
      BY <1>1, <2>1, <2>2, PendingIsSet
  <2>4. /\ chain' \in [Transfers -> Chains]
        /\ chain'[t].at = "timer" /\ chain'[t].attempt = 1
        /\ \A u \in Transfers \ {t} : chain'[u] = chain[u]
    <3>1. 1 \in Attempts
      BY DEF Attempts, MAX_RETRIES
    <3> QED
      BY <1>1, <2>1, <3>1, TimerIsSet
  <2>5. IsListed(t)'
    BY <1>3, <2>2, <2>3 DEF IsListed
  <2>6. ChainFits(t)'
    BY <1>1, <1>3, <1>5, <1>6, <2>4, <2>5
       DEF ChainFits, BegunWhenAsked, NothingMovedYet, ListedOnTheWay, WithdrawnOnce,
           DepositedPerRefusal, DepositedPerAttempt, SettledAtTheEnd, AfterWithdrawal
  <2>7. TransfersTypeOK'
    BY <1>1, <1>3, <1>4, <1>5, <2>3, <2>4 DEF TransfersTypeOK, Chains, Requests, Bounded
  <2> QED
    BY <1>3, <1>5, <2>3, <2>4, <2>6, <2>7, OneChainStep DEF OthersStay
<1>8. CASE Refused(t)
  <2>1. At(t, "ended") /\ UNCHANGED pendingTransfers
    BY <1>8 DEF RecordedWithdrawal, Taken, Refused
  <2>2. /\ chain' \in [Transfers -> Chains]
        /\ chain'[t].at = "ended"
        /\ \A u \in Transfers \ {t} : chain'[u] = chain[u]
    BY <1>1, <2>1, StageReached DEF Stages
  <2>3. IsListed(t)'
    BY <1>1, <1>3, <2>1, StaysListed DEF AfterWithdrawal
  <2>4. SettledAtTheEnd(t)'
    BY <1>3, <1>5, <1>6, <2>3 DEF SettledAtTheEnd
  <2>5. TransfersTypeOK'
    BY <1>1, <1>3, <1>4, <1>5, <2>1, <2>2 DEF TransfersTypeOK, Chains, Requests, Bounded
  <2> QED
    BY <1>1, <1>3, <1>5, <2>1, <2>2, <2>4, <2>5, ChainEnds, OneChainStep DEF OthersStay
<1> QED
  BY <1>3, <1>7, <1>8

----------------------------------------------------------------------------
(* Transfers: the timers *)

\* What has to be shown of a step behind the withdrawal.
LEMMA ChainGoesOn ==
  ASSUME TransfersInv, NEW t \in Transfers, asked' = asked, IsListed(t)',
         chain[t].at \in AfterWithdrawal, chain'[t].at \in AfterWithdrawal,
         moved'[t].withdrawn = moved[t].withdrawn,
         moved'[t].refunded = IF chain'[t].at = "refunded" THEN 1 ELSE 0,
         DepositedPerRefusal(t)', DepositedPerAttempt(t)'
  PROVE  ChainFits(t)'
BY DEF TransfersInv, ChainFits, BegunWhenAsked, NothingMovedYet, ListedOnTheWay,
       WithdrawnOnce, SettledAtTheEnd, AfterWithdrawal

\* Behind the withdrawal a transfer is listed, so that its appends are requested.
LEMMA AppendOfListed ==
  ASSUME TransfersInv, NEW t \in Transfers, NEW queue \in Seq(Requests),
         NEW at \in {"attempting", "failing"}, chain[t].at \in AfterWithdrawal,
         RequestIfPending(t, queue, at)
  PROVE  /\ appends' \in Seq(Requests)
         /\ chain' \in [Transfers -> Chains]
         /\ chain'[t].at = at /\ chain'[t].attempt = chain[t].attempt
         /\ \A u \in Transfers \ {t} : chain'[u] = chain[u]
<1>1. TransfersTypeOK /\ IsPending(t)
  BY PendingIsListed DEF TransfersInv
<1>2. At(t, at) /\ appends' \in Seq(Requests)
  BY <1>1, AppendIsRequested DEF RequestIfPending
<1>3. at \in Stages
  BY DEF Stages, Appending
<1> QED
  BY <1>1, <1>2, <1>3, StageReached

\* Where the money of a transfer is while its timers run.
LEMMA MoneyOnTheWay ==
  ASSUME TransfersInv, NEW t \in Transfers, chain[t].at \in AfterWithdrawal
  PROVE  /\ moved[t].withdrawn = 1
         /\ moved[t].refunded = IF chain[t].at = "refunded" THEN 1 ELSE 0
         /\ moved[t].deposited \in 0 .. 3
         /\ refusals[t] \in Nat /\ chain[t].attempt \in 0 .. 3
         /\ asked[t].amount >= 0
         /\ DepositedPerRefusal(t) /\ DepositedPerAttempt(t)
BY MovementsAreBounded DEF TransfersInv, ChainFits, WithdrawnOnce

LEMMA TimerFiresKeeps ==
  ASSUME TransfersInv, NEW t \in Transfers, TimerFires(t)
  PROVE  TransfersInv'
<1>1. TransfersTypeOK /\ chain[t].at = "timer" /\ chain[t].at \in AfterWithdrawal
  BY DEF TransfersInv, TimerFires, AfterWithdrawal
<1>2. UNCHANGED <<accountVars, direct, asked, pendingTransfers, version, refusals, moved>>
  BY DEF TimerFires
<1>3. /\ appends' \in Seq(Requests)
      /\ chain' \in [Transfers -> Chains]
      /\ chain'[t].at = "attempting" /\ chain'[t].attempt = chain[t].attempt
      /\ \A u \in Transfers \ {t} : chain'[u] = chain[u]
  BY <1>1, MailboxIsTyped, AppendOfListed DEF TimerFires
<1>4. IsListed(t)'
  BY <1>1, <1>2, StaysListed
<1>5. ChainFits(t)'
  BY <1>1, <1>2, <1>3, <1>4, MoneyOnTheWay, ChainGoesOn
     DEF DepositedPerRefusal, DepositedPerAttempt, AfterWithdrawal
<1>6. TransfersTypeOK'
  BY <1>1, <1>2, <1>3, AccountsStay DEF TransfersTypeOK, Chains, Requests
<1> QED
  BY <1>2, <1>3, <1>5, <1>6, OneChainStep DEF OthersStay

LEMMA AttemptedKeeps ==
  ASSUME TransfersInv, NEW t \in Transfers, Attempted(t)
  PROVE  TransfersInv'
<1>1. /\ TransfersTypeOK /\ chain[t].at = "attempting" /\ chain[t].at \in AfterWithdrawal
      /\ Tail(appends) \in Seq(Requests)
  BY MailboxIsTyped DEF TransfersInv, Attempted, Settles, AfterWithdrawal
<1>2. UNCHANGED <<accountVars, direct, asked, moved>> /\ (Taken \/ Refused(t))
  BY DEF Attempted
<1>3. AccountsTypeOK'
  BY <1>1, <1>2, AccountsStay DEF TransfersTypeOK
<1>4. /\ version' \in Nat /\ refusals' \in [Transfers -> Nat]
      /\ \A u \in Transfers \ {t} : refusals'[u] = refusals[u]
      /\ refusals'[t] >= refusals[t] /\ refusals[t] \in Nat /\ refusals'[t] \in Nat
  BY <1>1, <1>2, TakenOrRefused
<1>5. CASE Taken
  <2> DEFINE pending == [pendingTransfers[t] EXCEPT !.attempts = chain[t].attempt]
  <2>1. SetPending(t, pending) /\ At(t, "depositing") /\ appends' = Tail(appends)
    BY <1>5 DEF Attempted, Taken, Refused
  <2>2. /\ pending \in PendingTransfer
        /\ pending.from = asked[t].from /\ pending.to = asked[t].to
        /\ pending.amount = asked[t].amount
    BY <1>1, PendingIsListed, MovementsAreBounded DEF PendingTransfer
  <2>3. /\ pendingTransfers' \in [Transfers -> PendingTransfer \cup {NotPending}]
        /\ pendingTransfers'[t] = pending
        /\ \A u \in Transfers \ {t} : pendingTransfers'[u] = pendingTransfers[u]
    <3> HIDE DEF pending
    <3> QED
      BY <1>1, <2>1, <2>2, PendingIsSet
  <2>4. /\ chain' \in [Transfers -> Chains]
        /\ chain'[t].at = "depositing" /\ chain'[t].attempt = chain[t].attempt
        /\ \A u \in Transfers \ {t} : chain'[u] = chain[u]
    BY <1>1, <2>1, StageReached DEF Stages
  <2>5. IsListed(t)'
    BY <1>2, <2>2, <2>3 DEF IsListed
  <2>6. ChainFits(t)'
    <3>1. /\ moved'[t].withdrawn = moved[t].withdrawn
          /\ moved'[t].refunded = IF chain'[t].at = "refunded" THEN 1 ELSE 0
          /\ moved'[t].deposited = moved[t].deposited
      BY <1>1, <1>2, <2>4, MoneyOnTheWay
    <3>2. DepositedPerRefusal(t)' /\ DepositedPerAttempt(t)'
      <4>1. /\ moved[t].deposited \in Nat /\ chain[t].attempt \in Nat
            /\ moved[t].deposited <= refusals[t] /\ moved[t].deposited < chain[t].attempt
        BY <1>1, MoneyOnTheWay DEF DepositedPerRefusal, DepositedPerAttempt
      <4>2. moved'[t].deposited <= refusals'[t] /\ moved'[t].deposited < chain'[t].attempt
        BY ONLY <1>4, <2>4, <3>1, <4>1
      <4> QED
        BY <2>4, <4>2 DEF DepositedPerRefusal, DepositedPerAttempt
    <3>3. chain'[t].at \in AfterWithdrawal
      BY <2>4 DEF AfterWithdrawal
    <3> QED
      BY <1>1, <1>2, <2>5, <3>1, <3>2, <3>3, ChainGoesOn
  <2>7. TransfersTypeOK'
    BY <1>1, <1>2, <1>3, <1>4, <2>1, <2>3, <2>4 DEF TransfersTypeOK, Chains, Requests
  <2> QED
    BY <1>2, <1>4, <2>3, <2>4, <2>6, <2>7, OneChainStep DEF OthersStay
<1>6. CASE Refused(t)
  <2>1. RequestIfPending(t, Tail(appends), "failing") /\ UNCHANGED pendingTransfers
    BY <1>6 DEF Attempted, Taken, Refused, Catch
  <2>2. /\ appends' \in Seq(Requests)
        /\ chain' \in [Transfers -> Chains]
        /\ chain'[t].at = "failing" /\ chain'[t].attempt = chain[t].attempt
        /\ \A u \in Transfers \ {t} : chain'[u] = chain[u]
    BY <1>1, <2>1, AppendOfListed
  <2>3. IsListed(t)'
    BY <1>1, <1>2, <2>1, StaysListed
  <2>4. ChainFits(t)'
    <3>1. DepositedPerRefusal(t)' /\ DepositedPerAttempt(t)'
      <4>1. /\ moved[t].deposited \in Nat /\ chain[t].attempt \in Nat
            /\ moved[t].deposited <= refusals[t] /\ moved[t].deposited <= chain[t].attempt
        BY <1>1, MoneyOnTheWay DEF DepositedPerRefusal, DepositedPerAttempt
      <4>2. moved'[t].deposited = moved[t].deposited
        BY <1>2
      <4>3. moved'[t].deposited <= refusals'[t] /\ moved'[t].deposited <= chain'[t].attempt
        BY ONLY <1>4, <2>2, <4>1, <4>2
      <4> QED
        BY <2>2, <4>3 DEF DepositedPerRefusal, DepositedPerAttempt
    <3> QED
      BY <1>1, <1>2, <2>2, <2>3, <3>1, MoneyOnTheWay, ChainGoesOn DEF AfterWithdrawal
  <2>5. TransfersTypeOK'
    BY <1>1, <1>2, <1>3, <1>4, <2>1, <2>2 DEF TransfersTypeOK, Chains, Requests
  <2> QED
    BY <1>2, <1>4, <2>1, <2>2, <2>4, <2>5, OneChainStep DEF OthersStay
<1> QED
  BY <1>2, <1>5, <1>6

LEMMA DepositToKeeps ==
  ASSUME TransfersInv, NEW t \in Transfers, DepositTo(t)
  PROVE  TransfersInv'
<1> DEFINE to == asked[t].to
           amount == asked[t].amount
<1>1. /\ TransfersTypeOK /\ chain[t].at = "depositing" /\ chain[t].at \in AfterWithdrawal
      /\ appends \in Seq(Requests)
  BY MailboxIsTyped DEF TransfersInv, DepositTo, AfterWithdrawal
<1>2. to \in AccountNumbers /\ amount \in Amounts
  BY <1>1, AskedTransfer
<1>3. UNCHANGED <<direct, asked, pendingTransfers, version, refusals>>
  BY DEF DepositTo
<1>4. IsListed(t)'
  BY <1>1, <1>3, StaysListed
<1>5. /\ moved[t].withdrawn = 1 /\ moved[t].refunded = 0
      /\ moved[t].deposited \in 0 .. 3 /\ chain[t].attempt \in 0 .. 3
      /\ refusals[t] \in Nat
      /\ moved[t].deposited <= refusals[t] /\ moved[t].deposited < chain[t].attempt
  BY <1>1, MoneyOnTheWay DEF DepositedPerRefusal, DepositedPerAttempt
<1>6. CASE /\ Deposits(to, amount) /\ Deposit(to, amount)
           /\ Count(t, "deposited") /\ Request(t, appends, "completing")
  <2>1. AccountsTypeOK'
    BY <1>1, <1>2, <1>6, AccountsKept DEF TransfersTypeOK, Deposits, Deposit, EventTypes
  <2>2. At(t, "completing") /\ appends' \in Seq(Requests)
    BY <1>1, <1>6, AppendIsRequested
  <2>3. /\ chain' \in [Transfers -> Chains]
        /\ chain'[t].at = "completing" /\ chain'[t].attempt = chain[t].attempt
        /\ \A u \in Transfers \ {t} : chain'[u] = chain[u]
    BY <1>1, <2>2, StageReached DEF Stages, Appending
  <2>4. /\ \A u \in Transfers \ {t} : moved'[u] = moved[u]
        /\ moved'[t].withdrawn = 1 /\ moved'[t].refunded = 0
        /\ moved'[t].deposited = moved[t].deposited + 1
    BY <1>1, <1>5, <1>6, CountedOnce
  <2>5. moved' \in [Transfers -> Bounded]
    BY <1>1, <1>5, <1>6, <2>4, CountedOnce
  <2>6. ChainFits(t)'
    <3>1. DepositedPerRefusal(t)' /\ DepositedPerAttempt(t)'
      BY <1>3, <1>5, <2>3, <2>4 DEF DepositedPerRefusal, DepositedPerAttempt, AfterWithdrawal
    <3> QED
      BY <1>1, <1>3, <1>4, <1>5, <2>3, <2>4, <3>1, ChainGoesOn DEF AfterWithdrawal
  <2>7. TransfersTypeOK'
    BY <1>1, <1>3, <2>1, <2>2, <2>3, <2>5 DEF TransfersTypeOK, Chains, Requests, Bounded
  <2> QED
    BY <1>3, <2>3, <2>4, <2>6, <2>7, OneChainStep DEF OthersStay
<1>7. CASE RequestIfPending(t, appends, "failing") /\ UNCHANGED <<accountVars, moved>>
  <2>1. /\ appends' \in Seq(Requests)
        /\ chain' \in [Transfers -> Chains]
        /\ chain'[t].at = "failing" /\ chain'[t].attempt = chain[t].attempt
        /\ \A u \in Transfers \ {t} : chain'[u] = chain[u]
    BY <1>1, <1>7, AppendOfListed
  <2>2. ChainFits(t)'
    <3>1. DepositedPerRefusal(t)' /\ DepositedPerAttempt(t)'
      BY <1>3, <1>5, <1>7, <2>1 DEF DepositedPerRefusal, DepositedPerAttempt
    <3> QED
      BY <1>1, <1>3, <1>4, <1>5, <1>7, <2>1, <3>1, ChainGoesOn DEF AfterWithdrawal
  <2>3. TransfersTypeOK'
    BY <1>1, <1>3, <1>7, <2>1, AccountsStay DEF TransfersTypeOK, Chains, Requests
  <2> QED
    BY <1>3, <1>7, <2>1, <2>2, <2>3, OneChainStep DEF OthersStay
<1> QED
  BY <1>6, <1>7 DEF DepositTo, Catch

LEMMA CompletedKeeps ==
  ASSUME TransfersInv, NEW t \in Transfers, Completed(t)
  PROVE  TransfersInv'
<1>1. /\ TransfersTypeOK /\ chain[t].at = "completing" /\ chain[t].at \in AfterWithdrawal
      /\ Tail(appends) \in Seq(Requests)
  BY MailboxIsTyped DEF TransfersInv, Completed, Settles, AfterWithdrawal
<1>2. UNCHANGED <<accountVars, direct, asked, moved>> /\ (Taken \/ Refused(t))
  BY DEF Completed
<1>3. AccountsTypeOK'
  BY <1>1, <1>2, AccountsStay DEF TransfersTypeOK
<1>4. /\ version' \in Nat /\ refusals' \in [Transfers -> Nat]
      /\ \A u \in Transfers \ {t} : refusals'[u] = refusals[u]
      /\ refusals'[t] >= refusals[t] /\ refusals[t] \in Nat /\ refusals'[t] \in Nat
      /\ Refused(t) => refusals'[t] = refusals[t] + 1
  BY <1>1, <1>2, TakenOrRefused
<1>5. /\ moved[t].withdrawn = 1 /\ moved[t].refunded = 0
      /\ moved[t].deposited \in 0 .. 3 /\ chain[t].attempt \in 0 .. 3
      /\ moved[t].deposited \in 1 .. refusals[t] + 1 /\ moved[t].deposited <= chain[t].attempt
  BY <1>1, MoneyOnTheWay DEF DepositedPerRefusal, DepositedPerAttempt
<1>6. CASE Taken
  <2>1. SetPending(t, NotPending) /\ At(t, "ended") /\ appends' = Tail(appends)
    BY <1>6 DEF Completed, Taken, Refused
  <2>2. /\ pendingTransfers' \in [Transfers -> PendingTransfer \cup {NotPending}]
        /\ \A u \in Transfers \ {t} : pendingTransfers'[u] = pendingTransfers[u]
    BY <1>1, <2>1, PendingIsSet
  <2>3. /\ chain' \in [Transfers -> Chains] /\ chain'[t].at = "ended"
        /\ \A u \in Transfers \ {t} : chain'[u] = chain[u]
    BY <1>1, <2>1, StageReached DEF Stages
  <2>4. ChainFits(t)'
    <3>1. SettledAtTheEnd(t)'
      BY <1>2, <1>4, <1>5 DEF SettledAtTheEnd
    <3> QED
      BY <1>1, <1>2, <2>3, <3>1, ChainEnds
  <2>5. TransfersTypeOK'
    BY <1>1, <1>2, <1>3, <1>4, <2>1, <2>2, <2>3 DEF TransfersTypeOK, Chains, Requests
  <2> QED
    BY <1>2, <1>4, <2>2, <2>3, <2>4, <2>5, OneChainStep DEF OthersStay
<1>7. CASE Refused(t)
  <2>1. RequestIfPending(t, Tail(appends), "failing") /\ UNCHANGED pendingTransfers
    BY <1>7 DEF Completed, Taken, Refused, Catch
  <2>2. /\ appends' \in Seq(Requests)
        /\ chain' \in [Transfers -> Chains]
        /\ chain'[t].at = "failing" /\ chain'[t].attempt = chain[t].attempt
        /\ \A u \in Transfers \ {t} : chain'[u] = chain[u]
    BY <1>1, <2>1, AppendOfListed
  <2>3. IsListed(t)'
    BY <1>1, <1>2, <2>1, StaysListed
  <2>4. ChainFits(t)'
    <3>1. DepositedPerRefusal(t)' /\ DepositedPerAttempt(t)'
      BY <1>2, <1>4, <1>5, <1>7, <2>2 DEF DepositedPerRefusal, DepositedPerAttempt
    <3> QED
      BY <1>1, <1>2, <1>5, <2>2, <2>3, <3>1, ChainGoesOn DEF AfterWithdrawal
  <2>5. TransfersTypeOK'
    BY <1>1, <1>2, <1>3, <1>4, <2>1, <2>2 DEF TransfersTypeOK, Chains, Requests
  <2> QED
    BY <1>2, <1>4, <2>1, <2>2, <2>4, <2>5, OneChainStep DEF OthersStay
<1> QED
  BY <1>2, <1>6, <1>7

LEMMA FailedKeeps ==
  ASSUME TransfersInv, NEW t \in Transfers, Failed(t)
  PROVE  TransfersInv'
<1>1. /\ TransfersTypeOK /\ chain[t].at = "failing" /\ chain[t].at \in AfterWithdrawal
      /\ appends' \in Seq(Requests)
  BY MailboxIsTyped DEF TransfersInv, Failed, Settles, AfterWithdrawal
<1>2. /\ UNCHANGED <<accountVars, direct, asked, pendingTransfers, moved>>
      /\ Taken \/ Refused(t)
  BY DEF Failed
<1>3. AccountsTypeOK'
  BY <1>1, <1>2, AccountsStay DEF TransfersTypeOK
<1>4. /\ version' \in Nat /\ refusals' \in [Transfers -> Nat]
      /\ \A u \in Transfers \ {t} : refusals'[u] = refusals[u]
      /\ refusals'[t] >= refusals[t] /\ refusals[t] \in Nat /\ refusals'[t] \in Nat
  BY <1>1, <1>2, TakenOrRefused
<1>5. /\ moved[t].withdrawn = 1 /\ moved[t].refunded = 0
      /\ moved[t].deposited \in 0 .. 3 /\ chain[t].attempt \in 0 .. 3
      /\ moved[t].deposited <= refusals[t] /\ moved[t].deposited <= chain[t].attempt
  BY <1>1, MoneyOnTheWay DEF DepositedPerRefusal, DepositedPerAttempt
<1>6. IsListed(t)'
  BY <1>1, <1>2, StaysListed
<1>7. ASSUME chain' \in [Transfers -> Chains], ChainFits(t)',
             \A u \in Transfers \ {t} : chain'[u] = chain[u]
      PROVE  TransfersInv'
  <2>1. TransfersTypeOK'
    BY <1>1, <1>2, <1>3, <1>4, <1>7 DEF TransfersTypeOK, Chains, Requests
  <2> QED
    BY <1>2, <1>4, <1>7, <2>1, OneChainStep DEF OthersStay
<1>8. CASE Taken /\ chain[t].attempt < MAX_RETRIES
  <2>1. chain' = [chain EXCEPT ![t] = [at |-> "timer", attempt |-> chain[t].attempt + 1]]
    BY <1>8 DEF Failed, AfterFailure, Taken, Refused
  <2>2. chain[t].attempt + 1 \in Attempts
    BY <1>1, <1>8, MovementsAreBounded DEF MAX_RETRIES
  <2>3. /\ chain' \in [Transfers -> Chains]
        /\ chain'[t].at = "timer" /\ chain'[t].attempt = chain[t].attempt + 1
        /\ \A u \in Transfers \ {t} : chain'[u] = chain[u]
    BY <1>1, <2>1, <2>2, TimerIsSet
  <2>4. DepositedPerRefusal(t)' /\ DepositedPerAttempt(t)'
    BY <1>2, <1>4, <1>5, <2>3 DEF DepositedPerRefusal, DepositedPerAttempt
  <2>5. ChainFits(t)'
    BY <1>1, <1>2, <1>5, <1>6, <2>3, <2>4, ChainGoesOn DEF AfterWithdrawal
  <2> QED
    BY <1>7, <2>3, <2>5
<1>9. CASE Taken /\ ~(chain[t].attempt < MAX_RETRIES)
  <2>1. At(t, "refunding")
    BY <1>9 DEF Failed, AfterFailure, Taken, Refused
  <2>2. /\ chain' \in [Transfers -> Chains] /\ chain'[t].at = "refunding"
        /\ \A u \in Transfers \ {t} : chain'[u] = chain[u]
    BY <1>1, <2>1, StageReached DEF Stages
  <2>3. DepositedPerRefusal(t)' /\ DepositedPerAttempt(t)'
    BY <1>2, <1>4, <1>5, <2>2 DEF DepositedPerRefusal, DepositedPerAttempt
  <2>4. ChainFits(t)'
    BY <1>1, <1>2, <1>5, <1>6, <2>2, <2>3, ChainGoesOn DEF AfterWithdrawal
  <2> QED
    BY <1>7, <2>2, <2>4
<1>10. CASE Refused(t)
  <2>1. At(t, "ended")
    BY <1>10 DEF Failed, Taken, Refused
  <2>2. /\ chain' \in [Transfers -> Chains] /\ chain'[t].at = "ended"
        /\ \A u \in Transfers \ {t} : chain'[u] = chain[u]
    BY <1>1, <2>1, StageReached DEF Stages
  <2>3. SettledAtTheEnd(t)'
    BY <1>2, <1>4, <1>5, <1>6 DEF SettledAtTheEnd
  <2> QED
    BY <1>1, <1>2, <1>7, <2>2, <2>3, ChainEnds
<1> QED
  BY <1>2, <1>8, <1>9, <1>10

LEMMA RefundToKeeps ==
  ASSUME TransfersInv, NEW t \in Transfers, RefundTo(t)
  PROVE  TransfersInv'
<1> DEFINE from == pendingTransfers[t].from
           amount == pendingTransfers[t].amount
<1>1. /\ TransfersTypeOK /\ chain[t].at = "refunding" /\ chain[t].at \in AfterWithdrawal
      /\ appends \in Seq(Requests)
  BY MailboxIsTyped DEF TransfersInv, RefundTo, AfterWithdrawal
<1>2. UNCHANGED <<direct, asked, pendingTransfers, version, refusals>>
  BY DEF RefundTo
<1>3. IsListed(t)'
  BY <1>1, <1>2, StaysListed
<1>4. /\ moved[t].withdrawn = 1 /\ moved[t].refunded = 0
      /\ moved[t].deposited \in 0 .. 3 /\ refusals[t] \in Nat
      /\ moved[t].deposited <= refusals[t]
  BY <1>1, MoneyOnTheWay DEF DepositedPerRefusal
<1>5. CASE /\ Refunds(from) /\ Refund(from, amount)
           /\ Count(t, "refunded") /\ Request(t, appends, "refunded")
  <2>1. from \in AccountNumbers /\ amount \in Amounts /\ amount >= 0
    BY <1>1, PendingIsListed, MoneyOnTheWay DEF PendingTransfer
  <2>2. AccountsTypeOK'
    BY <1>1, <1>5, <2>1, AccountsKept DEF TransfersTypeOK, Refund, EventTypes
  <2>3. At(t, "refunded") /\ appends' \in Seq(Requests)
    BY <1>1, <1>5, AppendIsRequested
  <2>4. /\ chain' \in [Transfers -> Chains] /\ chain'[t].at = "refunded"
        /\ \A u \in Transfers \ {t} : chain'[u] = chain[u]
    BY <1>1, <2>3, StageReached DEF Stages, Appending
  <2>5. /\ \A u \in Transfers \ {t} : moved'[u] = moved[u]
        /\ moved'[t].withdrawn = 1 /\ moved'[t].refunded = 1
        /\ moved'[t].deposited = moved[t].deposited
    BY <1>1, <1>4, <1>5, CountedOnce
  <2>6. moved' \in [Transfers -> Bounded]
    BY <1>1, <1>4, <1>5, <2>5, CountedOnce
  <2>7. ChainFits(t)'
    <3>1. DepositedPerRefusal(t)' /\ DepositedPerAttempt(t)'
      BY <1>2, <1>4, <2>4, <2>5 DEF DepositedPerRefusal, DepositedPerAttempt
    <3> QED
      BY <1>1, <1>2, <1>3, <1>4, <2>4, <2>5, <3>1, ChainGoesOn DEF AfterWithdrawal
  <2>8. TransfersTypeOK'
    BY <1>1, <1>2, <2>2, <2>3, <2>4, <2>6 DEF TransfersTypeOK, Chains, Requests, Bounded
  <2> QED
    BY <1>2, <2>4, <2>5, <2>7, <2>8, OneChainStep DEF OthersStay
<1>6. CASE At(t, "ended") /\ UNCHANGED <<accountVars, moved, appends>>
  <2>1. /\ chain' \in [Transfers -> Chains] /\ chain'[t].at = "ended"
        /\ \A u \in Transfers \ {t} : chain'[u] = chain[u]
    BY <1>1, <1>6, StageReached DEF Stages
  <2>2. SettledAtTheEnd(t)'
    BY <1>2, <1>3, <1>4, <1>6 DEF SettledAtTheEnd
  <2>3. TransfersTypeOK'
    BY <1>1, <1>2, <1>6, <2>1, AccountsStay DEF TransfersTypeOK, Chains, Requests
  <2> QED
    BY <1>1, <1>2, <1>6, <2>1, <2>2, <2>3, ChainEnds, OneChainStep DEF OthersStay
<1> QED
  BY <1>5, <1>6 DEF RefundTo

LEMMA RefundedKeeps ==
  ASSUME TransfersInv, NEW t \in Transfers, Refunded(t)
  PROVE  TransfersInv'
<1>1. /\ TransfersTypeOK /\ chain[t].at = "refunded" /\ chain[t].at \in AfterWithdrawal
      /\ appends' \in Seq(Requests)
  BY MailboxIsTyped DEF TransfersInv, Refunded, Settles, AfterWithdrawal
<1>2. /\ UNCHANGED <<accountVars, direct, asked, moved>> /\ At(t, "ended")
      /\ Taken \/ Refused(t)
      /\ SetPending(t, NotPending) \/ UNCHANGED pendingTransfers
  BY DEF Refunded
<1>3. AccountsTypeOK'
  BY <1>1, <1>2, AccountsStay DEF TransfersTypeOK
<1>4. /\ version' \in Nat /\ refusals' \in [Transfers -> Nat]
      /\ \A u \in Transfers \ {t} : refusals'[u] = refusals[u]
      /\ refusals'[t] >= refusals[t] /\ refusals[t] \in Nat /\ refusals'[t] \in Nat
  BY <1>1, <1>2, TakenOrRefused
<1>5. /\ moved[t].withdrawn = 1 /\ moved[t].refunded = 1
      /\ moved[t].deposited \in 0 .. 3 /\ moved[t].deposited <= refusals[t]
  BY <1>1, MoneyOnTheWay DEF DepositedPerRefusal
<1>6. /\ pendingTransfers' \in [Transfers -> PendingTransfer \cup {NotPending}]
      /\ \A u \in Transfers \ {t} : pendingTransfers'[u] = pendingTransfers[u]
  BY <1>1, <1>2, PendingIsSet DEF TransfersTypeOK
<1>7. /\ chain' \in [Transfers -> Chains] /\ chain'[t].at = "ended"
      /\ \A u \in Transfers \ {t} : chain'[u] = chain[u]
  BY <1>1, <1>2, StageReached DEF Stages
<1>8. SettledAtTheEnd(t)'
  BY <1>2, <1>4, <1>5 DEF SettledAtTheEnd
<1>9. TransfersTypeOK'
  BY <1>1, <1>2, <1>3, <1>4, <1>6, <1>7 DEF TransfersTypeOK, Chains, Requests
<1> QED
  BY <1>1, <1>2, <1>4, <1>6, <1>7, <1>8, <1>9, ChainEnds, OneChainStep DEF OthersStay

----------------------------------------------------------------------------
(* Transfers: the bank and its accounts *)

\* What concerns the accounts only leaves the transfers alone.
LEMMA AccountsOnly ==
  ASSUME TransfersInv, AccountsTypeOK', direct' \in 0 .. MaxCommands,
         UNCHANGED <<asked, chain, pendingTransfers, version, appends, refusals, moved>>
  PROVE  TransfersInv'
<1>1. TransfersTypeOK'
  BY DEF TransfersInv, TransfersTypeOK
<1>2. \A t \in Transfers : ChainFits(t)'
  BY DEF TransfersInv, ChainFits, BegunWhenAsked, NothingMovedYet, ListedOnTheWay,
         IsListed, WithdrawnOnce, DepositedPerRefusal, DepositedPerAttempt, SettledAtTheEnd
<1> QED
  BY <1>1, <1>2 DEF TransfersInv

LEMMA AccountsCommandKeeps ==
  ASSUME TransfersInv, NEW a \in AccountNumbers, NEW amount \in Amounts,
         OpenAccount(amount) \/ BankDeposit(a, amount) \/ BankWithdraw(a, amount)
  PROVE  TransfersInv'
<1>1. /\ TransfersTypeOK /\ AccountsTypeOK /\ direct \in 0 .. MaxCommands
      /\ Len(asked) \in Nat
  BY DEF TransfersInv, TransfersTypeOK
<1>2. CASE OpenAccount(amount)
  <2> DEFINE n == nextAccountNumber
             event == [type |-> "AccountOpened", account |-> n, amount |-> amount]
  <2>1. /\ n \in AccountNumbers /\ amount >= 0
        /\ ApplyEvent(event) /\ nextAccountNumber' = n + 1
        /\ UNCHANGED <<closed, coordinatorVars>>
    BY <1>2 DEF OpenAccount, Open
  <2>2. event \in AccountEvents
    BY <2>1 DEF AccountEvents, EventTypes
  <2>3. ledger' \in Seq(AccountEvents)
    BY <1>1, <2>1, <2>2 DEF AccountsTypeOK, ApplyEvent
  <2>4. balance[n] + amount \in Nat
    BY <1>1, <2>1, AccountsAssumption DEF AccountsTypeOK
  <2>5. balance' = [balance EXCEPT ![n] = balance[n] + amount]
    BY <2>1 DEF ApplyEvent, Effect
  <2>6. balance' \in [AccountNumbers -> Nat]
    BY <1>1, <2>4, <2>5 DEF AccountsTypeOK
  <2>7. n + 1 \in 1 .. MaxAccounts + 1
    BY <2>1, AccountsAssumption DEF AccountNumbers
  <2>8. closed' \subseteq OpenAccounts'
    BY <1>1, <2>1, AccountsAssumption DEF AccountsTypeOK, OpenAccounts, IsOpen, AccountNumbers
  <2>9. AccountsTypeOK'
    BY <2>1, <2>3, <2>6, <2>7, <2>8 DEF AccountsTypeOK
  <2> QED
    BY <1>1, <2>1, <2>9, AccountsOnly DEF coordinatorVars
<1>3. CASE BankDeposit(a, amount)
  <2>1. AccountsTypeOK'
    BY <1>1, <1>3, AccountsKept DEF BankDeposit, Deposits, Deposit, EventTypes
  <2>2. direct' \in 0 .. MaxCommands
    BY <1>1, <1>3, TransfersAssumption DEF BankDeposit, DirectCommand
  <2> QED
    BY <1>3, <2>1, <2>2, AccountsOnly DEF BankDeposit, DirectCommand
<1>4. CASE BankWithdraw(a, amount)
  <2>1. AccountsTypeOK'
    BY <1>1, <1>4, AccountsKept DEF BankWithdraw, Withdraws, Withdraw, EventTypes
  <2>2. direct' \in 0 .. MaxCommands
    BY <1>1, <1>4, TransfersAssumption DEF BankWithdraw, DirectCommand
  <2> QED
    BY <1>4, <2>1, <2>2, AccountsOnly DEF BankWithdraw, DirectCommand
<1> QED
  BY <1>2, <1>3, <1>4

LEMMA TombstoneKeeps ==
  ASSUME TransfersInv, Tombstone
  PROVE  TransfersInv'
<1>1. AccountsTypeOK /\ direct \in 0 .. MaxCommands
  BY DEF TransfersInv, TransfersTypeOK
<1>2. UNCHANGED coordinatorVars
  BY DEF Tombstone
<1>3. AccountsTypeOK'
  BY <1>1 DEF Tombstone, CloseAccount, AccountsTypeOK, OpenAccounts, IsOpen
<1> QED
  BY <1>1, <1>2, <1>3, AccountsOnly DEF coordinatorVars

LEMMA InitiateTransferKeeps ==
  ASSUME TransfersInv, NEW from \in AccountNumbers, NEW to \in AccountNumbers,
         NEW amount \in Amounts, InitiateTransfer(from, to, amount)
  PROVE  TransfersInv'
<1> DEFINE transfer == [from |-> from, to |-> to, amount |-> amount]
           AskedRecords == [from : AccountNumbers, to : AccountNumbers, amount : Amounts]
<1>0. PICK t \in Transfers : t = Len(asked) + 1
  BY DEF InitiateTransfer
<1>1. /\ TransfersTypeOK /\ Len(asked) \in Nat
      /\ asked \in Seq(AskedRecords) /\ transfer \in AskedRecords
  BY DEF TransfersInv, TransfersTypeOK, InitiateTransfer
<1>2. /\ asked' = Append(asked, transfer)
      /\ UNCHANGED <<accountVars, direct, pendingTransfers, version, refusals, moved>>
      /\ Request(t, appends, "initiating")
  BY <1>0 DEF InitiateTransfer
<1>3. /\ asked' \in Seq(AskedRecords)
      /\ Len(asked') = Len(asked) + 1
      /\ \A u \in 1 .. Len(asked) : asked'[u] = asked[u]
  <2> HIDE DEF transfer, AskedRecords
  <2> QED
    BY <1>1, <1>2, AppendProperties
<1>4. At(t, "initiating") /\ appends' \in Seq(Requests)
  BY <1>1, <1>2, AppendIsRequested, MailboxIsTyped
<1>5. /\ chain' \in [Transfers -> Chains] /\ chain'[t].at = "initiating"
      /\ \A u \in Transfers \ {t} : chain'[u] = chain[u]
  BY <1>1, <1>4, StageReached DEF Stages, InCommand
<1>6. TransfersTypeOK'
  BY <1>1, <1>2, <1>3, <1>4, <1>5, AccountsStay DEF TransfersTypeOK, Chains, Requests
<1>7. ChainFits(t)'
  <2>1. chain[t].at = "none"
    BY <1>0, <1>1 DEF TransfersInv, ChainFits, BegunWhenAsked
  <2>2. moved[t] = NotMoved
    BY <1>1, <2>1 DEF TransfersInv, ChainFits, NothingMovedYet
  <2>3. moved'[t] = NotMoved /\ ~(t > Len(asked'))
    BY <1>0, <1>1, <1>2, <1>3, <2>2
  <2> QED
    BY <1>5, <2>3
       DEF ChainFits, BegunWhenAsked, NothingMovedYet, ListedOnTheWay, WithdrawnOnce,
           DepositedPerRefusal, DepositedPerAttempt, SettledAtTheEnd, AfterWithdrawal
<1>8. ASSUME NEW u \in Transfers \ {t} PROVE ChainFits(u)'
  <2>1. ChainFits(u) /\ chain'[u] = chain[u] /\ u \in Nat /\ u > 0
    BY <1>5, TransfersAssumption DEF TransfersInv, Transfers
  <2>2. (u > Len(asked')) <=> (u > Len(asked))
    BY <1>0, <1>1, <1>3, <2>1
  <2>3. chain[u].at # "none" => asked'[u] = asked[u]
    BY <1>1, <1>3, <2>1 DEF ChainFits, BegunWhenAsked
  <2> QED
    BY <1>2, <2>1, <2>2, <2>3
       DEF ChainFits, BegunWhenAsked, NothingMovedYet, ListedOnTheWay, IsListed, WithdrawnOnce,
           DepositedPerRefusal, DepositedPerAttempt, SettledAtTheEnd, AfterWithdrawal
<1> QED
  BY <1>6, <1>7, <1>8 DEF TransfersInv

----------------------------------------------------------------------------
(* Transfers: the invariant and what follows from it *)

LEMMA InitiallyNoTransfer == TransfersInit => TransfersInv
<1> SUFFICES ASSUME TransfersInit PROVE TransfersInv
  OBVIOUS
<1>1. AccountsTypeOK
  BY AccountsAssumption DEF TransfersInit, AccountsInit, AccountsTypeOK
<1>2. /\ 0 \in Attempts /\ "none" \in Stages
      /\ NotMoved \in [withdrawn : 0 .. 1, deposited : Attempts, refunded : 0 .. 1]
  BY DEF Attempts, MAX_RETRIES, Stages, NotMoved
<1>3. TransfersTypeOK
  BY <1>1, <1>2, TransfersAssumption DEF TransfersInit, TransfersTypeOK
<1>4. \A t \in Transfers : ChainFits(t)
  BY TransfersAssumption
     DEF TransfersInit, Transfers, ChainFits, BegunWhenAsked, NothingMovedYet,
         ListedOnTheWay, WithdrawnOnce, DepositedPerRefusal, DepositedPerAttempt,
         SettledAtTheEnd, AfterWithdrawal
<1> QED
  BY <1>3, <1>4 DEF TransfersInv

LEMMA TransfersStep == TransfersInv /\ [TransfersNext]_transferVars => TransfersInv'
<1> SUFFICES ASSUME TransfersInv, [TransfersNext]_transferVars PROVE TransfersInv'
  OBVIOUS
<1>1. CASE UNCHANGED transferVars
  <2>1. AccountsTypeOK /\ direct \in 0 .. MaxCommands
    BY DEF TransfersInv, TransfersTypeOK
  <2> QED
    BY <1>1, <2>1, AccountsStay, AccountsOnly DEF transferVars, coordinatorVars
<1>2. CASE BankCommand
  <2>1. ASSUME NEW amount \in Amounts, OpenAccount(amount) PROVE TransfersInv'
    <3>1. nextAccountNumber \in AccountNumbers
      BY <2>1 DEF OpenAccount
    <3> QED
      BY <2>1, <3>1, AccountsCommandKeeps
  <2> QED
    BY <1>2, <2>1, AccountsCommandKeeps, InitiateTransferKeeps DEF BankCommand
<1>3. ASSUME NEW t \in Transfers, ChainStep(t) PROVE TransfersInv'
  BY <1>3, InitiatedKeeps, WithdrawFromKeeps, RecordedKeeps, TimerFiresKeeps, AttemptedKeeps,
     DepositToKeeps, CompletedKeeps, FailedKeeps, RefundToKeeps, RefundedKeeps DEF ChainStep
<1> QED
  BY <1>1, <1>2, <1>3, TombstoneKeeps DEF TransfersNext

\* Where the coordinator stands with a transfer, what it has in its map and what
\* was moved between the accounts fit together.
THEOREM TransfersInvariant == TransfersSpec => []TransfersInv
BY InitiallyNoTransfer, TransfersStep, PTL DEF TransfersSpec

\* Every account stays above zero, and a transfer is withdrawn and refunded at
\* most once and deposited at most once per attempt (AccountActor.ts and
\* TransferCoordinatorActor.ts).
THEOREM TransfersAreTyped == TransfersSpec => []TransfersTypeOK
BY TransfersInvariant, PTL DEF TransfersInv

LEMMA FitsMeansListed ==
  ASSUME TransfersInv
  PROVE  WithdrawnMoneyIsListed /\ PaidAgainOnlyWhenRefused
<1> SUFFICES ASSUME NEW t \in Transfers
             PROVE  /\ moved[t].withdrawn > moved[t].deposited + moved[t].refunded => IsListed(t)
                    /\ moved[t].deposited + moved[t].refunded
                          <= moved[t].withdrawn + refusals[t]
  BY DEF WithdrawnMoneyIsListed, PaidAgainOnlyWhenRefused, IsListed, IsPending,
         PendingTransfer, NotPending, Attempts, MAX_RETRIES
<1>1. /\ ChainFits(t) /\ chain[t].at \in Stages /\ refusals[t] \in Nat
      /\ moved[t].withdrawn \in 0 .. 1 /\ moved[t].refunded \in 0 .. 1
      /\ moved[t].deposited \in 0 .. 3
  BY MovementsAreBounded DEF TransfersInv, TransfersTypeOK
<1>2. CASE chain[t].at \in {"none", "initiating", "withdrawing"}
  BY <1>1, <1>2 DEF ChainFits, NothingMovedYet, NotMoved
<1>3. CASE chain[t].at = "ended"
  BY <1>1, <1>3 DEF ChainFits, SettledAtTheEnd
<1>4. CASE chain[t].at \in AfterWithdrawal
  BY <1>1, <1>4 DEF ChainFits, ListedOnTheWay, WithdrawnOnce, DepositedPerRefusal
<1> QED
  BY <1>1, <1>2, <1>3, <1>4 DEF Stages, InCommand, Appending, AfterWithdrawal

\* Money that left its account and arrived nowhere is listed among the pending
\* transfers, with its accounts and its amount (TransferCoordinatorActor.ts).
THEOREM MoneyIsListed == TransfersSpec => []WithdrawnMoneyIsListed
BY TransfersInvariant, FitsMeansListed, PTL

\* The amount of a transfer is paid out at most once more than its appends were
\* refused (attemptDepositAsync and processRefundAsync, TransferCoordinatorActor.ts).
THEOREM MoneyIsPaidOnce == TransfersSpec => []PaidAgainOnlyWhenRefused
BY TransfersInvariant, FitsMeansListed, PTL

----------------------------------------------------------------------------
(* Sums *)

\* p[k] is the sum of the first k of the numbers g[1], g[2], ..., g[n].
IsTotals(p, g, n) ==
  /\ p \in [0 .. n -> Int]
  /\ p[0] = 0
  /\ \A k \in 1 .. n : p[k] = p[k - 1] + g[k]

Totals(g, n) == CHOOSE p : IsTotals(p, g, n)
Total(g, n) == Totals(g, n)[n]

LEMMA TotalsAreUnique ==
  ASSUME NEW n \in Nat, NEW g, NEW p, NEW q, IsTotals(p, g, n), IsTotals(q, g, n)
  PROVE  p = q
<1> DEFINE S == {k \in 0 .. n : p[k] # q[k]}
<1>1. SUFFICES ASSUME S # {} PROVE FALSE
  <2>1. p \in [0 .. n -> Int] /\ q \in [0 .. n -> Int]
    BY DEF IsTotals
  <2> QED
    BY <2>1
<1>2. PICK k \in S : \A j \in S : k <= j
  BY <1>1, LeastNumber
<1>3. k \in 1 .. n
  BY <1>2 DEF IsTotals
<1>4. k - 1 \in 0 .. n /\ k - 1 \notin S
  BY <1>2, <1>3
<1> QED
  BY <1>2, <1>3, <1>4 DEF IsTotals

LEMMA TotalsExist ==
  ASSUME NEW n \in Nat, NEW g \in [1 .. n -> Int]
  PROVE  \E p : IsTotals(p, g, n)
<1> DEFINE S == {k \in 0 .. n : ~\E p : IsTotals(p, g, k)}
<1>1. SUFFICES ASSUME S # {} PROVE FALSE
  <2>1. n \in 0 .. n
    OBVIOUS
  <2> QED
    BY <2>1
<1>2. PICK k \in S : \A j \in S : k <= j
  BY <1>1, LeastNumber
<1>3. IsTotals([i \in 0 .. 0 |-> 0], g, 0)
  BY DEF IsTotals
<1>4. k \in 1 .. n
  BY <1>2, <1>3
<1>5. k - 1 \in 0 .. n /\ k - 1 \notin S
  BY <1>2, <1>4
<1>6. PICK p : IsTotals(p, g, k - 1)
  BY <1>5
<1>7. IsTotals([i \in 0 .. k |-> IF i = k THEN p[k - 1] + g[k] ELSE p[i]], g, k)
  <2>1. /\ k - 1 \in Nat /\ \A i \in 0 .. k : i # k => i \in 0 .. k - 1
        /\ \A i \in 1 .. k : i \in 0 .. k /\ i - 1 \in 0 .. k - 1 /\ i - 1 # k
        /\ g[k] \in Int
    BY <1>4
  <2>2. p \in [0 .. k - 1 -> Int] /\ p[0] = 0 /\ \A i \in 1 .. k - 1 : p[i] = p[i - 1] + g[i]
    BY <1>6 DEF IsTotals
  <2> DEFINE q == [i \in 0 .. k |-> IF i = k THEN p[k - 1] + g[k] ELSE p[i]]
  <2>3. q \in [0 .. k -> Int]
    BY ONLY <1>4, <2>1, <2>2
  <2>4. q[0] = 0
    BY ONLY <1>4, <2>2
  <2>5. ASSUME NEW i \in 1 .. k PROVE q[i] = q[i - 1] + g[i]
    <3>1. q[i - 1] = p[i - 1]
      BY ONLY <2>1, i \in 1 .. k, <1>4
    <3>2. CASE i = k
      BY <2>1, <3>1, <3>2
    <3>3. CASE i # k
      <4>1. q[i] = p[i] /\ i \in 1 .. k - 1
        BY <2>1, <3>3
      <4> QED
        BY <2>2, <3>1, <4>1
    <3> QED
      BY <3>2, <3>3
  <2> QED
    BY <2>3, <2>4, <2>5 DEF IsTotals
<1> QED
  BY <1>2, <1>7

LEMMA TotalIs ==
  ASSUME NEW n \in Nat, NEW g, NEW p, IsTotals(p, g, n)
  PROVE  Total(g, n) = p[n] /\ p[n] \in Int
<1>1. IsTotals(Totals(g, n), g, n)
  BY DEF Totals
<1>2. Totals(g, n) = p
  BY <1>1, TotalsAreUnique
<1>3. p[n] \in Int
  BY DEF IsTotals
<1> QED
  BY <1>2, <1>3 DEF Total

LEMMA TotalOfNothing ==
  ASSUME NEW g PROVE Total(g, 0) = 0
<1>1. IsTotals([i \in 0 .. 0 |-> 0], g, 0)
  BY DEF IsTotals
<1> QED
  BY <1>1, TotalIs

\* One number that changes changes the sum as much.
LEMMA TotalOfOneChanged ==
  ASSUME NEW n \in Nat, NEW g \in [1 .. n -> Int], NEW h \in [1 .. n -> Int], NEW m \in 1 .. n,
         \A k \in 1 .. n : k # m => h[k] = g[k]
  PROVE  Total(h, n) = Total(g, n) + (h[m] - g[m]) /\ Total(g, n) \in Int
<1>1. PICK p : IsTotals(p, g, n)
  BY TotalsExist
<1>2. PICK d \in Int : d = h[m] - g[m]
  OBVIOUS
<1> DEFINE q == [k \in 0 .. n |-> IF k < m THEN p[k] ELSE p[k] + d]
<1>3. IsTotals(q, h, n)
  <2>1. q \in [0 .. n -> Int] /\ q[0] = 0
    BY <1>1 DEF IsTotals
  <2>2. ASSUME NEW k \in 1 .. n PROVE q[k] = q[k - 1] + h[k]
    <3>1. k - 1 \in 0 .. n /\ k \in 0 .. n /\ p[k] = p[k - 1] + g[k]
      BY <1>1 DEF IsTotals
    <3>2. p[k - 1] \in Int /\ g[k] \in Int /\ h[k] \in Int
      BY <1>1, <3>1 DEF IsTotals
    <3>3. h[k] = IF k = m THEN g[k] + d ELSE g[k]
      BY <1>2, <3>2
    <3>4. CASE k < m
      <4>1. q[k] = p[k] /\ q[k - 1] = p[k - 1] /\ k # m
        BY <3>1, <3>4
      <4> QED
        BY ONLY <3>1, <3>3, <4>1
    <3>5. CASE k = m
      <4>1. q[k] = p[k] + d /\ q[k - 1] = p[k - 1]
        BY <3>1, <3>5
      <4> QED
        BY ONLY <1>2, <3>1, <3>2, <3>3, <3>5, <4>1
    <3>6. CASE k > m
      <4>1. q[k] = p[k] + d /\ q[k - 1] = p[k - 1] + d /\ k # m
        BY <3>1, <3>6
      <4> QED
        BY ONLY <1>2, <3>1, <3>2, <3>3, <4>1
    <3> QED
      BY <3>4, <3>5, <3>6
  <2> QED
    BY <2>1, <2>2 DEF IsTotals
<1>4. q[n] = p[n] + d
  OBVIOUS
<1>5. Total(g, n) = p[n] /\ p[n] \in Int
  BY <1>1, TotalIs
<1> HIDE DEF q
<1>6. Total(h, n) = q[n]
  BY <1>3, TotalIs
<1> QED
  BY <1>2, <1>4, <1>5, <1>6

LEMMA TotalOfSame ==
  ASSUME NEW n \in Nat, NEW g \in [1 .. n -> Int], NEW h, \A k \in 1 .. n : h[k] = g[k]
  PROVE  Total(h, n) = Total(g, n) /\ Total(g, n) \in Int
<1>1. PICK p : IsTotals(p, g, n)
  BY TotalsExist
<1>2. IsTotals(p, h, n)
  BY <1>1 DEF IsTotals
<1>3. Total(g, n) = p[n] /\ p[n] \in Int
  BY <1>1, TotalIs
<1>4. Total(h, n) = p[n]
  BY <1>2, TotalIs
<1> QED
  BY <1>3, <1>4

LEMMA TotalOfOneMore ==
  ASSUME NEW n \in Nat, NEW g \in [1 .. n -> Int], NEW h, h[n + 1] \in Int,
         \A k \in 1 .. n : h[k] = g[k]
  PROVE  Total(h, n + 1) = Total(g, n) + h[n + 1] /\ Total(g, n) \in Int
<1>1. PICK p : IsTotals(p, g, n)
  BY TotalsExist
<1> DEFINE q == [k \in 0 .. n + 1 |-> IF k = n + 1 THEN p[n] + h[n + 1] ELSE p[k]]
<1>2. IsTotals(q, h, n + 1)
  BY <1>1 DEF IsTotals
<1>3. q[n + 1] = p[n] + h[n + 1]
  OBVIOUS
<1>4. Total(g, n) = p[n] /\ p[n] \in Int
  BY <1>1, TotalIs
<1>5. n + 1 \in Nat
  OBVIOUS
<1> HIDE DEF q
<1>6. Total(h, n + 1) = q[n + 1]
  BY <1>2, <1>5, TotalIs
<1> QED
  BY <1>3, <1>4, <1>6

LEMMA TotalWithoutFirst ==
  ASSUME NEW n \in Nat, NEW g \in [1 .. n + 1 -> Int], NEW h, \A k \in 1 .. n : h[k] = g[k + 1]
  PROVE  Total(h, n) = Total(g, n + 1) - g[1] /\ Total(g, n + 1) \in Int
<1>1. PICK p : IsTotals(p, g, n + 1)
  BY TotalsExist
<1> DEFINE q == [k \in 0 .. n |-> p[k + 1] - g[1]]
<1>2. IsTotals(q, h, n)
  <2>1. /\ p \in [0 .. n + 1 -> Int] /\ p[0] = 0
        /\ \A k \in 1 .. n + 1 : p[k] = p[k - 1] + g[k]
    BY <1>1 DEF IsTotals
  <2>2. 1 \in 1 .. n + 1 /\ g[1] \in Int
    OBVIOUS
  <2>3. q \in [0 .. n -> Int] /\ q[0] = 0
    BY <2>1, <2>2
  <2>4. ASSUME NEW k \in 1 .. n PROVE q[k] = q[k - 1] + h[k]
    <3>1. k + 1 \in 1 .. n + 1 /\ k - 1 \in 0 .. n /\ k \in 0 .. n
      OBVIOUS
    <3>2. p[k + 1] = p[(k + 1) - 1] + g[k + 1] /\ (k + 1) - 1 = k
      BY <2>1, <3>1
    <3>3. p[k] \in Int /\ g[k + 1] \in Int
      <4>1. k \in 0 .. n + 1
        BY <3>1
      <4>2. p[k] \in Int
        BY ONLY <4>1, <2>1
      <4>3. g[k + 1] \in Int
        BY ONLY <3>1, g \in [1 .. n + 1 -> Int]
      <4> QED
        BY <4>2, <4>3
    <3>4. q[k] = p[k + 1] - g[1] /\ q[k - 1] = p[k] - g[1] /\ h[k] = g[k + 1]
      BY <3>1
    <3> HIDE DEF q
    <3> QED
      BY <2>2, <3>2, <3>3, <3>4
  <2> QED
    BY <2>3, <2>4 DEF IsTotals
<1>3. q[n] = p[n + 1] - g[1]
  OBVIOUS
<1>4. n + 1 \in Nat
  OBVIOUS
<1>5. Total(g, n + 1) = p[n + 1] /\ p[n + 1] \in Int
  BY <1>1, <1>4, TotalIs
<1> HIDE DEF q
<1>6. Total(h, n) = q[n]
  BY <1>2, TotalIs
<1> QED
  BY <1>3, <1>5, <1>6

----------------------------------------------------------------------------
(* Folds that add up *)

\* The sum of the numbers whose places are in S.
Part(g, n, S) == Total([i \in 1 .. n |-> IF i \in S THEN g[i] ELSE 0], n)

LEMMA PartsAddUp ==
  ASSUME NEW n \in Nat, NEW g \in [1 .. n -> Int]
  PROVE  /\ Part(g, n, {}) = 0
         /\ \A S \in SUBSET (1 .. n) : S # {} =>
              /\ Largest(S) \in S
              /\ Part(g, n, S \ {Largest(S)}) \in Int
              /\ Part(g, n, S) = Part(g, n, S \ {Largest(S)}) + g[Largest(S)]
<1>1. Part(g, n, {}) = 0
  <2> DEFINE p == [k \in 0 .. n |-> 0]
             h == [i \in 1 .. n |-> IF i \in {} THEN g[i] ELSE 0]
  <2>1. IsTotals(p, h, n)
    BY DEF IsTotals
  <2>2. p[n] = 0
    OBVIOUS
  <2> HIDE DEF p
  <2>3. Total(h, n) = 0
    <3> HIDE DEF h
    <3> QED
      BY <2>1, <2>2, TotalIs
  <2> QED
    BY <2>3 DEF Part
<1>2. ASSUME NEW S \in SUBSET (1 .. n), S # {}
      PROVE  /\ Largest(S) \in S
             /\ Part(g, n, S \ {Largest(S)}) \in Int
             /\ Part(g, n, S) = Part(g, n, S \ {Largest(S)}) + g[Largest(S)]
  <2>1. Largest(S) \in S
    BY <1>2, LargestIs
  <2>2. PICK m : m = Largest(S)
    OBVIOUS
  <2> DEFINE without == [i \in 1 .. n |-> IF i \in S \ {m} THEN g[i] ELSE 0]
             with == [i \in 1 .. n |-> IF i \in S THEN g[i] ELSE 0]
  <2>3. m \in 1 .. n /\ \A i \in 1 .. n : g[i] \in Int
    BY <2>1, <2>2
  <2>4. without \in [1 .. n -> Int] /\ with \in [1 .. n -> Int]
    BY <2>3
  <2>5. \A i \in 1 .. n : i # m => with[i] = without[i]
    BY <2>1, <2>2, <2>3
  <2>6. with[m] = g[m] /\ without[m] = 0 /\ g[m] \in Int
    BY <2>1, <2>2, <2>3
  <2>7. Total(with, n) = Total(without, n) + (with[m] - without[m]) /\ Total(without, n) \in Int
    <3> HIDE DEF with, without
    <3> QED
      BY <2>3, <2>4, <2>5, TotalOfOneChanged
  <2>8. Total(with, n) = Total(without, n) + g[m]
    <3> HIDE DEF with, without
    <3> QED
      BY <2>6, <2>7
  <2> QED
    BY <2>1, <2>2, <2>7, <2>8 DEF Part
<1> QED
  BY <1>1, <1>2

\* A fold reaches the sum one number after the other.
LEMMA FoldReachesTotal ==
  ASSUME NEW n \in Nat, NEW g \in [1 .. n -> Int], NEW iter, iter[{}] = 0,
         \A k \in 1 .. n :
           iter[1 .. k - 1] \in Int => iter[1 .. k] = iter[1 .. k - 1] + g[k]
  PROVE  iter[1 .. n] = Total(g, n) /\ Total(g, n) \in Int
<1> DEFINE S == {k \in 0 .. n : iter[1 .. k] \notin Int}
<1>1. ASSUME S # {} PROVE FALSE
  <2>1. PICK k \in S : \A j \in S : k <= j
    BY <1>1, LeastNumber
  <2>2. 1 .. 0 = {}
    OBVIOUS
  <2>3. k \in 1 .. n
    BY <2>1, <2>2
  <2>4. k - 1 \in 0 .. n /\ k - 1 \notin S
    BY <2>1, <2>3
  <2>5. iter[1 .. k] = iter[1 .. k - 1] + g[k] /\ iter[1 .. k - 1] \in Int
    BY <2>3, <2>4
  <2>6. g[k] \in Int
    BY <2>3
  <2> QED
    BY <2>1, <2>5, <2>6
<1>2. \A k \in 0 .. n : iter[1 .. k] \in Int
  BY <1>1
<1> DEFINE p == [k \in 0 .. n |-> iter[1 .. k]]
<1>3. p \in [0 .. n -> Int] /\ p[0] = 0
  <2>1. 1 .. 0 = {} /\ 0 \in 0 .. n
    OBVIOUS
  <2> QED
    BY <1>2, <2>1
<1>4. ASSUME NEW k \in 1 .. n PROVE p[k] = p[k - 1] + g[k]
  <2>1. k - 1 \in 0 .. n /\ k \in 0 .. n
    OBVIOUS
  <2> QED
    BY <1>2, <2>1
<1>5. IsTotals(p, g, n)
  BY <1>3, <1>4 DEF IsTotals
<1>6. p[n] = iter[1 .. n]
  OBVIOUS
<1> HIDE DEF p
<1>7. Total(g, n) = p[n] /\ p[n] \in Int
  BY <1>5, TotalIs
<1> QED
  BY <1>6, <1>7

\* So does one that takes the places in the order in which FoldLeft does.
LEMMA FoldIsATotal ==
  ASSUME NEW n \in Nat, NEW g \in [1 .. n -> Int], NEW fold, fold[{}] = 0,
         \A S \in SUBSET (1 .. n) :
           S # {} /\ fold[S \ {Largest(S)}] \in Int
             => fold[S] = fold[S \ {Largest(S)}] + g[Largest(S)]
  PROVE  fold[1 .. n] = Total(g, n) /\ Total(g, n) \in Int
<1>1. ASSUME NEW k \in 1 .. n, fold[1 .. k - 1] \in Int
      PROVE  fold[1 .. k] = fold[1 .. k - 1] + g[k]
  <2>1. k \in Nat /\ k >= 1 /\ k <= n
    OBVIOUS
  <2>2. \A i : i \in 1 .. k <=> i = k \/ i \in 1 .. k - 1
    BY <2>1
  <2>3. k \notin 1 .. k - 1
    BY <2>1
  <2>4. (1 .. k) \ {k} = 1 .. k - 1
    BY <2>2, <2>3
  <2>5. 1 .. k \in SUBSET (1 .. n) /\ 1 .. k # {} /\ k \in 1 .. k
    <3>1. \A i \in 1 .. k : i \in 1 .. n
      BY <2>1
    <3>2. k \in 1 .. k
      BY <2>1
    <3> QED
      BY <3>1, <3>2
  <2>6. Largest(1 .. k) = k
    <3>1. Largest(1 .. k) \in 1 .. k /\ \A y \in 1 .. k : Largest(1 .. k) >= y
      BY <2>5, LargestIs
    <3> QED
      BY <2>1, <2>5, <3>1
  <2> QED
    BY <1>1, <2>4, <2>5, <2>6
<1> QED
  BY <1>1, FoldReachesTotal

\* What the events of a sequence add to the balance of an account, as Unseen says.
EffectsOn(a, events) ==
  LET Add(sum, event) == IF event.account = a THEN sum + Effect(event) ELSE sum
  IN  Seqs!FoldLeft(Add, 0, events)

EffectNumbers(a, events) ==
  [i \in 1 .. Len(events) |-> IF events[i].account = a THEN Effect(events[i]) ELSE 0]

LEMMA EffectIsANumber ==
  ASSUME NEW event \in AccountEvents
  PROVE  Effect(event) \in Int /\ event.account \in AccountNumbers
<1>1. event.amount \in Int /\ event.account \in AccountNumbers
  BY AccountsAssumption DEF AccountEvents
<1> QED
  BY <1>1 DEF Effect

LEMMA EffectNumbersAreNumbers ==
  ASSUME NEW a, NEW events \in Seq(AccountEvents)
  PROVE  EffectNumbers(a, events) \in [1 .. Len(events) -> Int]
<1>1. \A i \in 1 .. Len(events) : Effect(events[i]) \in Int
  BY ElementOfSeq, EffectIsANumber
<1> QED
  BY <1>1 DEF EffectNumbers

LEMMA EffectsAreATotal ==
  ASSUME NEW a, NEW events \in Seq(AccountEvents)
  PROVE  /\ EffectsOn(a, events) = Total(EffectNumbers(a, events), Len(events))
         /\ EffectsOn(a, events) \in Int
<1> DEFINE n == Len(events)
           g == EffectNumbers(a, events)
           Body(S, f) == IF S = {} THEN 0
                         ELSE IF events[Largest(S)].account = a
                              THEN f[S \ {Largest(S)}] + Effect(events[Largest(S)])
                              ELSE f[S \ {Largest(S)}]
           fold == CHOOSE f : f = [S \in SUBSET (1 .. n) |-> Body(S, f)]
<1>1. n \in Nat /\ DOMAIN events = 1 .. n /\ g \in [1 .. n -> Int]
  BY EffectNumbersAreNumbers
<1>2. EffectsOn(a, events) = fold[1 .. n]
  <2>1. EffectsOn(a, events)
          = (CHOOSE f : f = [S \in SUBSET DOMAIN events |-> Body(S, f)])[DOMAIN events]
    BY Zenon DEF EffectsOn, Seqs!FoldLeft, Seqs!MapThenFoldSet, Seqs!Max, Largest
  <2> QED
    BY <1>1, <2>1
<1>3. \A i \in 1 .. n : g[i] = IF events[i].account = a THEN Effect(events[i]) ELSE 0
  BY DEF EffectNumbers
<1>4. \E f : f = [S \in SUBSET (1 .. n) |-> Body(S, f)]
  <2> DEFINE part == [S \in SUBSET (1 .. n) |-> Part(g, n, S)]
  <2>1. ASSUME NEW S \in SUBSET (1 .. n) PROVE part[S] = Body(S, part)
    <3>1. CASE S = {}
      BY <1>1, <3>1, PartsAddUp
    <3>2. CASE S # {}
      <4> HIDE DEF g
      <4>1. PICK m : m = Largest(S)
        OBVIOUS
      <4>2. m \in S /\ Part(g, n, S \ {m}) \in Int /\ Part(g, n, S) = Part(g, n, S \ {m}) + g[m]
        BY <1>1, <3>2, <4>1, PartsAddUp
      <4>3. m \in 1 .. n /\ S \ {m} \in SUBSET (1 .. n)
        BY <4>2
      <4>4. g[m] = IF events[m].account = a THEN Effect(events[m]) ELSE 0
        BY <1>3, <4>3
      <4> QED
        BY <3>2, <4>1, <4>2, <4>3, <4>4
    <3> QED
      BY <3>1, <3>2
  <2>2. part = [S \in SUBSET (1 .. n) |-> Body(S, part)]
    BY <2>1
  <2> QED
    BY <2>2
<1>5. fold = [S \in SUBSET (1 .. n) |-> Body(S, fold)]
  <2> HIDE DEF Body
  <2> QED
    BY <1>4
<1>6. fold[{}] = 0
  <2> HIDE DEF fold
  <2> QED
    BY <1>5
<1>7. ASSUME NEW S \in SUBSET (1 .. n), S # {}, fold[S \ {Largest(S)}] \in Int
      PROVE  fold[S] = fold[S \ {Largest(S)}] + g[Largest(S)]
  <2>1. PICK m : m = Largest(S)
    OBVIOUS
  <2>2. m \in 1 .. n
    BY <1>1, <1>7, <2>1, LargestIs
  <2>3. fold[S] = IF events[m].account = a THEN fold[S \ {m}] + Effect(events[m])
                  ELSE fold[S \ {m}]
    <3> HIDE DEF fold
    <3> QED
      BY <1>5, <1>7, <2>1
  <2> HIDE DEF fold, g
  <2> QED
    BY <1>3, <1>7, <2>1, <2>2, <2>3
<1> HIDE DEF fold, g
<1>8. fold[1 .. n] = Total(g, n) /\ Total(g, n) \in Int
  BY <1>1, <1>6, <1>7, FoldIsATotal
<1> QED
  BY <1>2, <1>8 DEF g

LEMMA EffectsOfNothing ==
  ASSUME NEW a PROVE EffectsOn(a, <<>>) = 0
<1>1. <<>> \in Seq(AccountEvents) /\ Len(<<>>) = 0
  OBVIOUS
<1>2. EffectsOn(a, <<>>) = Total(EffectNumbers(a, <<>>), 0)
  BY <1>1, EffectsAreATotal
<1> QED
  BY <1>2, TotalOfNothing

EffectOn(a, event) == IF event.account = a THEN Effect(event) ELSE 0

LEMMA EffectsOfOneMore ==
  ASSUME NEW a, NEW events \in Seq(AccountEvents), NEW event \in AccountEvents
  PROVE  EffectsOn(a, Append(events, event)) = EffectsOn(a, events) + EffectOn(a, event)
<1>1. PICK more : more = Append(events, event)
  OBVIOUS
<1>2. PICK n \in Nat : n = Len(events)
  OBVIOUS
<1>3. /\ more \in Seq(AccountEvents) /\ Len(more) = n + 1 /\ more[n + 1] = event
      /\ \A k \in 1 .. n : more[k] = events[k]
  BY <1>1, <1>2
<1>4. PICK g : g = EffectNumbers(a, events)
  OBVIOUS
<1>5. PICK h : h = EffectNumbers(a, more)
  OBVIOUS
<1>6. g \in [1 .. n -> Int] /\ h \in [1 .. n + 1 -> Int]
  BY <1>2, <1>3, <1>4, <1>5, EffectNumbersAreNumbers
<1>7. n + 1 \in 1 .. n + 1 /\ \A k \in 1 .. n : k \in 1 .. n + 1
  OBVIOUS
<1>8. h[n + 1] \in Int /\ h[n + 1] = EffectOn(a, event) /\ \A k \in 1 .. n : h[k] = g[k]
  BY <1>2, <1>3, <1>4, <1>5, <1>6, <1>7 DEF EffectNumbers, EffectOn
<1>9. Total(h, n + 1) = Total(g, n) + h[n + 1]
  BY <1>6, <1>8, TotalOfOneMore
<1>10. EffectsOn(a, events) = Total(g, n)
  BY <1>2, <1>4, EffectsAreATotal
<1>11. EffectsOn(a, more) = Total(h, n + 1)
  BY <1>3, <1>5, EffectsAreATotal
<1> QED
  BY <1>1, <1>8, <1>9, <1>10, <1>11

LEMMA EffectsWithoutFirst ==
  ASSUME NEW a, NEW events \in Seq(AccountEvents), NEW event \in AccountEvents
  PROVE  EffectsOn(a, <<event>> \o events) = EffectOn(a, event) + EffectsOn(a, events)
<1>1. PICK more : more = <<event>> \o events
  OBVIOUS
<1>2. PICK n \in Nat : n = Len(events)
  OBVIOUS
<1>3. /\ more \in Seq(AccountEvents) /\ Len(more) = n + 1 /\ more[1] = event
      /\ \A k \in 1 .. n : more[k + 1] = events[k]
  BY <1>1, <1>2
<1>4. PICK g : g = EffectNumbers(a, more)
  OBVIOUS
<1>5. PICK h : h = EffectNumbers(a, events)
  OBVIOUS
<1>6. g \in [1 .. n + 1 -> Int] /\ h \in [1 .. n -> Int]
  BY <1>2, <1>3, <1>4, <1>5, EffectNumbersAreNumbers
<1>7. 1 \in 1 .. n + 1 /\ \A k \in 1 .. n : k + 1 \in 1 .. n + 1
  OBVIOUS
<1>8. g[1] \in Int /\ g[1] = EffectOn(a, event) /\ \A k \in 1 .. n : h[k] = g[k + 1]
  BY <1>2, <1>3, <1>4, <1>5, <1>6, <1>7 DEF EffectNumbers, EffectOn
<1>9. Total(h, n) = Total(g, n + 1) - g[1] /\ Total(g, n + 1) \in Int
  BY <1>6, <1>8, TotalWithoutFirst
<1>10. EffectsOn(a, events) = Total(h, n)
  BY <1>2, <1>5, EffectsAreATotal
<1>11. EffectsOn(a, more) = Total(g, n + 1)
  BY <1>3, <1>4, EffectsAreATotal
<1> QED
  BY <1>1, <1>8, <1>9, <1>10, <1>11

\* The sum of what the summaries in a store show for a list of accounts.
SummariesIn(documentsOf, numbers) ==
  [i \in DOMAIN numbers |-> documentsOf["AccountSummary"][numbers[i]].state]

SumIn(documentsOf, numbers) ==
  LET Add(sum, summary) == sum + summary.balance
  IN  Seqs!FoldLeft(Add, 0, SummariesIn(documentsOf, numbers))

BalanceIn(documentsOf, a) == documentsOf["AccountSummary"][a].state.balance

BalanceNumbers(documentsOf, numbers) ==
  [i \in 1 .. Len(numbers) |-> BalanceIn(documentsOf, numbers[i])]

AreNumbers(documentsOf, numbers) ==
  \A i \in 1 .. Len(numbers) : BalanceIn(documentsOf, numbers[i]) \in Int

LEMMA BalancesAreATotal ==
  ASSUME NEW documentsOf, NEW numbers \in Seq(AccountNumbers), AreNumbers(documentsOf, numbers)
  PROVE  /\ SumIn(documentsOf, numbers)
              = Total(BalanceNumbers(documentsOf, numbers), Len(numbers))
         /\ BalanceNumbers(documentsOf, numbers) \in [1 .. Len(numbers) -> Int]
         /\ SumIn(documentsOf, numbers) \in Int
<1> DEFINE n == Len(numbers)
           g == BalanceNumbers(documentsOf, numbers)
           summaries == SummariesIn(documentsOf, numbers)
           Body(S, f) == IF S = {} THEN 0
                         ELSE f[S \ {Largest(S)}] + summaries[Largest(S)].balance
           fold == CHOOSE f : f = [S \in SUBSET (1 .. n) |-> Body(S, f)]
<1>1. /\ n \in Nat /\ DOMAIN numbers = 1 .. n /\ g \in [1 .. n -> Int]
      /\ DOMAIN summaries = 1 .. n
  BY DEF AreNumbers, BalanceNumbers, SummariesIn
<1>2. SumIn(documentsOf, numbers) = fold[1 .. n]
  <2>1. SumIn(documentsOf, numbers)
          = (CHOOSE f : f = [S \in SUBSET DOMAIN summaries |-> Body(S, f)])[DOMAIN summaries]
    BY Zenon DEF SumIn, Seqs!FoldLeft, Seqs!MapThenFoldSet, Seqs!Max, Largest
  <2> HIDE DEF summaries
  <2> QED
    BY <1>1, <2>1
<1>3. \A i \in 1 .. n : g[i] = summaries[i].balance
  BY <1>1 DEF BalanceNumbers, BalanceIn, SummariesIn
<1> HIDE DEF summaries
<1>4. \E f : f = [S \in SUBSET (1 .. n) |-> Body(S, f)]
  <2> DEFINE part == [S \in SUBSET (1 .. n) |-> Part(g, n, S)]
  <2>1. ASSUME NEW S \in SUBSET (1 .. n) PROVE part[S] = Body(S, part)
    <3>1. CASE S = {}
      BY <1>1, <3>1, PartsAddUp
    <3>2. CASE S # {}
      <4> HIDE DEF g
      <4>1. PICK m : m = Largest(S)
        OBVIOUS
      <4>2. m \in S /\ Part(g, n, S) = Part(g, n, S \ {m}) + g[m]
        BY <1>1, <3>2, <4>1, PartsAddUp
      <4>3. m \in 1 .. n /\ S \ {m} \in SUBSET (1 .. n)
        BY <4>2
      <4>4. g[m] = summaries[m].balance
        BY <1>3, <4>3
      <4> QED
        BY <3>2, <4>1, <4>2, <4>3, <4>4
    <3> QED
      BY <3>1, <3>2
  <2>2. part = [S \in SUBSET (1 .. n) |-> Body(S, part)]
    BY <2>1
  <2> QED
    BY <2>2
<1>5. fold = [S \in SUBSET (1 .. n) |-> Body(S, fold)]
  <2> HIDE DEF Body
  <2> QED
    BY <1>4
<1>6. fold[{}] = 0
  <2> HIDE DEF fold
  <2> QED
    BY <1>5
<1>7. ASSUME NEW S \in SUBSET (1 .. n), S # {}, fold[S \ {Largest(S)}] \in Int
      PROVE  fold[S] = fold[S \ {Largest(S)}] + g[Largest(S)]
  <2>1. PICK m : m = Largest(S)
    OBVIOUS
  <2>2. m \in 1 .. n
    BY <1>1, <1>7, <2>1, LargestIs
  <2>3. fold[S] = fold[S \ {m}] + summaries[m].balance
    <3> HIDE DEF fold
    <3> QED
      BY <1>5, <1>7, <2>1
  <2> HIDE DEF fold, g
  <2> QED
    BY <1>3, <1>7, <2>1, <2>2, <2>3
<1> HIDE DEF fold, g
<1>8. fold[1 .. n] = Total(g, n) /\ Total(g, n) \in Int
  BY <1>1, <1>6, <1>7, FoldIsATotal
<1> QED
  BY <1>1, <1>2, <1>8 DEF g

LEMMA SumOfNoBalances ==
  ASSUME NEW documentsOf PROVE SumIn(documentsOf, <<>>) = 0
<1>1. <<>> \in Seq(AccountNumbers) /\ Len(<<>>) = 0
  OBVIOUS
<1>2. AreNumbers(documentsOf, <<>>)
  BY DEF AreNumbers
<1>3. SumIn(documentsOf, <<>>) = Total(BalanceNumbers(documentsOf, <<>>), 0)
  BY <1>1, <1>2, BalancesAreATotal
<1> QED
  BY <1>3, TotalOfNothing

LEMMA SumOfSameBalances ==
  ASSUME NEW before, NEW after, NEW numbers \in Seq(AccountNumbers), AreNumbers(before, numbers),
         \A i \in 1 .. Len(numbers) : BalanceIn(after, numbers[i]) = BalanceIn(before, numbers[i])
  PROVE  SumIn(after, numbers) = SumIn(before, numbers) /\ SumIn(before, numbers) \in Int
<1>1. AreNumbers(after, numbers)
  BY DEF AreNumbers
<1>2. BalanceNumbers(after, numbers) = BalanceNumbers(before, numbers)
  BY DEF BalanceNumbers
<1> QED
  BY <1>1, <1>2, BalancesAreATotal

LEMMA SumOfOneMoreBalance ==
  ASSUME NEW documentsOf, NEW numbers \in Seq(AccountNumbers), AreNumbers(documentsOf, numbers),
         NEW a \in AccountNumbers, BalanceIn(documentsOf, a) \in Int
  PROVE  SumIn(documentsOf, Append(numbers, a))
           = SumIn(documentsOf, numbers) + BalanceIn(documentsOf, a)
<1>1. PICK more : more = Append(numbers, a)
  OBVIOUS
<1>2. PICK n \in Nat : n = Len(numbers)
  OBVIOUS
<1>3. /\ more \in Seq(AccountNumbers) /\ Len(more) = n + 1 /\ more[n + 1] = a
      /\ \A k \in 1 .. n : more[k] = numbers[k]
  BY <1>1, <1>2
<1>4. AreNumbers(documentsOf, more)
  <2> SUFFICES ASSUME NEW k \in 1 .. n + 1 PROVE BalanceIn(documentsOf, more[k]) \in Int
    BY <1>3 DEF AreNumbers
  <2>1. k \in 1 .. n \/ k = n + 1
    OBVIOUS
  <2> QED
    BY <1>2, <1>3, <2>1 DEF AreNumbers
<1>5. PICK g : g = BalanceNumbers(documentsOf, numbers)
  OBVIOUS
<1>6. PICK h : h = BalanceNumbers(documentsOf, more)
  OBVIOUS
<1>7. /\ g \in [1 .. n -> Int] /\ h \in [1 .. n + 1 -> Int]
      /\ SumIn(documentsOf, numbers) = Total(g, n)
      /\ SumIn(documentsOf, more) = Total(h, n + 1)
  BY <1>2, <1>3, <1>4, <1>5, <1>6, BalancesAreATotal
<1>8. n + 1 \in 1 .. n + 1 /\ \A k \in 1 .. n : k \in 1 .. n + 1
  OBVIOUS
<1>9. h[n + 1] \in Int /\ h[n + 1] = BalanceIn(documentsOf, a) /\ \A k \in 1 .. n : h[k] = g[k]
  BY <1>2, <1>3, <1>5, <1>6, <1>7, <1>8 DEF BalanceNumbers
<1>10. Total(h, n + 1) = Total(g, n) + h[n + 1]
  BY <1>7, <1>9, TotalOfOneMore
<1> QED
  BY <1>1, <1>7, <1>9, <1>10

\* The balance of an account that is listed once changes.
LEMMA SumOfOneBalanceChanged ==
  ASSUME NEW before, NEW after, NEW numbers \in Seq(AccountNumbers),
         AreNumbers(before, numbers), AreNumbers(after, numbers), NEW m \in 1 .. Len(numbers),
         \A i \in 1 .. Len(numbers) :
           i # m => BalanceIn(after, numbers[i]) = BalanceIn(before, numbers[i])
  PROVE  SumIn(after, numbers) = SumIn(before, numbers)
           + (BalanceIn(after, numbers[m]) - BalanceIn(before, numbers[m]))
<1>1. PICK n \in Nat : n = Len(numbers)
  OBVIOUS
<1>2. PICK g : g = BalanceNumbers(before, numbers)
  OBVIOUS
<1>3. PICK h : h = BalanceNumbers(after, numbers)
  OBVIOUS
<1>4. /\ g \in [1 .. n -> Int] /\ h \in [1 .. n -> Int]
      /\ SumIn(before, numbers) = Total(g, n) /\ SumIn(after, numbers) = Total(h, n)
  BY <1>1, <1>2, <1>3, BalancesAreATotal
<1>5. /\ h[m] = BalanceIn(after, numbers[m]) /\ g[m] = BalanceIn(before, numbers[m])
      /\ \A k \in 1 .. n : k # m => h[k] = g[k]
  BY <1>1, <1>2, <1>3 DEF BalanceNumbers
<1>6. Total(h, n) = Total(g, n) + (h[m] - g[m])
  BY <1>1, <1>4, <1>5, TotalOfOneChanged
<1> QED
  BY <1>4, <1>5, <1>6

----------------------------------------------------------------------------
(* Views: the invariant *)

ToDos == {RegisterProjections, <<"TransactionHistory", "BankStatistics">>, <<"BankStatistics">>}

CurrentFits == current \in {Idle} \cup [event : AccountEvents, todo : ToDos]

StoreFits ==
  /\ DOMAIN store = DocTypes
  /\ \A type \in ViewTypes :
       /\ DOMAIN store[type] = Ids
       /\ \A id \in Ids :
            Found(type, id) => store[type][id] \in [state : View(type), dataVersion : Nat \ {0}]
  /\ \A id \in Ids :
       Found("TransactionHistory", id) => store["TransactionHistory"][id].state.transactions # <<>>

\* The accounts of a transfer were open when the bank was asked for it.
AskedOfOpenAccounts ==
  \A t \in DOMAIN asked : IsOpen(asked[t].from) /\ IsOpen(asked[t].to)

\* The events that a projection has not seen, in the order in which it will.
UnreadOf(dispatch, events, projection) ==
  (IF Seqs!Contains(dispatch.todo, projection) THEN <<dispatch.event>> ELSE <<>>) \o events

Unread(projection) == UnreadOf(current, ledger, projection)

Opens(event, a) == event.type = "AccountOpened" /\ event.account = a

Opened(queue) == {a \in AccountNumbers : \E i \in DOMAIN queue : Opens(queue[i], a)}

\* An account is opened once, before anything else happens to it.
IsOrderly(queue, known) ==
  \A i \in DOMAIN queue :
    /\ queue[i].type = "AccountOpened" =>
         /\ queue[i].account \notin known
         /\ \A j \in 1 .. i - 1 : queue[j].account # queue[i].account
    /\ queue[i].type # "AccountOpened" =>
         \/ queue[i].account \in known
         \/ \E j \in 1 .. i - 1 : Opens(queue[j], queue[i].account)

Summarized == {a \in AccountNumbers : Found("AccountSummary", a)}

EventsComeInOrder ==
  /\ IsOrderly(Unread("AccountSummary"), Summarized)
  /\ OpenAccounts = Summarized \cup Opened(Unread("AccountSummary"))

\* The summary of its account has taken the event in, the statistics have not.
IsHalfSeen == Len(current.todo) \in {1, 2}

SummaryHasTheEvent ==
  IsHalfSeen =>
    /\ Found("AccountSummary", current.event.account)
    /\ current.event.type = "AccountOpened" =>
         GetAccountSummary(current.event.account).balance = current.event.amount

\* The history of an account is one event behind its summary, or at the same.
HistoryFollowsSummary(a) ==
  LET isBehind == Len(current.todo) = 2 /\ current.event.account = a
  IN  IF isBehind /\ current.event.type = "AccountOpened"
      THEN /\ ~Found("TransactionHistory", a)
           /\ GetAccountSummary(a).transactionCount = 1
      ELSE /\ Found("TransactionHistory", a) <=> Found("AccountSummary", a)
           /\ Found("AccountSummary", a) =>
                GetAccountSummary(a).transactionCount
                  = Len(store["TransactionHistory"][a].state.transactions)
                      + (IF isBehind THEN 1 ELSE 0)

Numbers == IF Found("BankStatistics", STATS_ID) THEN GetBankStatistics.accountNumbers ELSE <<>>
Balances == IF Found("BankStatistics", STATS_ID) THEN GetBankStatistics.totalBalance ELSE 0

\* The statistics list the accounts there are summaries of, each once.
AccountsAreListed ==
  /\ \A a \in AccountNumbers :
       (\E i \in DOMAIN Numbers : Numbers[i] = a)
         <=> a \in Summarized /\ ~(IsHalfSeen /\ Opens(current.event, a))
  /\ \A i, j \in DOMAIN Numbers : Numbers[i] = Numbers[j] => i = j

StatisticsAddUp ==
  Found("BankStatistics", STATS_ID) =>
    /\ GetBankStatistics.totalBalance = GetBankStatistics.totalDeposits
         - GetBankStatistics.totalWithdrawals + GetBankStatistics.totalRefunds
    /\ GetBankStatistics.totalAccounts = Len(GetBankStatistics.accountNumbers)

BalancesAddUp ==
  Balances + (IF IsHalfSeen /\ current.event.type # "AccountOpened"
              THEN Effect(current.event) ELSE 0)
    = SumIn(store, Numbers)

DocumentsAgree ==
  /\ SummaryHasTheEvent
  /\ \A a \in AccountNumbers : HistoryFollowsSummary(a)
  /\ AccountsAreListed
  /\ StatisticsAddUp
  /\ BalancesAddUp

\* What a projection shows for an account in the documents of a store.
ShownIn(documentsOf, a, projection) ==
  IF documentsOf[projection][a] = NoDocument THEN 0
  ELSE IF projection = "AccountSummary" THEN BalanceIn(documentsOf, a)
  ELSE LET transactions == documentsOf["TransactionHistory"][a].state.transactions
       IN  transactions[Len(transactions)].balance

ViewsLag ==
  \A a \in AccountNumbers, projection \in {"AccountSummary", "TransactionHistory"} :
    balance[a] = ShownIn(store, a, projection) + EffectsOn(a, Unread(projection))

ViewsInv ==
  /\ TransfersInv
  /\ AskedOfOpenAccounts
  /\ CurrentFits
  /\ StoreFits
  /\ EventsComeInOrder
  /\ DocumentsAgree
  /\ ViewsLag

----------------------------------------------------------------------------
(* Views: what the write side does to accounts and ledger *)

EventOfOpenAccount ==
  \E event \in AccountEvents :
    /\ event.type # "AccountOpened"
    /\ IsOpen(event.account)
    /\ ApplyEvent(event)
    /\ UNCHANGED nextAccountNumber

AccountIsOpened ==
  \E amount \in Amounts :
    /\ nextAccountNumber \in AccountNumbers
    /\ Open(nextAccountNumber, amount)

BooksEffect ==
  \/ UNCHANGED <<ledger, balance, nextAccountNumber>>
  \/ EventOfOpenAccount
  \/ AccountIsOpened

LEMMA EventHasItsType ==
  ASSUME NEW type \in EventTypes \ {"AccountOpened"}, NEW a \in AccountNumbers,
         NEW amount \in Amounts, IsOpen(a),
         ApplyEvent([type |-> type, account |-> a, amount |-> amount]),
         UNCHANGED nextAccountNumber
  PROVE  BooksEffect
<1>1. PICK event : event = [type |-> type, account |-> a, amount |-> amount]
  OBVIOUS
<1>2. event \in AccountEvents /\ event.type # "AccountOpened" /\ event.account = a
  BY <1>1 DEF AccountEvents
<1> QED
  BY <1>1, <1>2 DEF BooksEffect, EventOfOpenAccount

LEMMA CommandsKeepTheBooks ==
  ASSUME TransfersInv, AskedOfOpenAccounts, BankCommand
  PROVE  BooksEffect /\ AskedOfOpenAccounts'
<1>1. /\ nextAccountNumber \in Int
      /\ asked \in Seq([from : AccountNumbers, to : AccountNumbers, amount : Amounts])
  BY AccountsAssumption DEF TransfersInv, TransfersTypeOK, AccountsTypeOK
<1>2. ASSUME NEW amount \in Amounts, OpenAccount(amount)
      PROVE  BooksEffect /\ AskedOfOpenAccounts'
  <2>1. AccountIsOpened /\ asked' = asked /\ nextAccountNumber' = nextAccountNumber + 1
    BY <1>2 DEF OpenAccount, AccountIsOpened, Open, coordinatorVars
  <2>2. \A t \in DOMAIN asked : asked[t].from \in Int /\ asked[t].to \in Int
    <3> TAKE t \in DOMAIN asked
    <3>1. t \in 1 .. Len(asked)
      BY <1>1
    <3>2. asked[t] \in [from : AccountNumbers, to : AccountNumbers, amount : Amounts]
      BY ONLY <1>1, <3>1, ElementOfSeq
    <3> QED
      BY <3>2 DEF AccountNumbers
  <2> QED
    BY <1>1, <2>1, <2>2 DEF BooksEffect, AskedOfOpenAccounts, IsOpen
<1>3. ASSUME NEW amount \in Amounts, NEW a \in AccountNumbers,
             BankDeposit(a, amount) \/ BankWithdraw(a, amount)
      PROVE  BooksEffect /\ AskedOfOpenAccounts'
  <2>1. /\ IsOpen(a) /\ asked' = asked /\ UNCHANGED nextAccountNumber
        /\ \E type \in EventTypes \ {"AccountOpened"} :
             ApplyEvent([type |-> type, account |-> a, amount |-> amount])
    BY <1>3 DEF BankDeposit, BankWithdraw, DirectCommand, Deposit, Withdraw, EventTypes
  <2>2. BooksEffect
    BY <2>1, EventHasItsType
  <2> QED
    BY <2>1, <2>2 DEF AskedOfOpenAccounts, IsOpen
<1>4. ASSUME NEW amount \in Amounts, NEW from \in AccountNumbers, NEW to \in AccountNumbers,
             InitiateTransfer(from, to, amount)
      PROVE  BooksEffect /\ AskedOfOpenAccounts'
  <2>1. /\ UNCHANGED accountVars /\ IsOpen(from) /\ IsOpen(to)
        /\ asked' = Append(asked, [from |-> from, to |-> to, amount |-> amount])
    BY <1>4 DEF InitiateTransfer
  <2>2. \A t \in DOMAIN asked' : \/ t \in DOMAIN asked /\ asked'[t] = asked[t]
                                 \/ asked'[t] = [from |-> from, to |-> to, amount |-> amount]
    BY <1>1, <2>1
  <2> QED
    BY <2>1, <2>2 DEF BooksEffect, AskedOfOpenAccounts, IsOpen, accountVars
<1> QED
  BY <1>2, <1>3, <1>4 DEF BankCommand

LEMMA ChainsKeepTheBooks ==
  ASSUME TransfersInv, AskedOfOpenAccounts, NEW t \in Transfers, ChainStep(t)
  PROVE  BooksEffect /\ AskedOfOpenAccounts'
<1>1. \/ UNCHANGED accountVars
      \/ WithdrawFrom(t)
      \/ DepositTo(t)
      \/ RefundTo(t)
  BY DEF ChainStep, Initiated, RecordedWithdrawal, TimerFires, Attempted, Completed, Failed,
         Refunded
<1>2. asked' = asked
  BY DEF ChainStep, Initiated, RecordedWithdrawal, TimerFires, Attempted, Completed, Failed,
         Refunded, WithdrawFrom, DepositTo, RefundTo
<1>3. CASE UNCHANGED accountVars
  BY <1>2, <1>3 DEF accountVars, BooksEffect, AskedOfOpenAccounts, IsOpen
<1>4. ASSUME chain[t].at \in {"withdrawing", "depositing", "refunding"}
      PROVE  /\ asked[t].from \in AccountNumbers /\ asked[t].to \in AccountNumbers
             /\ asked[t].amount \in Amounts
             /\ IsOpen(asked[t].from) /\ IsOpen(asked[t].to)
  BY <1>4, AskedTransfer DEF AskedOfOpenAccounts
<1>5. ASSUME UNCHANGED nextAccountNumber PROVE AskedOfOpenAccounts'
  BY <1>2, <1>5 DEF AskedOfOpenAccounts, IsOpen
<1>6. CASE WithdrawFrom(t)
  <2>1. CASE Withdraw(asked[t].from, asked[t].amount)
    BY <1>4, <1>5, <1>6, <2>1, EventHasItsType DEF WithdrawFrom, Withdraw, EventTypes
  <2>2. CASE UNCHANGED accountVars
    BY <1>3, <2>2
  <2> QED
    BY <1>6, <2>1, <2>2 DEF WithdrawFrom
<1>7. CASE DepositTo(t)
  <2>1. CASE Deposit(asked[t].to, asked[t].amount)
    BY <1>4, <1>5, <1>7, <2>1, EventHasItsType DEF DepositTo, Deposit, EventTypes
  <2>2. CASE UNCHANGED accountVars
    BY <1>3, <2>2
  <2> QED
    BY <1>7, <2>1, <2>2 DEF DepositTo
<1>8. CASE RefundTo(t)
  <2>1. chain[t].at = "refunding"
    BY <1>8 DEF RefundTo
  <2>2. pendingTransfers[t].from = asked[t].from /\ pendingTransfers[t].amount = asked[t].amount
    BY <2>1, PendingIsListed DEF AfterWithdrawal
  <2>3. CASE Refund(pendingTransfers[t].from, pendingTransfers[t].amount)
    BY <1>4, <1>5, <2>1, <2>2, <2>3, EventHasItsType DEF Refund, EventTypes
  <2>4. CASE UNCHANGED accountVars
    BY <1>3, <2>4
  <2> QED
    BY <1>8, <2>3, <2>4 DEF RefundTo
<1> QED
  BY <1>1, <1>3, <1>6, <1>7, <1>8

LEMMA WriteSideKeepsTheBooks ==
  ASSUME TransfersInv, AskedOfOpenAccounts, [TransfersNext]_transferVars
  PROVE  BooksEffect /\ AskedOfOpenAccounts'
<1>1. CASE Tombstone
  BY <1>1 DEF Tombstone, CloseAccount, coordinatorVars, BooksEffect, AskedOfOpenAccounts, IsOpen
<1>2. CASE UNCHANGED transferVars
  BY <1>2 DEF transferVars, accountVars, coordinatorVars, BooksEffect, AskedOfOpenAccounts, IsOpen
<1> QED
  BY <1>1, <1>2, CommandsKeepTheBooks, ChainsKeepTheBooks DEF TransfersNext

----------------------------------------------------------------------------
(* Views: the order of events *)

LEMMA EventBehindOthers ==
  ASSUME NEW queue \in Seq(AccountEvents), NEW event \in AccountEvents
  PROVE  LET more == Append(queue, event)
             n == Len(queue)
         IN  /\ more \in Seq(AccountEvents) /\ n \in Nat
             /\ DOMAIN queue = 1 .. n /\ DOMAIN more = 1 .. n + 1
             /\ more[n + 1] = event
             /\ \A k \in 1 .. n : more[k] = queue[k]
             /\ \A k \in 1 .. n + 1 : k \in 1 .. n \/ k = n + 1
             /\ \A k \in 1 .. n : \A j \in 1 .. k - 1 : j \in 1 .. n
OBVIOUS

LEMMA OrderlyWithEvent ==
  ASSUME NEW queue \in Seq(AccountEvents), NEW known, IsOrderly(queue, known),
         NEW event \in AccountEvents, event.type # "AccountOpened",
         event.account \in known \cup Opened(queue)
  PROVE  /\ IsOrderly(Append(queue, event), known)
         /\ Opened(Append(queue, event)) = Opened(queue)
<1>1. PICK more : more = Append(queue, event)
  OBVIOUS
<1>2. PICK n \in Nat : n = Len(queue)
  OBVIOUS
<1>3. /\ DOMAIN queue = 1 .. n /\ DOMAIN more = 1 .. n + 1
      /\ more[n + 1] = event
      /\ \A k \in 1 .. n : more[k] = queue[k]
      /\ \A k \in 1 .. n + 1 : k \in 1 .. n \/ k = n + 1
      /\ \A k \in 1 .. n : \A j \in 1 .. k - 1 : j \in 1 .. n
      /\ \A k \in 1 .. n : k \in 1 .. n + 1
      /\ (n + 1) - 1 = n
  BY <1>1, <1>2, EventBehindOthers
<1>4. ASSUME NEW k \in 1 .. n
      PROVE  /\ more[k] = queue[k]
             /\ \A j \in 1 .. k - 1 : more[j] = queue[j]
  BY <1>3
<1>5. IsOrderly(more, known)
  <2> SUFFICES ASSUME NEW k \in 1 .. n + 1
               PROVE  /\ more[k].type = "AccountOpened" =>
                           /\ more[k].account \notin known
                           /\ \A j \in 1 .. k - 1 : more[j].account # more[k].account
                      /\ more[k].type # "AccountOpened" =>
                           \/ more[k].account \in known
                           \/ \E j \in 1 .. k - 1 : Opens(more[j], more[k].account)
    BY <1>3 DEF IsOrderly
  <2>1. CASE k \in 1 .. n
    BY <1>3, <1>4, <2>1 DEF IsOrderly
  <2>2. CASE k = n + 1
    BY <1>3, <2>2 DEF Opened
  <2> QED
    BY <1>3, <2>1, <2>2
<1>6. Opened(more) = Opened(queue)
  <2>1. ASSUME NEW a
        PROVE  (\E i \in 1 .. n + 1 : Opens(more[i], a)) <=> \E i \in 1 .. n : Opens(queue[i], a)
    BY <1>3 DEF Opens
  <2> QED
    BY <1>3, <2>1 DEF Opened
<1> QED
  BY <1>1, <1>5, <1>6

LEMMA OrderlyWithOpening ==
  ASSUME NEW queue \in Seq(AccountEvents), NEW known, IsOrderly(queue, known),
         NEW event \in AccountEvents, event.type = "AccountOpened",
         event.account \notin known \cup Opened(queue)
  PROVE  /\ IsOrderly(Append(queue, event), known)
         /\ Opened(Append(queue, event)) = Opened(queue) \cup {event.account}
<1>1. PICK more : more = Append(queue, event)
  OBVIOUS
<1>2. PICK n \in Nat : n = Len(queue)
  OBVIOUS
<1>3. /\ DOMAIN queue = 1 .. n /\ DOMAIN more = 1 .. n + 1
      /\ more[n + 1] = event
      /\ \A k \in 1 .. n : more[k] = queue[k]
      /\ \A k \in 1 .. n + 1 : k \in 1 .. n \/ k = n + 1
      /\ \A k \in 1 .. n : \A j \in 1 .. k - 1 : j \in 1 .. n
      /\ \A k \in 1 .. n : k \in 1 .. n + 1
      /\ (n + 1) - 1 = n /\ n + 1 \in 1 .. n + 1
  BY <1>1, <1>2, EventBehindOthers
<1>4. ASSUME NEW k \in 1 .. n
      PROVE  /\ more[k] = queue[k]
             /\ \A j \in 1 .. k - 1 : more[j] = queue[j]
  BY <1>3
<1>5. \A k \in 1 .. n : queue[k].account # event.account
  <2> SUFFICES ASSUME NEW k \in 1 .. n, queue[k].account = event.account PROVE FALSE
    OBVIOUS
  <2>1. event.account \in AccountNumbers
    BY EffectIsANumber
  <2>2. CASE queue[k].type = "AccountOpened"
    BY <1>3, <2>1, <2>2 DEF Opened, Opens
  <2>3. CASE queue[k].type # "AccountOpened"
    <3>1. PICK j \in 1 .. k - 1 : Opens(queue[j], event.account)
      BY <1>3, <2>3 DEF IsOrderly
    <3>2. j \in DOMAIN queue
      BY <1>3, <3>1
    <3> QED
      BY <2>1, <3>1, <3>2 DEF Opened
  <2> QED
    BY <2>2, <2>3
<1>6. IsOrderly(more, known)
  <2> SUFFICES ASSUME NEW k \in 1 .. n + 1
               PROVE  /\ more[k].type = "AccountOpened" =>
                           /\ more[k].account \notin known
                           /\ \A j \in 1 .. k - 1 : more[j].account # more[k].account
                      /\ more[k].type # "AccountOpened" =>
                           \/ more[k].account \in known
                           \/ \E j \in 1 .. k - 1 : Opens(more[j], more[k].account)
    BY <1>3 DEF IsOrderly
  <2>1. CASE k \in 1 .. n
    BY <1>3, <1>4, <2>1 DEF IsOrderly
  <2>2. CASE k = n + 1
    BY <1>3, <1>5, <2>2
  <2> QED
    BY <1>3, <2>1, <2>2
<1>7. Opened(more) = Opened(queue) \cup {event.account}
  <2>1. event.account \in AccountNumbers
    BY EffectIsANumber
  <2>2. ASSUME NEW a
        PROVE  (\E i \in 1 .. n + 1 : Opens(more[i], a))
                 <=> (\E i \in 1 .. n : Opens(queue[i], a)) \/ a = event.account
    BY <1>3 DEF Opens
  <2> QED
    BY <1>3, <2>1, <2>2 DEF Opened
<1> QED
  BY <1>1, <1>6, <1>7

LEMMA OrderlyRest ==
  ASSUME NEW queue \in Seq(AccountEvents), NEW known, NEW event \in AccountEvents,
         IsOrderly(<<event>> \o queue, known)
  PROVE  /\ IsOrderly(queue, known \cup {event.account})
         /\ event.type = "AccountOpened" <=> event.account \notin known
         /\ known \cup Opened(<<event>> \o queue)
              = (known \cup {event.account}) \cup Opened(queue)
<1>1. PICK more : more = <<event>> \o queue
  OBVIOUS
<1>2. PICK n \in Nat : n = Len(queue)
  OBVIOUS
<1>3. /\ DOMAIN queue = 1 .. n /\ DOMAIN more = 1 .. n + 1
      /\ more[1] = event
      /\ \A k \in 1 .. n : more[k + 1] = queue[k]
      /\ 1 \in 1 .. n + 1 /\ \A k \in 1 .. n : k + 1 \in 1 .. n + 1
      /\ \A k \in 2 .. n + 1 : k - 1 \in 1 .. n /\ more[k] = queue[k - 1]
      /\ \A k \in 1 .. n + 1 : k = 1 \/ k \in 2 .. n + 1
  BY <1>1, <1>2
<1>4. event.type = "AccountOpened" <=> event.account \notin known
  <2>1. \A j \in 1 .. 1 - 1 : FALSE
    OBVIOUS
  <2> QED
    BY <1>1, <1>3, <2>1 DEF IsOrderly
<1>5. IsOrderly(queue, known \cup {event.account})
  <2> SUFFICES ASSUME NEW k \in 1 .. n
               PROVE  /\ queue[k].type = "AccountOpened" =>
                           /\ queue[k].account \notin known \cup {event.account}
                           /\ \A j \in 1 .. k - 1 : queue[j].account # queue[k].account
                      /\ queue[k].type # "AccountOpened" =>
                           \/ queue[k].account \in known \cup {event.account}
                           \/ \E j \in 1 .. k - 1 : Opens(queue[j], queue[k].account)
    BY <1>3 DEF IsOrderly
  <2>0. PICK m : m = k + 1
    OBVIOUS
  <2>1. /\ 1 \in 1 .. m - 1
        /\ \A j \in 1 .. k - 1 : j + 1 \in 1 .. m - 1 /\ j \in 1 .. n
        /\ \A j \in 1 .. m - 1 : j = 1 \/ (j - 1 \in 1 .. k - 1 /\ j \in 2 .. n + 1)
    BY <1>2, <2>0
  <2>2. /\ more[m] = queue[k] /\ m \in DOMAIN more
        /\ \A j \in 1 .. k - 1 : more[j + 1] = queue[j]
        /\ \A j \in 1 .. m - 1 :
             \/ more[j] = event
             \/ (j - 1 \in 1 .. k - 1 /\ more[j] = queue[j - 1])
    BY <1>3, <2>0, <2>1
  <2>3. CASE queue[k].type = "AccountOpened"
    <3>1. /\ queue[k].account \notin known
          /\ \A j \in 1 .. m - 1 : more[j].account # queue[k].account
      BY <1>1, <2>2, <2>3 DEF IsOrderly
    <3> QED
      BY <1>3, <2>1, <2>2, <2>3, <3>1
  <2>4. CASE queue[k].type # "AccountOpened"
    <3>1. \/ queue[k].account \in known
          \/ \E j \in 1 .. m - 1 : Opens(more[j], queue[k].account)
      BY <1>1, <2>2, <2>4 DEF IsOrderly
    <3> QED
      BY <2>2, <2>4, <3>1 DEF Opens
  <2> QED
    BY <2>3, <2>4
<1>6. known \cup Opened(more) = (known \cup {event.account}) \cup Opened(queue)
  <2>1. event.account \in AccountNumbers
    BY EffectIsANumber
  <2>2. ASSUME NEW a
        PROVE  (\E i \in 1 .. n + 1 : Opens(more[i], a))
                 <=> (\E i \in 1 .. n : Opens(queue[i], a)) \/ Opens(event, a)
    BY <1>3 DEF Opens
  <2>3. Opened(more) = Opened(queue) \cup {a \in AccountNumbers : Opens(event, a)}
    BY <1>3, <2>2 DEF Opened
  <2> QED
    BY <1>4, <2>1, <2>3 DEF Opens
<1> QED
  BY <1>1, <1>4, <1>5, <1>6

----------------------------------------------------------------------------
(* Views: what is being dispatched *)

LEMMA ToDoShapes ==
  /\ Len(RegisterProjections) = 3 /\ Head(RegisterProjections) = "AccountSummary"
  /\ Tail(RegisterProjections) = <<"TransactionHistory", "BankStatistics">>
  /\ Seqs!Contains(RegisterProjections, "AccountSummary")
  /\ Seqs!Contains(RegisterProjections, "TransactionHistory")
  /\ Len(<<"TransactionHistory", "BankStatistics">>) = 2
  /\ Head(<<"TransactionHistory", "BankStatistics">>) = "TransactionHistory"
  /\ Tail(<<"TransactionHistory", "BankStatistics">>) = <<"BankStatistics">>
  /\ ~Seqs!Contains(<<"TransactionHistory", "BankStatistics">>, "AccountSummary")
  /\ Seqs!Contains(<<"TransactionHistory", "BankStatistics">>, "TransactionHistory")
  /\ Len(<<"BankStatistics">>) = 1 /\ Head(<<"BankStatistics">>) = "BankStatistics"
  /\ ~Seqs!Contains(<<"BankStatistics">>, "AccountSummary")
  /\ ~Seqs!Contains(<<"BankStatistics">>, "TransactionHistory")
  /\ Len(<<>>) = 0
  /\ ~Seqs!Contains(<<>>, "AccountSummary")
  /\ ~Seqs!Contains(<<>>, "TransactionHistory")
BY DEF RegisterProjections, Seqs!Contains

Dispatches == {Idle} \cup [event : AccountEvents, todo : ToDos]

LEMMA DispatchIsAtAStage ==
  ASSUME NEW dispatch \in Dispatches
  PROVE  /\ Len(dispatch.todo) \in 0 .. 3
         /\ Len(dispatch.todo) = 0 <=> dispatch = Idle
         /\ Len(dispatch.todo) = 0 <=> dispatch.todo = <<>>
         /\ Len(dispatch.todo) = 3 <=> dispatch.todo = RegisterProjections
         /\ Len(dispatch.todo) = 2
              <=> dispatch.todo = <<"TransactionHistory", "BankStatistics">>
         /\ Len(dispatch.todo) = 1 <=> dispatch.todo = <<"BankStatistics">>
         /\ dispatch # Idle => /\ dispatch.event \in AccountEvents
                               /\ dispatch = [event |-> dispatch.event, todo |-> dispatch.todo]
         /\ dispatch = Idle => dispatch.event = NoEvent
<1>1. CASE dispatch = Idle
  BY <1>1, ToDoShapes DEF Idle, RegisterProjections
<1>2. CASE dispatch \in [event : AccountEvents, todo : ToDos]
  <2>1. dispatch.event \in AccountEvents /\ dispatch.todo \in ToDos
    BY <1>2
  <2>2. dispatch = [event |-> dispatch.event, todo |-> dispatch.todo]
    BY <1>2
  <2>3. /\ Len(dispatch.todo) \in 1 .. 3
        /\ Len(dispatch.todo) = 3 <=> dispatch.todo = RegisterProjections
        /\ Len(dispatch.todo) = 2 <=> dispatch.todo = <<"TransactionHistory", "BankStatistics">>
        /\ Len(dispatch.todo) = 1 <=> dispatch.todo = <<"BankStatistics">>
        /\ dispatch.todo # <<>>
    <3>1. CASE dispatch.todo = RegisterProjections
      BY <3>1, ToDoShapes
    <3>2. CASE dispatch.todo = <<"TransactionHistory", "BankStatistics">>
      BY <3>2, ToDoShapes
    <3>3. CASE dispatch.todo = <<"BankStatistics">>
      BY <3>3, ToDoShapes
    <3> QED
      BY <2>1, <3>1, <3>2, <3>3 DEF ToDos
  <2>4. dispatch # Idle
    BY <2>3 DEF Idle
  <2> QED
    BY <2>1, <2>2, <2>3, <2>4
<1> QED
  BY <1>1, <1>2 DEF Dispatches

LEMMA UnreadIs ==
  ASSUME NEW dispatch \in Dispatches, NEW events \in Seq(AccountEvents)
  PROVE  /\ UnreadOf(dispatch, events, "AccountSummary")
              = IF Len(dispatch.todo) = 3 THEN <<dispatch.event>> \o events ELSE events
         /\ UnreadOf(dispatch, events, "TransactionHistory")
              = IF Len(dispatch.todo) \in {2, 3} THEN <<dispatch.event>> \o events ELSE events
<1>1. <<>> \o events = events
  OBVIOUS
<1>2. CASE Len(dispatch.todo) = 0
  BY <1>1, <1>2, DispatchIsAtAStage, ToDoShapes DEF UnreadOf
<1>3. CASE Len(dispatch.todo) = 1
  BY <1>1, <1>3, DispatchIsAtAStage, ToDoShapes DEF UnreadOf
<1>4. CASE Len(dispatch.todo) = 2
  BY <1>1, <1>4, DispatchIsAtAStage, ToDoShapes DEF UnreadOf
<1>5. CASE Len(dispatch.todo) = 3
  BY <1>5, DispatchIsAtAStage, ToDoShapes DEF UnreadOf
<1> QED
  BY <1>2, <1>3, <1>4, <1>5, DispatchIsAtAStage

LEMMA UnreadIsASequence ==
  ASSUME NEW dispatch \in Dispatches, NEW events \in Seq(AccountEvents),
         NEW projection \in {"AccountSummary", "TransactionHistory"}
  PROVE  UnreadOf(dispatch, events, projection) \in Seq(AccountEvents)
<1>1. CASE dispatch = Idle
  <2>1. Len(dispatch.todo) = 0
    BY <1>1, DispatchIsAtAStage
  <2>2. UnreadOf(dispatch, events, projection) = events
    <3>1. Len(dispatch.todo) # 3 /\ Len(dispatch.todo) \notin {2, 3}
      BY <2>1
    <3>2. CASE projection = "AccountSummary"
      BY <3>1, <3>2, UnreadIs
    <3>3. CASE projection = "TransactionHistory"
      BY <3>1, <3>3, UnreadIs
    <3> QED
      BY <3>2, <3>3
  <2> QED
    BY <2>2
<1>2. CASE dispatch # Idle
  <2>1. <<dispatch.event>> \o events \in Seq(AccountEvents)
    BY <1>2, DispatchIsAtAStage
  <2> QED
    BY <2>1, UnreadIs
<1> QED
  BY <1>1, <1>2

----------------------------------------------------------------------------
(* Views: the documents *)

ViewIds == AccountNumbers \cup {STATS_ID}

LEMMA ViewsAreDistinct ==
  /\ ViewTypes \subseteq DocTypes /\ ViewIds \subseteq Ids
  /\ "AccountSummary" \in ViewTypes /\ View("AccountSummary") = AccountSummary
  /\ "TransactionHistory" \in ViewTypes /\ View("TransactionHistory") = TransactionHistory
  /\ "BankStatistics" \in ViewTypes /\ View("BankStatistics") = BankStatistics
  /\ STATS_ID \in ViewIds
BY ViewsAssumption DEF ViewTypes, View, ViewIds

\* A view that is written is there afterwards, and no other one changes.
LEMMA ViewIsWritten ==
  ASSUME StoreFits, NEW type \in ViewTypes, NEW id \in ViewIds, NEW state \in View(type),
         NEW stateVersion \in Nat \ {0},
         Found(type, id) => stateVersion > store[type][id].dataVersion,
         type = "TransactionHistory" => state.transactions # <<>>,
         Write(type, id, state, stateVersion, <<>>)
  PROVE  /\ StoreFits'
         /\ Found(type, id)' /\ store'[type][id].state = state
         /\ \A other \in ViewTypes : \A i \in Ids :
              other # type \/ i # id => store'[other][i] = store[other][i]
<1>1. /\ type \in DocTypes /\ id \in Ids /\ ViewTypes \subseteq DocTypes
      /\ DOMAIN store = DocTypes /\ \A other \in ViewTypes : DOMAIN store[other] = Ids
  BY ViewsAreDistinct DEF StoreFits
<1>2. state # Null /\ state \notin Unstorable
  BY ViewsAssumption
<1>3. PICK doc : doc = [state |-> state, dataVersion |-> stateVersion]
  OBVIOUS
<1>4. /\ doc \in [state : View(type), dataVersion : Nat \ {0}]
      /\ doc # NoDocument /\ doc.state = state
  <2>1. doc \in [state : View(type), dataVersion : Nat]
    BY <1>3
  <2> QED
    BY <1>3, <2>1, ViewsAssumption
<1>5. Serializable(state, stateVersion)
  BY <1>2 DEF Serializable
<1>6. ~Outdated(type, id, stateVersion)
  <2>1. CASE Found(type, id)
    <3>1. store[type][id].dataVersion \in Nat
      BY <1>1, <2>1 DEF StoreFits
    <3> QED
      BY <2>1, <3>1 DEF Outdated
  <2> QED
    BY <2>1 DEF Outdated
<1>7. store' = [store EXCEPT ![type][id] = doc]
  BY <1>2, <1>3, <1>5, <1>6 DEF Write
<1>8. /\ DOMAIN store' = DocTypes
      /\ \A other \in ViewTypes : DOMAIN store'[other] = Ids
      /\ store'[type][id] = doc
      /\ \A other \in ViewTypes : \A i \in Ids :
           other # type \/ i # id => store'[other][i] = store[other][i]
  BY <1>1, <1>7
<1>9. ASSUME NEW other \in ViewTypes, NEW i \in Ids, Found(other, i)'
      PROVE  store'[other][i] \in [state : View(other), dataVersion : Nat \ {0}]
  <2>1. CASE other = type /\ i = id
    BY <1>4, <1>8, <2>1
  <2>2. CASE other # type \/ i # id
    <3>1. store'[other][i] = store[other][i]
      BY <1>8, <2>2
    <3> QED
      BY <1>9, <3>1 DEF StoreFits, Found
  <2> QED
    BY <2>1, <2>2
<1>10. ASSUME NEW i \in Ids, Found("TransactionHistory", i)'
       PROVE  store'["TransactionHistory"][i].state.transactions # <<>>
  <2>1. CASE "TransactionHistory" = type /\ i = id
    BY <1>4, <1>8, <2>1
  <2>2. CASE "TransactionHistory" # type \/ i # id
    <3>1. store'["TransactionHistory"][i] = store["TransactionHistory"][i]
      BY <1>8, <2>2, ViewsAreDistinct
    <3> QED
      BY <1>10, <3>1 DEF StoreFits, Found
  <2> QED
    BY <2>1, <2>2
<1>11. StoreFits'
  BY <1>8, <1>9, <1>10 DEF StoreFits
<1> QED
  BY <1>4, <1>8, <1>11 DEF Found

\* What a projection does with the event: it writes the first document of the
\* account or the next one, and it has a document to start from.
LEMMA ViewIsProjected ==
  ASSUME StoreFits, NEW type \in ViewTypes, NEW id \in ViewIds, NEW opened, NEW updated,
         current.event.type = "AccountOpened" => ~Found(type, id) /\ opened \in View(type),
         Found(type, id) => updated \in View(type),
         type = "TransactionHistory" =>
           /\ opened.transactions # <<>>
           /\ Found(type, id) => updated.transactions # <<>>,
         ProjectInto(type, id, opened, updated)
  PROVE  /\ StoreFits'
         /\ Found(type, id)'
         /\ store'[type][id].state = IF current.event.type = "AccountOpened" THEN opened ELSE updated
         /\ current.event.type # "AccountOpened" => Found(type, id)
         /\ \A other \in ViewTypes : \A i \in Ids :
              other # type \/ i # id => store'[other][i] = store[other][i]
<1>1. CASE current.event.type = "AccountOpened"
  <2>1. Write(type, id, opened, 1, <<>>) /\ opened \in View(type) /\ ~Found(type, id)
    BY <1>1 DEF ProjectInto
  <2>2. 1 \in Nat \ {0}
    OBVIOUS
  <2> QED
    BY <1>1, <2>1, <2>2, ViewIsWritten
<1>2. CASE current.event.type # "AccountOpened"
  <2>1. /\ Found(type, id) /\ updated \in View(type)
        /\ Write(type, id, updated, StateVersion(type, id) + 1, <<>>)
    BY <1>2 DEF ProjectInto
  <2>2. store[type][id].dataVersion \in Nat /\ StateVersion(type, id) = store[type][id].dataVersion
    BY <2>1, ViewsAreDistinct DEF StoreFits, StateVersion
  <2>3. PICK v : v = StateVersion(type, id) + 1
    OBVIOUS
  <2>4. v \in Nat \ {0} /\ v > store[type][id].dataVersion
    BY <2>2, <2>3
  <2> QED
    BY <1>2, <2>1, <2>3, <2>4, ViewIsWritten
<1> QED
  BY <1>1, <1>2

LEMMA SummariesAreViews ==
  ASSUME NEW event \in AccountEvents
  PROVE  /\ OpenedSummary(event) \in AccountSummary
         /\ OpenedSummary(event).balance = event.amount
         /\ OpenedSummary(event).transactionCount = 1
         /\ \A summary \in AccountSummary :
              /\ SummaryAfter(summary, event) \in AccountSummary
              /\ SummaryAfter(summary, event).balance = summary.balance + Effect(event)
              /\ SummaryAfter(summary, event).transactionCount = summary.transactionCount + 1
              /\ summary.balance \in Int /\ summary.transactionCount \in Nat
<1>1. event.amount \in Int /\ Effect(event) \in Int
  BY AccountsAssumption, EffectIsANumber DEF AccountEvents
<1> QED
  BY <1>1 DEF OpenedSummary, SummaryAfter, AccountSummary

LEMMA HistoriesAreViews ==
  ASSUME NEW event \in AccountEvents
  PROVE  /\ OpenedHistory(event) \in TransactionHistory
         /\ Len(OpenedHistory(event).transactions) = 1
         /\ OpenedHistory(event).transactions # <<>>
         /\ OpenedHistory(event).transactions[1].balance = event.amount
         /\ \A history \in TransactionHistory :
              history.transactions # <<>> =>
                LET before == history.transactions
                    after == HistoryAfter(history, event).transactions
                IN  /\ HistoryAfter(history, event) \in TransactionHistory
                    /\ after # <<>>
                    /\ Len(before) \in Nat /\ Len(after) = Len(before) + 1
                    /\ before[Len(before)].balance \in Int
                    /\ after[Len(after)].balance = before[Len(before)].balance + Effect(event)
<1>1. event.amount \in Int /\ Effect(event) \in Int /\ event.type \in EventTypes
  BY AccountsAssumption, EffectIsANumber DEF AccountEvents
<1>2. PICK first : first = [type |-> event.type, amount |-> event.amount, balance |-> event.amount]
  OBVIOUS
<1>3. first \in Transaction /\ first.balance = event.amount
  BY <1>1, <1>2 DEF Transaction
<1>4. PICK transactions : transactions = <<first>>
  OBVIOUS
<1>5. /\ transactions \in Seq(Transaction) /\ Len(transactions) = 1 /\ transactions # <<>>
      /\ transactions[1] = first
  BY <1>3, <1>4
<1>6. OpenedHistory(event) = [transactions |-> transactions, totalDeposits |-> event.amount,
                              totalWithdrawals |-> 0, totalRefunds |-> 0]
  BY <1>2, <1>4 DEF OpenedHistory
<1>7. /\ OpenedHistory(event) \in TransactionHistory
      /\ OpenedHistory(event).transactions = transactions
  BY <1>1, <1>5, <1>6 DEF TransactionHistory
<1>8. ASSUME NEW history \in TransactionHistory, history.transactions # <<>>
      PROVE  LET before == history.transactions
                 after == HistoryAfter(history, event).transactions
             IN  /\ HistoryAfter(history, event) \in TransactionHistory
                 /\ after # <<>>
                 /\ Len(before) \in Nat /\ Len(after) = Len(before) + 1
                 /\ before[Len(before)].balance \in Int
                 /\ after[Len(after)].balance = before[Len(before)].balance + Effect(event)
  <2>1. PICK before : before = history.transactions
    OBVIOUS
  <2>2. PICK n : n = Len(before)
    OBVIOUS
  <2>3. before \in Seq(Transaction) /\ n \in Nat \ {0} /\ n \in 1 .. Len(before)
    BY <1>8, <2>1, <2>2 DEF TransactionHistory
  <2>4. before[n] \in Transaction
    BY ONLY <2>3, ElementOfSeq
  <2>5. before[n].balance \in Int
    BY <2>4 DEF Transaction
  <2>6. PICK sum \in Int : sum = before[n].balance + Effect(event)
    BY <1>1, <2>5
  <2>7. PICK last : last = [type |-> event.type, amount |-> event.amount, balance |-> sum]
    OBVIOUS
  <2>8. last \in Transaction /\ last.balance = sum
    BY <1>1, <2>6, <2>7 DEF Transaction
  <2>9. PICK after : after = Append(before, last)
    OBVIOUS
  <2>10. /\ after \in Seq(Transaction) /\ Len(after) = n + 1 /\ after[n + 1] = last
         /\ after # <<>>
    BY <2>2, <2>3, <2>8, <2>9
  <2>11. HistoryAfter(history, event).transactions = after
    BY <2>1, <2>2, <2>6, <2>7, <2>9 DEF HistoryAfter, Seqs!Last
  <2>12. HistoryAfter(history, event) \in TransactionHistory
    <3>1. \A type : (IF event.type = type THEN event.amount ELSE 0) \in Int
      BY <1>1
    <3>2. /\ history.totalDeposits \in Int /\ history.totalWithdrawals \in Int
          /\ history.totalRefunds \in Int
      BY DEF TransactionHistory
    <3>3. HistoryAfter(history, event) =
            [transactions |-> after,
             totalDeposits |-> history.totalDeposits
               + (IF event.type = "FundsDeposited" THEN event.amount ELSE 0),
             totalWithdrawals |-> history.totalWithdrawals
               + (IF event.type = "FundsWithdrawn" THEN event.amount ELSE 0),
             totalRefunds |-> history.totalRefunds
               + (IF event.type = "FundsRefunded" THEN event.amount ELSE 0)]
      BY <2>1, <2>2, <2>6, <2>7, <2>9 DEF HistoryAfter, Seqs!Last
    <3> QED
      BY <2>10, <3>1, <3>2, <3>3 DEF TransactionHistory
  <2> QED
    BY <2>1, <2>2, <2>3, <2>5, <2>6, <2>8, <2>10, <2>11, <2>12
<1> QED
  BY <1>3, <1>5, <1>7, <1>8

LEMMA StatisticsAreViews ==
  ASSUME NEW event \in AccountEvents, NEW stats \in BankStatistics
  PROVE  /\ event.type = "AccountOpened" =>
              /\ OpenedStatistics(stats, event) \in BankStatistics
              /\ OpenedStatistics(stats, event).accountNumbers
                   = Append(stats.accountNumbers, event.account)
              /\ OpenedStatistics(stats, event).totalBalance = stats.totalBalance + event.amount
              /\ OpenedStatistics(stats, event).totalDeposits = stats.totalDeposits + event.amount
              /\ OpenedStatistics(stats, event).totalWithdrawals = stats.totalWithdrawals
              /\ OpenedStatistics(stats, event).totalRefunds = stats.totalRefunds
              /\ OpenedStatistics(stats, event).totalAccounts = stats.totalAccounts + 1
         /\ event.type # "AccountOpened" =>
              /\ StatisticsAfter(stats, event) \in BankStatistics
              /\ StatisticsAfter(stats, event).accountNumbers = stats.accountNumbers
              /\ StatisticsAfter(stats, event).totalBalance = stats.totalBalance + Effect(event)
              /\ StatisticsAfter(stats, event).totalAccounts = stats.totalAccounts
              /\ stats.totalBalance
                   = stats.totalDeposits - stats.totalWithdrawals + stats.totalRefunds =>
                     StatisticsAfter(stats, event).totalBalance
                       = StatisticsAfter(stats, event).totalDeposits
                         - StatisticsAfter(stats, event).totalWithdrawals
                         + StatisticsAfter(stats, event).totalRefunds
         /\ stats.totalBalance \in Int /\ stats.totalDeposits \in Int
         /\ stats.totalWithdrawals \in Int /\ stats.totalRefunds \in Int
         /\ stats.totalAccounts \in Nat /\ stats.accountNumbers \in Seq(AccountNumbers)
<1>1. /\ event.amount \in Int /\ Effect(event) \in Int /\ event.account \in AccountNumbers
      /\ event.type \in EventTypes
  BY AccountsAssumption, EffectIsANumber DEF AccountEvents
<1>2. /\ stats.totalBalance \in Int /\ stats.totalDeposits \in Int
      /\ stats.totalWithdrawals \in Int /\ stats.totalRefunds \in Int
      /\ stats.totalAccounts \in Nat /\ stats.accountNumbers \in Seq(AccountNumbers)
      /\ stats.totalTransactions \in Nat
  BY DEF BankStatistics
<1>3. Append(stats.accountNumbers, event.account) \in Seq(AccountNumbers)
  BY <1>1, <1>2
<1>4. CASE event.type = "AccountOpened"
  <2>1. PICK numbers \in Seq(AccountNumbers) :
          numbers = Append(stats.accountNumbers, event.account)
    BY <1>3
  <2>2. PICK accounts \in Nat : accounts = stats.totalAccounts + 1
    BY <1>2
  <2>3. PICK total \in Int : total = stats.totalBalance + event.amount
    BY <1>1, <1>2
  <2>4. PICK deposits \in Int : deposits = stats.totalDeposits + event.amount
    BY <1>1, <1>2
  <2>5. PICK after : after = OpenedStatistics(stats, event)
    OBVIOUS
  <2>6. after = [stats EXCEPT !.totalAccounts = accounts,
                              !.totalBalance = total,
                              !.totalDeposits = deposits,
                              !.accountNumbers = numbers]
    BY <2>1, <2>2, <2>3, <2>4, <2>5 DEF OpenedStatistics, BankStatistics
  <2>7. /\ after \in BankStatistics
        /\ after.totalBalance = total /\ after.totalDeposits = deposits
        /\ after.totalWithdrawals = stats.totalWithdrawals
        /\ after.totalRefunds = stats.totalRefunds
        /\ after.accountNumbers = numbers
        /\ after.totalAccounts = accounts
    BY <1>2, <2>1, <2>2, <2>3, <2>4, <2>6 DEF BankStatistics
  <2> QED
    BY <1>2, <1>4, <2>1, <2>2, <2>3, <2>4, <2>5, <2>7
<1>5. CASE event.type # "AccountOpened"
  <2>1. PICK d \in Int : d = IF event.type = "FundsDeposited" THEN event.amount ELSE 0
    BY <1>1
  <2>2. PICK w \in Int : w = IF event.type = "FundsWithdrawn" THEN event.amount ELSE 0
    BY <1>1
  <2>3. PICK r \in Int : r = IF event.type = "FundsRefunded" THEN event.amount ELSE 0
    BY <1>1
  <2>4. PICK e \in Int : e = Effect(event)
    BY <1>1
  <2>5. e = d - w + r
    BY <1>1, <1>5, <2>1, <2>2, <2>3, <2>4 DEF Effect, EventTypes
  <2>6. PICK after : after = StatisticsAfter(stats, event)
    OBVIOUS
  <2>7. PICK b \in Int : b = stats.totalBalance + e
    BY <1>2
  <2>8. PICK deposits \in Int : deposits = stats.totalDeposits + d
    BY <1>2
  <2>9. PICK withdrawals \in Int : withdrawals = stats.totalWithdrawals + w
    BY <1>2
  <2>10. PICK refunds \in Int : refunds = stats.totalRefunds + r
    BY <1>2
  <2>11. PICK count \in Nat : count = stats.totalTransactions + 1
    BY <1>2
  <2>12. after = [stats EXCEPT !.totalBalance = b,
                               !.totalDeposits = deposits,
                               !.totalWithdrawals = withdrawals,
                               !.totalRefunds = refunds,
                               !.totalTransactions = count]
    BY <2>1, <2>2, <2>3, <2>4, <2>6, <2>7, <2>8, <2>9, <2>10, <2>11
       DEF StatisticsAfter, BankStatistics
  <2>13. /\ after \in BankStatistics
         /\ after.totalBalance = b /\ after.totalDeposits = deposits
         /\ after.totalWithdrawals = withdrawals /\ after.totalRefunds = refunds
         /\ after.accountNumbers = stats.accountNumbers
         /\ after.totalAccounts = stats.totalAccounts
    BY ONLY stats \in BankStatistics, <2>7, <2>8, <2>9, <2>10, <2>11, <2>12 DEF BankStatistics
  <2>14. ASSUME stats.totalBalance
                  = stats.totalDeposits - stats.totalWithdrawals + stats.totalRefunds
         PROVE  b = deposits - withdrawals + refunds
    <3>1. \A sb, sd, sw, sr \in Int : sb = sd - sw + sr =>
            sb + (d - w + r) = (sd + d) - (sw + w) + (sr + r)
      OBVIOUS
    <3>2. PICK sb \in Int : sb = stats.totalBalance
      BY <1>2
    <3>3. PICK sd \in Int : sd = stats.totalDeposits
      BY <1>2
    <3>4. PICK sw \in Int : sw = stats.totalWithdrawals
      BY <1>2
    <3>5. PICK sr \in Int : sr = stats.totalRefunds
      BY <1>2
    <3>6. /\ sb = sd - sw + sr /\ b = sb + (d - w + r)
          /\ deposits = sd + d /\ withdrawals = sw + w /\ refunds = sr + r
      BY <2>5, <2>7, <2>8, <2>9, <2>10, <2>14, <3>2, <3>3, <3>4, <3>5
    <3> QED
      BY <3>1, <3>6
  <2> QED
    BY <1>2, <1>5, <2>4, <2>6, <2>7, <2>8, <2>9, <2>10, <2>13, <2>14
<1> QED
  BY <1>2, <1>4, <1>5
----------------------------------------------------------------------------
(* Views: the steps of the write side *)

LEMMA LedgerIsTyped ==
  ASSUME TransfersInv, CurrentFits
  PROVE  /\ ledger \in Seq(AccountEvents)
         /\ balance \in [AccountNumbers -> Nat] /\ \A a \in AccountNumbers : balance[a] \in Int
         /\ current \in Dispatches
BY DEF TransfersInv, TransfersTypeOK, AccountsTypeOK, CurrentFits, Dispatches

LEMMA UnreadGrows ==
  ASSUME NEW dispatch \in Dispatches, NEW events \in Seq(AccountEvents),
         NEW event \in AccountEvents, NEW projection \in {"AccountSummary", "TransactionHistory"}
  PROVE  UnreadOf(dispatch, Append(events, event), projection)
           = Append(UnreadOf(dispatch, events, projection), event)
<1>1. CASE Seqs!Contains(dispatch.todo, projection)
  <2>1. dispatch # Idle
    BY <1>1, ToDoShapes DEF Idle
  <2>2. PICK first : first = dispatch.event
    OBVIOUS
  <2>3. first \in AccountEvents
    BY <2>1, <2>2, DispatchIsAtAStage
  <2>4. <<first>> \o Append(events, event) = Append(<<first>> \o events, event)
    BY <2>3
  <2> QED
    BY <1>1, <2>2, <2>4 DEF UnreadOf
<1>2. CASE ~Seqs!Contains(dispatch.todo, projection)
  <2>1. <<>> \o Append(events, event) = Append(<<>> \o events, event)
    OBVIOUS
  <2> QED
    BY <1>2, <2>1 DEF UnreadOf
<1> QED
  BY <1>1, <1>2

LEMMA DocumentsStay ==
  ASSUME DocumentsAgree, StoreFits, CurrentFits, UNCHANGED <<store, current>>
  PROVE  DocumentsAgree' /\ StoreFits' /\ CurrentFits' /\ Summarized' = Summarized
<1>1. store' = store /\ current' = current
  OBVIOUS
<1>2. StoreFits' /\ CurrentFits' /\ Summarized' = Summarized
  BY <1>1 DEF StoreFits, CurrentFits, Summarized, Found
<1>3. SummaryHasTheEvent' /\ \A a \in AccountNumbers : HistoryFollowsSummary(a)'
  <2>1. SummaryHasTheEvent'
    BY <1>1 DEF DocumentsAgree, SummaryHasTheEvent, Found, IsHalfSeen, GetAccountSummary
  <2>2. ASSUME NEW a \in AccountNumbers PROVE HistoryFollowsSummary(a)'
    BY <1>1 DEF DocumentsAgree, HistoryFollowsSummary, Found, GetAccountSummary
  <2> QED
    BY <2>1, <2>2
<1>4. Numbers' = Numbers /\ Balances' = Balances /\ IsHalfSeen' = IsHalfSeen
  BY <1>1 DEF Numbers, Balances, IsHalfSeen, Found, GetBankStatistics
<1>5. AccountsAreListed' /\ StatisticsAddUp' /\ BalancesAddUp'
  BY <1>1, <1>2, <1>4 DEF DocumentsAgree, AccountsAreListed, StatisticsAddUp, BalancesAddUp,
     Found, GetBankStatistics
<1> QED
  BY <1>2, <1>3, <1>5 DEF DocumentsAgree

LEMMA DocumentIsAView ==
  ASSUME StoreFits, NEW type \in ViewTypes, NEW id \in ViewIds, Found(type, id)
  PROVE  store[type][id].state \in View(type)
BY ViewsAreDistinct DEF StoreFits

LEMMA ShownIsANumber ==
  ASSUME StoreFits, NEW a \in AccountNumbers,
         NEW projection \in {"AccountSummary", "TransactionHistory"}
  PROVE  ShownIn(store, a, projection) \in Int
<1>1. a \in ViewIds /\ a \in Ids
  BY ViewsAreDistinct DEF ViewIds
<1>2. CASE store[projection][a] = NoDocument
  BY <1>2 DEF ShownIn
<1>3. CASE Found("AccountSummary", a) /\ projection = "AccountSummary"
  <2>1. store["AccountSummary"][a].state \in AccountSummary
    BY <1>1, <1>3, DocumentIsAView, ViewsAreDistinct
  <2> QED
    BY <1>3, <2>1 DEF ShownIn, BalanceIn, AccountSummary, Found
<1>4. CASE Found("TransactionHistory", a) /\ projection = "TransactionHistory"
  <2>1. PICK transactions : transactions = store["TransactionHistory"][a].state.transactions
    OBVIOUS
  <2>2. store["TransactionHistory"][a].state \in TransactionHistory
    BY <1>1, <1>4, DocumentIsAView, ViewsAreDistinct
  <2>3. transactions \in Seq(Transaction) /\ transactions # <<>>
    BY <1>1, <1>4, <2>1, <2>2 DEF TransactionHistory, StoreFits
  <2>4. PICK n \in 1 .. Len(transactions) : n = Len(transactions)
    BY <2>3
  <2>5. transactions[n] \in Transaction
    BY ONLY <2>3, <2>4, ElementOfSeq
  <2> QED
    BY <1>4, <2>1, <2>4, <2>5 DEF ShownIn, Transaction, Found
<1> QED
  BY <1>2, <1>3, <1>4 DEF Found

\* An event that the write side appends is one more that every projection has to
\* see, and changes the balance as much.
LEMMA AppendedEventKeeps ==
  ASSUME ViewsInv, NEW event \in AccountEvents, UNCHANGED <<store, current>>,
         ApplyEvent(event),
         \/ /\ event.type # "AccountOpened" /\ event.account \in OpenAccounts
            /\ OpenAccounts' = OpenAccounts
         \/ /\ event.type = "AccountOpened" /\ event.account \notin OpenAccounts
            /\ OpenAccounts' = OpenAccounts \cup {event.account}
  PROVE  EventsComeInOrder' /\ ViewsLag'
<1>1. /\ ledger \in Seq(AccountEvents) /\ current \in Dispatches
      /\ balance \in [AccountNumbers -> Nat]
  BY LedgerIsTyped DEF ViewsInv
<1>2. store' = store /\ current' = current /\ Summarized' = Summarized
  BY DocumentsStay DEF ViewsInv
<1>3. /\ ledger' = Append(ledger, event)
      /\ balance' = [balance EXCEPT ![event.account] = @ + Effect(event)]
      /\ event.account \in AccountNumbers /\ Effect(event) \in Int
  BY EffectIsANumber DEF ApplyEvent
<1>4. ASSUME NEW projection \in {"AccountSummary", "TransactionHistory"}
      PROVE  /\ Unread(projection)' = Append(Unread(projection), event)
             /\ Unread(projection) \in Seq(AccountEvents)
  <2>1. PICK dispatch \in Dispatches : dispatch = current
    BY <1>1
  <2>2. PICK events \in Seq(AccountEvents) : events = ledger
    BY <1>1
  <2>3. /\ UnreadOf(dispatch, Append(events, event), projection)
             = Append(UnreadOf(dispatch, events, projection), event)
        /\ UnreadOf(dispatch, events, projection) \in Seq(AccountEvents)
    BY UnreadGrows, UnreadIsASequence
  <2>4. current' = dispatch /\ ledger' = Append(events, event)
    BY <1>2, <1>3, <2>1, <2>2
  <2> QED
    BY <2>1, <2>2, <2>3, <2>4 DEF Unread
<1>5. EventsComeInOrder'
  <2>1. PICK queue : queue = Unread("AccountSummary")
    OBVIOUS
  <2>2. PICK known : known = Summarized
    OBVIOUS
  <2>3. /\ queue \in Seq(AccountEvents) /\ IsOrderly(queue, known)
        /\ OpenAccounts = known \cup Opened(queue)
        /\ Unread("AccountSummary")' = Append(queue, event) /\ Summarized' = known
    BY <1>2, <1>4, <2>1, <2>2 DEF ViewsInv, EventsComeInOrder
  <2>4. CASE event.type # "AccountOpened"
    BY <2>3, <2>4, OrderlyWithEvent DEF EventsComeInOrder
  <2>5. CASE event.type = "AccountOpened"
    <3>1. event.account \notin known \cup Opened(queue)
      BY <2>3, <2>5
    <3>2. /\ IsOrderly(Append(queue, event), known)
          /\ Opened(Append(queue, event)) = Opened(queue) \cup {event.account}
      BY <2>3, <2>5, <3>1, OrderlyWithOpening
    <3>3. OpenAccounts' = known \cup (Opened(queue) \cup {event.account})
      BY <2>3, <2>5
    <3> QED
      BY <2>3, <3>2, <3>3 DEF EventsComeInOrder
  <2> QED
    BY <2>4, <2>5
<1>6. ViewsLag'
  <2> SUFFICES ASSUME NEW a \in AccountNumbers,
                      NEW projection \in {"AccountSummary", "TransactionHistory"}
               PROVE  balance'[a] = ShownIn(store', a, projection)
                                      + EffectsOn(a, Unread(projection)')
    BY DEF ViewsLag
  <2>1. balance[a] = ShownIn(store, a, projection) + EffectsOn(a, Unread(projection))
    BY DEF ViewsInv, ViewsLag
  <2>2. PICK queue : queue = Unread(projection)
    OBVIOUS
  <2>3. /\ queue \in Seq(AccountEvents) /\ Unread(projection)' = Append(queue, event)
        /\ EffectsOn(a, queue) \in Int
    BY <1>4, <2>2, EffectsAreATotal
  <2>4. EffectsOn(a, Append(queue, event)) = EffectsOn(a, queue) + EffectOn(a, event)
    BY <2>3, EffectsOfOneMore
  <2>5. balance'[a] = balance[a] + EffectOn(a, event) /\ balance[a] \in Int
    BY <1>1, <1>3 DEF EffectOn
  <2>6. PICK shown \in Int : shown = ShownIn(store, a, projection)
    BY ShownIsANumber DEF ViewsInv
  <2>7. EffectOn(a, event) \in Int
    BY <1>3 DEF EffectOn
  <2>8. balance[a] = shown + EffectsOn(a, queue)
    BY <2>1, <2>2, <2>6
  <2>9. ShownIn(store', a, projection) = shown
    BY <1>2, <2>6
  <2> QED
    BY <2>3, <2>4, <2>5, <2>6, <2>7, <2>8, <2>9
<1> QED
  BY <1>5, <1>6

LEMMA WriteSideKeepsViews ==
  ASSUME ViewsInv, [TransfersNext]_transferVars, UNCHANGED <<store, current>>
  PROVE  ViewsInv' /\ Summarized' = Summarized
<1>1. TransfersInv' /\ BooksEffect /\ AskedOfOpenAccounts'
  BY TransfersStep, WriteSideKeepsTheBooks DEF ViewsInv
<1>2. /\ StoreFits' /\ CurrentFits' /\ DocumentsAgree' /\ Summarized' = Summarized
      /\ store' = store /\ current' = current
  BY DocumentsStay DEF ViewsInv
<1>3. nextAccountNumber \in 1 .. MaxAccounts + 1
  BY DEF ViewsInv, TransfersInv, TransfersTypeOK, AccountsTypeOK
<1>4. EventsComeInOrder' /\ ViewsLag'
  <2>1. CASE UNCHANGED <<ledger, balance, nextAccountNumber>>
    BY <1>2, <2>1 DEF ViewsInv, EventsComeInOrder, ViewsLag, Unread, OpenAccounts, IsOpen
  <2>2. CASE EventOfOpenAccount
    <3>1. PICK event \in AccountEvents :
            /\ event.type # "AccountOpened" /\ IsOpen(event.account)
            /\ ApplyEvent(event) /\ UNCHANGED nextAccountNumber
      BY <2>2 DEF EventOfOpenAccount
    <3>2. event.account \in OpenAccounts /\ OpenAccounts' = OpenAccounts
      BY <3>1, EffectIsANumber DEF OpenAccounts, IsOpen
    <3> QED
      BY <3>1, <3>2, AppendedEventKeeps
  <2>3. CASE AccountIsOpened
    <3>1. PICK amount \in Amounts :
            /\ nextAccountNumber \in AccountNumbers /\ Open(nextAccountNumber, amount)
      BY <2>3 DEF AccountIsOpened
    <3>2. PICK event : event = [type |-> "AccountOpened", account |-> nextAccountNumber,
                                amount |-> amount]
      OBVIOUS
    <3>3. /\ event \in AccountEvents /\ event.type = "AccountOpened" /\ ApplyEvent(event)
          /\ event.account = nextAccountNumber
          /\ nextAccountNumber' = event.account + 1
      BY <3>1, <3>2 DEF AccountEvents, EventTypes, Open
    <3>4. event.account \notin OpenAccounts
      BY <1>3, <3>3 DEF OpenAccounts, IsOpen
    <3>5. OpenAccounts' = OpenAccounts \cup {event.account}
      BY <1>3, <3>1, <3>3, AccountsAssumption DEF OpenAccounts, IsOpen, AccountNumbers
    <3> QED
      BY <3>3, <3>4, <3>5, AppendedEventKeeps
  <2> QED
    BY <1>1, <2>1, <2>2, <2>3 DEF BooksEffect
<1> QED
  BY <1>1, <1>2, <1>4 DEF ViewsInv
----------------------------------------------------------------------------
(* Views: the steps of the projections *)

\* The consumer takes an event: all three projections have still to see it.
LEMMA TakeEntryKeepsViews ==
  ASSUME ViewsInv, TakeEntry
  PROVE  ViewsInv' /\ Summarized \subseteq Summarized'
<1>1. /\ ledger \in Seq(AccountEvents) /\ ledger # <<>> /\ current = Idle
      /\ ledger' = Tail(ledger) /\ store' = store
      /\ UNCHANGED <<nextAccountNumber, balance, closed>> /\ UNCHANGED coordinatorVars
  BY LedgerIsTyped DEF ViewsInv, TakeEntry, storeVars, documents
<1>2. PICK first : first = Head(ledger)
  OBVIOUS
<1>3. PICK rest : rest = Tail(ledger)
  OBVIOUS
<1>4. first \in AccountEvents /\ rest \in Seq(AccountEvents) /\ ledger = <<first>> \o rest
  BY <1>1, <1>2, <1>3
<1>5. current' = [event |-> first, todo |-> RegisterProjections] /\ ledger' = rest
  BY <1>1, <1>2, <1>3 DEF TakeEntry
<1>6. current \in Dispatches /\ current' \in Dispatches
  BY <1>1, <1>4, <1>5 DEF Dispatches, ToDos
<1>7. Len(current.todo) = 0 /\ Len(current'.todo) = 3 /\ current'.event = first
  BY <1>1, <1>5, ToDoShapes DEF Idle
<1>8. ASSUME NEW projection \in {"AccountSummary", "TransactionHistory"}
      PROVE  Unread(projection)' = Unread(projection)
  <2>1. UnreadOf(current, ledger, projection) = ledger
    <3>1. Len(current.todo) # 3 /\ Len(current.todo) \notin {2, 3}
      BY <1>7
    <3>2. CASE projection = "AccountSummary"
      BY <1>1, <1>6, <3>1, <3>2, UnreadIs
    <3>3. CASE projection = "TransactionHistory"
      BY <1>1, <1>6, <3>1, <3>3, UnreadIs
    <3> QED
      BY <3>2, <3>3
  <2>2. UnreadOf(current', rest, projection) = <<first>> \o rest
    BY <1>4, <1>6, <1>7, UnreadIs
  <2> QED
    BY <1>4, <1>5, <2>1, <2>2 DEF Unread
<1>9. TransfersInv'
  <2>1. AccountsTypeOK' /\ direct' \in 0 .. MaxCommands
    BY <1>1, <1>4, <1>5 DEF ViewsInv, TransfersInv, TransfersTypeOK, AccountsTypeOK, OpenAccounts,
       IsOpen, coordinatorVars
  <2> QED
    BY <1>1, <2>1, AccountsOnly DEF ViewsInv, coordinatorVars
<1>10. /\ StoreFits' /\ CurrentFits' /\ AskedOfOpenAccounts' /\ Summarized' = Summarized
  BY <1>1, <1>6 DEF ViewsInv, StoreFits, CurrentFits, Dispatches, AskedOfOpenAccounts, IsOpen,
     Summarized, Found, coordinatorVars
<1>11. EventsComeInOrder' /\ ViewsLag'
  BY <1>1, <1>8, <1>10 DEF ViewsInv, EventsComeInOrder, ViewsLag, OpenAccounts, IsOpen
<1>12. DocumentsAgree'
  <2>1. ~IsHalfSeen /\ ~IsHalfSeen' /\ Len(current.todo) # 2 /\ Len(current'.todo) # 2
    BY <1>7 DEF IsHalfSeen
  <2>2. SummaryHasTheEvent'
    BY <2>1 DEF SummaryHasTheEvent
  <2>3. \A a \in AccountNumbers : HistoryFollowsSummary(a)'
    BY <1>1, <2>1 DEF ViewsInv, DocumentsAgree, HistoryFollowsSummary, Found, GetAccountSummary
  <2>4. Numbers' = Numbers /\ Balances' = Balances
    BY <1>1 DEF Numbers, Balances, Found, GetBankStatistics
  <2>5. AccountsAreListed' /\ StatisticsAddUp' /\ BalancesAddUp'
    BY <1>1, <1>10, <2>1, <2>4 DEF ViewsInv, DocumentsAgree, AccountsAreListed, StatisticsAddUp,
       BalancesAddUp, Found, GetBankStatistics
  <2> QED
    BY <2>2, <2>3, <2>5 DEF DocumentsAgree
<1> QED
  BY <1>9, <1>10, <1>11, <1>12 DEF ViewsInv

\* A projection does nothing to accounts and transfers.
LEMMA TurnKeepsTransfers ==
  ASSUME ViewsInv, UNCHANGED transferVars
  PROVE  /\ TransfersInv' /\ AskedOfOpenAccounts'
         /\ UNCHANGED <<ledger, balance, nextAccountNumber>> /\ OpenAccounts' = OpenAccounts
<1>1. TransfersInv'
  BY TransfersStep DEF ViewsInv
<1> QED
  BY <1>1 DEF ViewsInv, AskedOfOpenAccounts, IsOpen, OpenAccounts, transferVars, accountVars,
     coordinatorVars

\* The projection whose turn it is fixes how many have still to see the event.
LEMMA TurnIs ==
  ASSUME CurrentFits, NEW projection, Turn(projection)
  PROVE  /\ current \in Dispatches /\ current # Idle /\ current.event \in AccountEvents
         /\ current.event.account \in AccountNumbers /\ Effect(current.event) \in Int
         /\ projection = "AccountSummary" => Len(current.todo) = 3
         /\ projection = "TransactionHistory" => Len(current.todo) = 2
         /\ projection = "BankStatistics" => Len(current.todo) = 1
         /\ UNCHANGED transferVars
<1>1. current \in Dispatches
  BY DEF CurrentFits, Dispatches
<1>2. current # Idle
  BY DEF Turn, Idle
<1>3. current.event \in AccountEvents
  BY <1>1, <1>2, DispatchIsAtAStage
<1>4. current.event.account \in AccountNumbers /\ Effect(current.event) \in Int
  BY <1>3, EffectIsANumber
<1>5. \/ current.todo = RegisterProjections
      \/ current.todo = <<"TransactionHistory", "BankStatistics">>
      \/ current.todo = <<"BankStatistics">>
  BY <1>1, <1>2 DEF Dispatches, ToDos
<1>6. Head(current.todo) = projection
  BY DEF Turn
<1>10. UNCHANGED transferVars
  BY DEF Turn
<1>11. /\ projection = "AccountSummary" => Len(current.todo) = 3
       /\ projection = "TransactionHistory" => Len(current.todo) = 2
       /\ projection = "BankStatistics" => Len(current.todo) = 1
  <2>1. CASE current.todo = RegisterProjections
    BY <1>6, <2>1, ToDoShapes
  <2>2. CASE current.todo = <<"TransactionHistory", "BankStatistics">>
    BY <1>6, <2>2, ToDoShapes
  <2>3. CASE current.todo = <<"BankStatistics">>
    BY <1>6, <2>3, ToDoShapes
  <2> QED
    BY <1>5, <2>1, <2>2, <2>3
<1> QED
  BY <1>1, <1>2, <1>3, <1>4, <1>10, <1>11

LEMMA ConfirmedIs ==
  ASSUME CurrentFits, current # Idle, Confirmed
  PROVE  /\ current' \in Dispatches
         /\ Len(current.todo) = 1 => current' = Idle /\ Len(current'.todo) = 0
         /\ Len(current.todo) \in {2, 3} =>
              current'.event = current.event /\ Len(current'.todo) = Len(current.todo) - 1
<1>1. current \in Dispatches /\ current.event \in AccountEvents
      /\ current = [event |-> current.event, todo |-> current.todo]
  BY DispatchIsAtAStage DEF CurrentFits, Dispatches
<1>2. CASE Len(current.todo) = 1
  BY <1>2, ToDoShapes DEF Confirmed, Dispatches, Idle
<1>3. CASE Len(current.todo) = 2
  <2>1. current.todo = <<"TransactionHistory", "BankStatistics">>
    BY <1>1, <1>3, DispatchIsAtAStage
  <2>2. current' = [event |-> current.event, todo |-> <<"BankStatistics">>]
    BY <1>1, <1>3, <2>1, ToDoShapes DEF Confirmed
  <2> QED
    BY <1>1, <1>3, <2>2, ToDoShapes DEF Dispatches, ToDos
<1>4. CASE Len(current.todo) = 3
  <2>1. current.todo = RegisterProjections
    BY <1>1, <1>4, DispatchIsAtAStage
  <2>2. current' = [event |-> current.event, todo |-> <<"TransactionHistory", "BankStatistics">>]
    <3>1. PICK e, todo : e = current.event /\ todo = current.todo
      OBVIOUS
    <3>2. current = [event |-> e, todo |-> todo] /\ Len(todo) # 1
          /\ Tail(todo) = <<"TransactionHistory", "BankStatistics">>
      BY <1>1, <1>4, <2>1, <3>1, ToDoShapes
    <3>3. current' = [event |-> e, todo |-> Tail(todo)]
      BY <3>1, <3>2 DEF Confirmed
    <3> QED
      BY <3>1, <3>2, <3>3
  <2> QED
    BY <1>1, <1>4, <2>2, ToDoShapes DEF Dispatches, ToDos
<1> QED
  BY <1>1, <1>2, <1>3, <1>4, DispatchIsAtAStage
\* The accounts in the statistics have summaries with numbers.
LEMMA ListedBalancesAreNumbers ==
  ASSUME StoreFits, AccountsAreListed
  PROVE  /\ Numbers \in Seq(AccountNumbers) /\ AreNumbers(store, Numbers)
         /\ Balances \in Int
         /\ \A i \in 1 .. Len(Numbers) :
              /\ i \in DOMAIN Numbers /\ Numbers[i] \in Summarized
              /\ ~(IsHalfSeen /\ Opens(current.event, Numbers[i]))
<1>1. Numbers \in Seq(AccountNumbers) /\ Balances \in Int
  <2>1. CASE Found("BankStatistics", STATS_ID)
    <3>1. GetBankStatistics \in BankStatistics
      BY <2>1, DocumentIsAView, ViewsAreDistinct DEF GetBankStatistics
    <3> QED
      BY <2>1, <3>1 DEF Numbers, Balances, BankStatistics
  <2>2. CASE ~Found("BankStatistics", STATS_ID)
    BY <2>2 DEF Numbers, Balances
  <2> QED
    BY <2>1, <2>2
<1>2. ASSUME NEW i \in 1 .. Len(Numbers)
      PROVE  /\ i \in DOMAIN Numbers /\ Numbers[i] \in Summarized
             /\ ~(IsHalfSeen /\ Opens(current.event, Numbers[i]))
             /\ BalanceIn(store, Numbers[i]) \in Int
  <2>1. i \in DOMAIN Numbers
    BY <1>1
  <2>2. Numbers[i] \in AccountNumbers
    BY ONLY <1>1, <1>2, ElementOfSeq
  <2>3. /\ Numbers[i] \in Summarized
        /\ ~(IsHalfSeen /\ Opens(current.event, Numbers[i]))
    BY <2>1, <2>2 DEF AccountsAreListed
  <2>4. Found("AccountSummary", Numbers[i]) /\ Numbers[i] \in ViewIds
    BY <2>2, <2>3 DEF Summarized, ViewIds
  <2>5. store["AccountSummary"][Numbers[i]].state \in AccountSummary
    BY <2>4, DocumentIsAView, ViewsAreDistinct
  <2> QED
    BY <2>1, <2>3, <2>5 DEF BalanceIn, AccountSummary
<1> QED
  BY <1>1, <1>2 DEF AreNumbers

LEMMA HistoryOfOthers ==
  ASSUME NEW a \in AccountNumbers, HistoryFollowsSummary(a),
         ~(Len(current.todo) = 2 /\ current.event.account = a),
         ~(Len(current'.todo) = 2 /\ current'.event.account = a),
         store'["AccountSummary"][a] = store["AccountSummary"][a],
         store'["TransactionHistory"][a] = store["TransactionHistory"][a]
  PROVE  HistoryFollowsSummary(a)'
BY DEF HistoryFollowsSummary, Found, GetAccountSummary

\* The summary of an account is written: the account is opened if it has none yet.
LEMMA SummaryKeepsViews ==
  ASSUME ViewsInv, ProjectSummary
  PROVE  ViewsInv' /\ Summarized \subseteq Summarized'
<1>1. Turn("AccountSummary") /\ Confirmed
  BY DEF ProjectSummary
<1>2. PICK e : e = current.event
  OBVIOUS
<1>3. PICK a : a = e.account
  OBVIOUS
<1>4. /\ current \in Dispatches /\ current # Idle /\ Len(current.todo) = 3
      /\ e \in AccountEvents /\ a \in AccountNumbers /\ Effect(e) \in Int
      /\ UNCHANGED transferVars
  BY <1>1, <1>2, <1>3, TurnIs DEF ViewsInv
<1>5. /\ current' \in Dispatches /\ Len(current'.todo) = 2 /\ current'.event = e
  BY <1>1, <1>2, <1>4, ConfirmedIs DEF ViewsInv
<1>6. /\ TransfersInv' /\ AskedOfOpenAccounts'
      /\ UNCHANGED <<ledger, balance, nextAccountNumber>> /\ OpenAccounts' = OpenAccounts
  BY <1>4, TurnKeepsTransfers
<1>7. ledger \in Seq(AccountEvents) /\ \A b \in AccountNumbers : balance[b] \in Int
  BY LedgerIsTyped DEF ViewsInv
<1>8. /\ Unread("AccountSummary") = <<e>> \o ledger /\ Unread("AccountSummary")' = ledger
      /\ Unread("TransactionHistory")' = Unread("TransactionHistory")
  <2>1. UnreadOf(current, ledger, "AccountSummary") = <<e>> \o ledger
    BY <1>2, <1>4, <1>7, UnreadIs
  <2>2. UnreadOf(current', ledger, "AccountSummary") = ledger
    <3>1. Len(current'.todo) # 3
      BY <1>5
    <3> QED
      BY <1>5, <1>7, <3>1, UnreadIs
  <2>3. UnreadOf(current, ledger, "TransactionHistory") = <<e>> \o ledger
    BY <1>2, <1>4, <1>7, UnreadIs
  <2>4. UnreadOf(current', ledger, "TransactionHistory") = <<e>> \o ledger
    BY <1>5, <1>7, UnreadIs
  <2> QED
    BY <1>6, <2>1, <2>2, <2>3, <2>4 DEF Unread
<1>9. PICK known : known = Summarized
  OBVIOUS
<1>10. /\ IsOrderly(ledger, known \cup {a})
       /\ e.type = "AccountOpened" <=> a \notin known
       /\ OpenAccounts = (known \cup {a}) \cup Opened(ledger)
  <2>1. IsOrderly(<<e>> \o ledger, known) /\ OpenAccounts = known \cup Opened(<<e>> \o ledger)
    BY <1>8, <1>9 DEF ViewsInv, EventsComeInOrder
  <2>2. /\ IsOrderly(ledger, known \cup {e.account})
        /\ e.type = "AccountOpened" <=> e.account \notin known
        /\ known \cup Opened(<<e>> \o ledger) = (known \cup {e.account}) \cup Opened(ledger)
    BY <1>4, <1>7, <2>1, OrderlyRest
  <2> QED
    BY <1>3, <2>1, <2>2
<1>11. a \in ViewIds /\ a \in Ids /\ (Found("AccountSummary", a) <=> a \in known)
  BY <1>4, <1>9, ViewsAreDistinct DEF ViewIds, Summarized
<1>12. PICK before : before = store["AccountSummary"][a].state
  OBVIOUS
<1>13. Found("AccountSummary", a) => before \in AccountSummary
  BY <1>11, <1>12, DocumentIsAView, ViewsAreDistinct DEF ViewsInv
<1>14. ProjectInto("AccountSummary", a, OpenedSummary(e), SummaryAfter(before, e))
  BY <1>2, <1>3, <1>12 DEF ProjectSummary
<1>15. /\ StoreFits' /\ Found("AccountSummary", a)'
       /\ store'["AccountSummary"][a].state
            = IF e.type = "AccountOpened" THEN OpenedSummary(e) ELSE SummaryAfter(before, e)
       /\ \A other \in ViewTypes : \A i \in Ids :
            other # "AccountSummary" \/ i # a => store'[other][i] = store[other][i]
  BY <1>2, <1>4, <1>10, <1>11, <1>13, <1>14, ViewIsProjected, SummariesAreViews, ViewsAreDistinct
     DEF ViewsInv
<1>16. PICK after : after = store'["AccountSummary"][a].state
  OBVIOUS
<1>17. /\ after.balance \in Int
       /\ e.type = "AccountOpened" => /\ after.balance = e.amount /\ after.balance = Effect(e)
                                      /\ after.transactionCount = 1
       /\ e.type # "AccountOpened" =>
            /\ after.balance = before.balance + Effect(e) /\ before.balance \in Int
            /\ after.transactionCount = before.transactionCount + 1
  <2>1. CASE e.type = "AccountOpened"
    BY <1>4, <1>15, <1>16, <2>1, SummariesAreViews DEF AccountSummary, Effect
  <2>2. CASE e.type # "AccountOpened"
    BY <1>4, <1>10, <1>11, <1>13, <1>15, <1>16, <2>2, SummariesAreViews DEF AccountSummary
  <2> QED
    BY <2>1, <2>2
<1>18. /\ \A i \in ViewIds : /\ store'["TransactionHistory"][i] = store["TransactionHistory"][i]
                             /\ store'["BankStatistics"][i] = store["BankStatistics"][i]
       /\ \A b \in AccountNumbers :
            b # a => store'["AccountSummary"][b] = store["AccountSummary"][b]
       /\ \A b \in AccountNumbers : b \in ViewIds
  BY <1>15, ViewsAreDistinct DEF ViewIds
<1>19. Summarized' = known \cup {a}
  BY <1>4, <1>9, <1>15, <1>18 DEF Summarized, Found
<1>20. EventsComeInOrder'
  BY <1>6, <1>8, <1>10, <1>19 DEF EventsComeInOrder
<1>21. Numbers' = Numbers /\ Balances' = Balances /\ IsHalfSeen' /\ ~IsHalfSeen
  BY <1>4, <1>5, <1>18, ViewsAreDistinct DEF Numbers, Balances, IsHalfSeen, Found,
     GetBankStatistics
<1>22. SummaryHasTheEvent'
  BY <1>3, <1>5, <1>15, <1>16, <1>17 DEF SummaryHasTheEvent, GetAccountSummary
<1>23. ASSUME NEW b \in AccountNumbers PROVE HistoryFollowsSummary(b)'
  <2>1. HistoryFollowsSummary(b)
    BY DEF ViewsInv, DocumentsAgree
  <2>2. CASE b # a
    BY <1>3, <1>4, <1>5, <1>18, <2>1, <2>2, HistoryOfOthers
  <2>3. CASE b = a
    <3>1. /\ Found("TransactionHistory", a) <=> Found("AccountSummary", a)
          /\ Found("AccountSummary", a) =>
               before.transactionCount
                 = Len(store["TransactionHistory"][a].state.transactions) + 0
      BY <1>4, <1>12, <2>1, <2>3 DEF HistoryFollowsSummary, GetAccountSummary
    <3>2. /\ Found("TransactionHistory", a)' <=> Found("TransactionHistory", a)
          /\ store'["TransactionHistory"][a] = store["TransactionHistory"][a]
      BY <1>4, <1>18 DEF Found
    <3>3. CASE e.type = "AccountOpened"
      BY <1>3, <1>5, <1>10, <1>11, <1>16, <1>17, <2>3, <3>1, <3>2, <3>3
         DEF HistoryFollowsSummary, GetAccountSummary
    <3>4. CASE e.type # "AccountOpened"
      <4>1. Found("AccountSummary", a) /\ before.transactionCount \in Nat
        BY <1>10, <1>11, <1>13, <3>4 DEF AccountSummary
      <4>2. after.transactionCount
              = Len(store'["TransactionHistory"][a].state.transactions) + 1
        <5>1. after.transactionCount = before.transactionCount + 1
          BY <1>17, <3>4
        <5>2. before.transactionCount
                = Len(store["TransactionHistory"][a].state.transactions) + 0
          BY <3>1, <4>1
        <5>3. before.transactionCount
                = Len(store'["TransactionHistory"][a].state.transactions) + 0
          BY ONLY <3>2, <5>2
        <5> QED
          BY ONLY <4>1, <5>1, <5>3
      <4> QED
        BY <1>3, <1>5, <1>15, <1>16, <2>3, <3>1, <3>2, <3>4, <4>1, <4>2
           DEF HistoryFollowsSummary, GetAccountSummary
    <3> QED
      BY <3>3, <3>4
  <2> QED
    BY <2>2, <2>3
<1>24. AccountsAreListed /\ StatisticsAddUp /\ BalancesAddUp
  BY DEF ViewsInv, DocumentsAgree
<1>25. AccountsAreListed'
  <2>1. \A b \in AccountNumbers : (\E i \in DOMAIN Numbers : Numbers[i] = b) <=> b \in known
    BY <1>9, <1>21, <1>24 DEF AccountsAreListed
  <2>2. \A b \in AccountNumbers :
          b \in known <=> b \in known \cup {a} /\ ~(e.type = "AccountOpened" /\ e.account = b)
    BY <1>3, <1>10
  <2> QED
    BY <1>5, <1>19, <1>21, <1>24, <2>1, <2>2 DEF AccountsAreListed, Opens
<1>26. StatisticsAddUp'
  BY <1>18, <1>24, ViewsAreDistinct DEF StatisticsAddUp, Found, GetBankStatistics
<1>27. BalancesAddUp'
  <2>1. PICK numbers : numbers = Numbers
    OBVIOUS
  <2>2. PICK documentsOf : documentsOf = store
    OBVIOUS
  <2>3. PICK written : written = store'
    OBVIOUS
  <2>4. /\ numbers \in Seq(AccountNumbers) /\ AreNumbers(documentsOf, numbers) /\ Balances \in Int
        /\ \A i \in 1 .. Len(numbers) : numbers[i] \in known /\ i \in DOMAIN numbers
    BY <1>9, <1>24, <2>1, <2>2, ListedBalancesAreNumbers DEF ViewsInv
  <2>5. Balances = SumIn(documentsOf, numbers)
    <3>1. Balances + 0 = SumIn(documentsOf, numbers)
      BY <1>21, <1>24, <2>1, <2>2 DEF BalancesAddUp
    <3> QED
      BY <2>4, <3>1
  <2>6. \A i \in 1 .. Len(numbers) :
          numbers[i] # a => BalanceIn(written, numbers[i]) = BalanceIn(documentsOf, numbers[i])
    BY <1>9, <1>18, <2>2, <2>3, <2>4 DEF BalanceIn, Summarized
  <2>7. CASE e.type = "AccountOpened"
    <3>1. \A i \in 1 .. Len(numbers) :
            BalanceIn(written, numbers[i]) = BalanceIn(documentsOf, numbers[i])
      BY <1>10, <2>4, <2>6, <2>7
    <3>2. SumIn(written, numbers) = SumIn(documentsOf, numbers)
      BY <2>4, <3>1, SumOfSameBalances
    <3>3. Balances' + 0 = SumIn(store', Numbers')
      BY <1>21, <2>1, <2>3, <2>4, <2>5, <3>2
    <3> QED
      BY <1>5, <2>7, <3>3 DEF BalancesAddUp
  <2>8. CASE e.type # "AccountOpened"
    <3>1. PICK m \in DOMAIN numbers : numbers[m] = a
      BY <1>4, <1>9, <1>10, <1>21, <1>24, <2>1, <2>8 DEF AccountsAreListed
    <3>2. m \in 1 .. Len(numbers)
      BY <2>4, <3>1
    <3>3. \A i \in 1 .. Len(numbers) :
            i # m => BalanceIn(written, numbers[i]) = BalanceIn(documentsOf, numbers[i])
      BY <1>24, <2>1, <2>4, <2>6, <3>1 DEF AccountsAreListed
    <3>4. /\ BalanceIn(written, numbers[m]) = after.balance
          /\ BalanceIn(documentsOf, numbers[m]) = before.balance
      BY <1>12, <1>16, <2>2, <2>3, <3>1 DEF BalanceIn
    <3>5. AreNumbers(written, numbers)
      BY <1>17, <2>4, <3>3, <3>4 DEF AreNumbers
    <3>6. SumIn(written, numbers) = SumIn(documentsOf, numbers)
            + (BalanceIn(written, numbers[m]) - BalanceIn(documentsOf, numbers[m]))
      BY <2>4, <3>2, <3>3, <3>5, SumOfOneBalanceChanged
    <3>7. SumIn(written, numbers) = Balances + Effect(e)
      BY <1>4, <1>17, <2>4, <2>5, <2>8, <3>4, <3>6
    <3> QED
      BY <1>5, <1>21, <2>1, <2>3, <2>8, <3>7 DEF BalancesAddUp
  <2> QED
    BY <2>7, <2>8
<1>28. ViewsLag'
  <2>1. ASSUME NEW b \in AccountNumbers
        PROVE  /\ balance[b] = ShownIn(store, b, "AccountSummary")
                                 + EffectsOn(b, <<e>> \o ledger)
               /\ balance[b] = ShownIn(store, b, "TransactionHistory")
                                 + EffectsOn(b, Unread("TransactionHistory"))
               /\ EffectsOn(b, <<e>> \o ledger) = EffectOn(b, e) + EffectsOn(b, ledger)
               /\ EffectsOn(b, ledger) \in Int
    BY <1>4, <1>7, <1>8, EffectsWithoutFirst, EffectsAreATotal DEF ViewsInv, ViewsLag
  <2>2. ASSUME NEW b \in AccountNumbers
        PROVE  ShownIn(store', b, "TransactionHistory") = ShownIn(store, b, "TransactionHistory")
    BY <1>18 DEF ShownIn
  <2>3. ASSUME NEW b \in AccountNumbers
        PROVE  /\ ShownIn(store', b, "AccountSummary")
                    = ShownIn(store, b, "AccountSummary") + EffectOn(b, e)
               /\ ShownIn(store, b, "AccountSummary") \in Int /\ EffectOn(b, e) \in Int
    <3>1. ShownIn(store, b, "AccountSummary") \in Int /\ EffectOn(b, e) \in Int
      BY <1>4, ShownIsANumber DEF ViewsInv, EffectOn
    <3>2. CASE b # a
      <4>1. ShownIn(store', b, "AccountSummary") = ShownIn(store, b, "AccountSummary")
        BY <1>18, <3>2 DEF ShownIn, BalanceIn
      <4> QED
        BY <1>3, <3>1, <3>2, <4>1 DEF EffectOn
    <3>3. CASE b = a
      <4>1. ShownIn(store', a, "AccountSummary") = after.balance
        BY <1>15, <1>16 DEF ShownIn, BalanceIn, Found
      <4>2. ShownIn(store, a, "AccountSummary")
              = IF e.type = "AccountOpened" THEN 0 ELSE before.balance
        BY <1>10, <1>11, <1>12 DEF ShownIn, BalanceIn, Found
      <4> QED
        BY <1>3, <1>4, <1>17, <3>1, <3>3, <4>1, <4>2 DEF EffectOn
    <3> QED
      BY <3>1, <3>2, <3>3
  <2>4. ASSUME NEW b \in AccountNumbers
        PROVE  balance[b] = ShownIn(store', b, "AccountSummary") + EffectsOn(b, ledger)
    BY <2>1, <2>3
  <2> QED
    BY <1>6, <1>8, <2>1, <2>2, <2>4 DEF ViewsLag
<1>29. CurrentFits'
  BY <1>5 DEF CurrentFits, Dispatches
<1>30. DocumentsAgree'
  BY <1>22, <1>23, <1>25, <1>26, <1>27 DEF DocumentsAgree
<1> QED
  BY <1>6, <1>9, <1>15, <1>19, <1>20, <1>28, <1>29, <1>30 DEF ViewsInv
\* The history of an account is written, and is no longer behind its summary.
LEMMA HistoryKeepsViews ==
  ASSUME ViewsInv, ProjectHistory
  PROVE  ViewsInv' /\ Summarized \subseteq Summarized'
<1>1. Turn("TransactionHistory") /\ Confirmed
  BY DEF ProjectHistory
<1>2. PICK e : e = current.event
  OBVIOUS
<1>3. PICK a : a = e.account
  OBVIOUS
<1>4. /\ current \in Dispatches /\ current # Idle /\ Len(current.todo) = 2
      /\ e \in AccountEvents /\ a \in AccountNumbers /\ Effect(e) \in Int
      /\ UNCHANGED transferVars
  BY <1>1, <1>2, <1>3, TurnIs DEF ViewsInv
<1>5. /\ current' \in Dispatches /\ Len(current'.todo) = 1 /\ current'.event = e
  BY <1>1, <1>2, <1>4, ConfirmedIs DEF ViewsInv
<1>6. /\ TransfersInv' /\ AskedOfOpenAccounts'
      /\ UNCHANGED <<ledger, balance, nextAccountNumber>> /\ OpenAccounts' = OpenAccounts
  BY <1>4, TurnKeepsTransfers
<1>7. ledger \in Seq(AccountEvents) /\ \A b \in AccountNumbers : balance[b] \in Int
  BY LedgerIsTyped DEF ViewsInv
<1>8. /\ Unread("TransactionHistory") = <<e>> \o ledger /\ Unread("TransactionHistory")' = ledger
      /\ Unread("AccountSummary")' = Unread("AccountSummary")
  <2>1. UnreadOf(current, ledger, "TransactionHistory") = <<e>> \o ledger
    BY <1>2, <1>4, <1>7, UnreadIs
  <2>2. UnreadOf(current', ledger, "TransactionHistory") = ledger
    <3>1. Len(current'.todo) \notin {2, 3}
      BY <1>5
    <3> QED
      BY <1>5, <1>7, <3>1, UnreadIs
  <2>3. UnreadOf(current, ledger, "AccountSummary") = ledger
    <3>1. Len(current.todo) # 3
      BY <1>4
    <3> QED
      BY <1>4, <1>7, <3>1, UnreadIs
  <2>4. UnreadOf(current', ledger, "AccountSummary") = ledger
    <3>1. Len(current'.todo) # 3
      BY <1>5
    <3> QED
      BY <1>5, <1>7, <3>1, UnreadIs
  <2> QED
    BY <1>6, <2>1, <2>2, <2>3, <2>4 DEF Unread
<1>9. /\ a \in ViewIds /\ a \in Ids /\ Found("AccountSummary", a) /\ HistoryFollowsSummary(a)
      /\ e.type = "AccountOpened" => GetAccountSummary(a).balance = e.amount
  BY <1>2, <1>3, <1>4, ViewsAreDistinct
     DEF ViewsInv, DocumentsAgree, SummaryHasTheEvent, IsHalfSeen, ViewIds
<1>10. PICK count : count = GetAccountSummary(a).transactionCount
  OBVIOUS
<1>11. PICK before : before = store["TransactionHistory"][a].state
  OBVIOUS
<1>12. /\ e.type = "AccountOpened" => ~Found("TransactionHistory", a) /\ count = 1
       /\ e.type # "AccountOpened" => /\ Found("TransactionHistory", a)
                                      /\ count = Len(before.transactions) + 1
  <2>1. CASE e.type = "AccountOpened"
    BY <1>2, <1>3, <1>4, <1>9, <1>10, <2>1 DEF HistoryFollowsSummary
  <2>2. CASE e.type # "AccountOpened"
    BY <1>2, <1>3, <1>4, <1>9, <1>10, <1>11, <2>2 DEF HistoryFollowsSummary
  <2> QED
    BY <2>1, <2>2
<1>13. Found("TransactionHistory", a) =>
         before \in TransactionHistory /\ before.transactions # <<>>
  BY <1>9, <1>11, DocumentIsAView, ViewsAreDistinct DEF ViewsInv, StoreFits
<1>14. PICK opened, updated : opened = OpenedHistory(e) /\ updated = HistoryAfter(before, e)
  OBVIOUS
<1>15. ProjectInto("TransactionHistory", a, opened, updated)
  BY <1>2, <1>3, <1>11, <1>14 DEF ProjectHistory
<1>16. PICK n : n = Len(before.transactions)
  OBVIOUS
<1>17. /\ opened \in TransactionHistory /\ opened.transactions # <<>>
       /\ Len(opened.transactions) = 1 /\ opened.transactions[1].balance = e.amount
       /\ Found("TransactionHistory", a) =>
            /\ updated \in TransactionHistory /\ updated.transactions # <<>>
            /\ n \in Nat /\ Len(updated.transactions) = n + 1
            /\ before.transactions[n].balance \in Int
            /\ updated.transactions[n + 1].balance
                 = before.transactions[n].balance + Effect(e)
  BY <1>4, <1>13, <1>14, <1>16, HistoriesAreViews
<1>18. /\ StoreFits' /\ Found("TransactionHistory", a)'
       /\ store'["TransactionHistory"][a].state
            = IF e.type = "AccountOpened" THEN opened ELSE updated
       /\ \A other \in ViewTypes : \A i \in Ids :
            other # "TransactionHistory" \/ i # a => store'[other][i] = store[other][i]
  BY <1>2, <1>9, <1>12, <1>15, <1>17, ViewIsProjected, ViewsAreDistinct DEF ViewsInv
<1>19. PICK after : after = store'["TransactionHistory"][a].state.transactions
  OBVIOUS
<1>20. /\ e.type = "AccountOpened" =>
            Len(after) = 1 /\ after[Len(after)].balance = Effect(e)
       /\ e.type # "AccountOpened" =>
            /\ Len(after) = n + 1 /\ n \in Nat /\ before.transactions[n].balance \in Int
            /\ after[Len(after)].balance = before.transactions[n].balance + Effect(e)
  <2>1. CASE e.type = "AccountOpened"
    BY <1>17, <1>18, <1>19, <2>1 DEF Effect
  <2>2. CASE e.type # "AccountOpened"
    BY <1>12, <1>17, <1>18, <1>19, <2>2
  <2> QED
    BY <2>1, <2>2
<1>21. /\ \A i \in ViewIds : /\ store'["AccountSummary"][i] = store["AccountSummary"][i]
                             /\ store'["BankStatistics"][i] = store["BankStatistics"][i]
       /\ \A b \in AccountNumbers :
            b # a => store'["TransactionHistory"][b] = store["TransactionHistory"][b]
       /\ \A b \in AccountNumbers : b \in ViewIds
  BY <1>18, ViewsAreDistinct DEF ViewIds
<1>22. Summarized' = Summarized
  BY <1>21 DEF Summarized, Found
<1>23. EventsComeInOrder'
  BY <1>6, <1>8, <1>22 DEF ViewsInv, EventsComeInOrder
<1>24. Numbers' = Numbers /\ Balances' = Balances /\ IsHalfSeen' /\ IsHalfSeen
  BY <1>4, <1>5, <1>21, ViewsAreDistinct DEF Numbers, Balances, IsHalfSeen, Found,
     GetBankStatistics
<1>25. SummaryHasTheEvent'
  BY <1>3, <1>5, <1>9, <1>21 DEF SummaryHasTheEvent, GetAccountSummary, Found
<1>26. ASSUME NEW b \in AccountNumbers PROVE HistoryFollowsSummary(b)'
  <2>1. HistoryFollowsSummary(b)
    BY DEF ViewsInv, DocumentsAgree
  <2>2. CASE b # a
    BY <1>2, <1>3, <1>5, <1>21, <2>1, <2>2, HistoryOfOthers
  <2>3. CASE b = a
    <3>1. Found("AccountSummary", a)' /\ GetAccountSummary(a)' = GetAccountSummary(a)
      BY <1>9, <1>21 DEF Found, GetAccountSummary
    <3>2. Len(after) \in Nat /\ count = Len(after) + 0
      BY <1>12, <1>16, <1>20
    <3>3. GetAccountSummary(a)'.transactionCount
            = Len(store'["TransactionHistory"][a].state.transactions) + 0
      BY <1>10, <1>19, <3>1, <3>2
    <3> QED
      BY <1>5, <1>18, <2>3, <3>1, <3>3 DEF HistoryFollowsSummary
  <2> QED
    BY <2>2, <2>3
<1>27. AccountsAreListed /\ StatisticsAddUp /\ BalancesAddUp
  BY DEF ViewsInv, DocumentsAgree
<1>28. AccountsAreListed'
  BY <1>2, <1>5, <1>22, <1>24, <1>27 DEF AccountsAreListed
<1>29. StatisticsAddUp'
  BY <1>21, <1>27, ViewsAreDistinct DEF StatisticsAddUp, Found, GetBankStatistics
<1>30. BalancesAddUp'
  <2>1. PICK numbers : numbers = Numbers
    OBVIOUS
  <2>2. PICK documentsOf : documentsOf = store
    OBVIOUS
  <2>3. PICK written : written = store'
    OBVIOUS
  <2>4. /\ numbers \in Seq(AccountNumbers) /\ AreNumbers(documentsOf, numbers)
        /\ \A i \in 1 .. Len(numbers) : numbers[i] \in AccountNumbers
    BY <1>27, <2>1, <2>2, ListedBalancesAreNumbers DEF ViewsInv, Summarized
  <2>5. \A i \in 1 .. Len(numbers) :
          BalanceIn(written, numbers[i]) = BalanceIn(documentsOf, numbers[i])
    BY <1>21, <2>2, <2>3, <2>4 DEF BalanceIn
  <2>6. SumIn(written, numbers) = SumIn(documentsOf, numbers)
    BY <2>4, <2>5, SumOfSameBalances
  <2>7. SumIn(store', Numbers') = SumIn(store, Numbers)
    BY <1>24, <2>1, <2>2, <2>3, <2>6
  <2> QED
    BY <1>2, <1>5, <1>24, <1>27, <2>7 DEF BalancesAddUp
<1>31. ViewsLag'
  <2>1. ASSUME NEW b \in AccountNumbers
        PROVE  /\ balance[b] = ShownIn(store, b, "TransactionHistory")
                                 + EffectsOn(b, <<e>> \o ledger)
               /\ balance[b] = ShownIn(store, b, "AccountSummary")
                                 + EffectsOn(b, Unread("AccountSummary"))
               /\ EffectsOn(b, <<e>> \o ledger) = EffectOn(b, e) + EffectsOn(b, ledger)
               /\ EffectsOn(b, ledger) \in Int
    BY <1>4, <1>7, <1>8, EffectsWithoutFirst, EffectsAreATotal DEF ViewsInv, ViewsLag
  <2>2. ASSUME NEW b \in AccountNumbers
        PROVE  ShownIn(store', b, "AccountSummary") = ShownIn(store, b, "AccountSummary")
    BY <1>21 DEF ShownIn, BalanceIn
  <2>3. ASSUME NEW b \in AccountNumbers
        PROVE  /\ ShownIn(store', b, "TransactionHistory")
                    = ShownIn(store, b, "TransactionHistory") + EffectOn(b, e)
               /\ ShownIn(store, b, "TransactionHistory") \in Int /\ EffectOn(b, e) \in Int
    <3>1. ShownIn(store, b, "TransactionHistory") \in Int /\ EffectOn(b, e) \in Int
      BY <1>4, ShownIsANumber DEF ViewsInv, EffectOn
    <3>2. CASE b # a
      <4>1. ShownIn(store', b, "TransactionHistory") = ShownIn(store, b, "TransactionHistory")
        BY <1>21, <3>2 DEF ShownIn
      <4> QED
        BY <1>3, <3>1, <3>2, <4>1 DEF EffectOn
    <3>3. CASE b = a
      <4>1. ShownIn(store', a, "TransactionHistory") = after[Len(after)].balance
        BY <1>18, <1>19 DEF ShownIn, Found
      <4>2. ShownIn(store, a, "TransactionHistory")
              = IF e.type = "AccountOpened" THEN 0 ELSE before.transactions[n].balance
        BY <1>11, <1>12, <1>16 DEF ShownIn, Found
      <4> QED
        BY <1>3, <1>4, <1>20, <3>1, <3>3, <4>1, <4>2 DEF EffectOn
    <3> QED
      BY <3>1, <3>2, <3>3
  <2>4. ASSUME NEW b \in AccountNumbers
        PROVE  balance[b] = ShownIn(store', b, "TransactionHistory") + EffectsOn(b, ledger)
    BY <2>1, <2>3
  <2> QED
    BY <1>6, <1>8, <2>1, <2>2, <2>4 DEF ViewsLag
<1>32. CurrentFits'
  BY <1>5 DEF CurrentFits, Dispatches
<1>33. DocumentsAgree'
  BY <1>25, <1>26, <1>28, <1>29, <1>30 DEF DocumentsAgree
<1> QED
  BY <1>6, <1>18, <1>22, <1>23, <1>31, <1>32, <1>33 DEF ViewsInv
\* Summaries and histories stay when the statistics are written.
LEMMA StatisticsOnly ==
  ASSUME ViewsInv, NEW state \in BankStatistics, NEW stateVersion \in Nat \ {0},
         Found("BankStatistics", STATS_ID)
           => stateVersion > store["BankStatistics"][STATS_ID].dataVersion,
         Write("BankStatistics", STATS_ID, state, stateVersion, <<>>)
  PROVE  /\ StoreFits'
         /\ Numbers' = state.accountNumbers /\ Balances' = state.totalBalance
         /\ Found("BankStatistics", STATS_ID)' /\ GetBankStatistics' = state
         /\ \A a \in AccountNumbers :
              /\ store'["AccountSummary"][a] = store["AccountSummary"][a]
              /\ store'["TransactionHistory"][a] = store["TransactionHistory"][a]
         /\ Summarized' = Summarized
         /\ \A a \in AccountNumbers, projection \in {"AccountSummary", "TransactionHistory"} :
              ShownIn(store', a, projection) = ShownIn(store, a, projection)
<1>1. STATS_ID \in ViewIds /\ STATS_ID \in Ids /\ state \in View("BankStatistics")
      /\ AccountNumbers \subseteq Ids
  BY ViewsAreDistinct DEF ViewIds
<1>2. /\ StoreFits' /\ Found("BankStatistics", STATS_ID)'
      /\ store'["BankStatistics"][STATS_ID].state = state
      /\ \A other \in ViewTypes : \A i \in Ids :
           other # "BankStatistics" \/ i # STATS_ID => store'[other][i] = store[other][i]
  BY <1>1, ViewIsWritten, ViewsAreDistinct DEF ViewsInv
<1>3. GetBankStatistics' = state /\ Numbers' = state.accountNumbers
      /\ Balances' = state.totalBalance
  BY <1>2 DEF GetBankStatistics, Numbers, Balances
<1>4. ASSUME NEW a \in AccountNumbers
      PROVE  /\ store'["AccountSummary"][a] = store["AccountSummary"][a]
             /\ store'["TransactionHistory"][a] = store["TransactionHistory"][a]
  BY <1>1, <1>2, ViewsAreDistinct
<1>5. Summarized' = Summarized
  BY <1>4 DEF Summarized, Found
<1>6. ASSUME NEW a \in AccountNumbers,
             NEW projection \in {"AccountSummary", "TransactionHistory"}
      PROVE  ShownIn(store', a, projection) = ShownIn(store, a, projection)
  BY <1>4 DEF ShownIn, BalanceIn
<1> QED
  BY <1>2, <1>3, <1>4, <1>5, <1>6

\* The empty statistics list as little as none.
LEMMA CreatedStatisticsKeepViews ==
  ASSUME ViewsInv, CreateStatistics
  PROVE  ViewsInv' /\ Summarized \subseteq Summarized'
<1>1. /\ current \in Dispatches /\ Len(current.todo) = 1 /\ current' = current
      /\ UNCHANGED transferVars
  BY TurnIs DEF ViewsInv, CreateStatistics
<1>2. /\ TransfersInv' /\ AskedOfOpenAccounts'
      /\ UNCHANGED <<ledger, balance, nextAccountNumber>> /\ OpenAccounts' = OpenAccounts
  BY <1>1, TurnKeepsTransfers
<1>3. PICK state : state = InitialStatistics
  OBVIOUS
<1>4. /\ state \in BankStatistics /\ state.accountNumbers = <<>> /\ state.totalBalance = 0
      /\ state.totalDeposits = 0 /\ state.totalWithdrawals = 0 /\ state.totalRefunds = 0
      /\ state.totalAccounts = 0
  BY <1>3 DEF InitialStatistics, BankStatistics
<1>5. ~Found("BankStatistics", STATS_ID) /\ Write("BankStatistics", STATS_ID, state, 1, <<>>)
      /\ 1 \in Nat \ {0}
  BY <1>3 DEF CreateStatistics
<1>6. /\ StoreFits' /\ Numbers' = <<>> /\ Balances' = 0 /\ GetBankStatistics' = state
      /\ \A a \in AccountNumbers :
           /\ store'["AccountSummary"][a] = store["AccountSummary"][a]
           /\ store'["TransactionHistory"][a] = store["TransactionHistory"][a]
      /\ Summarized' = Summarized
      /\ \A a \in AccountNumbers, projection \in {"AccountSummary", "TransactionHistory"} :
           ShownIn(store', a, projection) = ShownIn(store, a, projection)
  BY <1>4, <1>5, StatisticsOnly
<1>7. Numbers = <<>> /\ Balances = 0
  BY <1>5 DEF Numbers, Balances
<1>8. \A projection : Unread(projection)' = Unread(projection)
  BY <1>1, <1>2 DEF Unread
<1>9. EventsComeInOrder'
  BY <1>2, <1>6, <1>8 DEF ViewsInv, EventsComeInOrder
<1>10. ViewsLag'
  BY <1>2, <1>6, <1>8 DEF ViewsInv, ViewsLag
<1>11. IsHalfSeen' = IsHalfSeen
  BY <1>1 DEF IsHalfSeen
<1>12. current.event.account \in AccountNumbers
  BY TurnIs DEF ViewsInv, CreateStatistics
<1>13. SummaryHasTheEvent'
  BY <1>1, <1>6, <1>11, <1>12
     DEF ViewsInv, DocumentsAgree, SummaryHasTheEvent, GetAccountSummary, Found
<1>14. \A a \in AccountNumbers : HistoryFollowsSummary(a)'
  <2> TAKE a \in AccountNumbers
  <2>1. HistoryFollowsSummary(a) /\ Len(current.todo) # 2 /\ Len(current'.todo) # 2
    BY <1>1 DEF ViewsInv, DocumentsAgree
  <2> QED
    BY <1>6, <2>1, HistoryOfOthers
<1>15. AccountsAreListed'
  BY <1>1, <1>6, <1>7, <1>11 DEF ViewsInv, DocumentsAgree, AccountsAreListed
<1>16. StatisticsAddUp'
  <2>1. Len(<<>>) = 0 /\ 0 = 0 - 0 + 0
    OBVIOUS
  <2> QED
    BY <1>4, <1>6, <2>1 DEF StatisticsAddUp
<1>17. BalancesAddUp'
  <2>1. SumIn(store, <<>>) = 0 /\ SumIn(store', <<>>) = 0
    BY SumOfNoBalances
  <2> QED
    BY <1>1, <1>6, <1>7, <1>11, <2>1 DEF ViewsInv, DocumentsAgree, BalancesAddUp
<1>18. CurrentFits'
  BY <1>1 DEF ViewsInv, CurrentFits
<1>19. DocumentsAgree'
  BY <1>13, <1>14, <1>15, <1>16, <1>17 DEF DocumentsAgree
<1> QED
  BY <1>2, <1>6, <1>9, <1>10, <1>18, <1>19 DEF ViewsInv

\* The statistics are the last to see an event: all documents have it then.
LEMMA StatisticsKeepViews ==
  ASSUME ViewsInv, ProjectStatistics
  PROVE  ViewsInv' /\ Summarized \subseteq Summarized'
<1>1. Turn("BankStatistics") /\ Confirmed /\ Found("BankStatistics", STATS_ID)
  BY DEF ProjectStatistics
<1>2. PICK e : e = current.event
  OBVIOUS
<1>3. PICK a : a = e.account
  OBVIOUS
<1>4. /\ current \in Dispatches /\ current # Idle /\ Len(current.todo) = 1
      /\ e \in AccountEvents /\ a \in AccountNumbers /\ Effect(e) \in Int
      /\ UNCHANGED transferVars
  BY <1>1, <1>2, <1>3, TurnIs DEF ViewsInv
<1>5. current' = Idle /\ current' \in Dispatches /\ Len(current'.todo) = 0
  BY <1>1, <1>4, ConfirmedIs DEF ViewsInv
<1>6. /\ TransfersInv' /\ AskedOfOpenAccounts'
      /\ UNCHANGED <<ledger, balance, nextAccountNumber>> /\ OpenAccounts' = OpenAccounts
  BY <1>4, TurnKeepsTransfers
<1>7. ledger \in Seq(AccountEvents)
  BY LedgerIsTyped DEF ViewsInv
<1>8. \A projection \in {"AccountSummary", "TransactionHistory"} :
        Unread(projection)' = Unread(projection)
  <2>1. Len(current.todo) # 3 /\ Len(current.todo) \notin {2, 3}
        /\ Len(current'.todo) # 3 /\ Len(current'.todo) \notin {2, 3}
    BY <1>4, <1>5
  <2>2. /\ UnreadOf(current, ledger, "AccountSummary") = ledger
        /\ UnreadOf(current, ledger, "TransactionHistory") = ledger
    BY <1>4, <1>7, <2>1, UnreadIs
  <2>3. /\ UnreadOf(current', ledger, "AccountSummary") = ledger
        /\ UnreadOf(current', ledger, "TransactionHistory") = ledger
    BY <1>5, <1>7, <2>1, UnreadIs
  <2> QED
    BY <1>6, <2>2, <2>3 DEF Unread
<1>9. PICK stats : stats = GetBankStatistics
  OBVIOUS
<1>10. /\ stats \in BankStatistics /\ Numbers = stats.accountNumbers
       /\ Balances = stats.totalBalance
  BY <1>1, <1>9, DocumentIsAView, ViewsAreDistinct
     DEF ViewsInv, GetBankStatistics, Numbers, Balances
<1>11. PICK after : after = IF e.type = "AccountOpened" THEN OpenedStatistics(stats, e)
                            ELSE StatisticsAfter(stats, e)
  OBVIOUS
<1>12. Write("BankStatistics", STATS_ID, after, StateVersion("BankStatistics", STATS_ID) + 1,
             <<>>)
  BY <1>2, <1>9, <1>11 DEF ProjectStatistics, GetBankStatistics
<1>13. /\ stats.totalBalance = stats.totalDeposits - stats.totalWithdrawals + stats.totalRefunds
       /\ stats.totalAccounts = Len(stats.accountNumbers)
  BY <1>1, <1>9 DEF ViewsInv, DocumentsAgree, StatisticsAddUp
<1>14. /\ after \in BankStatistics /\ stats.totalBalance \in Int
       /\ stats.accountNumbers \in Seq(AccountNumbers)
       /\ after.totalBalance = stats.totalBalance + Effect(e)
       /\ after.accountNumbers = IF e.type = "AccountOpened"
                                 THEN Append(stats.accountNumbers, a) ELSE stats.accountNumbers
       /\ after.totalBalance = after.totalDeposits - after.totalWithdrawals + after.totalRefunds
       /\ after.totalAccounts = Len(after.accountNumbers)
  <2>1. CASE e.type = "AccountOpened"
    <3>1. PICK numbers : numbers = stats.accountNumbers
      OBVIOUS
    <3>2. PICK more : more = Append(numbers, a)
      OBVIOUS
    <3>3. /\ after \in BankStatistics /\ after.accountNumbers = more
          /\ after.totalBalance = stats.totalBalance + e.amount
          /\ after.totalDeposits = stats.totalDeposits + e.amount
          /\ after.totalWithdrawals = stats.totalWithdrawals
          /\ after.totalRefunds = stats.totalRefunds
          /\ after.totalAccounts = stats.totalAccounts + 1
          /\ stats.totalBalance \in Int /\ stats.totalDeposits \in Int
          /\ stats.totalWithdrawals \in Int /\ stats.totalRefunds \in Int
          /\ numbers \in Seq(AccountNumbers)
      BY <1>3, <1>4, <1>10, <1>11, <2>1, <3>1, <3>2, StatisticsAreViews
    <3>4. Effect(e) = e.amount /\ e.amount \in Int
      BY <1>4, <2>1, AccountsAssumption DEF Effect, AccountEvents
    <3>5. Len(more) = Len(numbers) + 1
      BY <1>4, <3>2, <3>3
    <3>6. \A b, d, w, r, x \in Int : b = d - w + r => b + x = (d + x) - w + r
      OBVIOUS
    <3>7. stats.totalBalance + e.amount
            = (stats.totalDeposits + e.amount) - stats.totalWithdrawals + stats.totalRefunds
      BY <1>13, <3>3, <3>4, <3>6
    <3> QED
      BY <1>13, <2>1, <3>1, <3>2, <3>3, <3>4, <3>5, <3>7
  <2>2. CASE e.type # "AccountOpened"
    BY <1>4, <1>10, <1>11, <1>13, <2>2, StatisticsAreViews
  <2> QED
    BY <2>1, <2>2
<1>15. PICK v : v = StateVersion("BankStatistics", STATS_ID) + 1
  OBVIOUS
<1>16. v \in Nat \ {0} /\ v > store["BankStatistics"][STATS_ID].dataVersion
  <2>1. /\ store["BankStatistics"][STATS_ID].dataVersion \in Nat
        /\ StateVersion("BankStatistics", STATS_ID)
             = store["BankStatistics"][STATS_ID].dataVersion
    BY <1>1, ViewsAreDistinct DEF ViewsInv, StoreFits, StateVersion
  <2> QED
    BY <1>15, <2>1
<1>17. /\ StoreFits' /\ Numbers' = after.accountNumbers /\ Balances' = after.totalBalance
       /\ GetBankStatistics' = after
       /\ \A b \in AccountNumbers :
            /\ store'["AccountSummary"][b] = store["AccountSummary"][b]
            /\ store'["TransactionHistory"][b] = store["TransactionHistory"][b]
       /\ Summarized' = Summarized
       /\ \A b \in AccountNumbers, projection \in {"AccountSummary", "TransactionHistory"} :
            ShownIn(store', b, projection) = ShownIn(store, b, projection)
  BY <1>12, <1>14, <1>15, <1>16, StatisticsOnly
<1>18. EventsComeInOrder'
  BY <1>6, <1>8, <1>17 DEF ViewsInv, EventsComeInOrder
<1>19. ViewsLag'
  BY <1>6, <1>8, <1>17 DEF ViewsInv, ViewsLag
<1>20. IsHalfSeen /\ ~IsHalfSeen'
  BY <1>4, <1>5 DEF IsHalfSeen
<1>21. SummaryHasTheEvent'
  BY <1>20 DEF SummaryHasTheEvent
<1>22. \A b \in AccountNumbers : HistoryFollowsSummary(b)'
  <2> TAKE b \in AccountNumbers
  <2>1. HistoryFollowsSummary(b) /\ Len(current.todo) # 2 /\ Len(current'.todo) # 2
    BY <1>4, <1>5 DEF ViewsInv, DocumentsAgree
  <2> QED
    BY <1>17, <2>1, HistoryOfOthers
<1>23. PICK numbers : numbers = stats.accountNumbers
  OBVIOUS
<1>24. PICK n \in Nat : n = Len(numbers)
  BY <1>14, <1>23
<1>25. /\ numbers = Numbers /\ numbers \in Seq(AccountNumbers) /\ DOMAIN numbers = 1 .. n
       /\ AreNumbers(store, numbers)
       /\ \A i \in 1 .. n : numbers[i] \in Summarized
                            /\ ~(e.type = "AccountOpened" /\ numbers[i] = a)
  BY <1>2, <1>3, <1>10, <1>14, <1>20, <1>23, <1>24, ListedBalancesAreNumbers
     DEF ViewsInv, DocumentsAgree, Opens
<1>26. /\ \A b \in AccountNumbers :
            (\E i \in 1 .. n : numbers[i] = b)
              <=> b \in Summarized /\ ~(e.type = "AccountOpened" /\ b = a)
       /\ \A i, j \in 1 .. n : numbers[i] = numbers[j] => i = j
       /\ Balances + (IF e.type # "AccountOpened" THEN Effect(e) ELSE 0) = SumIn(store, numbers)
  BY <1>2, <1>3, <1>20, <1>25
     DEF ViewsInv, DocumentsAgree, AccountsAreListed, BalancesAddUp, Opens
<1>27. /\ a \in Summarized /\ BalanceIn(store, a) \in Int
       /\ e.type = "AccountOpened" => BalanceIn(store, a) = Effect(e)
  <2>1. /\ Found("AccountSummary", a) /\ a \in ViewIds
        /\ e.type = "AccountOpened" => BalanceIn(store, a) = e.amount
    BY <1>2, <1>3, <1>4, <1>20 DEF ViewsInv, DocumentsAgree, SummaryHasTheEvent,
       GetAccountSummary, BalanceIn, ViewIds
  <2>2. store["AccountSummary"][a].state \in AccountSummary
    BY <2>1, DocumentIsAView, ViewsAreDistinct DEF ViewsInv
  <2> QED
    BY <1>4, <2>1, <2>2 DEF BalanceIn, AccountSummary, Summarized, Effect
<1>28. PICK more : more = Append(numbers, a)
  OBVIOUS
<1>29. /\ DOMAIN more = 1 .. n + 1 /\ Len(more) = n + 1 /\ more[n + 1] = a
       /\ \A k \in 1 .. n : more[k] = numbers[k]
       /\ \A k \in 1 .. n : k \in 1 .. n + 1
       /\ \A k \in 1 .. n + 1 : k \in 1 .. n \/ k = n + 1
       /\ n + 1 \in 1 .. n + 1
       /\ more \in Seq(AccountNumbers)
  BY <1>4, <1>24, <1>25, <1>28
<1>30. Numbers' = IF e.type = "AccountOpened" THEN more ELSE numbers
  BY <1>14, <1>17, <1>23, <1>28
<1>31. AccountsAreListed'
  <2>1. CASE e.type = "AccountOpened"
    <3>1. ASSUME NEW b \in AccountNumbers
          PROVE  (\E i \in DOMAIN more : more[i] = b) <=> b \in Summarized
      BY <1>26, <1>27, <1>29, <2>1, <3>1
    <3>2. \A i, j \in DOMAIN more : more[i] = more[j] => i = j
      BY <1>25, <1>26, <1>29, <2>1
    <3> QED
      BY <1>17, <1>20, <1>30, <2>1, <3>1, <3>2 DEF AccountsAreListed
  <2>2. CASE e.type # "AccountOpened"
    BY <1>17, <1>20, <1>25, <1>26, <1>30, <2>2 DEF AccountsAreListed
  <2> QED
    BY <2>1, <2>2
<1>32. StatisticsAddUp'
  BY <1>14, <1>17 DEF StatisticsAddUp
<1>33. BalancesAddUp'
  <2>1. PICK documentsOf : documentsOf = store
    OBVIOUS
  <2>2. PICK written : written = store'
    OBVIOUS
  <2>3. \A b \in AccountNumbers : BalanceIn(written, b) = BalanceIn(documentsOf, b)
    BY <1>17, <2>1, <2>2 DEF BalanceIn
  <2>4. SumIn(written, numbers) = SumIn(documentsOf, numbers)
        /\ SumIn(documentsOf, numbers) \in Int /\ AreNumbers(written, numbers)
    <3>1. \A i \in 1 .. Len(numbers) :
            BalanceIn(written, numbers[i]) = BalanceIn(documentsOf, numbers[i])
      BY <1>24, <1>25, <2>3 DEF Summarized
    <3>2. AreNumbers(documentsOf, numbers)
      BY <1>25, <2>1
    <3> QED
      BY <1>25, <3>1, <3>2, SumOfSameBalances DEF AreNumbers
  <2>5. Balances' = Balances + Effect(e) /\ Balances \in Int
    BY <1>10, <1>14, <1>17
  <2>6. Balances' + 0 = SumIn(written, Numbers')
    <3>1. CASE e.type = "AccountOpened"
      <4>1. SumIn(written, Append(numbers, a)) = SumIn(written, numbers) + BalanceIn(written, a)
        BY <1>4, <1>25, <1>27, <2>1, <2>3, <2>4, SumOfOneMoreBalance
      <4>2. BalanceIn(written, a) = Effect(e)
        BY <1>4, <1>27, <2>1, <2>3, <3>1
      <4>3. Balances + 0 = SumIn(documentsOf, numbers)
        BY <1>26, <2>1, <3>1
      <4> QED
        BY <1>4, <1>28, <1>30, <2>4, <2>5, <3>1, <4>1, <4>2, <4>3
    <3>2. CASE e.type # "AccountOpened"
      <4>1. Balances + Effect(e) = SumIn(documentsOf, numbers)
        BY <1>26, <2>1, <3>2
      <4> QED
        BY <1>4, <1>30, <2>4, <2>5, <3>2, <4>1
    <3> QED
      BY <3>1, <3>2
  <2> QED
    BY <1>20, <2>2, <2>6 DEF BalancesAddUp
<1>34. CurrentFits'
  BY <1>5 DEF CurrentFits, Dispatches
<1>35. DocumentsAgree'
  BY <1>21, <1>22, <1>31, <1>32, <1>33 DEF DocumentsAgree
<1> QED
  BY <1>6, <1>17, <1>18, <1>19, <1>34, <1>35 DEF ViewsInv
----------------------------------------------------------------------------
(* Views: the invariant and what follows from it *)

LEMMA InitiallyNoView == BankInit => ViewsInv
<1> SUFFICES ASSUME BankInit PROVE ViewsInv
  OBVIOUS
<1>1. TransfersInv
  BY InitiallyNoTransfer DEF BankInit
<1>2. /\ nextAccountNumber = 1 /\ ledger = <<>> /\ asked = <<>> /\ current = Idle
      /\ balance = [a \in AccountNumbers |-> 0]
      /\ store = [type \in DocTypes |-> [id \in Ids |-> NoDocument]]
  BY DEF BankInit, TransfersInit, AccountsInit, StoreInit
<1>3. AskedOfOpenAccounts /\ CurrentFits
  BY <1>2 DEF AskedOfOpenAccounts, CurrentFits
<1>4. \A type \in ViewTypes : \A id \in ViewIds : ~Found(type, id)
  BY <1>2, ViewsAreDistinct DEF Found
<1>5. StoreFits
  BY <1>2, ViewsAreDistinct DEF StoreFits, Found
<1>6. current \in Dispatches /\ Len(current.todo) = 0 /\ <<>> \in Seq(AccountEvents)
  BY <1>2, ToDoShapes DEF Dispatches, Idle
<1>7. Unread("AccountSummary") = <<>> /\ Unread("TransactionHistory") = <<>>
  <2>1. Len(current.todo) # 3 /\ Len(current.todo) \notin {2, 3}
    BY <1>6
  <2> QED
    BY <1>2, <1>6, <2>1, UnreadIs DEF Unread
<1>8. AccountNumbers \subseteq ViewIds /\ STATS_ID \in ViewIds
  BY DEF ViewIds
<1>9. Summarized = {} /\ OpenAccounts = {} /\ Opened(<<>>) = {}
  <2>1. OpenAccounts = {}
    BY <1>2 DEF OpenAccounts, IsOpen, AccountNumbers
  <2> QED
    BY <1>4, <1>8, <2>1, ViewsAreDistinct DEF Summarized, Opened
<1>10. EventsComeInOrder
  BY <1>7, <1>9 DEF EventsComeInOrder, IsOrderly
<1>11. ~IsHalfSeen /\ Len(current.todo) # 2
  BY <1>6 DEF IsHalfSeen
<1>12. /\ ~Found("BankStatistics", STATS_ID) /\ Numbers = <<>> /\ Balances = 0
       /\ \A a \in AccountNumbers :
            ~Found("AccountSummary", a) /\ ~Found("TransactionHistory", a)
  BY <1>4, <1>8, ViewsAreDistinct DEF Numbers, Balances
<1>13. DocumentsAgree
  <2>1. SummaryHasTheEvent /\ \A a \in AccountNumbers : HistoryFollowsSummary(a)
    BY <1>11, <1>12 DEF SummaryHasTheEvent, HistoryFollowsSummary
  <2>2. AccountsAreListed /\ StatisticsAddUp
    BY <1>9, <1>12 DEF AccountsAreListed, StatisticsAddUp
  <2>3. SumIn(store, <<>>) = 0
    BY SumOfNoBalances
  <2>4. BalancesAddUp
    BY <1>11, <1>12, <2>3 DEF BalancesAddUp
  <2> QED
    BY <2>1, <2>2, <2>4 DEF DocumentsAgree
<1>14. ViewsLag
  BY <1>2, <1>7, <1>12, EffectsOfNothing DEF ViewsLag, ShownIn, Found
<1> QED
  BY <1>1, <1>3, <1>5, <1>10, <1>13, <1>14 DEF ViewsInv

LEMMA ViewStepKeepsViews ==
  ASSUME ViewsInv, ViewStep
  PROVE  ViewsInv' /\ Summarized \subseteq Summarized' /\ queried' = queried
<1>1. ViewsInv' /\ Summarized \subseteq Summarized'
  BY TakeEntryKeepsViews, SummaryKeepsViews, HistoryKeepsViews, CreatedStatisticsKeepViews,
     StatisticsKeepViews DEF ViewStep
<1>2. queried' = queried
  BY DEF ViewStep, TakeEntry, ProjectSummary, ProjectHistory, CreateStatistics,
     ProjectStatistics, Turn
<1> QED
  BY <1>1, <1>2

\* A query reads documents only.
LEMMA QueryKeepsViews ==
  ASSUME ViewsInv, Query
  PROVE  ViewsInv' /\ UNCHANGED <<store, current>> /\ Summarized' = Summarized
<1>1. UNCHANGED transferVars /\ UNCHANGED <<store, current>>
  BY DEF Query, AskForAllAccounts, AnswerForAllAccounts, Read, ReadAll, documents
<1> QED
  BY <1>1, WriteSideKeepsViews

LEMMA BankStep == ViewsInv /\ [BankNext]_bankVars => ViewsInv'
<1> SUFFICES ASSUME ViewsInv, [BankNext]_bankVars PROVE ViewsInv'
  OBVIOUS
<1>1. CASE TransfersNext /\ UNCHANGED viewVars
  <2>1. UNCHANGED <<store, current>>
    BY <1>1 DEF viewVars, storeVars, documents
  <2> QED
    BY <1>1, <2>1, WriteSideKeepsViews
<1>2. CASE UNCHANGED bankVars
  <2>1. UNCHANGED transferVars /\ UNCHANGED <<store, current>>
    BY <1>2 DEF bankVars, viewVars, storeVars, documents
  <2> QED
    BY <2>1, WriteSideKeepsViews
<1>3. CASE ViewStep
  BY <1>3, ViewStepKeepsViews
<1>4. CASE Query
  BY <1>4, QueryKeepsViews
<1> QED
  BY <1>1, <1>2, <1>3, <1>4 DEF BankNext

\* The documents fit the accounts and each other, whichever event has been seen by
\* whichever of the three projections.
THEOREM ViewsInvariant == BankSpec => []ViewsInv
BY InitiallyNoView, BankStep, PTL DEF BankSpec

\* What a query has been told of when it read the statistics.
QueriedFits ==
  /\ queried \in Seq(AccountNumbers)
  /\ \A i \in 1 .. Len(queried) : queried[i] \in Summarized

LEMMA QueriedStep ==
  ASSUME ViewsInv, QueriedFits, [BankNext]_bankVars
  PROVE  QueriedFits'
<1>1. CASE queried' = queried /\ Summarized \subseteq Summarized'
  BY <1>1 DEF QueriedFits
<1>2. CASE TransfersNext /\ UNCHANGED viewVars
  <2>1. UNCHANGED <<store, current>> /\ queried' = queried
    BY <1>2 DEF viewVars, storeVars, documents
  <2>2. Summarized' = Summarized
    BY <1>2, <2>1, WriteSideKeepsViews
  <2> QED
    BY <1>1, <2>1, <2>2
<1>3. CASE UNCHANGED bankVars
  <2>1. UNCHANGED transferVars /\ UNCHANGED <<store, current>> /\ queried' = queried
    BY <1>3 DEF bankVars, viewVars, storeVars, documents
  <2>2. Summarized' = Summarized
    BY <2>1, WriteSideKeepsViews
  <2> QED
    BY <1>1, <2>1, <2>2
<1>4. CASE ViewStep
  BY <1>1, <1>4, ViewStepKeepsViews
<1>5. CASE AskForAllAccounts
  <2>1. Summarized' = Summarized
    BY <1>5, QueryKeepsViews DEF Query
  <2>2. queried' = Numbers
    BY <1>5 DEF AskForAllAccounts, Numbers
  <2>3. /\ Numbers \in Seq(AccountNumbers)
        /\ \A i \in 1 .. Len(Numbers) : Numbers[i] \in Summarized
    BY ListedBalancesAreNumbers DEF ViewsInv, DocumentsAgree
  <2>4. PICK listed : listed = Numbers
    OBVIOUS
  <2> QED
    BY <2>1, <2>2, <2>3, <2>4 DEF QueriedFits
<1>6. CASE AnswerForAllAccounts
  <2>1. queried' = <<>>
    BY <1>6 DEF AnswerForAllAccounts
  <2> QED
    BY <2>1 DEF QueriedFits
<1> QED
  BY <1>2, <1>3, <1>4, <1>5, <1>6 DEF BankNext, Query

\* Every account that a query is about to read has its summary, however long ago the
\* statistics listed it (QueryHandler.ts, getAllAccountSummaries).
THEOREM QueriedInvariant == BankSpec => []QueriedFits
<1>1. BankInit => QueriedFits
  <2>1. queried = <<>> => QueriedFits
    BY DEF QueriedFits
  <2> QED
    BY <2>1 DEF BankInit
<1>2. ViewsInv /\ QueriedFits /\ [BankNext]_bankVars => QueriedFits'
  BY QueriedStep
<1> QED
  BY <1>1, <1>2, ViewsInvariant, PTL DEF BankSpec

LEMMA LastTransaction ==
  ASSUME NEW S, NEW transactions \in Seq(S), transactions # <<>>
  PROVE  LET n == Len(transactions)
             skipped == IF 1 > 0 /\ 1 < n THEN n - 1 ELSE 0
         IN  Seqs!Reverse(SubSeq(transactions, skipped + 1, n))[1] = transactions[n]
<1>1. PICK n \in Nat \ {0} : n = Len(transactions)
  OBVIOUS
<1>2. (IF 1 > 0 /\ 1 < n THEN n - 1 ELSE 0) + 1 = n
  BY <1>1
<1>3. PICK newest : newest = SubSeq(transactions, n, n)
  OBVIOUS
<1>4. Len(newest) = 1 /\ newest[1] = transactions[n]
  BY <1>1, <1>3
<1>5. Seqs!Reverse(newest)[1] = transactions[n]
  BY <1>4 DEF Seqs!Reverse
<1> QED
  BY <1>1, <1>2, <1>3, <1>5

LEMMA AllTransactions ==
  ASSUME NEW S, NEW transactions \in Seq(S)
  PROVE  LET n == Len(transactions)
             skipped == IF 0 > 0 /\ 0 < n THEN n - 0 ELSE 0
         IN  Len(Seqs!Reverse(SubSeq(transactions, skipped + 1, n))) = n
<1>1. PICK n \in Nat : n = Len(transactions)
  OBVIOUS
<1>2. PICK all : all = SubSeq(transactions, 1, n)
  OBVIOUS
<1>3. Len(all) = n
  BY <1>1, <1>2
<1>4. Len(Seqs!Reverse(all)) = n
  BY <1>1, <1>3 DEF Seqs!Reverse
<1>5. (IF 0 > 0 /\ 0 < n THEN n - 0 ELSE 0) + 1 = 1
  OBVIOUS
<1> QED
  BY <1>1, <1>2, <1>4, <1>5

LEMMA LagMeansFollowing ==
  ASSUME ViewsInv PROVE ViewsFollowTheAccounts
<1> SUFFICES ASSUME NEW a \in AccountNumbers,
                    NEW projection \in {"AccountSummary", "TransactionHistory"}
             PROVE  balance[a] = Shown(a, projection) + Unseen(a, projection)
  BY DEF ViewsFollowTheAccounts
<1>1. balance[a] = ShownIn(store, a, projection) + EffectsOn(a, Unread(projection))
  BY DEF ViewsInv, ViewsLag
<1>2. Unseen(a, projection) = EffectsOn(a, Unread(projection))
  BY DEF Unseen, EffectsOn, Unread, UnreadOf
<1>3. Shown(a, projection) = ShownIn(store, a, projection)
  <2>1. CASE ~Found(projection, a)
    BY <2>1 DEF Shown, ShownIn, Found
  <2>2. CASE Found(projection, a) /\ projection = "AccountSummary"
    BY <2>2 DEF Shown, ShownIn, Found, GetAccountSummary, BalanceIn
  <2>3. CASE Found(projection, a) /\ projection = "TransactionHistory"
    <3>1. PICK transactions : transactions = store["TransactionHistory"][a].state.transactions
      OBVIOUS
    <3>2. transactions \in Seq(Transaction) /\ transactions # <<>>
      <4>1. StoreFits /\ a \in ViewIds /\ a \in Ids /\ Found("TransactionHistory", a)
        BY <2>3, ViewsAreDistinct DEF ViewsInv, ViewIds
      <4>2. store["TransactionHistory"][a].state \in TransactionHistory
        BY <4>1, DocumentIsAView, ViewsAreDistinct
      <4> QED
        BY <3>1, <4>1, <4>2 DEF StoreFits, TransactionHistory
    <3>3. GetTransactionHistory(a, 1)[1] = transactions[Len(transactions)]
      BY <3>1, <3>2, LastTransaction DEF GetTransactionHistory
    <3> QED
      BY <2>3, <3>1, <3>3 DEF Shown, ShownIn, Found
  <2> QED
    BY <2>1, <2>2, <2>3
<1> QED
  BY <1>1, <1>2, <1>3

\* While its views are written, the bank keeps what is shown above of it:
\* withdrawn money is listed, and paid once (TransferCoordinatorActor.ts).
THEOREM MoneyStaysSafe ==
  BankSpec => [](TransfersTypeOK /\ WithdrawnMoneyIsListed /\ PaidAgainOnlyWhenRefused)
<1>1. ViewsInv => TransfersTypeOK /\ WithdrawnMoneyIsListed /\ PaidAgainOnlyWhenRefused
  BY FitsMeansListed DEF ViewsInv, TransfersInv
<1> QED
  BY <1>1, ViewsInvariant, PTL

\* What a summary and a history show for an account is its balance without the
\* effects of exactly the events their projections have not seen yet
\* (AccountSummaryProjectionActor.ts, TransactionHistoryProjectionActor.ts).
THEOREM ViewsLagBehind == BankSpec => []ViewsFollowTheAccounts
BY ViewsInvariant, LagMeansFollowing, PTL

\* Summaries that are all there are all answered.
LEMMA AllSummariesAnswered ==
  ASSUME NEW numbers \in Seq(AccountNumbers),
         \A i \in 1 .. Len(numbers) : numbers[i] \in Summarized
  PROVE  /\ AllAccountSummaries(numbers) = SummariesIn(store, numbers)
         /\ Len(AllAccountSummaries(numbers)) = Len(numbers)
<1>1. PICK n \in Nat : n = Len(numbers) /\ DOMAIN numbers = 1 .. n
  OBVIOUS
<1>2. AllFound(SummaryBundles(numbers))
  BY <1>1 DEF AllFound, SummaryBundles, Summarized
<1>3. AllAccountSummaries(numbers) = SummariesIn(store, numbers)
  BY <1>2 DEF AllAccountSummaries, SummariesIn, GetAccountSummary
<1>4. Len(SummariesIn(store, numbers)) = n
  BY <1>1 DEF SummariesIn
<1> QED
  BY <1>1, <1>3, <1>4

LEMMA ViewsAreFound ==
  ASSUME ViewsInv, QueriedFits PROVE NoViewIsMissing
<1>1. Len(AllAccountSummaries(queried)) = Len(queried)
  BY AllSummariesAnswered DEF QueriedFits
<1>2. ASSUME current.event.type \notin {"none", "AccountOpened"}
      PROVE  /\ Found("AccountSummary", current.event.account)
             /\ Found("TransactionHistory", current.event.account)
  <2>1. current \in Dispatches /\ ledger \in Seq(AccountEvents)
    BY LedgerIsTyped DEF ViewsInv
  <2>2. current # Idle
    BY <1>2 DEF Idle, NoEvent
  <2>3. PICK e : e = current.event
    OBVIOUS
  <2>4. e \in AccountEvents /\ e.account \in AccountNumbers /\ e.type # "AccountOpened"
    BY <1>2, <2>1, <2>2, <2>3, DispatchIsAtAStage, EffectIsANumber
  <2>5. HistoryFollowsSummary(e.account)
    BY <2>4 DEF ViewsInv, DocumentsAgree
  <2>6. Found("AccountSummary", e.account)
    <3>1. CASE Len(current.todo) = 3
      <4>1. IsOrderly(<<e>> \o ledger, Summarized)
        BY <2>1, <2>3, <3>1, UnreadIs DEF ViewsInv, EventsComeInOrder, Unread
      <4>2. e.account \in Summarized
        BY <2>1, <2>4, <4>1, OrderlyRest
      <4> QED
        BY <4>2 DEF Summarized
    <3>2. CASE Len(current.todo) \in {1, 2}
      BY <2>3, <3>2 DEF ViewsInv, DocumentsAgree, SummaryHasTheEvent, IsHalfSeen
    <3> QED
      BY <2>1, <2>2, <3>1, <3>2, DispatchIsAtAStage
  <2> QED
    BY <2>3, <2>4, <2>5, <2>6 DEF HistoryFollowsSummary
<1> QED
  BY <1>1, <1>2 DEF NoViewIsMissing

\* No projection fails for want of a document, and a query for all accounts is
\* answered with as many summaries as the statistics listed when it read them,
\* whatever is written between its two reads (QueryHandler.ts).
THEOREM NoViewFails == BankSpec => []NoViewIsMissing
BY ViewsInvariant, QueriedInvariant, ViewsAreFound, PTL

LEMMA DocumentsMeanAnswers ==
  ASSUME ViewsInv PROVE AnswersAgree
<1> SUFFICES ASSUME current = Idle, Found("BankStatistics", STATS_ID)
             PROVE  LET stats == GetBankStatistics
                        numbers == stats.accountNumbers
                        summaries == AllAccountSummaries(numbers)
                        Add(sum, summary) == sum + summary.balance
                    IN  /\ stats.totalBalance = Seqs!FoldLeft(Add, 0, summaries)
                        /\ stats.totalBalance = stats.totalDeposits - stats.totalWithdrawals
                             + stats.totalRefunds
                        /\ stats.totalAccounts = Len(summaries)
                        /\ \A i \in DOMAIN numbers :
                             summaries[i].transactionCount
                               = Len(GetTransactionHistory(numbers[i], 0))
  BY Zenon DEF AnswersAgree
<1>1. /\ StoreFits /\ AccountsAreListed /\ StatisticsAddUp /\ BalancesAddUp
      /\ \A a \in AccountNumbers : HistoryFollowsSummary(a)
  BY DEF ViewsInv, DocumentsAgree
<1>2. Len(current.todo) = 0 /\ ~IsHalfSeen
  BY ToDoShapes DEF Idle, IsHalfSeen
<1>3. /\ Numbers = GetBankStatistics.accountNumbers
      /\ Balances = GetBankStatistics.totalBalance /\ Balances \in Int
  BY <1>1, ListedBalancesAreNumbers DEF Numbers, Balances
<1>4. PICK numbers : numbers = GetBankStatistics.accountNumbers
  OBVIOUS
<1>5. PICK summaries : summaries = AllAccountSummaries(numbers)
  OBVIOUS
<1>6. /\ numbers \in Seq(AccountNumbers)
      /\ \A i \in 1 .. Len(numbers) : numbers[i] \in Summarized
  BY <1>1, <1>3, <1>4, ListedBalancesAreNumbers
<1>7. summaries = SummariesIn(store, numbers) /\ Len(summaries) = Len(numbers)
  BY <1>5, <1>6, AllSummariesAnswered
<1>8. GetBankStatistics.totalBalance = SumIn(store, numbers)
  BY <1>1, <1>2, <1>3, <1>4 DEF BalancesAddUp
<1>9. SumIn(store, numbers)
        = LET Add(sum, summary) == sum + summary.balance
          IN  Seqs!FoldLeft(Add, 0, summaries)
  BY <1>7, Zenon DEF SumIn
<1>10. ASSUME NEW i \in DOMAIN numbers
       PROVE  summaries[i].transactionCount = Len(GetTransactionHistory(numbers[i], 0))
  <2>1. PICK a : a = numbers[i]
    OBVIOUS
  <2>2. a \in AccountNumbers /\ Found("AccountSummary", a)
    BY <1>6, <2>1 DEF Summarized
  <2>3. summaries[i] = GetAccountSummary(a)
    BY <1>7, <2>1 DEF SummariesIn, GetAccountSummary
  <2>4. PICK transactions : transactions = store["TransactionHistory"][a].state.transactions
    OBVIOUS
  <2>5. /\ Found("TransactionHistory", a)
        /\ GetAccountSummary(a).transactionCount = Len(transactions) + 0
    BY <1>1, <1>2, <2>2, <2>4 DEF HistoryFollowsSummary
  <2>6. transactions \in Seq(Transaction)
    <3>1. a \in ViewIds
      BY <2>2 DEF ViewIds
    <3>2. store["TransactionHistory"][a].state \in TransactionHistory
      BY <1>1, <2>5, <3>1, DocumentIsAView, ViewsAreDistinct
    <3> QED
      BY <2>4, <3>2 DEF TransactionHistory
  <2>7. Len(GetTransactionHistory(a, 0)) = Len(transactions)
    BY <2>4, <2>6, AllTransactions DEF GetTransactionHistory
  <2> QED
    BY <2>1, <2>3, <2>5, <2>6, <2>7
<1>11. /\ GetBankStatistics.totalBalance = GetBankStatistics.totalDeposits
            - GetBankStatistics.totalWithdrawals + GetBankStatistics.totalRefunds
       /\ GetBankStatistics.totalAccounts = Len(numbers)
  BY <1>1, <1>4 DEF StatisticsAddUp
<1> QED
  BY <1>4, <1>5, <1>7, <1>8, <1>9, <1>10, <1>11, Zenon

\* Between two dispatches the answers of the queries agree: the bank's total is the
\* sum over its accounts, what its deposits, withdrawals and refunds amount to, and
\* a history has as many transactions as its summary counts (QueryHandler.ts).
THEOREM AnswersAlwaysAgree == BankSpec => []AnswersAgree
BY ViewsInvariant, DocumentsMeanAnswers, PTL
=============================================================================
