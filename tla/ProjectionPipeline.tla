------------------------- MODULE ProjectionPipeline -------------------------
(***************************************************************************)
(* From the journal to the projections: the consumer that polls a reader   *)
(* (src/store/journal/JournalConsumerActor.ts), the dispatcher         *)
(* (TextProjectionDispatcherActor.ts) and the confirmer that tracks what   *)
(* was projected (src/testkit/TestConfirmer.ts).                           *)
(*                                                                         *)
(* The consumer's polling is a chain of promises and timers that runs      *)
(* outside its mailbox, so that pause() and resume() may come between any  *)
(* two steps of a chain, and several chains may be alive.  The dispatcher  *)
(* handles one dispatch at a time and waits for each projection.  A call   *)
(* of an actor rejects when its handler throws.  An entry is named by its  *)
(* place in the journal.                                                   *)
(***************************************************************************)
EXTENDS JournalReader, Functions

CONSTANTS
  Descriptions, \* registered (projection, types) pairs, in order
  Fallible,     \* projections whose projectWith may throw
  Silent,       \* projections that may finish without confirming
  BatchSize,    \* entries per read
  MaxChains,    \* bound: polling chains alive
  Pausable,     \* whether somebody calls pause and resume
  Retried       \* whether somebody dispatches again what is unconfirmed

ASSUME DescriptionsAssumption ==
  Len(Descriptions) \in Nat /\ DOMAIN Descriptions = 1 .. Len(Descriptions)
ASSUME PipelineAssumption ==
  /\ BatchSize \in Nat \ {0} /\ MaxChains \in Nat \ {0}
  /\ Pausable \in BOOLEAN /\ Retried \in BOOLEAN

VARIABLES
  isRunning,  \* the consumer's flag
  chains,     \* the consumer's polling chains
  mailbox,    \* dispatches waiting for the dispatcher
  current,    \* the dispatch it is handling
  pendingMap, \* what the confirmer holds as pending, by id
  confirmed,  \* the ids it holds as confirmed
  received,   \* projection -> the entries it has projected, in order
  undisturbed \* history: no projection has thrown, nobody has dispatched again

pipelineVars == <<readerVars, isRunning, chains, mailbox, current, pendingMap,
                  confirmed, received, undisturbed>>
confirmerVars == <<pendingMap, confirmed>>
dispatcherVars == <<mailbox, current, confirmerVars, received, undisturbed>>

\* One projection may be registered with several descriptions.
Projections == {Descriptions[i].projection : i \in DOMAIN Descriptions}
Chains == 1 .. MaxChains
Places == 1 .. MaxEntries
Nobody == 0       \* who retries is not a chain
None == 0

Idle == [client |-> Nobody, entry |-> None, todo |-> <<>>]
Free == [at |-> "free", batch |-> <<>>]
Stages == {"free", "timer", "reading", "holding", "waiting", "caught"}

Move(c, stage, batch) == chains' = [chains EXCEPT ![c] = [at |-> stage, batch |-> batch]]

----------------------------------------------------------------------------
(* The consumer *)

\* setTimeout while running; otherwise the chain ends.
ScheduleNext(c) == Move(c, IF isRunning THEN "timer" ELSE "free", <<>>)

\* The flag is looked at again when the timer fires.
TimerFires(c) ==
  /\ chains[c].at = "timer"
  /\ Move(c, IF isRunning THEN "reading" ELSE "free", <<>>)
  /\ UNCHANGED <<readerVars, isRunning, dispatcherVars>>

\* The reader's handler moves the position; the chain gets its batch.
ReadBatch(c) ==
  /\ chains[c].at = "reading"
  /\ ReadNext(BatchSize)
  /\ Move(c, "holding", Batch(BatchSize))
  /\ UNCHANGED <<isRunning, dispatcherVars>>

\* Mutant: the dispatch is not waited for.
DispatchNextUnawaited(c) ==
  /\ chains[c].at = "holding"
  /\ chains[c].batch # <<>>
  /\ mailbox' = Append(mailbox, [client |-> c, entry |-> Head(chains[c].batch)])
  /\ Move(c, "holding", Tail(chains[c].batch))
  /\ UNCHANGED <<readerVars, isRunning, current, confirmerVars, received, undisturbed>>

DispatchNext(c) ==
  /\ chains[c].at = "holding"
  /\ chains[c].batch # <<>>
  /\ mailbox' = Append(mailbox, [client |-> c, entry |-> Head(chains[c].batch)])
  /\ Move(c, "waiting", Tail(chains[c].batch))
  /\ UNCHANGED <<readerVars, isRunning, current, confirmerVars, received, undisturbed>>

EndOfCycle(c) ==
  /\ chains[c].at = "holding"
  /\ chains[c].batch = <<>>
  /\ ScheduleNext(c)
  /\ UNCHANGED <<readerVars, isRunning, dispatcherVars>>

\* Mutant: an error ends the polling.
CatchErrorAndStop(c) ==
  /\ chains[c].at = "caught"
  /\ Move(c, "free", <<>>)
  /\ UNCHANGED <<readerVars, isRunning, dispatcherVars>>

\* The error of a dispatch ends the loop over the batch: its rest is dropped.
CatchError(c) ==
  /\ chains[c].at = "caught"
  /\ ScheduleNext(c)
  /\ UNCHANGED <<readerVars, isRunning, dispatcherVars>>

Pause ==
  /\ Pausable
  /\ isRunning
  /\ isRunning' = FALSE
  /\ UNCHANGED <<readerVars, chains, dispatcherVars>>

\* Mutant: the flag is set and nothing else.
ResumeWithoutTimer ==
  /\ ~isRunning
  /\ isRunning' = TRUE
  /\ UNCHANGED <<readerVars, chains, dispatcherVars>>

\* A new timer is set, whether or not a chain is still alive.
Resume ==
  /\ ~isRunning
  /\ isRunning' = TRUE
  /\ \E c \in Chains : chains[c] = Free /\ Move(c, "timer", <<>>)
  /\ UNCHANGED <<readerVars, dispatcherVars>>

----------------------------------------------------------------------------
(* The confirmer *)

\* A projectable without state answers the type of its entry, the data id '' and
\* the data version 0.
ProjectableType(entry) == entries[entry]

\* projectableId: `${type}:${dataId}:${dataVersion}`, of which only the type tells
\* the projectables of a journal apart.
ProjectableId(entry) == ProjectableType(entry)

Pending(entry) ==
  LET id == ProjectableId(entry)
  IN  /\ pendingMap' = IF id \in confirmed THEN pendingMap
                       ELSE [pendingMap EXCEPT ![id] = entry]
      /\ UNCHANGED confirmed

\* Mutant: what was confirmed stays among the pending.
ConfirmKeepsPending(entry) ==
  /\ confirmed' = confirmed \cup {ProjectableId(entry)}
  /\ UNCHANGED pendingMap

Confirm(entry) ==
  LET id == ProjectableId(entry)
  IN  /\ confirmed' = confirmed \cup {id}
      /\ pendingMap' = [pendingMap EXCEPT ![id] = None]

CheckUnconfirmed == {pendingMap[id] : id \in Types} \ {None}

----------------------------------------------------------------------------
(* The dispatcher *)

\* Mutant: once for each description that matches.
ProjectionsForEach(type) ==
  LET matching == SelectSeq(Descriptions, LAMBDA d : type \in d.types)
  IN  [i \in DOMAIN matching |-> matching[i].projection]

\* The consumer gives the type of the entry as the only reason.
BecauseOf(entry) == ProjectableType(entry)

\* Of each projection, the first description whose patterns match.
FirstMatches(type) ==
  {i \in DOMAIN Descriptions :
     /\ type \in Descriptions[i].types
     /\ \A j \in 1 .. i - 1 : type \in Descriptions[j].types
          => Descriptions[j].projection # Descriptions[i].projection}

\* The projections whose patterns match, each once, in order of registration.
ProjectionsFor(type) ==
  LET matches == FirstMatches(type)
      Nth(n) == CHOOSE i \in matches : Cardinality({j \in matches : j < i}) = n - 1
  IN  [n \in 1 .. Cardinality(matches) |-> Descriptions[Nth(n)].projection]

Dispatch ==
  LET message == Head(mailbox)
  IN  /\ mailbox # <<>>
      /\ current = Idle
      /\ mailbox' = Tail(mailbox)
      /\ Pending(message.entry)
      /\ current' = [client |-> message.client, entry |-> message.entry,
                     todo |-> ProjectionsFor(BecauseOf(message.entry))]
      /\ UNCHANGED <<readerVars, isRunning, chains, received, undisturbed>>

\* The promise of the dispatch is settled for whoever called.
Answer(stage) ==
  IF current.client = Nobody THEN UNCHANGED chains
  ELSE Move(current.client, stage, chains[current.client].batch)

\* A projection reports through its control, which passes it on without waiting,
\* or ends without a word.
ConfirmProjected(projection, entry) ==
  \/ Confirm(entry)
  \/ projection \in Silent /\ UNCHANGED confirmerVars

\* One projection handles the projectable.
ProjectWith ==
  LET projection == Head(current.todo)
  IN  /\ current # Idle
      /\ current.todo # <<>>
      /\ received' = [received EXCEPT ![projection] = Append(@, current.entry)]
      /\ ConfirmProjected(projection, current.entry)
      /\ current' = [current EXCEPT !.todo = Tail(@)]
      /\ UNCHANGED <<readerVars, isRunning, chains, mailbox, undisturbed>>

\* A projection throws: the projections behind it are skipped.
ProjectionFails ==
  /\ current # Idle
  /\ current.todo # <<>>
  /\ Head(current.todo) \in Fallible
  /\ Answer("caught")
  /\ current' = Idle
  /\ undisturbed' = FALSE
  /\ UNCHANGED <<readerVars, isRunning, mailbox, confirmerVars, received>>

EndOfDispatch ==
  /\ current # Idle
  /\ current.todo = <<>>
  /\ Answer("holding")
  /\ current' = Idle
  /\ UNCHANGED <<readerVars, isRunning, mailbox, confirmerVars, received, undisturbed>>

\* What the users of a confirmer are told to do with what is unconfirmed.
\* Bound: an entry that is on its way already is not dispatched once more.
Retry ==
  /\ Retried
  /\ \E entry \in CheckUnconfirmed :
       /\ entry # current.entry
       /\ \A i \in DOMAIN mailbox : mailbox[i].entry # entry
       /\ mailbox' = Append(mailbox, [client |-> Nobody, entry |-> entry])
  /\ undisturbed' = FALSE
  /\ UNCHANGED <<readerVars, isRunning, chains, current, confirmerVars, received>>

JournalGrows ==
  /\ \E type \in Types : AppendEntry(type)
  /\ UNCHANGED <<isRunning, chains, dispatcherVars>>

----------------------------------------------------------------------------
\* beforeStart has set the first timer.
PipelineInit ==
  /\ ReaderInit
  /\ isRunning = TRUE
  /\ chains = [c \in Chains |-> IF c = 1 THEN [Free EXCEPT !.at = "timer"] ELSE Free]
  /\ mailbox = <<>>
  /\ current = Idle
  /\ pendingMap = [id \in Types |-> None]
  /\ confirmed = {}
  /\ received = [p \in Projections |-> <<>>]
  /\ undisturbed = TRUE

ChainStep(c) ==
  \/ TimerFires(c)
  \/ ReadBatch(c)
  \/ DispatchNext(c)
  \/ EndOfCycle(c)
  \/ CatchError(c)

DispatcherStep == Dispatch \/ ProjectWith \/ ProjectionFails \/ EndOfDispatch

PipelineNext ==
  \/ \E c \in Chains : ChainStep(c)
  \/ DispatcherStep
  \/ Pause
  \/ Resume
  \/ Retry
  \/ JournalGrows

PipelineSpec == PipelineInit /\ [][PipelineNext]_pipelineVars

\* Timers fire, promises settle and mailboxes deliver; nobody has to append,
\* pause, resume or retry.
PipelineFairness ==
  /\ \A c \in Chains : WF_pipelineVars(ChainStep(c))
  /\ WF_pipelineVars(DispatcherStep)

FairPipelineSpec == PipelineSpec /\ PipelineFairness

----------------------------------------------------------------------------
(* Properties *)

UnderWay(entry) ==
  \/ \E c \in Chains : entry \in Range(chains[c].batch)
  \/ \E i \in DOMAIN mailbox : mailbox[i].entry = entry
  \/ current.entry = entry

Projected(entry) ==
  \A p \in Range(ProjectionsFor(entries[entry])) : entry \in Range(received[p])

\* As long as no projection throws and nobody dispatches again, every entry the
\* reader has handed out is under way or with all the projections it matches,
\* however often the consumer is paused and resumed, and no projection gets an
\* entry twice, although two polling chains may share the reader.
NothingLostNorDoubled ==
  undisturbed =>
    /\ \A entry \in 1 .. position : UnderWay(entry) \/ Projected(entry)
    /\ \A p \in Projections : IsInjective(received[p])

\* The consumer is never running without a polling chain: no sequence of pause,
\* resume, errors and empty reads leaves it waiting for a timer nobody has set.
RunningMeansPolling ==
  isRunning => \E c \in Chains : chains[c] # Free

\* Every chain is waiting for exactly one dispatch, which is in the dispatcher's
\* mailbox or being handled, and the dispatcher answers no chain that does not
\* wait: two chains never receive each other's answers.
DispatchesOf(c) ==
  {i \in DOMAIN mailbox : mailbox[i].client = c}
    \cup (IF current.client = c THEN {0} ELSE {})
AnswersMatchCalls ==
  \A c \in Chains :
    Cardinality(DispatchesOf(c)) = (IF chains[c].at = "waiting" THEN 1 ELSE 0)

\* No id is held as pending and as confirmed at once, and what is confirmed was
\* projected by somebody.
ConfirmerIsConsistent ==
  \A id \in Types :
    /\ pendingMap[id] # None => id \notin confirmed /\ ProjectableId(pendingMap[id]) = id
    /\ id \in confirmed =>
         \E p \in Projections : \E entry \in Range(received[p]) : ProjectableId(entry) = id

\* A consumer that is left running keeps reading, whatever its projections throw.
PollingGoesOn ==
  <>[]isRunning => []<>(\E c \in Chains : chains[c].at = "reading")

\* A consumer that is left running gets every entry to all projections it
\* matches, if no projection throws and nobody dispatches again.
EveryEntryIsProjected ==
  <>[]isRunning =>
    \A entry \in Places :
      (entry <= Len(entries)) ~> (~undisturbed \/ (entry <= Len(entries) /\ Projected(entry)))
=============================================================================
