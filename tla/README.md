# A TLA+ model of DomoTactical

DomoTactical is a TypeScript library for event sourcing on actors: a journal of event streams,
entities that live on it, readers and consumers that carry its entries to projections, and a store
for the documents the projections keep. The modules in this directory model that machinery as the
code in `src/src/` writes it, and the bank that `src/examples/bank/` builds on it; check it on small
instances with TLC; and prove the safety properties of the journal, the entities, the pipeline, the
document updates, the registries, names and adapters, and the bank with TLAPS for every value of the
constants.

Sections: [parts of the system](#parts-of-the-system), [modules](#modules),
[how the code is read](#how-the-code-is-read), [runs](#runs), [fairness](#fairness),
[proofs](#proofs), [where code and words differ](#where-code-and-words-differ),
[not modelled](#not-modelled), [plan](#plan).

## Parts of the system

| part | code | state | operations | what is hard |
|---|---|---|---|---|
| Journal | `store/journal/inmemory/InMemoryJournal.ts` | array of entries; per stream: index version → place, snapshot, truncation bound, soft-delete mark, tombstone | append, appendWith, appendAll, appendAllWith, tombstone, softDelete, truncateBefore, streamFor, streamInfo | five structures that must agree; special expected versions; adapters that throw half-way |
| Journal reader | `InMemoryJournalReader.ts` | position in the journal's array | readNext, seek, rewind | the batch is given away before anyone has handled it |
| Sourced entities | `model/sourcing/SourcedEntity.ts` | `_currentVersion`, the entity's own state | start and restore, apply, applyAll, hooks after apply and after failure | handlers suspend on the journal: others write in between; stale version; snapshots taken too early |
| Consumer | `store/journal/JournalConsumerActor.ts` | running flag, a chain of timers and promises outside the mailbox | poll, dispatch, pause, resume | pause and resume between any two steps, so several chains share one reader; errors inside a batch |
| Dispatcher and confirmer | `TextProjectionDispatcherActor.ts`, `testkit/TestConfirmer.ts` | mailbox; pending and confirmed projectables | dispatch, projectWith, confirm, checkUnconfirmed | a projection throws or does not confirm; ids that collide |
| Projection registry | `MatchableProjections.ts`, `ProjectToDescription.ts` | descriptions, a cache by cause | register, match, clear; wildcard patterns | a cache that must follow registrations |
| Document store | `document/inmemory/InMemoryDocumentStore.ts` | type → id → document; sources by id | read, write, remove, clear, types | read – await – write back by several projections; versions that start again |
| Names and entry adapters | `StoreTypeMapper.ts`, `EntryAdapterProvider.ts`, `ContextProfile.ts`, `EntryRegistry.ts`, `DefaultTextEntryAdapter.ts` | two maps of names; adapters globally, per context and in the journal, each for one version of its source | mapping, register, reset, asEntry, asSource, upcasting | writer and reader use different providers, of different age; convention that cannot be undone |
| State adapters | `StateAdapterProvider.ts`, `DefaultTextStateAdapter.ts` | one adapter for each name, and who shares the provider | registerAdapter, reset, asRawState, fromRawState | written by class, read by document type; an adapter that is replaced leaves what it wrote to its successor |
| Bank: accounts and transfers | `examples/bank/model/` | accounts, their balances and streams; the coordinator's map of pending transfers and its own stream | open, deposit, withdraw, transfer; timers that deposit, retry and refund | timers append outside the mailbox; accounts closed in between; money moved before it is recorded |
| Bank: views and queries | `examples/bank/infra/` | the event being dispatched; three kinds of documents | project, query | three documents from the same events by three pieces of code; their order; a query of two reads, which one missing document leaves without any answer |
| Supervisors | `Default*Supervisor.ts`, `ProjectionSupervisor.ts` | none | directive for an error | not modelled, see below |

Interaction: an entity's `apply` is a call of the journal's actor that it awaits. A consumer calls
the reader's actor and the dispatcher's actor and awaits both, outside of its own mailbox. The
dispatcher awaits each projection, which confirms to the confirmer and writes documents. Reader
and journal share the array of entries. The journal and the document store hold the adapter
providers there were when they were made; entities ask for theirs by context. In the bank, the bank
actor awaits accounts and the coordinator, whose timers await accounts and the journal on their own;
the events of the accounts go through consumer and dispatcher to three projections, which write the
documents that queries read.

For each part, what makes it correct:

- *Journal*: every entry belongs to one stream at one version, versions have no gaps, nothing
  written changes, a tombstone ends a stream, what readers are told agrees with what is stored,
  and a failed call leaves no trace it does not tell of.
- *Entities*: an entity's state is what its stream says at its version; an accepted batch was
  decided on all of the stream; a sole writer never conflicts; every `apply` ends.
- *Pipeline*: without failures nothing is lost or doubled however the consumer is paused; a running
  consumer polls; answers go to who called; the confirmer does not contradict itself.
- *Documents*: accepted updates are not lost and take place as if atomic; sources come with their
  document.
- *Registry, names, adapters*: answers are those of the current registrations; what was written is
  read as what it was, and an entry of an older version as that source with defaults for what it lacked.
- *Transfers*: money that left an account and arrived nowhere stays listed; nothing is paid twice unless a
  record was refused; without refusals and closed accounts every transfer settles.
- *Views*: each view lags behind its account by exactly the events it has not seen; answers of different views agree.

## Modules

| module | models | notes |
|---|---|---|
| `Journal` | `InMemoryJournal` | one action per handler: `AppendOne`, `AppendWith`, `AppendAll`, `AppendAllWith`, `Tombstone`, `SoftDelete`, `TruncateBefore`; each has its refusal and its throwing adapter. `StreamFor`, `StreamInfo` are operators |
| `EventStreams` | the promise of `Journal.ts` | abstract: streams that only grow, one history, three statuses. `Journal!Streaming` is the refinement mapping |
| `JournalProofs` | | theorems on `Journal` |
| `Ranking` | | lemmas on the n-th element of an ordered finite set, and the largest of some numbers, for the proofs on entities, pipeline, registry, views and names |
| `SourcedEntity` | `SourcedEntity` on `Journal` | `Start`/`Recover` are the two halves of restore, `Request`/`Handle`/`ConcludeAccepted`/`ConcludeFailed` those of apply; `Administer` is anyone else deleting or truncating the stream; theorems in `SourcedEntityProofs` |
| `SourcedEntityClaims`, `PipelineClaims` | words of the repository that the code does not keep | one refuted property each |
| `JournalReader` | `InMemoryJournalReader.readNext` | used by the pipeline |
| `ProjectionPipeline` | consumer, dispatcher, confirmer on `JournalReader` | a polling chain is a record with the stage it is at; the dispatcher has a mailbox and one current dispatch; theorems in `ProjectionPipelineProofs` |
| `PatternMatching`, `MatchableProjections` | matching with wildcards; the registry with its cache | `StandsFor` is the reference definition of a wildcard; theorems in `RegistriesProofs` |
| `DocumentStore` | `InMemoryDocumentStore` | every operation as an operator on the store, with refused and failing writes; no specification of its own |
| `DocumentUpdates` | the store with its clients: some read, await and write back, others write, remove and clear what they like | on `DocumentStore`; the client that writes back is `AccountSummaryProjectionActor`; theorems in `DocumentUpdatesProofs` |
| `AtomicDocument` | abstract: updates one after the other | implemented by `DocumentUpdates` |
| `StoreTypeMapper`, `EntryAdapters` | stored names; providers of entry adapters on top of them, with versions of sources and upcasting | a version of a source is the set of fields it has (`Schemas`); theorems in `EntryAdaptersProofs` |
| `BankSchemas` | the two own adapters of the bank that upcast | what `Schemas` is for the bank; the instance of `EntryAdapters` takes its sets from it |
| `BankAccounts`, `BankTransfers` | `AccountActor`; `BankActor` and `TransferCoordinatorActor` | an account's handler is one action; a transfer is a chain of stages, each between two awaits; theorems in `BankProofs` |
| `BankViews` | the three projections and `QueryHandler` | `AskForAllAccounts` and `AnswerForAllAccounts` are the two halves of `getAllAccountSummaries`, around its second await; the other queries are operators; composes `BankTransfers` with `DocumentStore`; theorems in `BankProofs` |
| `StateAdapters` | `StateAdapterProvider`, and the store that holds one | an adapter is the number of the call that registered it, so that replacing one is seen; theorems in `RegistriesProofs` |
| `MC…` | small instances | constants and views only |

Definitions named “Mutant” above the definition they vary are deliberate mistakes: a dropped
reset, an off-by-one, a swapped order. Each property of a passing run is violated when the mutant
takes the place of the definition below it, which shows that the property says something about
that code. Nothing else uses them.

## How the code is read

- *Atomicity.* An actor handles one message at a time and JavaScript runs a handler without
  interruption up to an `await`. The in-memory journal, reader and document store never let another
  handler in, so each of their handlers is one action. Entities, the consumer and the dispatcher
  await other actors; their handlers are cut at each `await`.
- *Data.* A source is a model value; `Unadaptable` ones make the entry adapter throw, `Unconsumed`
  ones have no consumer, `Unreadable` ones do not come back as their class. An entity's state is
  the sequence of sources it applied, which a deterministic consumer cannot refine further. In the
  pipeline an entry is its type, which is all that projections are matched by. In `DocumentUpdates` a
  document is the set of updates it took in. Names are sequences of characters, a character being
  its case and what it is without it.
- *Expected versions.* `Any`, `NoStream` and `StreamExists` are the code's negative numbers;
  a stated version is compared minus one, as `InMemoryJournal.ts:531` does.
- *Sorting.* `streamFor` sorts a stream by the number its entries' ids start with; the constant
  `IdNumber` gives that number. The instances use one number for all, which is the case of events that
  carry the id of their entity, or an id without a number.
- *Versions of sources.* Contents are the set of fields that are there. Upcasting adds the fields a version lacks,
  as defaults; what matters is which fields still hold what was written.
- *The bank.* An account is the only writer of its stream, and its mailbox lets one command finish before the next, so
  that deciding, appending and applying one event are one action (`SourcedEntity` models the parts). Opening an
  account is one action too. The coordinator's appends are cut: `Request` fixes the version that is expected and joins the journal's
  mailbox, and the step named after the event settles it when its turn comes. The bank handles one command at a
  time (`BankIsIdle`), timers run beside it. Where the code leaves a refusal unhandled the model ends that chain and
  nothing else; Node may be configured to end the process instead. `refusals` and `moved` are history variables
  that no guard reads, and so is `undisturbed` in the pipeline.
- *Views.* Polling and dispatching are those of `ProjectionPipeline` without pause or failure, reduced to their order.
  A projection is the only writer of its documents, so that its read and its write back are one action.
  `getAllAccountSummaries` reads the statistics and then, with `readAll`, the summaries of the accounts they list; projections
  write in between. `readAll` succeeds only if it finds all of them, and without its success the query answers `[]`
  (`QueryHandler.ts:153`). One such query at a time is under way, which is enough as queries change no document.
- *State adapters.* What an adapter writes is who wrote it and when; `registered`, `by` and `at` are history, and count calls of `registerAdapter`.
- *Clients* not in the repository (who pauses, retries, deletes, registers) do whatever the
  interface allows, at any time.

## Runs

Each run finishes within about two minutes on two cores.

| run | instance | shows |
|---|---|---|
| `journal` | 2 streams, 4 entries, batches of up to 2, one source whose adapter throws, plain snapshots, truncation at 2 | the inductive invariant `IInv` and its parts, the agreement of `streamInfo`, `streamFor` and the indexes, what a reply tells, `AppendOnly`, `TombstoneIsFinal`, and the refinement of `EventStreams` |
| `entity_writers` | 2 entities on one stream, 2 entries, one entity with a late journal, sources that fail to be written or read | `EntityMirrorsStream`, `DecidedOnCurrentState`, and, under fairness, `EveryApplyConcludes` |
| `entity_restarts` | 1 entity, 3 entries, batches of 2, snapshots of all kinds, deletion, tombstones, truncation at 2 and 4 | `VersionNeverAhead`, `SoleWriterNeverConflicts` through stops and starts |
| `entity_stale_snapshot` | 1 entity with `State` snapshots, each stored as it is, with its own version | **violated**: `RestoredStateIsTheStream` |
| `pipeline` | 3 entries of 2 types, 3 descriptions of 2 projections (one registered twice, one that may throw and may not confirm), pauses, retries, 2 chains | `NothingLostNorDoubled` as long as no projection failed and nobody retried, `AnswersMatchCalls`, `RunningMeansPolling`, `ConfirmerIsConsistent`, and, under fairness, `PollingGoesOn` and `EveryEntryIsProjected` |
| `pipeline_at_least_once` | 3 entries, a projection that throws, retries | **violated**: `AtLeastOnce` |
| `updates` | 2 types, 3 clients with 2 updates each, other writers, removals, clearing, contents that cannot be stored | `NoUpdateIsLost`, `ViewsAreEarlierDocuments` and the refinement of `AtomicDocument` until the document is removed; `SourcesComeWithADocument` throughout |
| `registry` | up to 2 of 4 overlapping descriptions, one of them with all 120 patterns of up to 4 characters, 5 reasons | `AnswersAreCurrent`, and `FormsMatchWhatTheyStandFor` against names of up to 4 characters, for the forms that `ProjectToDescription.ts` documents, in which a dot is a character like any other |
| `adapters` | 2 classes, one of them an acronym and one with two versions, adapters of either, 2 contexts, 1 entry, names of up to 4 characters | `SourcesComeBack`, `ContextsAreIndependent`, `NamesComeBack` |
| `states` | 2 document types, 2 classes and plain objects, 3 registrations under any name | `ReadByItsWriterOrALater` and the types, with what is shared in agreement |
| `transfers` | 2 accounts, 2 commands (transfers between any two accounts, deposits, withdrawals), any account closed at any time | `WithdrawnMoneyIsListed`, `PaidAgainOnlyWhenRefused`, types with balances never negative, and, under fairness, `TransfersSettle` |
| `views` | 2 accounts, 3 commands of which at most 1 is a transfer, of an amount of 1 or a negative one, accounts closed at any time | `ViewsFollowTheAccounts`; `NoViewIsMissing` and `AnswersAgree`, with a query for all accounts asked and answered at any time |

Bounds and why they are enough:

- `MaxEntries` 2–4 (3 in the pipeline: a batch of two and one behind it), `MaxBatch` 1–2: two batches and one entry more are enough for a stream to be
  deleted after a batch, reopened, truncated inside and tombstoned, with another stream's entry in
  between; the hazards are about neighbouring versions.
- `MaxChains` 2: the consumer gets a second polling chain when it is resumed while the first waits;
  a third adds no new kind of meeting. `Resume` is disabled while both are alive, which is the one behaviour the
  bound cuts.
- `MaxUpdates` 2 with 3 clients: one client may lose a race twice while another is between read and write.
- `MaxStored` 1: entries are read one by one and do not influence each other.
- `MaxTransfers` 2: two chains of timers, or one and a command, are what it takes for an append to be refused. With one
  amount, an account that has it once can pay one of two transfers. `MaxCommands` counts transfers and direct deposits and
  withdrawals together: 2 there, and 3 in `views`, where at most one is a transfer and refusals do not occur.
- `MaxRegistrations` 3: an adapter, one that replaces it, and another for a second name or after a reset.
- `MaxVersion`, `MaxSources`, `StateVersions`, `TruncateVersions`, `MaxDescriptions` bound
  arguments and counters by what tells neighbours apart.
- `VIEW store` and `VIEW unreported`: in the two runs that use them (`journal`, `entity_restarts`)
  no guard and no state invariant reads `reply` or `report`; action properties that read the primed reply are
  evaluated on each transition, before the view is taken. `VIEW WithoutLedger` (`transfers`) leaves out the events that
  only projections read: no guard, no property and no enabledness depends on them there.
- The [proofs](#proofs) hold for every value of these bounds, for whichever of the properties below they state.
- `SYMMETRY` on streams in `journal`: the module treats all streams alike, and the run has no
  liveness property.
- `CHECK_DEADLOCK FALSE` in `updates`, `transfers` and `views`: clients stop after their `MaxUpdates` or
  `MaxCommands`. All other runs check for deadlock.

## Fairness

- Entities: weak fairness of `Recover`, `Handle`, `ConcludeAccepted` and `ConcludeFailed` of each
  entity: actors serve their mailboxes, and promises that are settled resume their handlers. Nobody has to
  start, stop or request anything.
- Pipeline: weak fairness of each chain's own steps and of the dispatcher's steps: timers fire, the
  reader and the dispatcher serve their mailboxes, and `projectWith` ends. Nobody has to append, pause,
  resume or retry; `EveryEntryIsProjected` and `PollingGoesOn` speak only of a consumer that is
  left running from some moment on.
- Transfers: weak fairness of the steps of each transfer (`TransfersFairness`): a timer that was set fires, the journal and the
  accounts serve their mailboxes, and a promise that is settled resumes its handler. Nobody has to open or close an account or ask for
  anything. `TransfersSettle` excludes refused appends and a closed source account, after which the code gives up.
- The other specifications have no fairness and no liveness property.

## Proofs

The theorems hold for all sets of streams, sources, clients, accounts and so on, and for all bounds. They
assume what the modules name on their constants (below) and, where the table says so, a hypothesis.

| module | theorem | statement |
|---|---|---|
| `JournalProofs` | `Invariance` | `IInv`, which the run `journal` checks too |
| | `TypeCorrect`, `PartitionIsSafe`, `VersionsNeverGap`, `DeletionFreezes` | `TypeOK`, `StreamsPartitionJournal`, `VersionsAreGapless`, `DeletedAtCurrentVersion` |
| | `InfoIsWhatIsRead`, `PositionsNameBatches` | `InfoAgreesWithRead`, `GlobalPositionNamesItsBatch` |
| | `ReadsHaveNoGaps`, `ReadsOfOneEntity` | `ReadIsGaplessSuffix`, in states where the numbers in the ids of a stream do not fall along its versions, and always if all ids have one number |
| | `JournalOnlyGrows`, `TombstoneEndsTheStream`, `RepliesAreTrue` | the action properties `AppendOnly`, `TombstoneIsFinal`, `ReplyTellsTheOutcome` |
| | `JournalImplementsEventStreams` | the refinement of `EventStreams` |
| `SourcedEntityProofs` | `EntityInvariant`, `VersionsStayBehind` | `EntityInv`, `VersionNeverAhead` |
| | `EntitiesUseTheJournal` | `EntitySpec => Spec`: the journal's theorems hold for what entities do |
| | `StandingInvariant`, `SoleWritersMeetNoConflict` | `StandingInv`, `SoleWriterNeverConflicts` |
| | `EntitiesMirrorTheirStreams`, `BatchesAreDecidedOnCurrentState` | `EntityMirrorsStream`, `DecidedOnCurrentState`, if `NothingToHide` |
| `ProjectionPipelineProofs` | `PipelineInvariant` | `BaseInv` |
| | `ConsumerKeepsPolling`, `AnswersAreOnesOwn`, `ConfirmerKeepsItsBooks` | `RunningMeansPolling`, `AnswersMatchCalls`, `ConfirmerIsConsistent`, whatever fails |
| | `FlowInvariant`, `EntriesArriveOnce` | `FlowInv`, `NothingLostNorDoubled`, as long as no projection throws and nobody dispatches again |
| `DocumentUpdatesProofs` | `UpdatesInvariant`, `UpdatesAreKept`, `ViewsAreEarlier` | `UpdatesInv`, `NoUpdateIsLost`, `ViewsAreEarlierDocuments` |
| | `UpdatesAreAtomic` | the refinement of `AtomicDocument` |
| | `SourcesComeAlong` | the action property `SourcesComeWithADocument` |
| `RegistriesProofs` | `RegistryInvariant` | `RegistryInv` |
| | `FormsMatch`, `AnswersStayCurrent` | `FormsMatchWhatTheyStandFor`, `AnswersAreCurrent` |
| | `StatesInvariance`, `StatesTypeCorrect`, `WriterOrLaterReads` | `StatesInv`, `StatesTypeOK`, `ReadByItsWriterOrALater` |
| `EntryAdaptersProofs` | `AdaptersInvariant` | `AdaptersInv` |
| | `NamesAlwaysComeBack`, `SourcesAlwaysComeBack` | `NamesComeBack`, `SourcesComeBack`, for names of any length |
| | `ContextsStayIndependent` | the action property `ContextsAreIndependent` |
| `BankProofs` | `TransfersInvariant` | `TransfersInv` |
| | `TransfersAreTyped`, `MoneyIsListed`, `MoneyIsPaidOnce` | `TransfersTypeOK`, `WithdrawnMoneyIsListed`, `PaidAgainOnlyWhenRefused` |
| | `ViewsInvariant`, `QueriedInvariant` | `ViewsInv`, `QueriedFits` |
| | `ViewsLagBehind`, `NoViewFails`, `AnswersAlwaysAgree` | `ViewsFollowTheAccounts`, `NoViewIsMissing`, `AnswersAgree` |
| | `MoneyStaysSafe` | the three properties of the transfers, while views are written |

### Assumptions

Most are types: bounds are natural numbers, the special sources are sources, `StreamOf` and `IdNumber` are functions.
The others, and why the code justifies them:

- `Null` and `NoDocument` are none of the values they stand beside (`NullAssumption`, `NoDocumentAssumption`,
  `NoViewAssumption`): `null` and a missing key are not objects.
- `StateVersionsAssumption`: the constructor of `State` rejects a version that is not positive.
- `SnapshotStatesAssumption`: where entities take snapshots, the journal accepts every state an entity can have. Instances
  bound the journal's `SnapshotValues`; without this the bound would be a refusal that the code does not have.
- `DescriptionsAssumption` of the pipeline: its descriptions are a list.
- `NamesAssumption`, and in the registry `DescriptionsAssumption`, `NamesAssumption` and `StarAssumption`: the name of a class, a
  pattern and a name it is tried on are strings, sequences of characters, of which `*` is one.
- `SchemasAssumption`: a class has a first version, and own adapters only for versions that it has.
- `ViewsAssumption`: the store has room for the bank's documents and the bank's documents are storable. It excludes nothing
  that the bank writes.

Hypotheses: `NothingToHide` says that no snapshots are taken, nobody deletes or truncates streams, and ids do not
reorder them. No entity in `src/examples/` takes snapshots, and nothing there deletes or truncates a stream. The run `entity_stale_snapshot` refutes the property with
snapshots. One number for all ids is needed because `streamFor` sorts by them; with other ids a read really
has gaps (see [below](#where-code-and-words-differ)).

### Arguments

*Journal.* `IInv` is the conjunction of the type invariant, `EntriesFit`, `StreamsPartitionJournal` (each index leads to
entries of its stream, indexes are disjoint, every entry is indexed), `VersionsAreGapless`, `VersionsTrailPlaces` and
`DeletedAtCurrentVersion`. `VersionsTrailPlaces` (a version is never larger than the place of its entry) is needed because the
type of an index bounds versions by the length of the journal; without it an append could not be shown to keep the type.
The partition and gaplessness need each other: the next version is free only because versions have no gap, and
the new place is free only because indexes lead to entries that are there.
Every append handler is, by lemma `AppendEffect`, a batch stored at the end of one
stream, an adapter's throw that stores nothing, or a refusal; what a stored batch does to the
indexes and the journal is stated once (`StoredGrows`, `GrownShape`) and each part of the invariant is shown to
survive it in a lemma of its own (`GrownKeeps…`). Lifecycle handlers leave journal and indexes
alone. A stored batch is `Publish` under the refinement mapping (`GrownPublishes`).
What `streamFor` returns is defined by rank: the n-th entry is the one with n - 1 before it. Where ids do not reorder
the entries that is the n-th visible version.

*Ranking.* Elsewhere the order is arbitrary: what is read of a stream, the projections that match, the accounts listed. That each
rank is somebody's and only one's would be an induction on finite sets, which `Ranking` replaces by a pigeonhole argument: the
ranks of n elements are n different numbers below n.

*Entities.* `EntityInv` adds to `IInv` the types, that snapshots are states an entity can have, and `Fits`: a version is
never ahead of the stream, and what was read or requested was so when it was. Each step of an entity is a step of the journal
or leaves it alone, hence `EntitiesUseTheJournal`. `StandingInv` follows an entity that is the only writer of a stream whose sources
it can consume and read through its phases: it is in step with the stream, or about to be, or its stream has a snapshot it cannot read,
when it stays at version 0. This last case is the one in which a sole writer may be refused, and `SoleWriterNeverConflicts` excludes it.
`MirrorInv` says that what an entity has applied begins its stream; an accepted batch was then decided on all of it because
the version that the journal compared is the length of what was applied.

*Pipeline.* `BaseInv` counts: nobody is ahead of the reader, a chain that waits has exactly one dispatch in the
mailbox, current or answered, and a chain that does not has none. From the counts it follows that an answer reaches the chain that called.
`FlowInv` says where an entry is as long as nothing failed: in one batch, in the mailbox or handled, and
with no projection before its turn. It is conditional on `undisturbed`, which never becomes true again.

*Documents.* `UpdatesInv` adds to the two checked invariants the types, that a client which reads has an update left, and
that accepted updates are those that were tried. An accepted write is the atomic update under the mapping since
the version it was based on is the current one, and then what was read is the current document; every other step stutters or removes.

*Names and adapters.* That `KebabToPascal` undoes `PascalToKebab` on a name made of words (`ConventionIsUndone`) is an
induction over the name: when the first k characters of the name have been stored, what is read of that much of the stored
name are these characters, a word begins exactly where a hyphen was put, and nothing read so far ends in a hyphen. Both directions are
sequences of parts put one after the other (`AreJoined`), and the least prefix at which the claim fails takes the place of the induction.
`AdaptersInv` adds that a name a type was mapped to is mapped to some type, so that it is never left to the convention; that
providers hold adapters of versions there are; and that entries have a version from 1 on, so that an own adapter which
is not older than an entry never takes it for what it cannot read.

*Registry.* `RegistryInv` says that what is kept for a reason is an answer for the descriptions there are now, which a new description
would end and `register` therefore clears. `FormsMatch` compares the five cases of `matchesPattern` with a rule that knows no cases:
`StandsFor` computes, from the end of a pattern, the places in a name from which the rest of the pattern fits. For a documented form these places are written down
without recursion (`Fits`), shown to satisfy the equations of `StandsFor` (`FittingEndsAreEnds`) and to be the only ones that do
(`TheEndsAreFitting`, by the last place at which two solutions differ); each of the four kinds of pattern is then compared with its case. What `Found` folds over the
descriptions is, after the first k of them, an answer for these k (`FoundIsAnswer`). That the fold's equation has a
solution at all is part of the proof (`ThereIsAFold`). Least counterexamples take the place of inductions in all three.

*Transfers.* `ChainFits` relates the stage of a transfer to the map and to what was moved: nothing moves before the withdrawal, a transfer is listed
from before its withdrawal until its chain ends, and there is no further attempt after a deposit unless the record of its completion was
refused. The properties speak of all states; the stages between two awaits are where they need the most. The theorems on transfers use
nothing of the views.

*Views.* `ViewsInv` has these parts beside `TransfersInv`: transfers are between open accounts; an event being dispatched has
some of its three projections before it; the documents in the store are what the projections make; the unread events come in
order (an account is opened once, before anything else happens to it); the three documents agree (`SummaryHasTheEvent`,
`HistoryFollowsSummary`, `AccountsAreListed`, `StatisticsAddUp`, `BalancesAddUp`); and each view lags by the unread events (`ViewsLag`).
The agreement is corrected for an event that some projections have seen and others have not, which is
why `AnswersAgree`, of the moments between two dispatches, is not inductive alone. The totals of the statistics are folds over the
listed accounts; that a fold changes with one account by that account's change is proved by a least counterexample over its partial sums
(`FoldIsATotal`). `QueriedFits` is the invariant of the query under way: the accounts it was told of have summaries,
since no step removes one (`ViewStepKeepsViews`), and those that the statistics list have theirs by `AccountsAreListed`.

### Only model-checked

- The liveness properties `EveryApplyConcludes`, `EveryEntryIsProjected`, `PollingGoesOn` and `TransfersSettle`: fairness
  and `ENABLED` are beyond the prover.
- `EntityMirrorsStream` and `DecidedOnCurrentState` beyond `NothingToHide`: the run `entity_writers`.

## Where code and words differ

Two disagreements are refuted by runs:

- `entity_stale_snapshot`: `restore` takes the version of the stream for that of the snapshot (`SourcedEntity.ts:290, 329`)
  and skips that many sources (`:299`). A snapshot is taken before the sources it is appended with are applied (`:346`), and more may have
  been appended since, so an entity restored from it is at the right version without their effect. The
  comment at `:294` says “Apply only entries AFTER the snapshot version”.
- `pipeline_at_least_once`: the reader has moved past the whole batch when it is dispatched. An error of a projection
  ends the loop over the batch (`JournalConsumerActor.ts:202`), and an entry behind the one that failed, which had not been
  dispatched, gets to no projection and is not among the unconfirmed that a retry looks at. `ProjectionDispatcher.ts:40`
  promises “At-least-once delivery semantics via confirmation”.

Others the models show as behaviours, without a run of their own:

- Entries of one batch share their `globalPosition` (`InMemoryJournal.ts:455`), which `Entry.ts:33` calls
  the position in the journal. `GlobalPositionNamesItsBatch` says what does hold.
- An empty `appendAll`, or an append whose adapter throws, reopens a soft-deleted stream without a new event
  (`InMemoryJournal.ts:103, 184`; `Journal.ts:258`). `EventStreams!Publish` therefore allows an empty batch.
- No marker is written for a tombstone: what `TombstoneResult.ts:48` calls the position where it was written is the place of
  the next entry, of any stream (`InMemoryJournal.ts:346`).
- `StreamDeleted`, which `Result.ts:107` explains as permanently deleted, is also what a stream that was soft-deleted
  before gets from `softDelete` (`InMemoryJournal.ts:363`). `ReplyTellsTheOutcome` shows that the version in the reply tells them apart.
- Streams are sorted by `parseInt` of ids that sources choose, not by version (`InMemoryJournal.ts:620`).
- `append(stream, 5, …)` succeeds at version 4, not “if stream is at version 5” (`StreamState.ts:38`).
- A plain snapshot is wrapped by the journal in a state that the default adapter cannot read back
  (`InMemoryJournal.ts:246`), so overriding `snapshot` and `restoreSnapshot` is not enough; `SnapshotReadable`.
- After a version conflict an entity keeps its version, so a retry is refused again (`SourcedEntity.ts:365`,
  `DomoTactical.md:1018`).
- When a consumer or `afterApply` throws after the journal accepted, the failure names sources that were
  appended (`SourcedEntity.ts:353`); when `afterApplyFailed` answers an error it is called twice (`:380`).
- A projectable without state has only its type for an id in the confirmer (`TestConfirmer.ts:185`): one
  confirmation hides failures on other entries of the type.
- After pause and resume two chains may deliver entries out of order (`JournalConsumerActor.ts:245`).
- A reader sent beyond the end, which the code allows “for future entries” (`InMemoryJournalReader.ts:106`), falls back to the
  end at the next read (`:74`) and then gets the entries it was sent past.
- `types()` names types without documents after refused writes and removals, `remove` takes the sources of
  other types' documents with the same id, and versions start again after a removal, so a write based on the
  removed document may replace newer updates (`InMemoryDocumentStore.ts:226, 333`).
- A name that is given to another type is left with the type that had it before as well (`StoreTypeMapper.ts:108`): what that one
  stores under it is read as the other type. `NamesComeBack` excludes such names.
- `MatchableProjections.ts:32` and its example (`:52-60`) take `'Account.*'` for any event that begins with `Account`, such as
  `AccountOpened`. `matchesPattern` (`ProjectToDescription.ts:170`) keeps the dot in the prefix, as `ProjectToDescription.ts:149` documents
  for namespaces, so the audit projection of that example never gets the event. `FormsMatchWhatTheyStandFor` takes
  the dot as the latter does: the run `registry` has dots among its patterns and names, and there `x.*` matches `x.x` and not `xx`.
- The first registration in a context hides all global adapters from its entities (`SourcedEntity.ts:82`).
- A registered class with an acronym for a name is read back as a plain object (`EntryAdapterProvider.ts:221`).
- The state of a document that is a plain object is written without the adapter of its type and read with it
  (`StateAdapterProvider.ts:138`).
- Registering another adapter for a type replaces the first one (`StateAdapterProvider.ts:110`), so that it must know the form in which the
  first one wrote what is stored; `ReadByItsWriterOrALater` says that nothing else ever reads it.
- Where only the default adapter is registered, an entry is labelled with the version its source states, 1 unless the class says otherwise,
  with all the fields the class has (`DefaultTextEntryAdapter.ts:151`). An own adapter registered later takes it for one of the
  first version and replaces the newer fields by defaults; `SourcesComeBack` says when that happens.
- Projections are matched by the name an entry is stored under (`JournalConsumerActor.ts:230`), which the adapter that wrote it
  chose: the bank's descriptions by class name work because its adapters are registered before the first event.
- A pending transfer has the status “withdrawn” from `TransferInitiated` on (`TransferCoordinatorActor.ts:139`), which `BankTypes.ts:72`
  explains as funds withdrawn: it is listed so before the withdrawal and remains so when that is refused.
- A refusal of `TransferCompleted` is taken for a failed deposit (`:212`), and the amount is deposited again or refunded on top;
  `PaidAgainOnlyWhenRefused` bounds that by the number of refusals.
- A refusal of `TransferWithdrawn` fails the command after the money left (`:156`), one of `TransferDepositFailed` ends the retries (`:224`);
  the transfer stays listed, and nobody goes on with it.
- The bank's statistics count the opening of an account as a deposit but not as a transaction, while its summary counts it as one.

## Not modelled

- *Supervisors*: their directives act through the actor runtime `domo-actors`, which is outside of the repository.
- *Values* (`Entry`, `Source`, `Metadata`, `Result`, …): immutable, without operations that change state.
- *The simple example* and the bank's console (`bank.ts` beyond the wiring of its projections): menus, output and scripted calls.
- *In the bank*: a coordinator or account that is stopped and restored (nothing in the example does so, and its journal lives and dies with
  the process), the adapters of events with one version, owners, dates and other texts of the documents, account types.
- Within modelled parts: `seek` and `rewind` of a reader (nothing in `src/` calls them), `beforeApply`,
  empty snapshots, ids of which only some have numbers, negative expected versions other than the special
  ones, property transforms of contents, upcasting of states, `TestConfirmer.reset`, and descriptions registered while entries flow.

## Plan

Order in which the modules were and will be written, the most important behaviour first:

1. Done: `Journal`, `EventStreams` and their proofs; `SourcedEntity`; `JournalReader` and
   `ProjectionPipeline`; `DocumentStore`, `DocumentUpdates`, `AtomicDocument`; registry, names, adapters with versions of
   sources; the bank's accounts, transfers and views.
2. Model: two consumers on one named reader, with `seek` and `rewind`; `TestConfirmer.reset`; supervision directives with
   the restarts of entities they cause (the order in which words of a message are matched, “Stop” and “Resume” of storage
   failures); upcasting in state adapters; an abstract specification of a pipeline without failures that
   `ProjectionPipeline` implements.
3. Done: proofs of the safety properties of the journal, the entities, the pipeline, the document updates, the registries,
   names and adapters, and the bank.
4. Prove: `EntityMirrorsStream` with deletions and truncations, for entities that the administrator leaves alone; the refinement of
   the pipeline's abstract specification.
