---------------------------- MODULE SourcedEntity ----------------------------
(***************************************************************************)
(* Event- and command-sourced entities (src/model/sourcing/                *)
(* SourcedEntity.ts) on top of the journal of module Journal.  An entity   *)
(* is an actor: it handles one message at a time, but its handlers await   *)
(* the journal, another actor, so that the requests of several entities    *)
(* on one stream interleave between the points where an entity suspends.   *)
(* Its state is the sequence of sources it has applied, which is what a    *)
(* deterministic consumer can tell apart.                                  *)
(*                                                                         *)
(* restore() is Start (the stream is read) and Recover (what was read is   *)
(* applied); apply() is Request, Handle (in the journal's actor) and       *)
(* Conclude.                                                               *)
(***************************************************************************)
EXTENDS Journal

CONSTANTS
  Entities,
  StreamOf,       \* entity -> its streamName
  Unconsumed,     \* sources without a registered consumer
  Unreadable,     \* sources whose entry does not come back as their class
  LateJournal,    \* entities given their journal by setJournal() after start()
  SnapshotKinds,  \* what snapshot() may answer: "none", "plain", "state"
  Administered,   \* streams that are deleted or truncated by somebody else
  ObjectsReadable \* whether the registered StateAdapter reads object states

ASSUME StreamOfAssumption == StreamOf \in [Entities -> Streams]
ASSUME AdministeredAssumption == Administered \subseteq Streams
ASSUME LateJournalAssumption == LateJournal \subseteq Entities
ASSUME ConsumersAssumption == Unconsumed \subseteq Sources /\ Unreadable \subseteq Sources
ASSUME SnapshotKindsAssumption ==
  SnapshotKinds \subseteq {"none", "plain", "state"} /\ ObjectsReadable \in BOOLEAN
\* Where snapshots are taken, the journal stores any state an entity can have,
\* dated at any version it can have.
ASSUME SnapshotStatesAssumption ==
  \/ SnapshotKinds \subseteq {"none"}
  \/ /\ \A n \in 0 .. MaxEntries : [1 .. n -> Sources] \subseteq SnapshotValues
     /\ 1 .. MaxEntries \subseteq StateVersions

VARIABLES
  phase,    \* entity -> where its current handler stands
  state,    \* entity -> the sources it has applied, oldest first
  version,  \* entity -> _currentVersion
  read,     \* entity -> the EntryStream it is restoring from
  request,  \* entity -> the append it awaits
  report    \* entity -> how its last restore or apply ended

entityVars == <<phase, state, version, read, request, report>>
allVars == <<vars, entityVars>>

Phases == {"stopped", "restoring", "idle", "requested", "answered"}
NoRead == EntryStream(0, <<>>, NoSnapshot, "none")
NoRequest == [sources |-> <<>>, snapshot |-> NoSnapshot, answer |-> "none"]

\* hooks counts the calls of afterApplyFailed for one apply.
Report(e, result, sources, answer, hooks) ==
  report' = [report EXCEPT ![e] = [result |-> result, sources |-> sources,
                                   answer |-> answer, hooks |-> hooks]]
NoReport == [result |-> "none", sources |-> <<>>, answer |-> "none", hooks |-> 0]

----------------------------------------------------------------------------
(* Restoring *)

\* A new instance: initial state, version 0, and the stream as it is now.
Start(e) ==
  /\ phase[e] = "stopped"
  /\ phase' = [phase EXCEPT ![e] = "restoring"]
  /\ state' = [state EXCEPT ![e] = <<>>]
  /\ version' = [version EXCEPT ![e] = 0]
  /\ read' = [read EXCEPT ![e] = StreamFor(StreamOf[e])]
  /\ Report(e, "none", <<>>, "none", 0)
  /\ UNCHANGED <<vars, request>>

\* Without a journal restore() returns at once, and is not called again when
\* the journal is set.
StartWithoutJournal(e) ==
  /\ phase[e] = "stopped"
  /\ e \in LateJournal
  /\ phase' = [phase EXCEPT ![e] = "idle"]
  /\ state' = [state EXCEPT ![e] = <<>>]
  /\ version' = [version EXCEPT ![e] = 0]
  /\ Report(e, "notRecovered", <<>>, "none", 0)
  /\ UNCHANGED <<vars, read, request>>

\* The leading sources that applySource takes before it throws.
Applicable(sources, without) ==
  LET stuck == {i \in DOMAIN sources : sources[i] \in without}
  IN  IF stuck = {} THEN sources ELSE SubSeq(sources, 1, Min(stuck) - 1)

SourcesOf(stream) == [i \in DOMAIN stream.entries |-> stream.entries[i].source]

\* Whatever version the snapshot carries, the entity takes that of the stream,
\* and skips as many entries.
Skipped(stream) == IF stream.snapshot = NoSnapshot THEN 0 ELSE stream.streamVersion

\* Mutant: the whole stream is replayed on top of the snapshot.
SourcesToApplyAll(stream) == SourcesOf(stream)

SourcesToApply(stream) ==
  SubSeq(SourcesOf(stream), Skipped(stream) + 1, Len(stream.entries))

\* Mutant: the entries that were read are counted.
RestoredVersionByCount(stream) == Len(stream.entries)

RestoredVersion(stream) == stream.streamVersion

SnapshotReadable(stream) ==
  stream.snapshot # NoSnapshot => ~stream.snapshot.wrapped \/ ObjectsReadable

RestoredSnapshot(stream) ==
  IF stream.snapshot = NoSnapshot THEN <<>> ELSE stream.snapshot.value

\* A StorageException out of start(): the supervisor resumes the entity as it
\* is, or it never gets to run.
NotRecovered(e, applied, reached) ==
  /\ \E next \in {"idle", "stopped"} : phase' = [phase EXCEPT ![e] = next]
  /\ state' = [state EXCEPT ![e] = applied]
  /\ version' = [version EXCEPT ![e] = reached]
  /\ Report(e, "notRecovered", <<>>, "none", 0)

Recover(e) ==
  LET stream == read[e]
      sources == SourcesToApply(stream)
      applied == Applicable(sources, Unconsumed \cup Unreadable)
      base == RestoredSnapshot(stream)
  IN  /\ phase[e] = "restoring"
      /\ \/ /\ ~SnapshotReadable(stream)
            /\ NotRecovered(e, <<>>, 0)
         \/ /\ SnapshotReadable(stream)
            /\ applied # sources
            /\ NotRecovered(e, base \o applied, Skipped(stream))
         \/ /\ SnapshotReadable(stream)
            /\ applied = sources
            /\ phase' = [phase EXCEPT ![e] = "idle"]
            /\ state' = [state EXCEPT ![e] = base \o sources]
            /\ version' = [version EXCEPT ![e] = RestoredVersion(stream)]
            /\ Report(e, "recovered", <<>>, "none", 0)
      /\ read' = [read EXCEPT ![e] = NoRead]
      /\ UNCHANGED <<vars, request>>

\* Stopped between two messages, to be started again as a new instance.
Stop(e) ==
  /\ phase[e] = "idle"
  /\ phase' = [phase EXCEPT ![e] = "stopped"]
  /\ state' = [state EXCEPT ![e] = <<>>]
  /\ version' = [version EXCEPT ![e] = 0]
  /\ Report(e, "none", <<>>, "none", 0)
  /\ UNCHANGED <<vars, read, request>>

----------------------------------------------------------------------------
(* Applying *)

\* Bound: the journal has room for every batch under way and for this one.
Room(sources) ==
  LET underWay == {e \in Entities : phase[e] = "requested"}
      Size(e) == Len(request[e].sources)
  IN  Len(journal) + MapThenSumSet(Size, underWay) + Len(sources) <= MaxEntries

\* snapshot() is asked before the sources are applied, and dates a State of its
\* own at the version the entity has then.
Snapshot(e, kind) ==
  CASE kind = "none"  -> NoSnapshot
    [] kind = "plain" -> [kind |-> "plain", value |-> state[e]]
    [] kind = "state" -> [kind |-> "state", value |-> state[e],
                          dataVersion |-> version[e]]

\* Up to the await of the journal.
Request(e, sources, kind) ==
  /\ phase[e] = "idle"
  /\ kind = "state" => version[e] > 0
  /\ Room(sources)
  /\ phase' = [phase EXCEPT ![e] = "requested"]
  /\ request' = [request EXCEPT ![e] = [sources |-> sources,
                                        snapshot |-> Snapshot(e, kind),
                                        answer |-> "none"]]
  /\ UNCHANGED <<vars, state, version, read, report>>

\* Mutant: the version is not the one the entity decided on.
NextVersionOfStream(e) == CurrentVersion(StreamOf[e]) + 1

NextVersion(e) == version[e] + 1

\* Mutant: an adapter that throws in the journal leaves the entity waiting.
HandleUnanswered(e) ==
  LET expected == NextVersion(e)
      asked == request[e]
  IN  /\ phase[e] = "requested"
      /\ IF asked.snapshot = NoSnapshot
         THEN AppendAll(StreamOf[e], expected, asked.sources)
         ELSE AppendAllWith(StreamOf[e], expected, asked.sources, asked.snapshot)
      /\ reply'.result # "Thrown"
      /\ phase' = [phase EXCEPT ![e] = "answered"]
      /\ request' = [request EXCEPT ![e].answer = reply'.result]
      /\ UNCHANGED <<state, version, read, report>>

\* The journal handles the request; expected is nextVersion() when it was made,
\* and the entity's version does not change while it waits.
Handle(e) ==
  LET expected == NextVersion(e)
      asked == request[e]
  IN  /\ phase[e] = "requested"
      /\ IF asked.snapshot = NoSnapshot
         THEN AppendAll(StreamOf[e], expected, asked.sources)
         ELSE AppendAllWith(StreamOf[e], expected, asked.sources, asked.snapshot)
      /\ phase' = [phase EXCEPT ![e] = "answered"]
      /\ request' = [request EXCEPT ![e].answer = reply'.result]
      /\ UNCHANGED <<state, version, read, report>>

\* afterApplyFailed answers an error to throw, or null.  Thrown inside the try
\* block it is caught there, and the hook is called once more.
Failed(e) ==
  \/ Report(e, "suppressed", request[e].sources, request[e].answer, 1)
  \/ IF request[e].answer \in {"ConcurrencyViolation", "StreamDeleted"}
     THEN \E result \in {"suppressed", "failed"} :
            Report(e, result, request[e].sources, request[e].answer, 2)
     ELSE Report(e, "failed", request[e].sources, request[e].answer, 1)

Concluded(e) ==
  /\ phase' = [phase EXCEPT ![e] = "idle"]
  /\ request' = [request EXCEPT ![e] = NoRequest]
  /\ UNCHANGED <<vars, read>>

\* The sources are applied one by one; a consumer that is missing stops the
\* loop, and afterApply or andThen may throw behind it.
ConcludeAccepted(e) ==
  LET sources == request[e].sources
      applied == Applicable(sources, Unconsumed)
  IN  /\ phase[e] = "answered"
      /\ request[e].answer = "Success"
      /\ state' = [state EXCEPT ![e] = @ \o applied]
      /\ version' = [version EXCEPT ![e] = @ + Len(applied)]
      /\ \/ applied = sources /\ Report(e, "applied", sources, "Success", 0)
         \/ Failed(e)
      /\ Concluded(e)

\* Mutant: the sources are applied before the result is looked at.
ConcludeFailedApplied(e) ==
  /\ phase[e] = "answered"
  /\ request[e].answer # "Success"
  /\ Failed(e)
  /\ state' = [state EXCEPT ![e] = @ \o request[e].sources]
  /\ version' = [version EXCEPT ![e] = @ + Len(request[e].sources)]
  /\ Concluded(e)

ConcludeFailed(e) ==
  /\ phase[e] = "answered"
  /\ request[e].answer # "Success"
  /\ Failed(e)
  /\ UNCHANGED <<state, version>>
  /\ Concluded(e)

----------------------------------------------------------------------------
EntityInit ==
  /\ Init
  /\ phase = [e \in Entities |-> "stopped"]
  /\ state = [e \in Entities |-> <<>>]
  /\ version = [e \in Entities |-> 0]
  /\ read = [e \in Entities |-> NoRead]
  /\ request = [e \in Entities |-> NoRequest]
  /\ report = [e \in Entities |-> NoReport]

EntityStep(e) ==
  \/ Start(e)
  \/ StartWithoutJournal(e)
  \/ Recover(e)
  \/ Stop(e)
  \/ \E sources \in Batches, kind \in SnapshotKinds : Request(e, sources, kind)
  \/ Handle(e)
  \/ ConcludeAccepted(e)
  \/ ConcludeFailed(e)

\* Somebody else deletes, tombstones or truncates streams.
Administer ==
  /\ \E s \in Administered : LifecycleStep(s)
  /\ UNCHANGED entityVars

EntityNext == Administer \/ \E e \in Entities : EntityStep(e)

EntitySpec == EntityInit /\ [][EntityNext]_allVars

\* Mailboxes deliver what was sent and promises are settled, so a handler that
\* began is finished.  Nobody is obliged to start or to apply anything.
EntityFairness ==
  \A e \in Entities :
    /\ WF_allVars(Recover(e))
    /\ WF_allVars(Handle(e))
    /\ WF_allVars(ConcludeAccepted(e))
    /\ WF_allVars(ConcludeFailed(e))

FairEntitySpec == EntitySpec /\ EntityFairness

----------------------------------------------------------------------------
(* Properties *)

\* xs is how ys begins.
Begins(xs, ys) == Len(xs) <= Len(ys) /\ xs = SubSeq(ys, 1, Len(xs))

\* Without snapshots, truncation and deletion every entity is what its stream
\* says it is up to the entity's version, and a batch that was accepted but not
\* applied yet is what comes next in the stream.  An entity that was not
\* recovered is at version 0, whatever part of the stream it has applied.
EntityMirrorsStream ==
  \A e \in Entities :
    LET events == EventsOf(StreamOf[e])
    IN  /\ Begins(state[e], events)
        /\ version[e] = Len(state[e]) \/ version[e] = 0
        /\ phase[e] = "answered" /\ request[e].answer = "Success"
             => Begins(state[e] \o request[e].sources, events)
        /\ phase[e] = "restoring" => Begins(SourcesOf(read[e]), events)

\* Optimistic concurrency does what it is for: a batch is accepted only from an
\* entity whose state is all of its stream, so that what the entity decided was
\* decided on the current state, although others may write while it waits.
DecidedOnCurrentState ==
  [][\A e \in Entities :
       phase[e] = "requested" /\ request'[e].answer = "Success"
         => EventsOf(StreamOf[e]) = state[e]]_allVars

\* An entity's version never runs ahead of its stream, through restores from
\* snapshots, soft-deleted, truncated and tombstoned streams; and no event
\* counts twice in its state, be it from the snapshot, from the replay or from
\* the entity's own batches.  (An entity that was not recovered is at version 0
\* with part of its state applied, and stays there.)
VersionNeverAhead ==
  \A e \in Entities :
    /\ version[e] <= CurrentVersion(StreamOf[e])
    /\ Len(state[e]) <= CurrentVersion(StreamOf[e])
    /\ Len(state[e]) <= version[e] \/ version[e] = 0

\* An entity that is the only writer of its stream and whose events can all be
\* applied and read back never meets a version conflict, whatever was deleted,
\* truncated or restarted in between: restore() always finds the version that
\* the journal expects.
SoleWriter(e) == \A d \in Entities \ {e} : StreamOf[d] # StreamOf[e]
SoleWriterNeverConflicts ==
  \A e \in Entities \ LateJournal :
    /\ SoleWriter(e)
    /\ \A v \in Versions(StreamOf[e]) :
         EventsOf(StreamOf[e])[v] \notin Unconsumed \cup Unreadable
    /\ SnapshotReadable([snapshot |-> snapshots[StreamOf[e]]])
    => request[e].answer # "ConcurrencyViolation"

\* Every apply comes to an end, accepted or not, whoever else is writing: the
\* journal answers every request, also those its adapter throws on.
EveryApplyConcludes ==
  \A e \in Entities : phase[e] = "requested" ~> phase[e] = "idle"
=============================================================================
