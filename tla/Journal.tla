------------------------------ MODULE Journal ------------------------------
(***************************************************************************)
(* The in-memory journal actor (src/store/journal/inmemory/                *)
(* InMemoryJournal.ts): one append-only sequence of entries shared by all  *)
(* streams, an index from stream versions to positions, one snapshot slot  *)
(* per stream, and the lifecycle of a stream (active, soft-deleted,        *)
(* tombstoned, truncated).  No handler awaits anything, so each of them is *)
(* one action.  Readers share these structures by reference; what they     *)
(* answer is the operators StreamFor and StreamInfo.                       *)
(***************************************************************************)
EXTENDS Integers, Sequences, FiniteSets, FiniteSetsExt

CONSTANTS
  Streams,          \* stream names
  Sources,          \* events and commands that can be appended
  Unadaptable,      \* the sources whose EntryAdapter throws
  IdNumber,         \* parseInt(source.id()), as streamFor compares entries
  SnapshotValues,   \* contents of a snapshot
  StateVersions,    \* dataVersion of a snapshot that is already a State
  TruncateVersions, \* arguments of truncateBefore
  NoSnapshot,       \* null
  MaxEntries,       \* bound: length of the journal
  MaxBatch          \* bound: sources in one appendAll

ASSUME UnadaptableAssumption == Unadaptable \subseteq Sources
\* Ids without a leading number all compare as equal (NaN): such sources are
\* modelled by one common number.  Streams mixing both kinds are left out.
ASSUME IdNumberAssumption == IdNumber \in [Sources -> Int]
\* The constructor of State rejects a dataVersion that is not positive.
ASSUME StateVersionsAssumption == StateVersions \subseteq Nat \ {0}
ASSUME TruncateVersionsAssumption == TruncateVersions \subseteq Nat
ASSUME BoundsAssumption == MaxEntries \in Nat /\ MaxBatch \in Nat \ {0}

VARIABLES
  journal,           \* all entries; position p of the code is p + 1 here
  streamIndexes,     \* stream -> version -> place in journal
  snapshots,         \* stream -> latest snapshot
  tombstones,        \* streams deleted for good
  softDeleted,       \* stream -> version it was soft-deleted at
  truncateBeforeMap, \* stream -> first visible version
  reply              \* what the last handler answered (or that it threw)

store == <<journal, streamIndexes, snapshots, tombstones, softDeleted,
           truncateBeforeMap>>
vars == <<store, reply>>

----------------------------------------------------------------------------
(* Values *)

Any == -2
NoStream == -1
StreamExists == -4
SpecialStates == {Any, NoStream, StreamExists}

NotDeleted == -1
NoReply == [op |-> "none", stream |-> "none", result |-> "none", version |-> 0]

ExpectedVersions == SpecialStates \cup (0 .. MaxEntries + 1)
Batches == UNION {[1 .. n -> Sources] : n \in 0 .. MaxBatch}

\* A snapshot argument: a plain value, or a State with its own dataVersion.
PlainSnapshots == [kind : {"plain"}, value : SnapshotValues]
StateSnapshots == [kind : {"state"}, value : SnapshotValues,
                   dataVersion : StateVersions]
SnapshotArgs == {NoSnapshot} \cup PlainSnapshots \cup StateSnapshots

Entries == [source : Sources, streamVersion : Nat, globalPosition : Nat]
\* A partial map from versions to places.
Indexes == UNION {[V -> 1 .. MaxEntries] : V \in SUBSET (1 .. MaxEntries)}
StoredSnapshots == [value : SnapshotValues, dataVersion : Nat,
                    wrapped : BOOLEAN]

----------------------------------------------------------------------------
(* Helpers of the journal *)

Versions(s) == DOMAIN streamIndexes[s]

StreamIsEmpty(s) == Versions(s) = {}

CurrentVersion(s) == IF StreamIsEmpty(s) THEN 0 ELSE Max(Versions(s))

IsSoftDeleted(s) == softDeleted[s] # NotDeleted

\* Mutant: any version at or after the current one is accepted.
ValidExpectedVersionLoose(s, expected) ==
  \/ expected \in {Any, NoStream, StreamExists}
  \/ expected >= CurrentVersion(s)

\* A negative number that is none of the three constants is not checked.
ValidExpectedVersion(s, expected) ==
  \/ expected = Any
  \/ expected = NoStream /\ CurrentVersion(s) = 0
  \/ expected = StreamExists /\ CurrentVersion(s) # 0
  \/ expected >= 0 /\ expected - 1 = CurrentVersion(s)
  \/ expected < 0 /\ expected \notin SpecialStates

\* Mutant: StreamExists is forgotten and taken for a version.
ResolveActualVersionForgetful(s, expected) ==
  IF expected \in {Any, NoStream} THEN CurrentVersion(s) + 1 ELSE expected

ResolveActualVersion(s, expected) ==
  IF expected \in SpecialStates THEN CurrentVersion(s) + 1 ELSE expected

\* Mutant: the position is taken after the entry was pushed.
SourceToEntryAfterPush(source, version) ==
  [source |-> source, streamVersion |-> version,
   globalPosition |-> Len(journal) + 1]

\* globalPosition is the length of the journal when the entry is built.
SourceToEntry(source, version) ==
  [source |-> source, streamVersion |-> version,
   globalPosition |-> Len(journal)]

\* The whole batch is built before any of it is inserted.
SourcesToEntries(sources, from) ==
  [i \in 1 .. Len(sources) |-> SourceToEntry(sources[i], from + i - 1)]

\* Mutant: every entry of a batch is indexed at the place of the first.
InsertAtFirst(s, from, entries) ==
  /\ journal' = journal \o entries
  /\ streamIndexes' =
       [streamIndexes EXCEPT ![s] =
          [v \in Versions(s) \cup (from .. from + Len(entries) - 1) |->
             IF v \in Versions(s) THEN streamIndexes[s][v] ELSE Len(journal) + 1]]

Insert(s, from, entries) ==
  /\ journal' = journal \o entries
  /\ streamIndexes' =
       [streamIndexes EXCEPT ![s] =
          [v \in Versions(s) \cup (from .. from + Len(entries) - 1) |->
             IF v \in from .. from + Len(entries) - 1
             THEN Len(journal) + (v - from) + 1
             ELSE streamIndexes[s][v]]]

StoredSnapshot(snapshot, version) ==
  IF snapshot.kind = "state"
  THEN [value |-> snapshot.value, dataVersion |-> snapshot.dataVersion,
        wrapped |-> FALSE]
  ELSE [value |-> snapshot.value, dataVersion |-> version, wrapped |-> TRUE]

Reply(op, s, result, version) ==
  reply' = [op |-> op, stream |-> s, result |-> result, version |-> version]

----------------------------------------------------------------------------
(* The four append handlers *)

\* Mutant: the tombstone is not looked at.
AdmittedAnyway(s, expected) == ValidExpectedVersion(s, expected)

Admitted(s, expected) == s \notin tombstones /\ ValidExpectedVersion(s, expected)

\* Early returns: the tombstone check comes before the version check.
Refused(op, s, expected) ==
  /\ \/ s \in tombstones /\ Reply(op, s, "StreamDeleted", expected)
     \/ /\ s \notin tombstones
        /\ ~ValidExpectedVersion(s, expected)
        /\ Reply(op, s, "ConcurrencyViolation", expected)
  /\ UNCHANGED store

\* Mutant: the deletion mark stays when the stream is appended to.
ReopenForgotten(s) == UNCHANGED softDeleted

ReopenIfSoftDeleted(s) == softDeleted' = [softDeleted EXCEPT ![s] = NotDeleted]

\* Mutant: sources are adapted and inserted one by one, so that an adapter that
\* throws leaves the first part of the batch behind.
AdapterThrowsMidway(op, s, expected, sources) ==
  /\ Admitted(s, expected)
  /\ \E i \in DOMAIN sources :
       LET from == ResolveActualVersion(s, expected)
           done == SubSeq(sources, 1, i - 1)
       IN  /\ sources[i] \in Unadaptable
           /\ \A j \in DOMAIN done : sources[j] \notin Unadaptable
           /\ Len(journal) + Len(done) <= MaxEntries
           /\ Insert(s, from, SourcesToEntries(done, from))
  /\ ReopenIfSoftDeleted(s)
  /\ Reply(op, s, "Thrown", expected)
  /\ UNCHANGED <<snapshots, tombstones, truncateBeforeMap>>

\* The adapter throws out of the handler after the stream was reopened.
AdapterThrows(op, s, expected, sources) ==
  /\ Admitted(s, expected)
  /\ \E i \in DOMAIN sources : sources[i] \in Unadaptable
  /\ ReopenIfSoftDeleted(s)
  /\ Reply(op, s, "Thrown", expected)
  /\ UNCHANGED <<journal, streamIndexes, snapshots, tombstones, truncateBeforeMap>>

Stored(s, expected, sources) ==
  LET from == ResolveActualVersion(s, expected)
  IN  /\ Admitted(s, expected)
      /\ \A i \in DOMAIN sources : sources[i] \notin Unadaptable
      /\ Len(journal) + Len(sources) <= MaxEntries
      /\ ReopenIfSoftDeleted(s)
      /\ Insert(s, from, SourcesToEntries(sources, from))
      /\ UNCHANGED <<tombstones, truncateBeforeMap>>

\* The version a batch ends at; one before its start when it is empty.
FinalVersion(s, expected, sources) ==
  ResolveActualVersion(s, expected) + Len(sources) - 1

AppendOne(s, expected, source) ==
  \/ Refused("append", s, expected)
  \/ AdapterThrows("append", s, expected, <<source>>)
  \/ /\ Stored(s, expected, <<source>>)
     /\ Reply("append", s, "Success", ResolveActualVersion(s, expected))
     /\ UNCHANGED snapshots

AppendWith(s, expected, source, snapshot) ==
  LET version == ResolveActualVersion(s, expected)
  IN  \/ Refused("appendWith", s, expected)
      \/ AdapterThrows("appendWith", s, expected, <<source>>)
      \/ /\ Stored(s, expected, <<source>>)
         /\ Reply("appendWith", s, "Success", version)
         /\ snapshots' = IF snapshot = NoSnapshot THEN snapshots
                         ELSE [snapshots EXCEPT ![s] = StoredSnapshot(snapshot, version)]

AppendAll(s, expected, sources) ==
  \/ Refused("appendAll", s, expected)
  \/ AdapterThrows("appendAll", s, expected, sources)
  \/ /\ Stored(s, expected, sources)
     /\ Reply("appendAll", s, "Success", FinalVersion(s, expected, sources))
     /\ UNCHANGED snapshots

\* A plain snapshot cannot be wrapped in a State of version 0, which is what
\* an empty batch on an empty stream would need: the handler throws.
WrappingThrows(snapshot, version) ==
  snapshot # NoSnapshot /\ snapshot.kind = "plain" /\ version = 0

AppendAllWith(s, expected, sources, snapshot) ==
  LET version == FinalVersion(s, expected, sources)
  IN  \/ Refused("appendAllWith", s, expected)
      \/ AdapterThrows("appendAllWith", s, expected, sources)
      \/ /\ Stored(s, expected, sources)
         /\ IF WrappingThrows(snapshot, version)
            THEN /\ Reply("appendAllWith", s, "Thrown", expected)
                 /\ UNCHANGED snapshots
            ELSE /\ Reply("appendAllWith", s, "Success", version)
                 /\ snapshots' =
                      IF snapshot = NoSnapshot THEN snapshots
                      ELSE [snapshots EXCEPT ![s] = StoredSnapshot(snapshot, version)]

----------------------------------------------------------------------------
(* Lifecycle of a stream *)

\* Result, as far as a handler answers it without a change.
Refusals == {"ConcurrencyViolation", "StreamDeleted", "NotFound"}

\* Only a success, or a stream that was deleted before, has a number to tell.
NoNumber == -1

\* A stream that is tombstoned already and one that is soft-deleted already are
\* told as the same result.
TombstoneResult(s, result) ==
  Reply("tombstone", s, result, IF result = "Success" THEN Len(journal) ELSE NoNumber)

DeleteResult(s, result, deletedAt) == Reply("softDelete", s, result, deletedAt)

TruncateResult(s, result, before) ==
  Reply("truncateBefore", s, result, IF result = "Success" THEN before ELSE NoNumber)

\* Mutant: a tombstone wipes the index of its stream.
TombstoneWipes(s) ==
  /\ s \notin tombstones
  /\ tombstones' = tombstones \cup {s}
  /\ softDeleted' = [softDeleted EXCEPT ![s] = NotDeleted]
  /\ streamIndexes' = [streamIndexes EXCEPT ![s] = <<>>]
  /\ TombstoneResult(s, "Success")
  /\ UNCHANGED <<journal, snapshots, truncateBeforeMap>>

\* Mutant: a stream that never had an event can be tombstoned.
TombstoneUnborn(s) ==
  /\ s \notin tombstones
  /\ tombstones' = tombstones \cup {s}
  /\ softDeleted' = [softDeleted EXCEPT ![s] = NotDeleted]
  /\ TombstoneResult(s, "Success")
  /\ UNCHANGED <<journal, streamIndexes, snapshots, truncateBeforeMap>>

\* No entry is written: the position answered is that of the next one, of any stream.
Tombstone(s) ==
  \/ /\ s \in tombstones
     /\ TombstoneResult(s, "StreamDeleted")
     /\ UNCHANGED store
  \/ /\ s \notin tombstones
     /\ StreamIsEmpty(s)
     /\ TombstoneResult(s, "NotFound")
     /\ UNCHANGED store
  \/ /\ s \notin tombstones
     /\ ~StreamIsEmpty(s)
     /\ tombstones' = tombstones \cup {s}
     /\ softDeleted' = [softDeleted EXCEPT ![s] = NotDeleted]
     /\ TombstoneResult(s, "Success")
     /\ UNCHANGED <<journal, streamIndexes, snapshots, truncateBeforeMap>>

SoftDelete(s) ==
  \/ /\ s \in tombstones
     /\ DeleteResult(s, "StreamDeleted", NoNumber)
     /\ UNCHANGED store
  \/ /\ s \notin tombstones
     /\ IsSoftDeleted(s)
     /\ DeleteResult(s, "StreamDeleted", softDeleted[s])
     /\ UNCHANGED store
  \/ /\ s \notin tombstones
     /\ ~IsSoftDeleted(s)
     /\ StreamIsEmpty(s)
     /\ DeleteResult(s, "NotFound", NoNumber)
     /\ UNCHANGED store
  \/ /\ s \notin tombstones
     /\ ~IsSoftDeleted(s)
     /\ ~StreamIsEmpty(s)
     /\ softDeleted' = [softDeleted EXCEPT ![s] = CurrentVersion(s)]
     /\ DeleteResult(s, "Success", CurrentVersion(s))
     /\ UNCHANGED <<journal, streamIndexes, snapshots, tombstones, truncateBeforeMap>>

\* Nothing relates the position to the current version or to an earlier one.
TruncateBefore(s, before) ==
  \/ /\ s \in tombstones
     /\ TruncateResult(s, "StreamDeleted", before)
     /\ UNCHANGED store
  \/ /\ s \notin tombstones
     /\ StreamIsEmpty(s)
     /\ TruncateResult(s, "NotFound", before)
     /\ UNCHANGED store
  \/ /\ s \notin tombstones
     /\ ~StreamIsEmpty(s)
     /\ truncateBeforeMap' = [truncateBeforeMap EXCEPT ![s] = before]
     /\ TruncateResult(s, "Success", before)
     /\ UNCHANGED <<journal, streamIndexes, snapshots, tombstones, softDeleted>>

----------------------------------------------------------------------------
(* What the readers answer *)

\* Mutant: truncation hides what comes after the mark.
VisibleVersionsInverted(s) ==
  {v \in Versions(s) : truncateBeforeMap[s] = 0 \/ v <= truncateBeforeMap[s]}

VisibleVersions(s) == {v \in Versions(s) : v >= truncateBeforeMap[s]}

\* Entries in the order of the version map, which is the order of insertion.
InVersionOrder(s, versions) ==
  [i \in 1 .. Cardinality(versions) |->
     journal[streamIndexes[s][CHOOSE v \in versions :
                                Cardinality({w \in versions : w < v}) = i - 1]]]

\* Array.sort is stable: entries with equal numbers keep their order.
SortedById(entries) ==
  LET Number(i) == IdNumber[entries[i].source]
      Before(i, j) == Number(i) < Number(j) \/ (Number(i) = Number(j) /\ i < j)
  IN  [k \in DOMAIN entries |->
         entries[CHOOSE i \in DOMAIN entries :
                   Cardinality({j \in DOMAIN entries : Before(j, i)}) = k - 1]]

EntryStream(version, entries, snapshot, status) ==
  [streamVersion |-> version, entries |-> entries, snapshot |-> snapshot, status |-> status]

\* A deleted stream answers its version and nothing else.
StreamFor(s) ==
  IF s \in tombstones THEN EntryStream(CurrentVersion(s), <<>>, NoSnapshot, "tombstoned")
  ELSE IF IsSoftDeleted(s) THEN EntryStream(softDeleted[s], <<>>, NoSnapshot, "softDeleted")
  ELSE IF StreamIsEmpty(s) THEN EntryStream(0, <<>>, NoSnapshot, "active")
  ELSE EntryStream(CurrentVersion(s), SortedById(InVersionOrder(s, VisibleVersions(s))),
                   snapshots[s], "active")

Info(exists, version, count, status) ==
  [exists |-> exists, currentVersion |-> version, entryCount |-> count, status |-> status]

\* Mutant: truncated entries are counted.
StreamInfoUntruncated(s) ==
  IF s \in tombstones THEN Info(TRUE, CurrentVersion(s), 0, "tombstoned")
  ELSE IF IsSoftDeleted(s) THEN Info(TRUE, softDeleted[s], 0, "softDeleted")
  ELSE Info(~StreamIsEmpty(s), CurrentVersion(s), Cardinality(Versions(s)), "active")

StreamInfo(s) ==
  IF s \in tombstones THEN Info(TRUE, CurrentVersion(s), 0, "tombstoned")
  ELSE IF IsSoftDeleted(s) THEN Info(TRUE, softDeleted[s], 0, "softDeleted")
  ELSE Info(~StreamIsEmpty(s), CurrentVersion(s), Cardinality(VisibleVersions(s)), "active")

----------------------------------------------------------------------------
Init ==
  /\ journal = <<>>
  /\ streamIndexes = [s \in Streams |-> <<>>]
  /\ snapshots = [s \in Streams |-> NoSnapshot]
  /\ tombstones = {}
  /\ softDeleted = [s \in Streams |-> NotDeleted]
  /\ truncateBeforeMap = [s \in Streams |-> 0]
  /\ reply = NoReply

AppendStep(s, expected) ==
  \/ \E source \in Sources : AppendOne(s, expected, source)
  \/ \E source \in Sources, snapshot \in SnapshotArgs :
       AppendWith(s, expected, source, snapshot)
  \/ \E sources \in Batches : AppendAll(s, expected, sources)
  \/ \E sources \in Batches, snapshot \in SnapshotArgs :
       AppendAllWith(s, expected, sources, snapshot)

LifecycleStep(s) ==
  \/ Tombstone(s)
  \/ SoftDelete(s)
  \/ \E before \in TruncateVersions : TruncateBefore(s, before)

Next ==
  \E s \in Streams :
    \/ \E expected \in ExpectedVersions : AppendStep(s, expected)
    \/ LifecycleStep(s)

Spec == Init /\ [][Next]_vars

----------------------------------------------------------------------------
(* Properties *)

\* The type invariant: every stream has an index, a deletion mark and a
\* truncation mark, and what is stored are entries and snapshots.
TypeOK ==
  /\ journal \in Seq(Entries)
  /\ streamIndexes \in [Streams -> Indexes]
  /\ snapshots \in [Streams -> StoredSnapshots \cup {NoSnapshot}]
  /\ tombstones \subseteq Streams
  /\ softDeleted \in [Streams -> Nat \cup {NotDeleted}]
  /\ truncateBeforeMap \in [Streams -> Nat]

\* Every version a stream's index holds leads to an entry that carries that
\* version: what streamFor reads through the index is what was appended there.
IndexLeadsToItsEntry ==
  \A s \in Streams : \A v \in Versions(s) :
    /\ streamIndexes[s][v] \in DOMAIN journal
    /\ journal[streamIndexes[s][v]].streamVersion = v

\* Two different (stream, version) pairs never share an entry.
IndexesAreDisjoint ==
  \A s, t \in Streams : \A v \in Versions(s), w \in Versions(t) :
    streamIndexes[s][v] = streamIndexes[t][w] => s = t /\ v = w

\* No entry is lost to its stream: a journal reader sees nothing a stream
\* reader could not see.
EveryEntryIsIndexed ==
  \A p \in DOMAIN journal : \E s \in Streams : \E v \in Versions(s) :
    streamIndexes[s][v] = p

\* The streams partition the journal, whatever mix of handlers filled it.
StreamsPartitionJournal ==
  IndexLeadsToItsEntry /\ IndexesAreDisjoint /\ EveryEntryIsIndexed

\* The versions of a stream are 1, 2, ... without a gap, through deletions,
\* reopenings and truncations ("event numbers continue from where they left
\* off", Journal.ts), and they are in journal order.
VersionsAreGapless ==
  \A s \in Streams :
    /\ CurrentVersion(s) \in Nat
    /\ Versions(s) = 1 .. CurrentVersion(s)
    /\ \A v, w \in Versions(s) :
         v < w => streamIndexes[s][v] < streamIndexes[s][w]

\* A soft-deleted stream has events, is not tombstoned, and has stayed at the
\* version recorded when it was deleted, which readers are given as its version.
DeletedAtCurrentVersion ==
  \A s \in Streams :
    IsSoftDeleted(s) => /\ s \notin tombstones
                        /\ softDeleted[s] = CurrentVersion(s)
                        /\ softDeleted[s] > 0

\* The inductive invariant.  Gapless versions need that a version never exceeds
\* the place of its entry, so that no stream outgrows the bounded journal.
EntriesFit == Len(journal) <= MaxEntries
VersionsTrailPlaces ==
  \A s \in Streams : \A v \in Versions(s) : v <= streamIndexes[s][v]

IInv ==
  /\ TypeOK
  /\ EntriesFit
  /\ StreamsPartitionJournal
  /\ VersionsAreGapless
  /\ VersionsTrailPlaces
  /\ DeletedAtCurrentVersion

\* streamFor and streamInfo, two separate computations over the same maps,
\* never disagree on status, version or number of visible entries.
InfoAgreesWithRead ==
  \A s \in Streams :
    /\ StreamInfo(s).status = StreamFor(s).status
    /\ StreamInfo(s).currentVersion = StreamFor(s).streamVersion
    /\ StreamInfo(s).entryCount = Len(StreamFor(s).entries)

\* The entries of a read are consecutive versions that end at the version of
\* the stream: an entity that replays them misses nothing in between.
ReadIsGaplessSuffix ==
  \A s \in Streams :
    LET read == StreamFor(s)
    IN  \A i \in DOMAIN read.entries :
          read.entries[i].streamVersion =
            read.streamVersion - Len(read.entries) + i

\* globalPosition never runs ahead of the entry's place, never decreases along
\* the journal, and names the first entry of the batch, hence of its stream.
GlobalPositionNamesItsBatch ==
  /\ \A p \in DOMAIN journal : journal[p].globalPosition <= p - 1
  /\ \A p, q \in DOMAIN journal :
       p < q => journal[p].globalPosition <= journal[q].globalPosition
  /\ \A s \in Streams : \A v \in Versions(s) : \E w \in Versions(s) :
       streamIndexes[s][w] = journal[streamIndexes[s][v]].globalPosition + 1

\* Nothing already written changes: the journal keeps its entries and the
\* indexes keep pointing at them, in particular across tombstone and truncate.
AppendOnly ==
  [][/\ Len(journal) <= Len(journal')
     /\ \A p \in DOMAIN journal : journal'[p] = journal[p]
     /\ \A s \in Streams : \A v \in Versions(s) :
          v \in DOMAIN streamIndexes'[s] /\ streamIndexes'[s][v] = streamIndexes[s][v]]_vars

\* A tombstone is final: no later call brings the stream back, adds to it,
\* replaces its snapshot or marks it soft-deleted.
TombstoneIsFinal ==
  [][\A s \in tombstones :
       /\ s \in tombstones'
       /\ streamIndexes'[s] = streamIndexes[s]
       /\ snapshots'[s] = snapshots[s]
       /\ softDeleted'[s] = softDeleted[s]]_vars

\* The reply tells the truth about the stream: a stream grows only in a step
\* that replies Success with the version it grew to, a handler that refuses
\* changes nothing, one that throws leaves every entry and snapshot alone, and
\* who is told that a stream is deleted can tell by the version whether for good.
AppendOps == {"append", "appendWith", "appendAll", "appendAllWith"}
ReplyTellsTheOutcome ==
  [][/\ \A s \in Streams :
          streamIndexes'[s] # streamIndexes[s] => reply'.result = "Success" /\ reply'.stream = s
     /\ reply'.op \in AppendOps /\ reply'.result = "Success"
          => \A s \in Streams : s = reply'.stream => reply'.version = CurrentVersion(s)'
     /\ reply'.result \in Refusals => UNCHANGED store
     /\ reply'.result = "Thrown"
          => UNCHANGED <<journal, streamIndexes, snapshots, tombstones>>
     /\ reply'.op = "softDelete" /\ reply'.result \in {"Success", "StreamDeleted"}
          => \A s \in Streams : s = reply'.stream =>
               /\ softDeleted'[s] = reply'.version
               /\ s \in tombstones' <=> reply'.version = NoNumber]_vars

----------------------------------------------------------------------------
(* The journal implements the streams its interface promises *)

EventsOf(s) ==
  [v \in Versions(s) |-> journal[streamIndexes[s][v]].source]

StatusOf(s) ==
  IF s \in tombstones THEN "tombstoned"
  ELSE IF IsSoftDeleted(s) THEN "softDeleted" ELSE "active"

Streaming ==
  INSTANCE EventStreams WITH
    events  <- [s \in Streams |-> EventsOf(s)],
    history <- [p \in DOMAIN journal |-> journal[p].source],
    status  <- [s \in Streams |-> StatusOf(s)]

\* Every handler of the journal is a publication, a deletion or nothing at all
\* to somebody who only knows streams.
ImplementsEventStreams == Streaming!Spec
=============================================================================
