--------------------------- MODULE JournalProofs ---------------------------
(***************************************************************************)
(* The journal's invariants for every set of streams and sources and every *)
(* bound, its action properties, and that it implements EventStreams.      *)
(***************************************************************************)
EXTENDS Journal, SequenceTheorems, FiniteSetTheorems, TLAPS

----------------------------------------------------------------------------
(* Constants *)

\* The two helpers on which the version arithmetic rests.
LEMMA MaxOfInterval ==
  ASSUME NEW n \in Nat, n > 0
  PROVE  Max(1 .. n) = n
<1> DEFINE P(x) == x \in 1 .. n /\ \A y \in 1 .. n : x >= y
<1>1. P(n)
  OBVIOUS
<1>2. \A x : P(x) => x = n
  OBVIOUS
<1> HIDE DEF P
<1>3. (CHOOSE x : P(x)) = n
  BY <1>1, <1>2
<1>4. (CHOOSE x \in 1 .. n : \A y \in 1 .. n : x >= y) = (CHOOSE x : P(x))
  BY DEF P
<1> QED
  BY <1>3, <1>4 DEF Max

\* The sources of a batch, or a single source, form one of the Batches.
LEMMA BatchFacts ==
  ASSUME NEW sources \in Batches
  PROVE  /\ sources \in Seq(Sources)
         /\ Len(sources) \in Nat
         /\ DOMAIN sources = 1 .. Len(sources)
         /\ \A i \in 1 .. Len(sources) : sources[i] \in Sources
<1>1. PICK n \in 0 .. MaxBatch : sources \in [1 .. n -> Sources]
  BY BoundsAssumption DEF Batches
<1>2. n \in Nat
  BY <1>1, BoundsAssumption
<1>3. sources \in Seq(Sources)
  BY <1>1, <1>2
<1> QED
  BY <1>3, LenProperties

----------------------------------------------------------------------------
(* What the invariant says of one stream *)

LEMMA StreamShape ==
  ASSUME IInv, NEW s \in Streams
  PROVE  /\ CurrentVersion(s) \in Nat
         /\ Versions(s) = 1 .. CurrentVersion(s)
         /\ streamIndexes[s] \in [1 .. CurrentVersion(s) -> 1 .. Len(journal)]
         /\ StreamIsEmpty(s) <=> CurrentVersion(s) = 0
         /\ CurrentVersion(s) <= Len(journal)
         /\ Len(journal) \in Nat
<1>1. Len(journal) \in Nat /\ DOMAIN journal = 1 .. Len(journal)
  BY DEF IInv, TypeOK
<1>2. CurrentVersion(s) \in Nat /\ Versions(s) = 1 .. CurrentVersion(s)
  BY DEF IInv, VersionsAreGapless
<1>3. \A v \in Versions(s) : streamIndexes[s][v] \in 1 .. Len(journal)
  BY <1>1 DEF IInv, StreamsPartitionJournal, IndexLeadsToItsEntry
<1>4. streamIndexes[s] \in [1 .. CurrentVersion(s) -> 1 .. Len(journal)]
  <2>1. PICK V \in SUBSET (1 .. MaxEntries) : streamIndexes[s] \in [V -> 1 .. MaxEntries]
    BY DEF IInv, TypeOK, Indexes
  <2>2. V = 1 .. CurrentVersion(s)
    BY <1>2, <2>1 DEF Versions
  <2> QED
    BY <1>2, <1>3, <2>1, <2>2 DEF Versions
<1>5. StreamIsEmpty(s) <=> CurrentVersion(s) = 0
  BY <1>2 DEF StreamIsEmpty
<1>6. CurrentVersion(s) <= Len(journal)
  <2>1. CASE CurrentVersion(s) = 0
    BY <1>1, <2>1
  <2>2. CASE CurrentVersion(s) # 0
    <3>1. CurrentVersion(s) \in Versions(s)
      BY <1>2, <2>2
    <3> QED
      BY <1>1, <1>2, <1>3, <3>1 DEF IInv, VersionsTrailPlaces
  <2> QED
    BY <2>1, <2>2
<1> QED
  BY <1>1, <1>2, <1>4, <1>5, <1>6

\* Reading the version back from an index that holds 1 .. n.
LEMMA NextVersionIs ==
  ASSUME NEW s, NEW n \in Nat, Versions(s)' = 1 .. n
  PROVE  CurrentVersion(s)' = n
<1>1. CASE n = 0
  BY <1>1 DEF CurrentVersion, StreamIsEmpty
<1>2. CASE n > 0
  <2>1. (Versions(s) # {})'
    BY <1>2
  <2>2. Max(1 .. n) = n
    BY <1>2, MaxOfInterval
  <2> QED
    BY <2>1, <2>2 DEF CurrentVersion, StreamIsEmpty
<1> QED
  BY <1>1, <1>2

----------------------------------------------------------------------------
(* What one step does *)

\* The effect of an accepted append: the batch goes to the end of the journal
\* and to the next versions of its stream, and the stream is active.
Grown(s, sources) ==
  /\ s \notin tombstones
  /\ Len(journal) + Len(sources) <= MaxEntries
  /\ journal' = journal \o SourcesToEntries(sources, CurrentVersion(s) + 1)
  /\ streamIndexes' =
       [streamIndexes EXCEPT ![s] =
          [v \in 1 .. CurrentVersion(s) + Len(sources) |->
             IF v <= CurrentVersion(s) THEN streamIndexes[s][v]
             ELSE Len(journal) + (v - CurrentVersion(s))]]
  /\ softDeleted' = [softDeleted EXCEPT ![s] = NotDeleted]
  /\ UNCHANGED <<tombstones, truncateBeforeMap>>

LEMMA EntriesOfBatch ==
  ASSUME NEW sources \in Seq(Sources), NEW from \in Nat, Len(journal) \in Nat
  PROVE  /\ SourcesToEntries(sources, from) \in Seq(Entries)
         /\ Len(SourcesToEntries(sources, from)) = Len(sources)
         /\ \A i \in 1 .. Len(sources) :
              /\ SourcesToEntries(sources, from)[i].source = sources[i]
              /\ SourcesToEntries(sources, from)[i].streamVersion = from + i - 1
              /\ SourcesToEntries(sources, from)[i].globalPosition = Len(journal)
<1> DEFINE es == SourcesToEntries(sources, from)
<1>1. Len(sources) \in Nat /\ \A i \in 1 .. Len(sources) : sources[i] \in Sources
  BY LenProperties
<1>2. es = [i \in 1 .. Len(sources) |->
              [source |-> sources[i], streamVersion |-> from + i - 1,
               globalPosition |-> Len(journal)]]
  BY DEF SourcesToEntries, SourceToEntry
<1>3. \A i \in 1 .. Len(sources) :
        [source |-> sources[i], streamVersion |-> from + i - 1,
         globalPosition |-> Len(journal)] \in Entries
  BY <1>1 DEF Entries
<1>4. es \in [1 .. Len(sources) -> Entries]
  BY <1>2, <1>3
<1>5. es \in Seq(Entries) /\ Len(es) = Len(sources)
  BY <1>1, <1>4
<1> QED
  BY <1>2, <1>5

LEMMA AdmittedVersion ==
  ASSUME IInv, NEW s \in Streams, NEW expected \in ExpectedVersions,
         Admitted(s, expected)
  PROVE  ResolveActualVersion(s, expected) = CurrentVersion(s) + 1
<1>1. CurrentVersion(s) \in Nat
  BY StreamShape
<1> QED
  BY <1>1, BoundsAssumption
  DEF Admitted, ValidExpectedVersion, ResolveActualVersion, ExpectedVersions,
      SpecialStates, Any, NoStream, StreamExists

LEMMA StoredGrows ==
  ASSUME IInv, NEW s \in Streams, NEW expected \in ExpectedVersions,
         NEW sources \in Seq(Sources), Stored(s, expected, sources)
  PROVE  Grown(s, sources)
<1> DEFINE n == CurrentVersion(s)
           from == ResolveActualVersion(s, expected)
           es == SourcesToEntries(sources, from)
<1>1. /\ n \in Nat /\ Len(journal) \in Nat /\ Len(sources) \in Nat
      /\ Versions(s) = 1 .. n
  BY StreamShape, LenProperties
<1>2. from = n + 1
  BY AdmittedVersion DEF Stored
<1>3. Len(es) = Len(sources)
  BY <1>1, <1>2, EntriesOfBatch
<1>4. /\ journal' = journal \o es
      /\ streamIndexes' =
           [streamIndexes EXCEPT ![s] =
             [v \in Versions(s) \cup (from .. from + Len(es) - 1) |->
               IF v \in from .. from + Len(es) - 1
               THEN Len(journal) + (v - from) + 1
               ELSE streamIndexes[s][v]]]
  BY DEF Stored, Insert
<1> HIDE DEF es, from, n
<1>5. Versions(s) \cup (from .. from + Len(es) - 1) = 1 .. n + Len(sources)
  BY <1>1, <1>2, <1>3
<1>6. \A v \in 1 .. n + Len(sources) :
        (IF v \in from .. from + Len(es) - 1
         THEN Len(journal) + (v - from) + 1 ELSE streamIndexes[s][v])
        = (IF v <= n THEN streamIndexes[s][v] ELSE Len(journal) + (v - n))
  BY <1>1, <1>2, <1>3
<1>7. streamIndexes' =
        [streamIndexes EXCEPT ![s] =
           [v \in 1 .. n + Len(sources) |->
              IF v <= n THEN streamIndexes[s][v] ELSE Len(journal) + (v - n)]]
  BY <1>4, <1>5, <1>6
<1> QED
  BY <1>2, <1>4, <1>7 DEF Stored, Admitted, ReopenIfSoftDeleted, Grown, es, from, n

\* A handler whose adapter throws has the effect of an empty append.
LEMMA ThrowGrowsByNothing ==
  ASSUME IInv, NEW s \in Streams, NEW expected \in ExpectedVersions,
         NEW sources, NEW op, AdapterThrows(op, s, expected, sources)
  PROVE  Grown(s, <<>>)
<1> DEFINE n == CurrentVersion(s)
<1>1. /\ n \in Nat /\ Len(journal) \in Nat
      /\ streamIndexes[s] \in [1 .. n -> 1 .. Len(journal)]
  BY StreamShape
<1>2. <<>> \in Seq(Sources) /\ Len(<<>>) = 0
  BY EmptySeq
<1>3. SourcesToEntries(<<>>, n + 1) = <<>>
  <2> HIDE DEF n
  <2>1. n + 1 \in Nat
    BY <1>1
  <2>2. /\ SourcesToEntries(<<>>, n + 1) \in Seq(Entries)
        /\ Len(SourcesToEntries(<<>>, n + 1)) = Len(<<>>)
    BY ONLY <1>1, <1>2, <2>1, EntriesOfBatch
  <2> QED
    BY <1>2, <2>2, EmptySeq
<1>4. journal' = journal \o SourcesToEntries(<<>>, n + 1)
  BY <1>3, ConcatEmptySeq DEF AdapterThrows, IInv, TypeOK
<1>5. [v \in 1 .. n + Len(<<>>) |->
         IF v <= n THEN streamIndexes[s][v] ELSE Len(journal) + (v - n)]
      = streamIndexes[s]
  BY <1>1, <1>2
<1> HIDE DEF n
<1>6. streamIndexes' =
        [streamIndexes EXCEPT ![s] =
           [v \in 1 .. n + Len(<<>>) |->
              IF v <= n THEN streamIndexes[s][v] ELSE Len(journal) + (v - n)]]
  BY <1>5 DEF AdapterThrows, IInv, TypeOK
<1>7. Len(journal) + Len(<<>>) <= MaxEntries
  BY <1>1, <1>2, BoundsAssumption DEF IInv, EntriesFit
<1> QED
  BY <1>4, <1>6, <1>7 DEF AdapterThrows, Admitted, ReopenIfSoftDeleted, Grown, n

LEMMA SmallBatches ==
  /\ <<>> \in Batches
  /\ \A source \in Sources : <<source>> \in Batches
<1>1. <<>> \in [1 .. 0 -> Sources] /\ 0 \in 0 .. MaxBatch
  BY BoundsAssumption
<1>2. ASSUME NEW source \in Sources PROVE <<source>> \in [1 .. 1 -> Sources]
  OBVIOUS
<1>3. 1 \in 0 .. MaxBatch
  BY BoundsAssumption
<1> QED
  BY <1>1, <1>2, <1>3 DEF Batches

LEMMA StoredSnapshotType ==
  ASSUME NEW snapshot \in SnapshotArgs, snapshot # NoSnapshot, NEW version \in Nat
  PROVE  StoredSnapshot(snapshot, version) \in StoredSnapshots
<1>1. CASE snapshot \in PlainSnapshots
  BY <1>1 DEF PlainSnapshots, StoredSnapshot, StoredSnapshots
<1>2. CASE snapshot \in StateSnapshots
  BY <1>2, StateVersionsAssumption DEF StateSnapshots, StoredSnapshot, StoredSnapshots
<1> QED
  BY <1>1, <1>2 DEF SnapshotArgs

SnapshotsTyped == snapshots \in [Streams -> StoredSnapshots \cup {NoSnapshot}]

\* All four append handlers at once: nothing, or a batch and a well-formed
\* snapshot slot.
LEMMA AppendEffect ==
  ASSUME IInv, NEW s \in Streams, NEW expected \in ExpectedVersions,
         AppendStep(s, expected)
  PROVE  \/ UNCHANGED store
         \/ SnapshotsTyped' /\ \E sources \in Batches : Grown(s, sources)
<1>0. SnapshotsTyped
  BY DEF IInv, TypeOK, SnapshotsTyped
<1>1. ASSUME NEW sources \in Batches, Stored(s, expected, sources)
      PROVE  /\ Grown(s, sources)
             /\ ResolveActualVersion(s, expected) \in Nat
             /\ FinalVersion(s, expected, sources) \in Nat
  <2>1. sources \in Seq(Sources) /\ Len(sources) \in Nat
    BY BatchFacts
  <2>2. ResolveActualVersion(s, expected) = CurrentVersion(s) + 1
    BY <1>1, AdmittedVersion DEF Stored
  <2>3. CurrentVersion(s) \in Nat
    BY StreamShape
  <2> QED
    BY <1>1, <2>1, <2>2, <2>3, StoredGrows DEF FinalVersion
<1>2. ASSUME NEW op, NEW sources, AdapterThrows(op, s, expected, sources)
      PROVE  SnapshotsTyped' /\ \E batch \in Batches : Grown(s, batch)
  <2>1. SnapshotsTyped'
    BY <1>0, <1>2 DEF AdapterThrows, SnapshotsTyped
  <2> QED
    BY <1>2, <2>1, ThrowGrowsByNothing, SmallBatches
<1>3. ASSUME NEW snapshot \in SnapshotArgs, NEW version \in Nat,
             snapshots' = IF snapshot = NoSnapshot THEN snapshots
                          ELSE [snapshots EXCEPT ![s] = StoredSnapshot(snapshot, version)]
      PROVE  SnapshotsTyped'
  <2>1. CASE snapshot = NoSnapshot
    BY <1>0, <1>3, <2>1 DEF SnapshotsTyped
  <2>2. CASE snapshot # NoSnapshot
    <3>1. StoredSnapshot(snapshot, version) \in StoredSnapshots
      BY <2>2, StoredSnapshotType
    <3> QED
      BY <1>0, <1>3, <2>2, <3>1 DEF SnapshotsTyped
  <2> QED
    BY <2>1, <2>2
<1>4. ASSUME NEW source \in Sources, AppendOne(s, expected, source)
      PROVE  \/ UNCHANGED store
             \/ SnapshotsTyped' /\ \E sources \in Batches : Grown(s, sources)
  <2>1. CASE Refused("append", s, expected)
    BY <2>1 DEF Refused
  <2>2. CASE AdapterThrows("append", s, expected, <<source>>)
    BY <2>2, <1>2
  <2>3. CASE Stored(s, expected, <<source>>) /\ UNCHANGED snapshots
    BY <2>3, <1>0, <1>1, SmallBatches DEF SnapshotsTyped
  <2> QED
    BY <1>4, <2>1, <2>2, <2>3 DEF AppendOne
<1>5. ASSUME NEW source \in Sources, NEW snapshot \in SnapshotArgs,
             AppendWith(s, expected, source, snapshot)
      PROVE  \/ UNCHANGED store
             \/ SnapshotsTyped' /\ \E sources \in Batches : Grown(s, sources)
  <2>1. CASE Refused("appendWith", s, expected)
    BY <2>1 DEF Refused
  <2>2. CASE AdapterThrows("appendWith", s, expected, <<source>>)
    BY <2>2, <1>2
  <2>3. CASE ~Refused("appendWith", s, expected)
             /\ ~AdapterThrows("appendWith", s, expected, <<source>>)
    <3>1. Stored(s, expected, <<source>>)
      BY <1>5, <2>3 DEF AppendWith
    <3>2. Grown(s, <<source>>) /\ ResolveActualVersion(s, expected) \in Nat
      BY <1>1, <3>1, SmallBatches
    <3>3. snapshots' = IF snapshot = NoSnapshot THEN snapshots
                       ELSE [snapshots EXCEPT ![s] =
                               StoredSnapshot(snapshot, ResolveActualVersion(s, expected))]
      BY <1>5, <2>3 DEF AppendWith
    <3> QED
      BY <1>3, <3>2, <3>3, SmallBatches
  <2> QED
    BY <2>1, <2>2, <2>3
<1>6. ASSUME NEW sources \in Batches, AppendAll(s, expected, sources)
      PROVE  \/ UNCHANGED store
             \/ SnapshotsTyped' /\ \E batch \in Batches : Grown(s, batch)
  <2>1. CASE Refused("appendAll", s, expected)
    BY <2>1 DEF Refused
  <2>2. CASE AdapterThrows("appendAll", s, expected, sources)
    BY <2>2, <1>2
  <2>3. CASE Stored(s, expected, sources) /\ UNCHANGED snapshots
    BY <2>3, <1>0, <1>1 DEF SnapshotsTyped
  <2> QED
    BY <1>6, <2>1, <2>2, <2>3 DEF AppendAll
<1>7. ASSUME NEW sources \in Batches, NEW snapshot \in SnapshotArgs,
             AppendAllWith(s, expected, sources, snapshot)
      PROVE  \/ UNCHANGED store
             \/ SnapshotsTyped' /\ \E batch \in Batches : Grown(s, batch)
  <2>1. CASE Refused("appendAllWith", s, expected)
    BY <2>1 DEF Refused
  <2>2. CASE AdapterThrows("appendAllWith", s, expected, sources)
    BY <2>2, <1>2
  <2>3. CASE Stored(s, expected, sources) /\ UNCHANGED snapshots
    BY <2>3, <1>0, <1>1 DEF SnapshotsTyped
  <2>4. CASE ~Refused("appendAllWith", s, expected)
             /\ ~AdapterThrows("appendAllWith", s, expected, sources)
             /\ snapshots' # snapshots
    <3>1. Stored(s, expected, sources)
      BY <1>7, <2>4 DEF AppendAllWith
    <3>2. Grown(s, sources) /\ FinalVersion(s, expected, sources) \in Nat
      BY <1>1, <3>1
    <3>3. snapshots' = IF snapshot = NoSnapshot THEN snapshots
                       ELSE [snapshots EXCEPT ![s] =
                               StoredSnapshot(snapshot, FinalVersion(s, expected, sources))]
      BY <1>7, <2>4 DEF AppendAllWith
    <3> QED
      BY <1>3, <3>2, <3>3
  <2> QED
    BY <1>7, <2>1, <2>2, <2>3, <2>4 DEF AppendAllWith
<1> QED
  BY <1>4, <1>5, <1>6, <1>7 DEF AppendStep

\* An accepted append, seen entry by entry and version by version: n, k and l
\* are the version of the stream, the size of the batch and the length of the
\* journal before the step.
GrownBy(s, sources, n, k, l) ==
  /\ n \in Nat /\ k \in Nat /\ l \in Nat
  /\ n = CurrentVersion(s) /\ k = Len(sources) /\ l = Len(journal)
  /\ n <= l /\ l + k <= MaxEntries
  /\ streamIndexes[s] \in [1 .. n -> 1 .. l]
  /\ journal' \in Seq(Entries)
  /\ Len(journal') = l + k
  /\ DOMAIN journal' = 1 .. l + k
  /\ \A p \in 1 .. l : journal'[p] = journal[p]
  /\ \A i \in 1 .. k : /\ journal'[l + i].source = sources[i]
                      /\ journal'[l + i].streamVersion = n + i
                      /\ journal'[l + i].globalPosition = l
  /\ streamIndexes'[s] \in [1 .. n + k -> 1 .. l + k]
  /\ \A v \in 1 .. n : streamIndexes'[s][v] = streamIndexes[s][v]
  /\ \A v \in n + 1 .. n + k : streamIndexes'[s][v] = l + (v - n)
  /\ \A t \in Streams \ {s} : streamIndexes'[t] = streamIndexes[t]
  /\ DOMAIN streamIndexes' = Streams
  /\ CurrentVersion(s)' = n + k
  /\ \A t \in Streams \ {s} : CurrentVersion(t)' = CurrentVersion(t)

LEMMA GrownShape ==
  ASSUME IInv, NEW s \in Streams, NEW sources \in Batches, Grown(s, sources)
  PROVE  \E n, k, l : GrownBy(s, sources, n, k, l)
<1>0. PICK n, k, l : n = CurrentVersion(s) /\ k = Len(sources) /\ l = Len(journal)
  OBVIOUS
<1> DEFINE es == SourcesToEntries(sources, n + 1)
<1>1. /\ n \in Nat /\ l \in Nat /\ n <= l
      /\ streamIndexes[s] \in [1 .. n -> 1 .. l]
  BY <1>0, StreamShape
<1>2. sources \in Seq(Sources) /\ k \in Nat
  BY <1>0, BatchFacts
<1>3. l + k <= MaxEntries /\ journal' = journal \o es
  BY <1>0 DEF Grown
<1>4. n + 1 \in Nat
  BY <1>1
<1>5. /\ es \in Seq(Entries)
      /\ Len(es) = k
      /\ \A i \in 1 .. k : /\ es[i].source = sources[i]
                          /\ es[i].streamVersion = n + 1 + i - 1
                          /\ es[i].globalPosition = l
  BY ONLY <1>0, <1>1, <1>2, <1>4, EntriesOfBatch
<1> HIDE DEF es
<1>6. journal \in Seq(Entries)
  BY DEF IInv, TypeOK
<1>7. /\ journal' \in Seq(Entries) /\ Len(journal') = l + k
      /\ \A p \in 1 .. l + k : journal'[p] = IF p <= l THEN journal[p] ELSE es[p - l]
  <2>1. /\ journal \o es \in Seq(Entries)
        /\ Len(journal \o es) = Len(journal) + Len(es)
        /\ \A p \in 1 .. Len(journal) + Len(es) :
             (journal \o es)[p] = IF p <= Len(journal) THEN journal[p]
                                  ELSE es[p - Len(journal)]
    BY ONLY <1>5, <1>6, ConcatProperties
  <2> QED
    BY ONLY <1>0, <1>3, <1>5, <2>1
<1>8. DOMAIN journal' = 1 .. l + k
  BY <1>7
<1>9. \A p \in 1 .. l : journal'[p] = journal[p]
  BY <1>1, <1>2, <1>7
<1>10. \A i \in 1 .. k : journal'[l + i] = es[i]
  BY <1>1, <1>2, <1>7
<1>11. ASSUME NEW i \in 1 .. k
       PROVE  /\ journal'[l + i].source = sources[i]
              /\ journal'[l + i].streamVersion = n + i
              /\ journal'[l + i].globalPosition = l
  <2>1. n + 1 + i - 1 = n + i
    BY <1>1, <1>2
  <2>2. journal'[l + i] = es[i]
    BY <1>10
  <2>3. /\ es[i].source = sources[i]
        /\ es[i].streamVersion = n + 1 + i - 1
        /\ es[i].globalPosition = l
    BY <1>5
  <2> QED
    BY <2>1, <2>2, <2>3
<1>12. /\ streamIndexes'[s] = [v \in 1 .. n + k |->
                                 IF v <= n THEN streamIndexes[s][v] ELSE l + (v - n)]
       /\ \A t \in Streams \ {s} : streamIndexes'[t] = streamIndexes[t]
       /\ DOMAIN streamIndexes' = Streams
  BY <1>0 DEF Grown, IInv, TypeOK
<1>13. /\ streamIndexes'[s] \in [1 .. n + k -> 1 .. l + k]
       /\ \A v \in 1 .. n : streamIndexes'[s][v] = streamIndexes[s][v]
       /\ \A v \in n + 1 .. n + k : streamIndexes'[s][v] = l + (v - n)
  <2>1. ASSUME NEW v \in 1 .. n
        PROVE  /\ v \in 1 .. n + k /\ v <= n
               /\ streamIndexes[s][v] \in 1 .. l + k
    BY ONLY <1>1, <1>2
  <2>2. ASSUME NEW v \in n + 1 .. n + k
        PROVE  v \in 1 .. n + k /\ ~(v <= n) /\ l + (v - n) \in 1 .. l + k
    BY ONLY <1>1, <1>2
  <2>3. \A v \in 1 .. n + k : v \in 1 .. n \/ v \in n + 1 .. n + k
    BY ONLY <1>1, <1>2
  <2> QED
    BY ONLY <1>12, <2>1, <2>2, <2>3
<1>14. CurrentVersion(s)' = n + k
  <2>1. Versions(s)' = 1 .. n + k
    BY <1>13 DEF Versions
  <2> QED
    BY <1>1, <1>2, <2>1, NextVersionIs
<1>15. \A t \in Streams \ {s} : CurrentVersion(t)' = CurrentVersion(t)
  BY <1>12 DEF CurrentVersion, StreamIsEmpty, Versions
<1>16. GrownBy(s, sources, n, k, l)
  BY ONLY <1>0, <1>1, <1>2, <1>3, <1>7, <1>8, <1>9, <1>11, <1>12, <1>13, <1>14, <1>15
  DEF GrownBy
<1> QED
  BY <1>16

----------------------------------------------------------------------------
(* The invariant is inductive *)

LEMMA GrownKeepsPartition ==
  ASSUME IInv, NEW s \in Streams, NEW sources \in Batches, Grown(s, sources)
  PROVE  StreamsPartitionJournal'
<1>0. PICK n, k, l : GrownBy(s, sources, n, k, l)
  BY GrownShape
<1>1. /\ n \in Nat /\ k \in Nat /\ l \in Nat /\ l = Len(journal)
      /\ streamIndexes[s] \in [1 .. n -> 1 .. l]
      /\ DOMAIN journal' = 1 .. l + k
      /\ \A p \in 1 .. l : journal'[p] = journal[p]
      /\ \A i \in 1 .. k : journal'[l + i].streamVersion = n + i
      /\ streamIndexes'[s] \in [1 .. n + k -> 1 .. l + k]
      /\ \A v \in 1 .. n : streamIndexes'[s][v] = streamIndexes[s][v]
      /\ \A v \in n + 1 .. n + k : streamIndexes'[s][v] = l + (v - n)
      /\ \A t \in Streams \ {s} : streamIndexes'[t] = streamIndexes[t]
  BY <1>0 DEF GrownBy
<1>2. \A t \in Streams : \A v \in Versions(t) : streamIndexes[t][v] \in 1 .. l
  BY <1>1 DEF IInv, TypeOK, StreamsPartitionJournal, IndexLeadsToItsEntry
<1>3. Versions(s) = 1 .. n
  BY <1>1 DEF Versions
<1>4. IndexLeadsToItsEntry'
  <2>1. ASSUME NEW t \in Streams \ {s}, NEW v \in Versions(t)'
        PROVE  /\ streamIndexes'[t][v] \in DOMAIN journal'
               /\ journal'[streamIndexes'[t][v]].streamVersion = v
    <3>1. streamIndexes'[t] = streamIndexes[t] /\ v \in Versions(t)
      BY <1>1 DEF Versions
    <3>2. streamIndexes[t][v] \in 1 .. l /\ streamIndexes[t][v] \in 1 .. l + k
      BY <1>1, <1>2, <3>1
    <3>3. journal[streamIndexes[t][v]].streamVersion = v
      BY <3>1 DEF IInv, StreamsPartitionJournal, IndexLeadsToItsEntry
    <3> QED
      BY <1>1, <3>1, <3>2, <3>3
  <2>2. ASSUME NEW v \in 1 .. n
        PROVE  /\ streamIndexes'[s][v] \in DOMAIN journal'
               /\ journal'[streamIndexes'[s][v]].streamVersion = v
    <3>1. /\ streamIndexes[s][v] \in 1 .. l
          /\ journal[streamIndexes[s][v]].streamVersion = v
      BY <1>2, <1>3 DEF IInv, StreamsPartitionJournal, IndexLeadsToItsEntry
    <3>2. streamIndexes'[s][v] = streamIndexes[s][v]
      BY <1>1
    <3>3. /\ streamIndexes[s][v] \in DOMAIN journal'
          /\ journal'[streamIndexes[s][v]] = journal[streamIndexes[s][v]]
      BY <1>1, <3>1
    <3> QED
      BY ONLY <3>1, <3>2, <3>3
  <2>3. ASSUME NEW v \in n + 1 .. n + k
        PROVE  /\ streamIndexes'[s][v] \in DOMAIN journal'
               /\ journal'[streamIndexes'[s][v]].streamVersion = v
    <3>1. v - n \in 1 .. k /\ n + (v - n) = v
      BY <1>1
    <3>2. streamIndexes'[s][v] = l + (v - n)
      BY <1>1
    <3>3. l + (v - n) \in DOMAIN journal'
      <4>1. l \in Nat /\ k \in Nat /\ DOMAIN journal' = 1 .. l + k
        BY <1>1
      <4> QED
        BY ONLY <3>1, <4>1
    <3>4. journal'[l + (v - n)].streamVersion = n + (v - n)
      BY <1>1, <3>1
    <3> QED
      BY ONLY <3>1, <3>2, <3>3, <3>4
  <2>4. Versions(s)' = (1 .. n) \cup (n + 1 .. n + k)
    BY <1>1 DEF Versions
  <2> QED
    BY <2>1, <2>2, <2>3, <2>4 DEF IndexLeadsToItsEntry
<1>5. IndexesAreDisjoint'
  <2>1. ASSUME NEW t \in Streams, NEW v \in Versions(t)'
        PROVE  \/ /\ v \in Versions(t)
                  /\ streamIndexes'[t][v] = streamIndexes[t][v]
                  /\ streamIndexes'[t][v] \in 1 .. l
               \/ /\ t = s /\ v \in n + 1 .. n + k
                  /\ streamIndexes'[t][v] = l + (v - n)
                  /\ streamIndexes'[t][v] > l
    <3>1. CASE t = s
      <4>1. v \in 1 .. n \/ v \in n + 1 .. n + k
        BY <1>1, <2>1, <3>1 DEF Versions
      <4>2. CASE v \in 1 .. n
        BY <1>1, <1>3, <3>1, <4>2
      <4>3. CASE v \in n + 1 .. n + k
        BY <1>1, <3>1, <4>3
      <4> QED
        BY <4>1, <4>2, <4>3
    <3>2. CASE t # s
      BY <1>1, <1>2, <2>1, <3>2 DEF Versions
    <3> QED
      BY <3>1, <3>2
  <2>2. ASSUME NEW t \in Streams, NEW u \in Streams,
               NEW v \in Versions(t)', NEW w \in Versions(u)',
               streamIndexes'[t][v] = streamIndexes'[u][w]
        PROVE  t = u /\ v = w
    <3>1. CASE streamIndexes'[t][v] \in 1 .. l
      <4>1. v \in Versions(t) /\ w \in Versions(u)
            /\ streamIndexes[t][v] = streamIndexes[u][w]
        BY <1>1, <2>1, <2>2, <3>1
      <4> QED
        BY <4>1 DEF IInv, StreamsPartitionJournal, IndexesAreDisjoint
    <3>2. CASE streamIndexes'[t][v] \notin 1 .. l
      <4>1. /\ t = s /\ v \in n + 1 .. n + k
            /\ streamIndexes'[t][v] = l + (v - n)
        BY <2>1, <2>2, <3>2
      <4>2. /\ u = s /\ w \in n + 1 .. n + k
            /\ streamIndexes'[u][w] = l + (w - n)
        BY <2>1, <2>2, <3>2
      <4> QED
        BY <1>1, <2>2, <4>1, <4>2
    <3> QED
      BY <3>1, <3>2
  <2> QED
    BY <2>2 DEF IndexesAreDisjoint
<1>6. EveryEntryIsIndexed'
  <2>1. ASSUME NEW p \in 1 .. l
        PROVE  \E t \in Streams : \E v \in Versions(t)' : streamIndexes'[t][v] = p
    <3>1. PICK t \in Streams : \E v \in Versions(t) : streamIndexes[t][v] = p
      <4>1. p \in DOMAIN journal
        BY <1>1 DEF IInv, TypeOK
      <4> QED
        BY <4>1 DEF IInv, StreamsPartitionJournal, EveryEntryIsIndexed
    <3>2. PICK v \in Versions(t) : streamIndexes[t][v] = p
      BY <3>1
    <3>3. CASE t = s
      <4>1. v \in 1 .. n /\ v \in 1 .. n + k
        BY <1>1, <1>3, <3>2, <3>3
      <4>2. v \in Versions(s)' /\ streamIndexes'[s][v] = p
        BY <1>1, <3>2, <3>3, <4>1 DEF Versions
      <4> QED
        BY <4>2
    <3>4. CASE t # s
      <4>1. v \in Versions(t)' /\ streamIndexes'[t][v] = p
        BY <1>1, <3>2, <3>4 DEF Versions
      <4> QED
        BY <4>1
    <3> QED
      BY <3>3, <3>4
  <2>2. ASSUME NEW p \in l + 1 .. l + k
        PROVE  \E v \in Versions(s)' : streamIndexes'[s][v] = p
    <3>1. n + (p - l) \in n + 1 .. n + k
      BY <1>1
    <3>2. streamIndexes'[s][n + (p - l)] = p
      <4>1. streamIndexes'[s][n + (p - l)] = l + ((n + (p - l)) - n)
        BY <1>1, <3>1
      <4>2. l + ((n + (p - l)) - n) = p
        BY <1>1
      <4> QED
        BY ONLY <4>1, <4>2
    <3>3. n + (p - l) \in Versions(s)'
      BY <1>1, <3>1 DEF Versions
    <3> QED
      BY <3>2, <3>3
  <2>3. DOMAIN journal' = (1 .. l) \cup (l + 1 .. l + k)
    BY <1>1
  <2> QED
    BY <2>1, <2>2, <2>3 DEF EveryEntryIsIndexed
<1> QED
  BY <1>4, <1>5, <1>6 DEF StreamsPartitionJournal

LEMMA GrownKeepsTypes ==
  ASSUME IInv, NEW s \in Streams, NEW sources \in Batches, Grown(s, sources),
         SnapshotsTyped'
  PROVE  TypeOK' /\ EntriesFit'
<1>0. PICK n, k, l : GrownBy(s, sources, n, k, l)
  BY GrownShape
<1>1. /\ n \in Nat /\ k \in Nat /\ l \in Nat /\ n <= l /\ l + k <= MaxEntries
      /\ journal' \in Seq(Entries) /\ Len(journal') = l + k
      /\ streamIndexes'[s] \in [1 .. n + k -> 1 .. l + k]
      /\ \A t \in Streams \ {s} : streamIndexes'[t] = streamIndexes[t]
  BY <1>0 DEF GrownBy
<1>2. streamIndexes' \in [Streams -> Indexes]
  <2>1. streamIndexes'[s] \in [1 .. n + k -> 1 .. MaxEntries]
    BY <1>1, BoundsAssumption
  <2>2. 1 .. n + k \in SUBSET (1 .. MaxEntries)
    BY <1>1, BoundsAssumption
  <2>3. streamIndexes'[s] \in Indexes
    BY <2>1, <2>2 DEF Indexes
  <2>4. \A t \in Streams : streamIndexes'[t] \in Indexes
    BY <1>1, <2>3 DEF IInv, TypeOK
  <2>5. streamIndexes' = [t \in Streams |-> streamIndexes'[t]]
    BY DEF Grown, IInv, TypeOK
  <2> QED
    BY <2>4, <2>5
<1>3. softDeleted' \in [Streams -> Nat \cup {NotDeleted}]
  BY DEF Grown, IInv, TypeOK
<1> QED
  BY <1>1, <1>2, <1>3 DEF Grown, IInv, TypeOK, EntriesFit, SnapshotsTyped

LEMMA GrownKeepsVersions ==
  ASSUME IInv, NEW s \in Streams, NEW sources \in Batches, Grown(s, sources)
  PROVE  VersionsAreGapless' /\ VersionsTrailPlaces'
<1>0. PICK n, k, l : GrownBy(s, sources, n, k, l)
  BY GrownShape
<1>1. /\ n \in Nat /\ k \in Nat /\ l \in Nat /\ n <= l
      /\ streamIndexes[s] \in [1 .. n -> 1 .. l]
      /\ streamIndexes'[s] \in [1 .. n + k -> 1 .. l + k]
      /\ \A v \in 1 .. n : streamIndexes'[s][v] = streamIndexes[s][v]
      /\ \A v \in n + 1 .. n + k : streamIndexes'[s][v] = l + (v - n)
      /\ \A t \in Streams \ {s} : streamIndexes'[t] = streamIndexes[t]
      /\ CurrentVersion(s)' = n + k
      /\ \A t \in Streams \ {s} : CurrentVersion(t)' = CurrentVersion(t)
  BY <1>0 DEF GrownBy
<1>2. Versions(s) = 1 .. n /\ Versions(s)' = 1 .. n + k
  BY <1>1 DEF Versions
<1>3. \A v \in 1 .. n : streamIndexes[s][v] \in 1 .. l /\ v <= streamIndexes[s][v]
  BY <1>1, <1>2 DEF IInv, VersionsTrailPlaces
<1>4. ASSUME NEW v \in 1 .. n + k, NEW w \in 1 .. n + k, v < w
      PROVE  streamIndexes'[s][v] < streamIndexes'[s][w]
  <2>1. CASE w \in 1 .. n
    <3>1. v \in 1 .. n
      BY <1>1, <1>4, <2>1
    <3>2. streamIndexes[s][v] < streamIndexes[s][w]
      BY <1>2, <1>4, <2>1, <3>1 DEF IInv, VersionsAreGapless
    <3> QED
      BY <1>1, <2>1, <3>1, <3>2
  <2>2. CASE v \in 1 .. n /\ w \in n + 1 .. n + k
    <3>1. streamIndexes'[s][v] \in 1 .. l
      BY <1>1, <1>3, <2>2
    <3>2. streamIndexes'[s][w] = l + (w - n)
      BY <1>1, <2>2
    <3> QED
      BY <1>1, <2>2, <3>1, <3>2
  <2>3. CASE v \in n + 1 .. n + k /\ w \in n + 1 .. n + k
    <3>1. streamIndexes'[s][v] = l + (v - n) /\ streamIndexes'[s][w] = l + (w - n)
      BY <1>1, <2>3
    <3> QED
      BY <1>1, <1>4, <2>3, <3>1
  <2> QED
    BY <1>1, <1>4, <2>1, <2>2, <2>3
<1>5. ASSUME NEW v \in 1 .. n + k
      PROVE  v <= streamIndexes'[s][v]
  <2>1. CASE v \in 1 .. n
    BY <1>1, <1>3, <2>1
  <2>2. CASE v \in n + 1 .. n + k
    <3>1. streamIndexes'[s][v] = l + (v - n)
      BY <1>1, <2>2
    <3> QED
      BY <1>1, <2>2, <3>1
  <2> QED
    BY <1>1, <2>1, <2>2
<1>6. ASSUME NEW t \in Streams \ {s}
      PROVE  /\ CurrentVersion(t)' \in Nat
             /\ Versions(t)' = 1 .. CurrentVersion(t)'
             /\ \A v, w \in Versions(t)' : v < w => streamIndexes'[t][v] < streamIndexes'[t][w]
             /\ \A v \in Versions(t)' : v <= streamIndexes'[t][v]
  <2>1. Versions(t)' = Versions(t)
    BY <1>1 DEF Versions
  <2> QED
    BY <1>1, <2>1 DEF IInv, VersionsAreGapless, VersionsTrailPlaces
<1>7. VersionsAreGapless'
  <2> SUFFICES ASSUME NEW t \in Streams
               PROVE  (/\ CurrentVersion(t) \in Nat
                       /\ Versions(t) = 1 .. CurrentVersion(t)
                       /\ \A v, w \in Versions(t) :
                            v < w => streamIndexes[t][v] < streamIndexes[t][w])'
    BY DEF VersionsAreGapless
  <2>1. CASE t = s
    BY <1>1, <1>2, <1>4, <2>1
  <2>2. CASE t # s
    BY <1>6, <2>2
  <2> QED
    BY <2>1, <2>2
<1>8. VersionsTrailPlaces'
  BY <1>2, <1>5, <1>6 DEF VersionsTrailPlaces
<1> QED
  BY <1>7, <1>8

LEMMA GrownKeepsDeletion ==
  ASSUME IInv, NEW s \in Streams, NEW sources \in Batches, Grown(s, sources)
  PROVE  DeletedAtCurrentVersion'
<1>0. PICK n, k, l : GrownBy(s, sources, n, k, l)
  BY GrownShape
<1>1. \A t \in Streams \ {s} : CurrentVersion(t)' = CurrentVersion(t)
  BY <1>0 DEF GrownBy
<1>2. /\ ~IsSoftDeleted(s)'
      /\ \A t \in Streams \ {s} : softDeleted'[t] = softDeleted[t]
      /\ tombstones' = tombstones
  BY DEF Grown, IInv, TypeOK, IsSoftDeleted
<1> SUFFICES ASSUME NEW t \in Streams, IsSoftDeleted(t)'
             PROVE  (/\ t \notin tombstones
                     /\ softDeleted[t] = CurrentVersion(t)
                     /\ softDeleted[t] > 0)'
  BY DEF DeletedAtCurrentVersion
<1>3. t # s
  BY <1>2
<1>4. IsSoftDeleted(t)
  BY <1>2, <1>3 DEF IsSoftDeleted
<1> QED
  BY <1>1, <1>2, <1>3, <1>4 DEF IInv, DeletedAtCurrentVersion

\* Steps that leave entries and indexes alone disturb only the marks.
LEMMA SameIndexesKeepInvariant ==
  ASSUME IInv, UNCHANGED <<journal, streamIndexes>>, SnapshotsTyped',
         tombstones' \subseteq Streams,
         softDeleted' \in [Streams -> Nat \cup {NotDeleted}],
         truncateBeforeMap' \in [Streams -> Nat],
         DeletedAtCurrentVersion'
  PROVE  IInv'
<1>1. TypeOK' /\ EntriesFit'
  BY DEF IInv, TypeOK, EntriesFit, SnapshotsTyped
<1>2. \A s : Versions(s)' = Versions(s) /\ CurrentVersion(s)' = CurrentVersion(s)
  BY DEF Versions, CurrentVersion, StreamIsEmpty
<1>3. StreamsPartitionJournal'
  BY <1>2 DEF IInv, StreamsPartitionJournal, IndexLeadsToItsEntry,
              IndexesAreDisjoint, EveryEntryIsIndexed
<1>4. VersionsAreGapless' /\ VersionsTrailPlaces'
  BY <1>2 DEF IInv, VersionsAreGapless, VersionsTrailPlaces
<1> QED
  BY <1>1, <1>3, <1>4 DEF IInv

LEMMA IdleKeepsInvariant ==
  ASSUME IInv, UNCHANGED store
  PROVE  IInv'
<1>1. \A s : CurrentVersion(s)' = CurrentVersion(s) /\ IsSoftDeleted(s)' = IsSoftDeleted(s)
  BY DEF store, CurrentVersion, StreamIsEmpty, Versions, IsSoftDeleted
<1>2. DeletedAtCurrentVersion'
  BY <1>1 DEF IInv, DeletedAtCurrentVersion, store
<1> QED
  BY <1>2, SameIndexesKeepInvariant DEF IInv, TypeOK, SnapshotsTyped, store

LEMMA LifecycleKeepsInvariant ==
  ASSUME IInv, NEW s \in Streams, LifecycleStep(s)
  PROVE  IInv'
<1>0. CurrentVersion(s) \in Nat /\ (StreamIsEmpty(s) <=> CurrentVersion(s) = 0)
  BY StreamShape
<1>1. CASE UNCHANGED store
  BY <1>1, IdleKeepsInvariant
<1>2. CASE Tombstone(s) /\ ~UNCHANGED store
  <2>1. /\ tombstones' = tombstones \cup {s}
        /\ softDeleted' = [softDeleted EXCEPT ![s] = NotDeleted]
        /\ UNCHANGED <<journal, streamIndexes, snapshots, truncateBeforeMap>>
    BY <1>2 DEF Tombstone
  <2>2. \A t : CurrentVersion(t)' = CurrentVersion(t)
    BY <2>1 DEF CurrentVersion, StreamIsEmpty, Versions
  <2>3. DeletedAtCurrentVersion'
    BY <2>1, <2>2 DEF IInv, TypeOK, DeletedAtCurrentVersion, IsSoftDeleted
  <2> QED
    BY <2>1, <2>3, SameIndexesKeepInvariant DEF IInv, TypeOK, SnapshotsTyped
<1>3. CASE SoftDelete(s) /\ ~UNCHANGED store
  <2>1. /\ s \notin tombstones
        /\ ~StreamIsEmpty(s)
        /\ softDeleted' = [softDeleted EXCEPT ![s] = CurrentVersion(s)]
        /\ UNCHANGED <<journal, streamIndexes, snapshots, tombstones, truncateBeforeMap>>
    BY <1>3 DEF SoftDelete
  <2>2. \A t : CurrentVersion(t)' = CurrentVersion(t)
    BY <2>1 DEF CurrentVersion, StreamIsEmpty, Versions
  <2>3. DeletedAtCurrentVersion'
    BY <1>0, <2>1, <2>2 DEF IInv, TypeOK, DeletedAtCurrentVersion, IsSoftDeleted
  <2>4. softDeleted' \in [Streams -> Nat \cup {NotDeleted}]
    BY <1>0, <2>1 DEF IInv, TypeOK
  <2> QED
    BY <2>1, <2>3, <2>4, SameIndexesKeepInvariant DEF IInv, TypeOK, SnapshotsTyped
<1>4. ASSUME NEW before \in TruncateVersions, TruncateBefore(s, before), ~UNCHANGED store
      PROVE  IInv'
  <2>1. /\ truncateBeforeMap' = [truncateBeforeMap EXCEPT ![s] = before]
        /\ UNCHANGED <<journal, streamIndexes, snapshots, tombstones, softDeleted>>
    BY <1>4 DEF TruncateBefore
  <2>2. \A t : CurrentVersion(t)' = CurrentVersion(t)
    BY <2>1 DEF CurrentVersion, StreamIsEmpty, Versions
  <2>3. DeletedAtCurrentVersion'
    BY <2>1, <2>2 DEF IInv, DeletedAtCurrentVersion, IsSoftDeleted
  <2>4. truncateBeforeMap' \in [Streams -> Nat]
    BY <2>1, TruncateVersionsAssumption DEF IInv, TypeOK
  <2> QED
    BY <2>1, <2>3, <2>4, SameIndexesKeepInvariant DEF IInv, TypeOK, SnapshotsTyped
<1> QED
  BY <1>1, <1>2, <1>3, <1>4 DEF LifecycleStep

LEMMA InitInvariant == Init => IInv
<1> SUFFICES ASSUME Init PROVE IInv
  OBVIOUS
<1>1. \A s \in Streams : Versions(s) = {} /\ CurrentVersion(s) = 0
  BY DEF Init, Versions, CurrentVersion, StreamIsEmpty
<1>2. TypeOK
  <2>1. <<>> \in [{} -> 1 .. MaxEntries] /\ {} \in SUBSET (1 .. MaxEntries)
    OBVIOUS
  <2>2. <<>> \in Indexes
    BY <2>1 DEF Indexes
  <2> QED
    BY <2>2 DEF Init, TypeOK
<1>3. EntriesFit
  BY BoundsAssumption DEF Init, EntriesFit
<1>4. StreamsPartitionJournal
  BY <1>1 DEF Init, StreamsPartitionJournal, IndexLeadsToItsEntry,
              IndexesAreDisjoint, EveryEntryIsIndexed
<1>5. VersionsAreGapless /\ VersionsTrailPlaces
  <2>1. 1 .. 0 = {} /\ 0 \in Nat
    OBVIOUS
  <2> QED
    BY <1>1, <2>1 DEF VersionsAreGapless, VersionsTrailPlaces
<1>6. DeletedAtCurrentVersion
  BY DEF Init, DeletedAtCurrentVersion, IsSoftDeleted
<1> QED
  BY <1>2, <1>3, <1>4, <1>5, <1>6 DEF IInv

LEMMA NextKeepsInvariant == IInv /\ [Next]_vars => IInv'
<1> SUFFICES ASSUME IInv, [Next]_vars PROVE IInv'
  OBVIOUS
<1>1. CASE UNCHANGED vars
  BY <1>1, IdleKeepsInvariant DEF vars
<1>2. ASSUME NEW s \in Streams, NEW expected \in ExpectedVersions, AppendStep(s, expected)
      PROVE  IInv'
  <2>1. CASE UNCHANGED store
    BY <2>1, IdleKeepsInvariant
  <2>2. ASSUME SnapshotsTyped', NEW sources \in Batches, Grown(s, sources)
        PROVE  IInv'
    BY <2>2, GrownKeepsTypes, GrownKeepsPartition, GrownKeepsVersions,
       GrownKeepsDeletion DEF IInv
  <2> QED
    BY <1>2, <2>1, <2>2, AppendEffect
<1>3. ASSUME NEW s \in Streams, LifecycleStep(s)
      PROVE  IInv'
  BY <1>3, LifecycleKeepsInvariant
<1> QED
  BY <1>1, <1>2, <1>3 DEF Next

----------------------------------------------------------------------------
(* Theorems *)

\* The strengthened invariant holds in every state of the journal.
THEOREM Invariance == Spec => []IInv
<1> QED
  BY InitInvariant, NextKeepsInvariant, PTL DEF Spec

\* Whatever is appended, deleted or truncated, the journal's maps keep their types.
THEOREM TypeCorrect == Spec => []TypeOK
<1>1. IInv => TypeOK
  BY DEF IInv
<1> QED
  BY <1>1, Invariance, PTL

\* Streams partition the journal: no entry is lost to its stream, shared by two
\* streams, or reached under a version it does not carry.
THEOREM PartitionIsSafe == Spec => []StreamsPartitionJournal
<1>1. IInv => StreamsPartitionJournal
  BY DEF IInv
<1> QED
  BY <1>1, Invariance, PTL

\* Versions of a stream are consecutive from 1 and in journal order, for every
\* mix of single and batch appends, deletions, reopenings and truncations.
THEOREM VersionsNeverGap == Spec => []VersionsAreGapless
<1>1. IInv => VersionsAreGapless
  BY DEF IInv
<1> QED
  BY <1>1, Invariance, PTL

\* A soft-deleted stream stays at the version recorded when it was deleted.
THEOREM DeletionFreezes == Spec => []DeletedAtCurrentVersion
<1>1. IInv => DeletedAtCurrentVersion
  BY DEF IInv
<1> QED
  BY <1>1, Invariance, PTL

----------------------------------------------------------------------------
(* Action properties *)

LEMMA GrownAppendsOnly ==
  ASSUME IInv, NEW s \in Streams, NEW sources \in Batches, Grown(s, sources)
  PROVE  /\ Len(journal) <= Len(journal')
         /\ \A p \in DOMAIN journal : journal'[p] = journal[p]
         /\ \A t \in Streams : \A v \in Versions(t) :
              v \in DOMAIN streamIndexes'[t] /\ streamIndexes'[t][v] = streamIndexes[t][v]
<1>0. PICK n, k, l : GrownBy(s, sources, n, k, l)
  BY GrownShape
<1>1. /\ n \in Nat /\ k \in Nat /\ l \in Nat /\ l = Len(journal)
      /\ Len(journal') = l + k
      /\ \A p \in 1 .. l : journal'[p] = journal[p]
      /\ streamIndexes[s] \in [1 .. n -> 1 .. l]
      /\ streamIndexes'[s] \in [1 .. n + k -> 1 .. l + k]
      /\ \A v \in 1 .. n : streamIndexes'[s][v] = streamIndexes[s][v]
      /\ \A t \in Streams \ {s} : streamIndexes'[t] = streamIndexes[t]
  BY <1>0 DEF GrownBy
<1>2. DOMAIN journal = 1 .. l
  BY <1>1 DEF IInv, TypeOK
<1>3. ASSUME NEW t \in Streams, NEW v \in Versions(t)
      PROVE  v \in DOMAIN streamIndexes'[t] /\ streamIndexes'[t][v] = streamIndexes[t][v]
  <2>1. CASE t = s
    <3>1. v \in 1 .. n /\ v \in 1 .. n + k
      BY <1>1, <1>3, <2>1 DEF Versions
    <3> QED
      BY <1>1, <2>1, <3>1
  <2>2. CASE t # s
    BY <1>1, <1>3, <2>2 DEF Versions
  <2> QED
    BY <2>1, <2>2
<1> QED
  BY <1>1, <1>2, <1>3

\* No call rewrites what was appended: entries and index places are for ever.
THEOREM JournalOnlyGrows == Spec => AppendOnly
<1> DEFINE Kept ==
      /\ Len(journal) <= Len(journal')
      /\ \A p \in DOMAIN journal : journal'[p] = journal[p]
      /\ \A s \in Streams : \A v \in Versions(s) :
           v \in DOMAIN streamIndexes'[s] /\ streamIndexes'[s][v] = streamIndexes[s][v]
<1>1. IInv /\ [Next]_vars => [Kept]_vars
  <2> SUFFICES ASSUME IInv, Next PROVE Kept
    OBVIOUS
  <2>1. CASE UNCHANGED <<journal, streamIndexes>>
    <3>1. Len(journal) \in Nat
      BY DEF IInv, TypeOK
    <3> QED
      BY <2>1, <3>1 DEF Versions
  <2>2. ASSUME NEW s \in Streams, NEW expected \in ExpectedVersions, AppendStep(s, expected)
        PROVE  Kept
    <3>1. CASE UNCHANGED store
      BY <2>1, <3>1 DEF store
    <3>2. ASSUME NEW sources \in Batches, Grown(s, sources)
          PROVE  Kept
      BY <3>2, GrownAppendsOnly
    <3> QED
      BY <2>2, <3>1, <3>2, AppendEffect
  <2>3. ASSUME NEW s \in Streams, LifecycleStep(s)
        PROVE  Kept
    <3>1. UNCHANGED <<journal, streamIndexes>>
      BY <2>3 DEF LifecycleStep, Tombstone, SoftDelete, TruncateBefore, store
    <3> QED
      BY <2>1, <3>1
  <2> QED
    BY <2>2, <2>3 DEF Next
<1> QED
  BY <1>1, Invariance, PTL DEF Spec, AppendOnly

\* After a tombstone nothing about the stream changes again.
THEOREM TombstoneEndsTheStream == Spec => TombstoneIsFinal
<1> DEFINE Final ==
      \A s \in tombstones :
        /\ s \in tombstones'
        /\ streamIndexes'[s] = streamIndexes[s]
        /\ snapshots'[s] = snapshots[s]
        /\ softDeleted'[s] = softDeleted[s]
<1>1. IInv /\ [Next]_vars => [Final]_vars
  <2> SUFFICES ASSUME IInv, Next, NEW s \in tombstones
               PROVE  /\ s \in tombstones'
                      /\ streamIndexes'[s] = streamIndexes[s]
                      /\ snapshots'[s] = snapshots[s]
                      /\ softDeleted'[s] = softDeleted[s]
    OBVIOUS
  <2>0. s \in Streams /\ softDeleted[s] = NotDeleted
    BY DEF IInv, TypeOK, DeletedAtCurrentVersion, IsSoftDeleted
  <2>1. CASE UNCHANGED store
    BY <2>1 DEF store
  <2>2. ASSUME NEW t \in Streams, NEW expected \in ExpectedVersions,
               AppendStep(t, expected), ~UNCHANGED store
        PROVE  t # s /\ UNCHANGED tombstones
               /\ streamIndexes'[s] = streamIndexes[s]
               /\ snapshots'[s] = snapshots[s]
               /\ softDeleted'[s] = softDeleted[s]
    <3>1. PICK sources \in Batches : Grown(t, sources)
      BY <2>2, AppendEffect
    <3>2. t # s
      BY <3>1 DEF Grown
    <3>3. /\ UNCHANGED tombstones
          /\ streamIndexes'[s] = streamIndexes[s]
          /\ softDeleted'[s] = softDeleted[s]
      BY <2>0, <3>1, <3>2 DEF Grown, IInv, TypeOK
    <3>4. snapshots'[s] = snapshots[s]
      <4>1. \/ UNCHANGED snapshots
            \/ \E value : snapshots' = [snapshots EXCEPT ![t] = value]
        BY <2>2 DEF AppendStep, AppendOne, AppendWith, AppendAll, AppendAllWith,
                    Refused, AdapterThrows
      <4> QED
        BY <2>0, <3>2, <4>1 DEF IInv, TypeOK
    <3> QED
      BY <3>2, <3>3, <3>4
  <2>3. ASSUME NEW t \in Streams, LifecycleStep(t), ~UNCHANGED store
        PROVE  /\ s \in tombstones'
               /\ streamIndexes'[s] = streamIndexes[s]
               /\ snapshots'[s] = snapshots[s]
               /\ softDeleted'[s] = softDeleted[s]
    <3>1. t \notin tombstones
      BY <2>3 DEF LifecycleStep, Tombstone, SoftDelete, TruncateBefore
    <3>2. /\ UNCHANGED <<streamIndexes, snapshots>>
          /\ tombstones \subseteq tombstones'
          /\ \/ UNCHANGED softDeleted
             \/ \E value : softDeleted' = [softDeleted EXCEPT ![t] = value]
      BY <2>3 DEF LifecycleStep, Tombstone, SoftDelete, TruncateBefore
    <3> QED
      BY <2>0, <3>1, <3>2 DEF IInv, TypeOK
  <2> QED
    BY <2>1, <2>2, <2>3 DEF Next
<1> QED
  BY <1>1, Invariance, PTL DEF Spec, TombstoneIsFinal

----------------------------------------------------------------------------
(* What the readers answer *)

\* A function on 1 .. n is a sequence of n elements.
LEMMA LenOfFunction ==
  ASSUME NEW n \in Nat, NEW f, f = [i \in 1 .. n |-> f[i]]
  PROVE  Len(f) = n /\ DOMAIN f = 1 .. n
<1> DEFINE S == {f[i] : i \in 1 .. n}
<1>1. f \in [1 .. n -> S]
  OBVIOUS
<1> HIDE DEF S
<1> QED
  BY <1>1

LEMMA VisibleInterval ==
  ASSUME IInv, NEW s \in Streams
  PROVE  \E m, n \in Nat :
           /\ m > 0 /\ n = CurrentVersion(s) /\ VisibleVersions(s) = m .. n
           /\ m <= n + 1
           /\ Cardinality(VisibleVersions(s)) = n + 1 - m
           /\ \A v \in m .. n : Cardinality({w \in VisibleVersions(s) : w < v}) = v - m
<1> DEFINE n == CurrentVersion(s)
           before == truncateBeforeMap[s]
           m == IF before = 0 THEN 1 ELSE IF before <= n THEN before ELSE n + 1
<1>1. n \in Nat /\ Versions(s) = 1 .. n /\ before \in Nat
  BY StreamShape DEF IInv, TypeOK
<1>2. m \in Nat /\ m > 0 /\ m <= n + 1
  BY <1>1
<1>3. VisibleVersions(s) = m .. n
  BY <1>1 DEF VisibleVersions
<1> HIDE DEF m, n
<1>4. Cardinality(m .. n) = n + 1 - m
  <2>1. m \in Int /\ n \in Int
    BY <1>1, <1>2
  <2>2. Cardinality(m .. n) = IF m > n THEN 0 ELSE n - m + 1
    BY <2>1, FS_Interval
  <2> QED
    BY <1>1, <1>2, <2>2
<1>5. ASSUME NEW v \in m .. n PROVE Cardinality({w \in m .. n : w < v}) = v - m
  <2>1. {w \in m .. n : w < v} = m .. v - 1
    BY <1>1, <1>2
  <2>2. m \in Int /\ v - 1 \in Int
    BY <1>1, <1>2
  <2>3. Cardinality(m .. v - 1) = IF m > v - 1 THEN 0 ELSE v - 1 - m + 1
    BY ONLY <2>2, FS_Interval
  <2>4. Cardinality({w \in m .. n : w < v}) = Cardinality(m .. v - 1)
    BY <2>1, Zenon
  <2>5. Cardinality(m .. v - 1) = v - m
    BY <1>1, <1>2, <2>3
  <2> QED
    BY <2>4, <2>5
<1> QED
  BY <1>1, <1>2, <1>3, <1>4, <1>5 DEF n

LEMMA LengthOfRead ==
  ASSUME IInv, NEW s \in Streams
  PROVE  /\ Cardinality(VisibleVersions(s)) \in Nat
         /\ Len(SortedById(InVersionOrder(s, VisibleVersions(s)))) = Cardinality(VisibleVersions(s))
<1>1. Cardinality(VisibleVersions(s)) \in Nat
  <2>1. PICK m \in Nat, n \in Nat : m <= n + 1 /\ Cardinality(VisibleVersions(s)) = n + 1 - m
    BY VisibleInterval
  <2> QED
    BY <2>1
<1> DEFINE size == Cardinality(VisibleVersions(s))
           inOrder == InVersionOrder(s, VisibleVersions(s))
           sorted == SortedById(inOrder)
<1>2. DOMAIN inOrder = 1 .. size
  BY DEF InVersionOrder
<1>3. sorted = [k \in DOMAIN inOrder |-> sorted[k]]
  <2> HIDE DEF inOrder
  <2> QED
    BY DEF SortedById
<1> HIDE DEF size, inOrder, sorted
<1>4. sorted = [k \in 1 .. size |-> sorted[k]] /\ size \in Nat
  BY <1>1, <1>2, <1>3 DEF size
<1>5. Len(sorted) = size
  BY ONLY <1>4, LenOfFunction
<1> QED
  BY <1>1, <1>5 DEF size, inOrder, sorted

\* A reader and the journal's own information agree in every state: on status,
\* version and the number of entries that truncation leaves visible.
THEOREM InfoIsWhatIsRead == Spec => []InfoAgreesWithRead
<1>1. IInv => InfoAgreesWithRead
  <2> SUFFICES ASSUME IInv, NEW s \in Streams
               PROVE  /\ StreamInfo(s).status = StreamFor(s).status
                      /\ StreamInfo(s).currentVersion = StreamFor(s).streamVersion
                      /\ StreamInfo(s).entryCount = Len(StreamFor(s).entries)
    BY DEF InfoAgreesWithRead
  <2>1. CASE s \in tombstones
    BY <2>1 DEF StreamInfo, StreamFor, Info, EntryStream
  <2>2. CASE s \notin tombstones /\ IsSoftDeleted(s)
    BY <2>2 DEF StreamInfo, StreamFor, Info, EntryStream
  <2>3. CASE s \notin tombstones /\ ~IsSoftDeleted(s) /\ StreamIsEmpty(s)
    <3>1. CurrentVersion(s) = 0 /\ VisibleVersions(s) = {}
      BY <2>3 DEF CurrentVersion, StreamIsEmpty, VisibleVersions
    <3>2. Cardinality(VisibleVersions(s)) = 0
      BY <3>1, FS_EmptySet
    <3> QED
      BY <2>3, <3>1, <3>2 DEF StreamInfo, StreamFor, Info, EntryStream
  <2>4. CASE s \notin tombstones /\ ~IsSoftDeleted(s) /\ ~StreamIsEmpty(s)
    BY <2>4, LengthOfRead DEF StreamInfo, StreamFor, Info, EntryStream
  <2> QED
    BY <2>1, <2>2, <2>3, <2>4
<1> QED
  BY <1>1, Invariance, PTL

\* The numbers of a stream's entries do not fall from version to version: the ids
\* of one entity's entries all have one number, or none.
NumbersFollowVersions ==
  \A s \in Streams : \A v, w \in Versions(s) :
    v < w => IdNumber[EventsOf(s)[v]] <= IdNumber[EventsOf(s)[w]]

\* The i-th entry of a read is the one of the i-th visible version.
LEMMA ReadInOrder ==
  ASSUME IInv, NEW s \in Streams, NEW m \in Nat, NEW n \in Nat, m > 0, m <= n + 1,
         n = CurrentVersion(s), VisibleVersions(s) = m .. n,
         Cardinality(VisibleVersions(s)) = n + 1 - m,
         \A v \in m .. n : Cardinality({w \in VisibleVersions(s) : w < v}) = v - m
  PROVE  InVersionOrder(s, VisibleVersions(s)) =
           [i \in 1 .. n + 1 - m |-> journal[streamIndexes[s][m + i - 1]]]
<1> DEFINE Nth(i) == CHOOSE v \in VisibleVersions(s) :
                       Cardinality({w \in VisibleVersions(s) : w < v}) = i - 1
<1>1. ASSUME NEW i \in 1 .. n + 1 - m PROVE Nth(i) = m + i - 1
  <2>1. m + i - 1 \in m .. n /\ (m + i - 1) - m = i - 1
    OBVIOUS
  <2>2. \A v \in m .. n : v - m = i - 1 => v = m + i - 1
    OBVIOUS
  <2> QED
    BY <2>1, <2>2
<1>2. InVersionOrder(s, VisibleVersions(s)) =
        [i \in 1 .. Cardinality(VisibleVersions(s)) |-> journal[streamIndexes[s][Nth(i)]]]
  BY DEF InVersionOrder
<1> HIDE DEF Nth
<1> QED
  BY <1>1, <1>2

\* Sorting by numbers that do not fall changes nothing.
LEMMA SortedAlready ==
  ASSUME NEW n \in Nat, NEW entries, entries = [i \in 1 .. n |-> entries[i]],
         \A i \in 1 .. n : IdNumber[entries[i].source] \in Int,
         \A i, j \in 1 .. n : i < j => IdNumber[entries[i].source] <= IdNumber[entries[j].source]
  PROVE  SortedById(entries) = entries
<1> DEFINE Number(i) == IdNumber[entries[i].source]
           IsBefore(i, j) == Number(i) < Number(j) \/ (Number(i) = Number(j) /\ i < j)
           Nth(k) == CHOOSE i \in 1 .. n : Cardinality({j \in 1 .. n : IsBefore(j, i)}) = k - 1
<1>1. \A i, j \in 1 .. n : IsBefore(j, i) <=> j < i
  <2> SUFFICES ASSUME NEW i \in 1 .. n, NEW j \in 1 .. n PROVE IsBefore(j, i) <=> j < i
    OBVIOUS
  <2>1. /\ Number(i) \in Int /\ Number(j) \in Int
        /\ i < j => Number(i) <= Number(j)
        /\ j < i => Number(j) <= Number(i)
    OBVIOUS
  <2> HIDE DEF Number
  <2> QED
    BY <2>1
<1> HIDE DEF IsBefore
<1>2. ASSUME NEW i \in 1 .. n PROVE Cardinality({j \in 1 .. n : IsBefore(j, i)}) = i - 1
  <2>1. {j \in 1 .. n : IsBefore(j, i)} = 1 .. i - 1
    BY <1>1
  <2>2. 1 \in Int /\ i - 1 \in Int
    OBVIOUS
  <2>3. Cardinality(1 .. i - 1) = IF 1 > i - 1 THEN 0 ELSE i - 1 - 1 + 1
    BY ONLY <2>2, FS_Interval
  <2>4. Cardinality({j \in 1 .. n : IsBefore(j, i)}) = Cardinality(1 .. i - 1)
    BY <2>1, Zenon
  <2>5. Cardinality(1 .. i - 1) = i - 1
    BY <2>3
  <2> QED
    BY <2>4, <2>5
<1>3. ASSUME NEW k \in 1 .. n PROVE Nth(k) = k
  <2>1. \A i \in 1 .. n : i - 1 = k - 1 => i = k
    OBVIOUS
  <2> QED
    BY <1>2, <2>1
<1>4. DOMAIN entries = 1 .. n
  OBVIOUS
<1>5. SortedById(entries) = [k \in 1 .. n |-> entries[Nth(k)]]
  BY <1>4 DEF SortedById, IsBefore
<1> HIDE DEF Nth
<1> QED
  BY <1>3, <1>5

\* The visible entries of a stream in the order of their versions.
LEMMA VisibleInOrder ==
  ASSUME IInv, NEW s \in Streams
  PROVE  \E m, n \in Nat :
           /\ m > 0 /\ n = CurrentVersion(s) /\ VisibleVersions(s) = m .. n
           /\ m <= n + 1
           /\ InVersionOrder(s, VisibleVersions(s)) =
                [i \in 1 .. n + 1 - m |-> journal[streamIndexes[s][m + i - 1]]]
           /\ Len(InVersionOrder(s, VisibleVersions(s))) = n + 1 - m
           /\ \A i \in 1 .. n + 1 - m :
                /\ m + i - 1 \in Versions(s)
                /\ InVersionOrder(s, VisibleVersions(s))[i] \in Entries
                /\ InVersionOrder(s, VisibleVersions(s))[i].streamVersion = m + i - 1
                /\ InVersionOrder(s, VisibleVersions(s))[i].source = EventsOf(s)[m + i - 1]
<1>1. PICK m \in Nat, n \in Nat :
        /\ m > 0 /\ n = CurrentVersion(s) /\ VisibleVersions(s) = m .. n
        /\ m <= n + 1
        /\ Cardinality(VisibleVersions(s)) = n + 1 - m
        /\ \A v \in m .. n : Cardinality({w \in VisibleVersions(s) : w < v}) = v - m
  BY VisibleInterval
<1> DEFINE size == n + 1 - m
           inOrder == InVersionOrder(s, VisibleVersions(s))
<1>2. size \in Nat
  BY <1>1
<1>3. inOrder = [i \in 1 .. size |-> journal[streamIndexes[s][m + i - 1]]]
  BY ONLY <1>1, ReadInOrder, IInv, s \in Streams, m \in Nat, n \in Nat
<1> HIDE DEF size, inOrder
<1>4. ASSUME NEW i \in 1 .. size
      PROVE  /\ m + i - 1 \in Versions(s)
             /\ inOrder[i] \in Entries
             /\ inOrder[i].streamVersion = m + i - 1
             /\ inOrder[i].source = EventsOf(s)[m + i - 1]
  <2>1. m + i - 1 \in Versions(s)
    BY <1>1 DEF size, VisibleVersions
  <2>2. inOrder[i] = journal[streamIndexes[s][m + i - 1]]
    BY <1>3
  <2>3. streamIndexes[s][m + i - 1] \in DOMAIN journal
    BY <2>1 DEF IInv, StreamsPartitionJournal, IndexLeadsToItsEntry
  <2>4. journal \in Seq(Entries)
    BY DEF IInv, TypeOK
  <2>5. inOrder[i] \in Entries
    BY <2>2, <2>3, <2>4
  <2>6. inOrder[i].streamVersion = m + i - 1
    BY <2>1, <2>2 DEF IInv, StreamsPartitionJournal, IndexLeadsToItsEntry
  <2>7. inOrder[i].source = EventsOf(s)[m + i - 1]
    BY <2>1, <2>2 DEF EventsOf
  <2> QED
    BY <2>1, <2>5, <2>6, <2>7
<1>5. inOrder = [i \in 1 .. size |-> inOrder[i]]
  BY <1>3
<1>6. Len(inOrder) = size
  BY ONLY <1>2, <1>5, LenOfFunction
<1> QED
  BY <1>1, <1>3, <1>4, <1>6 DEF size, inOrder

\* Sorting by id changes nothing as long as the numbers follow the versions.
LEMMA SortingKeepsOrder ==
  ASSUME IInv, NumbersFollowVersions, NEW s \in Streams
  PROVE  SortedById(InVersionOrder(s, VisibleVersions(s))) = InVersionOrder(s, VisibleVersions(s))
<1> DEFINE inOrder == InVersionOrder(s, VisibleVersions(s))
<1>1. PICK m \in Nat, n \in Nat :
        /\ m > 0 /\ n = CurrentVersion(s)
        /\ m <= n + 1
        /\ inOrder = [i \in 1 .. n + 1 - m |-> journal[streamIndexes[s][m + i - 1]]]
        /\ \A i \in 1 .. n + 1 - m :
             /\ m + i - 1 \in Versions(s)
             /\ inOrder[i] \in Entries
             /\ inOrder[i].source = EventsOf(s)[m + i - 1]
  BY VisibleInOrder
<1> DEFINE size == n + 1 - m
<1>2. size \in Nat
  BY <1>1
<1>3. inOrder = [i \in 1 .. size |-> inOrder[i]]
  BY <1>1
<1>4. ASSUME NEW i \in 1 .. size
      PROVE  /\ m + i - 1 \in Versions(s)
             /\ inOrder[i].source = EventsOf(s)[m + i - 1]
             /\ IdNumber[inOrder[i].source] \in Int
  BY <1>1, IdNumberAssumption DEF Entries
<1> HIDE DEF inOrder
<1>5. \A i, j \in 1 .. size :
        i < j => IdNumber[inOrder[i].source] <= IdNumber[inOrder[j].source]
  <2> SUFFICES ASSUME NEW i \in 1 .. size, NEW j \in 1 .. size, i < j
               PROVE  IdNumber[inOrder[i].source] <= IdNumber[inOrder[j].source]
    OBVIOUS
  <2>1. m + i - 1 < m + j - 1
    BY <1>2
  <2> QED
    BY <1>4, <2>1 DEF NumbersFollowVersions
<1> HIDE DEF size
<1>6. SortedById(inOrder) = inOrder
  BY ONLY <1>2, <1>3, <1>4, <1>5, SortedAlready
<1> QED
  BY <1>6 DEF inOrder


LEMMA ReadIsSuffix == IInv /\ NumbersFollowVersions => ReadIsGaplessSuffix
<1> SUFFICES ASSUME IInv, NumbersFollowVersions, NEW s \in Streams
             PROVE  \A i \in DOMAIN StreamFor(s).entries :
                      StreamFor(s).entries[i].streamVersion =
                        StreamFor(s).streamVersion - Len(StreamFor(s).entries) + i
  BY DEF ReadIsGaplessSuffix
<1>1. CASE StreamFor(s).entries = <<>>
  BY <1>1
<1>2. CASE StreamFor(s).entries # <<>>
  <2> DEFINE inOrder == InVersionOrder(s, VisibleVersions(s))
  <2>1. /\ StreamFor(s).streamVersion = CurrentVersion(s)
        /\ StreamFor(s).entries = inOrder
    BY <1>2, SortingKeepsOrder DEF StreamFor, EntryStream
  <2>2. PICK m \in Nat, n \in Nat :
          /\ m > 0 /\ n = CurrentVersion(s)
          /\ m <= n + 1
          /\ inOrder = [i \in 1 .. n + 1 - m |-> journal[streamIndexes[s][m + i - 1]]]
          /\ Len(inOrder) = n + 1 - m
          /\ \A i \in 1 .. n + 1 - m : inOrder[i].streamVersion = m + i - 1
    BY VisibleInOrder
  <2> HIDE DEF inOrder
  <2>3. DOMAIN inOrder = 1 .. n + 1 - m
    BY <2>2
  <2>4. \A i \in 1 .. n + 1 - m : m + i - 1 = n - Len(inOrder) + i
    BY <2>2
  <2>5. \A i \in DOMAIN inOrder : inOrder[i].streamVersion = n - Len(inOrder) + i
    BY ONLY <2>2, <2>3, <2>4
  <2> QED
    BY ONLY <2>1, <2>2, <2>5
<1> QED
  BY <1>1, <1>2

\* Ids that all have one number follow the versions of every stream.
LEMMA OneNumberFollows ==
  ASSUME \A a, b \in Sources : IdNumber[a] = IdNumber[b], IInv
  PROVE  NumbersFollowVersions
<1> SUFFICES ASSUME NEW s \in Streams, NEW v \in Versions(s), NEW w \in Versions(s)
             PROVE  IdNumber[EventsOf(s)[v]] <= IdNumber[EventsOf(s)[w]]
  BY DEF NumbersFollowVersions
<1>1. ASSUME NEW u \in Versions(s) PROVE EventsOf(s)[u] \in Sources
  <2>1. journal \in Seq(Entries) /\ streamIndexes[s][u] \in DOMAIN journal
    BY DEF IInv, TypeOK, StreamsPartitionJournal, IndexLeadsToItsEntry
  <2>2. journal[streamIndexes[s][u]] \in Entries
    BY <2>1
  <2> QED
    BY <2>2 DEF EventsOf, Entries
<1>2. IdNumber[EventsOf(s)[v]] = IdNumber[EventsOf(s)[w]] /\ IdNumber[EventsOf(s)[w]] \in Int
  BY <1>1, IdNumberAssumption
<1> QED
  BY <1>2

\* What streamFor answers are the last versions of the stream in order, without a
\* gap, as long as sorting by id finds them in order already.
THEOREM ReadsHaveNoGaps == Spec => [](NumbersFollowVersions => ReadIsGaplessSuffix)
<1>1. IInv => (NumbersFollowVersions => ReadIsGaplessSuffix)
  BY ReadIsSuffix
<1> QED
  BY <1>1, Invariance, PTL

\* Where the ids of all sources have one number, as those of one entity have, no
\* read has a gap.
THEOREM ReadsOfOneEntity ==
  ASSUME \A a, b \in Sources : IdNumber[a] = IdNumber[b]
  PROVE  Spec => []ReadIsGaplessSuffix
<1>1. IInv => NumbersFollowVersions
  BY OneNumberFollows
<1>2. IInv => ReadIsGaplessSuffix
  BY <1>1, ReadIsSuffix
<1> QED
  BY <1>2, Invariance, PTL

----------------------------------------------------------------------------
(* Global positions *)

LEMMA GrownKeepsPositions ==
  ASSUME IInv, GlobalPositionNamesItsBatch, NEW s \in Streams, NEW sources \in Batches,
         Grown(s, sources)
  PROVE  GlobalPositionNamesItsBatch'
<1>0. PICK n, k, l : GrownBy(s, sources, n, k, l)
  BY GrownShape
<1>1. /\ n \in Nat /\ k \in Nat /\ l \in Nat /\ l = Len(journal)
      /\ streamIndexes[s] \in [1 .. n -> 1 .. l]
      /\ DOMAIN journal' = 1 .. l + k
      /\ \A p \in 1 .. l : journal'[p] = journal[p]
      /\ \A i \in 1 .. k : journal'[l + i].globalPosition = l
      /\ streamIndexes'[s] \in [1 .. n + k -> 1 .. l + k]
      /\ \A v \in 1 .. n : streamIndexes'[s][v] = streamIndexes[s][v]
      /\ \A v \in n + 1 .. n + k : streamIndexes'[s][v] = l + (v - n)
      /\ \A t \in Streams \ {s} : streamIndexes'[t] = streamIndexes[t]
  BY <1>0 DEF GrownBy
<1>2. /\ DOMAIN journal = 1 .. l
      /\ \A p \in 1 .. l : journal[p].globalPosition \in Nat
  <2>1. journal \in Seq(Entries)
    BY DEF IInv, TypeOK
  <2>2. \A p \in DOMAIN journal : journal[p] \in Entries
    BY <2>1
  <2>3. DOMAIN journal = 1 .. l
    BY <1>1, <2>1
  <2> QED
    BY <2>2, <2>3 DEF Entries
<1>3. /\ \A p \in 1 .. l : journal[p].globalPosition <= p - 1
      /\ \A p, q \in 1 .. l : p < q => journal[p].globalPosition <= journal[q].globalPosition
  BY <1>2 DEF GlobalPositionNamesItsBatch
<1>4. ASSUME NEW p \in l + 1 .. l + k PROVE journal'[p].globalPosition = l
  <2>1. p - l \in 1 .. k /\ l + (p - l) = p
    BY <1>1
  <2> QED
    BY <1>1, <2>1
<1>5. \A p \in DOMAIN journal' : p \in 1 .. l \/ p \in l + 1 .. l + k
  BY <1>1
<1>6. \A p \in DOMAIN journal' : journal'[p].globalPosition <= p - 1
  BY <1>1, <1>3, <1>4, <1>5
<1>7. ASSUME NEW p \in DOMAIN journal', NEW q \in DOMAIN journal', p < q
      PROVE  journal'[p].globalPosition <= journal'[q].globalPosition
  <2>1. CASE q \in 1 .. l
    <3>1. p \in 1 .. l
      BY <1>1, <1>7, <2>1
    <3> QED
      BY <1>1, <1>3, <1>7, <2>1, <3>1
  <2>2. CASE p \in 1 .. l /\ q \in l + 1 .. l + k
    <3>1. journal[p].globalPosition \in Nat /\ journal[p].globalPosition <= p - 1
      BY <1>2, <1>3, <2>2
    <3>2. journal'[p].globalPosition = journal[p].globalPosition /\ journal'[q].globalPosition = l
      BY <1>1, <1>4, <2>2
    <3> QED
      BY <1>1, <2>2, <3>1, <3>2
  <2>3. CASE p \in l + 1 .. l + k /\ q \in l + 1 .. l + k
    BY <1>1, <1>4, <2>3
  <2> QED
    BY <1>5, <2>1, <2>2, <2>3
<1>8. ASSUME NEW t \in Streams, NEW v \in Versions(t)'
      PROVE  \E w \in Versions(t)' :
               streamIndexes'[t][w] = journal'[streamIndexes'[t][v]].globalPosition + 1
  <2>1. CASE t = s /\ v \in n + 1 .. n + k
    <3>1. n + 1 \in n + 1 .. n + k /\ n + 1 \in Versions(s)'
      BY <1>1, <2>1 DEF Versions
    <3>2. streamIndexes'[s][n + 1] = l + 1
      BY <1>1, <3>1
    <3>3. streamIndexes'[s][v] \in l + 1 .. l + k
      BY <1>1, <2>1
    <3>4. journal'[streamIndexes'[s][v]].globalPosition = l
      BY <1>4, <3>3
    <3> QED
      BY <2>1, <3>1, <3>2, <3>4
  <2>2. CASE ~(t = s /\ v \in n + 1 .. n + k)
    <3>1. /\ \A w \in Versions(t) : w \in Versions(t)' /\ streamIndexes'[t][w] = streamIndexes[t][w]
          /\ v \in Versions(t)
      <4>1. CASE t = s
        <5>1. Versions(t) = 1 .. n /\ Versions(t)' = 1 .. n + k
          BY <1>1, <4>1 DEF Versions
        <5>2. v \in 1 .. n /\ \A w \in 1 .. n : w \in 1 .. n + k
          BY <1>1, <1>8, <2>2, <4>1, <5>1
        <5> QED
          BY <1>1, <4>1, <5>1, <5>2
      <4>2. CASE t # s
        BY <1>1, <1>8, <4>2 DEF Versions
      <4> QED
        BY <4>1, <4>2
    <3>2. streamIndexes[t][v] \in 1 .. l
      BY <1>2, <3>1 DEF IInv, StreamsPartitionJournal, IndexLeadsToItsEntry
    <3>3. PICK w \in Versions(t) :
             streamIndexes[t][w] = journal[streamIndexes[t][v]].globalPosition + 1
      BY <3>1 DEF GlobalPositionNamesItsBatch
    <3>4. journal'[streamIndexes'[t][v]] = journal[streamIndexes[t][v]]
      BY <1>1, <3>1, <3>2
    <3> QED
      BY <3>1, <3>3, <3>4
  <2> QED
    BY <2>1, <2>2
<1> QED
  BY <1>6, <1>7, <1>8 DEF GlobalPositionNamesItsBatch

\* An entry's globalPosition names the first entry of its batch, which is one of
\* its stream, and never runs ahead of the entry or falls along the journal.
THEOREM PositionsNameBatches == Spec => []GlobalPositionNamesItsBatch
<1>1. Init => GlobalPositionNamesItsBatch
  BY DEF Init, GlobalPositionNamesItsBatch, Versions
<1>2. IInv /\ GlobalPositionNamesItsBatch /\ [Next]_vars => GlobalPositionNamesItsBatch'
  <2> SUFFICES ASSUME IInv, GlobalPositionNamesItsBatch, [Next]_vars
               PROVE  GlobalPositionNamesItsBatch'
    OBVIOUS
  <2>1. CASE UNCHANGED <<journal, streamIndexes>>
    BY <2>1 DEF GlobalPositionNamesItsBatch, Versions
  <2>2. ASSUME NEW s \in Streams, NEW expected \in ExpectedVersions, AppendStep(s, expected)
        PROVE  GlobalPositionNamesItsBatch'
    <3>1. CASE UNCHANGED store
      BY <2>1, <3>1 DEF store
    <3> QED
      BY <2>2, <3>1, AppendEffect, GrownKeepsPositions
  <2>3. ASSUME NEW s \in Streams, LifecycleStep(s)
        PROVE  GlobalPositionNamesItsBatch'
    <3>1. UNCHANGED <<journal, streamIndexes>>
      BY <2>3 DEF LifecycleStep, Tombstone, SoftDelete, TruncateBefore, store
    <3> QED
      BY <2>1, <3>1
  <2> QED
    BY <2>1, <2>2, <2>3 DEF Next, vars, store
<1> QED
  BY <1>1, <1>2, Invariance, PTL DEF Spec

----------------------------------------------------------------------------
(* Replies *)

\* What ReplyTellsTheOutcome says of one step.
Told ==
  /\ \A s \in Streams :
       streamIndexes'[s] # streamIndexes[s] => reply'.result = "Success" /\ reply'.stream = s
  /\ reply'.op \in AppendOps /\ reply'.result = "Success"
       => \A s \in Streams : s = reply'.stream => reply'.version = CurrentVersion(s)'
  /\ reply'.result \in Refusals => UNCHANGED store
  /\ reply'.result = "Thrown"
       => UNCHANGED <<journal, streamIndexes, snapshots, tombstones>>
  /\ reply'.op = "softDelete" /\ reply'.result \in {"Success", "StreamDeleted"}
       => \A s \in Streams : s = reply'.stream =>
            /\ softDeleted'[s] = reply'.version
            /\ s \in tombstones' <=> reply'.version = NoNumber

\* An accepted batch that is told as such.
LEMMA SuccessIsTold ==
  ASSUME IInv, NEW s \in Streams, NEW expected \in ExpectedVersions, NEW sources \in Batches,
         Stored(s, expected, sources), NEW op \in AppendOps,
         Reply(op, s, "Success", FinalVersion(s, expected, sources))
  PROVE  Told
<1>1. sources \in Seq(Sources)
  BY BatchFacts
<1>2. Grown(s, sources)
  BY <1>1, StoredGrows
<1>3. PICK n, k, l : GrownBy(s, sources, n, k, l)
  BY <1>2, GrownShape
<1>4. /\ n \in Nat /\ k \in Nat /\ n = CurrentVersion(s) /\ k = Len(sources)
      /\ CurrentVersion(s)' = n + k
      /\ \A t \in Streams \ {s} : streamIndexes'[t] = streamIndexes[t]
  BY <1>3 DEF GrownBy
<1>5. FinalVersion(s, expected, sources) = n + k
  <2>1. ResolveActualVersion(s, expected) = n + 1
    BY <1>4, AdmittedVersion DEF Stored
  <2> QED
    BY <1>4, <2>1 DEF FinalVersion
<1>6. reply' = [op |-> op, stream |-> s, result |-> "Success", version |-> n + k]
  BY <1>5 DEF Reply
<1>7. reply'.op # "softDelete" /\ reply'.op = op
  BY <1>6 DEF AppendOps
<1> QED
  BY <1>4, <1>6, <1>7 DEF Told, Refusals

\* Errors, refused or thrown, change none of what is told to be unchanged.
LEMMA ErrorsAreTold ==
  ASSUME IInv, NEW s \in Streams, NEW expected, NEW op \in AppendOps,
         \/ Refused(op, s, expected)
         \/ \E sources : AdapterThrows(op, s, expected, sources)
  PROVE  Told
<1>1. CASE Refused(op, s, expected)
  <2>1. UNCHANGED store /\ reply'.op = op /\ reply'.result \in Refusals
    BY <1>1 DEF Refused, Reply, Refusals
  <2> QED
    BY <2>1 DEF Told, Refusals, AppendOps, store
<1>2. CASE \E sources : AdapterThrows(op, s, expected, sources)
  <2>1. /\ reply'.op = op /\ reply'.result = "Thrown"
        /\ UNCHANGED <<journal, streamIndexes, snapshots, tombstones>>
    BY <1>2 DEF AdapterThrows, Reply
  <2> QED
    BY <2>1 DEF Told, Refusals, AppendOps
<1> QED
  BY <1>1, <1>2

LEMMA AppendsAreTold ==
  ASSUME IInv, NEW s \in Streams, NEW expected \in ExpectedVersions, AppendStep(s, expected)
  PROVE  Told
<1>1. ASSUME NEW source \in Sources
      PROVE  /\ <<source>> \in Batches
             /\ Admitted(s, expected) => FinalVersion(s, expected, <<source>>) = ResolveActualVersion(s, expected)
  <2>1. Admitted(s, expected) => ResolveActualVersion(s, expected) \in Nat
    BY AdmittedVersion, StreamShape
  <2> QED
    BY <2>1, SmallBatches DEF FinalVersion
<1>2. ASSUME NEW source \in Sources, AppendOne(s, expected, source) PROVE Told
  <2>1. "append" \in AppendOps
    BY DEF AppendOps
  <2>2. CASE Refused("append", s, expected) \/ AdapterThrows("append", s, expected, <<source>>)
    BY <2>1, <2>2, ErrorsAreTold
  <2>3. CASE /\ Stored(s, expected, <<source>>)
             /\ Reply("append", s, "Success", ResolveActualVersion(s, expected))
    <3>1. FinalVersion(s, expected, <<source>>) = ResolveActualVersion(s, expected)
      BY <1>1, <2>3 DEF Stored
    <3>2. Reply("append", s, "Success", FinalVersion(s, expected, <<source>>))
      BY <2>3, <3>1
    <3> QED
      BY <1>1, <2>1, <2>3, <3>2, SuccessIsTold
  <2> QED
    BY <1>2, <2>2, <2>3 DEF AppendOne
<1>3. ASSUME NEW source \in Sources, NEW snapshot \in SnapshotArgs,
             AppendWith(s, expected, source, snapshot)
      PROVE  Told
  <2>1. "appendWith" \in AppendOps
    BY DEF AppendOps
  <2>2. CASE Refused("appendWith", s, expected) \/ AdapterThrows("appendWith", s, expected, <<source>>)
    BY <2>1, <2>2, ErrorsAreTold
  <2>3. CASE /\ Stored(s, expected, <<source>>)
             /\ Reply("appendWith", s, "Success", ResolveActualVersion(s, expected))
    <3>1. FinalVersion(s, expected, <<source>>) = ResolveActualVersion(s, expected)
      BY <1>1, <2>3 DEF Stored
    <3>2. Reply("appendWith", s, "Success", FinalVersion(s, expected, <<source>>))
      BY <2>3, <3>1
    <3> QED
      BY <1>1, <2>1, <2>3, <3>2, SuccessIsTold
  <2> QED
    BY <1>3, <2>2, <2>3 DEF AppendWith
<1>4. ASSUME NEW sources \in Batches, AppendAll(s, expected, sources) PROVE Told
  <2>1. "appendAll" \in AppendOps
    BY DEF AppendOps
  <2>2. CASE Refused("appendAll", s, expected) \/ AdapterThrows("appendAll", s, expected, sources)
    BY <2>1, <2>2, ErrorsAreTold
  <2>3. CASE /\ Stored(s, expected, sources)
             /\ Reply("appendAll", s, "Success", FinalVersion(s, expected, sources))
    BY <2>1, <2>3, SuccessIsTold
  <2> QED
    BY <1>4, <2>2, <2>3 DEF AppendAll
<1>5. ASSUME NEW sources \in Batches, NEW snapshot \in SnapshotArgs,
             AppendAllWith(s, expected, sources, snapshot)
      PROVE  Told
  <2>1. "appendAllWith" \in AppendOps
    BY DEF AppendOps
  <2>2. CASE \/ Refused("appendAllWith", s, expected)
             \/ AdapterThrows("appendAllWith", s, expected, sources)
    BY <2>1, <2>2, ErrorsAreTold
  <2>3. CASE /\ Stored(s, expected, sources)
             /\ Reply("appendAllWith", s, "Success", FinalVersion(s, expected, sources))
    BY <2>1, <2>3, SuccessIsTold
  \* Only an empty batch can be stored and told as thrown.
  <2>4. CASE /\ Stored(s, expected, sources)
             /\ WrappingThrows(snapshot, FinalVersion(s, expected, sources))
             /\ Reply("appendAllWith", s, "Thrown", expected) /\ UNCHANGED snapshots
    <3>1. sources \in Seq(Sources) /\ Len(sources) \in Nat
      BY BatchFacts
    <3>2. ResolveActualVersion(s, expected) = CurrentVersion(s) + 1 /\ CurrentVersion(s) \in Nat
      BY <2>4, AdmittedVersion, StreamShape DEF Stored
    <3>3. CurrentVersion(s) = 0 /\ Len(sources) = 0
      BY <2>4, <3>1, <3>2 DEF WrappingThrows, FinalVersion
    <3>4. PICK n, k, l : GrownBy(s, sources, n, k, l)
      BY <2>4, <3>1, StoredGrows, GrownShape
    <3>5. n = 0 /\ k = 0
      BY <3>3, <3>4 DEF GrownBy
    <3>6. /\ l \in Nat /\ l = Len(journal) /\ journal' \in Seq(Entries) /\ Len(journal') = l
          /\ \A p \in 1 .. l : journal'[p] = journal[p]
          /\ streamIndexes[s] \in [{} -> 1 .. l] /\ streamIndexes'[s] \in [{} -> 1 .. l]
          /\ \A t \in Streams \ {s} : streamIndexes'[t] = streamIndexes[t]
          /\ DOMAIN streamIndexes' = Streams
      <4>1. l + k = l /\ n + k = 0 /\ 1 .. 0 = {}
        BY <3>4, <3>5 DEF GrownBy
      <4> QED
        BY <3>4, <3>5, <4>1 DEF GrownBy
    <3>7. journal' = journal
      BY <3>6, SeqEqual DEF IInv, TypeOK
    <3>8. streamIndexes' = streamIndexes
      <4>1. \A t \in Streams : streamIndexes'[t] = streamIndexes[t]
        BY <3>6
      <4>2. streamIndexes' = [t \in Streams |-> streamIndexes'[t]]
        BY <2>4 DEF Stored, Insert, IInv, TypeOK
      <4> QED
        BY <4>1, <4>2 DEF IInv, TypeOK
    <3>9. UNCHANGED tombstones /\ reply'.op = "appendAllWith" /\ reply'.result = "Thrown"
      BY <2>4 DEF Stored, Reply
    <3> QED
      BY <2>4, <3>7, <3>8, <3>9 DEF Told, Refusals
  <2> QED
    BY <1>5, <2>2, <2>3, <2>4 DEF AppendAllWith
<1> QED
  BY <1>2, <1>3, <1>4, <1>5 DEF AppendStep

LEMMA LifecycleIsTold ==
  ASSUME IInv, NEW s \in Streams, LifecycleStep(s)
  PROVE  Told
<1>1. UNCHANGED <<journal, streamIndexes>>
  BY DEF LifecycleStep, Tombstone, SoftDelete, TruncateBefore, store
<1>2. CASE Tombstone(s)
  <2>1. /\ reply'.op = "tombstone" /\ reply'.result # "Thrown"
        /\ reply'.result \in Refusals => UNCHANGED store
    BY <1>2 DEF Tombstone, TombstoneResult, Reply, Refusals
  <2> QED
    BY <1>1, <2>1 DEF Told, AppendOps
<1>3. ASSUME NEW before, TruncateBefore(s, before) PROVE Told
  <2>1. /\ reply'.op = "truncateBefore" /\ reply'.result # "Thrown"
        /\ reply'.result \in Refusals => UNCHANGED store
    BY <1>3 DEF TruncateBefore, TruncateResult, Reply, Refusals
  <2> QED
    BY <1>1, <2>1 DEF Told, AppendOps
<1>4. CASE SoftDelete(s)
  <2>1. CurrentVersion(s) \in Nat
    BY StreamShape
  <2>2. /\ reply'.op = "softDelete" /\ reply'.stream = s /\ reply'.result # "Thrown"
        /\ reply'.result \in Refusals => UNCHANGED store
    BY <1>4 DEF SoftDelete, DeleteResult, Reply, Refusals
  <2>3. ASSUME reply'.result \in {"Success", "StreamDeleted"}
        PROVE  softDeleted'[s] = reply'.version /\ (s \in tombstones' <=> reply'.version = NoNumber)
    <3>1. CASE s \in tombstones
      <4>1. softDeleted[s] = NotDeleted
        BY <3>1 DEF IInv, DeletedAtCurrentVersion, IsSoftDeleted
      <4>2. UNCHANGED store /\ reply'.version = NoNumber
        BY <1>4, <3>1 DEF SoftDelete, DeleteResult, Reply
      <4> QED
        BY <3>1, <4>1, <4>2 DEF store, NotDeleted, NoNumber
    <3>2. CASE s \notin tombstones /\ IsSoftDeleted(s)
      <4>1. softDeleted[s] # NotDeleted
        BY <3>2 DEF IsSoftDeleted
      <4>2. UNCHANGED store /\ reply'.version = softDeleted[s]
        BY <1>4, <3>2 DEF SoftDelete, DeleteResult, Reply
      <4> QED
        BY <3>2, <4>1, <4>2 DEF store, NotDeleted, NoNumber
    <3>3. CASE s \notin tombstones /\ ~IsSoftDeleted(s)
      <4>1. /\ softDeleted' = [softDeleted EXCEPT ![s] = CurrentVersion(s)]
            /\ reply'.version = CurrentVersion(s) /\ UNCHANGED tombstones
        BY <1>4, <2>3, <3>3 DEF SoftDelete, DeleteResult, Reply
      <4>2. softDeleted'[s] = CurrentVersion(s)
        BY <4>1 DEF IInv, TypeOK
      <4> QED
        BY <2>1, <3>3, <4>1, <4>2 DEF NoNumber
    <3> QED
      BY <3>1, <3>2, <3>3
  <2> QED
    BY <1>1, <2>2, <2>3 DEF Told, AppendOps
<1> QED
  BY <1>2, <1>3, <1>4 DEF LifecycleStep

\* The result of a call is the truth about what it did: a stream grows only when
\* Success is answered, to the version that is answered; who is refused changed
\* nothing, and who threw left no entry behind.
THEOREM RepliesAreTrue == Spec => ReplyTellsTheOutcome
<1>1. IInv /\ [Next]_vars => [Told]_vars
  BY AppendsAreTold, LifecycleIsTold DEF Next
<1> QED
  BY <1>1, Invariance, PTL DEF Spec, ReplyTellsTheOutcome, Told

----------------------------------------------------------------------------
(* The journal implements EventStreams *)

LEMMA PlaceHoldsEntry ==
  ASSUME IInv, NEW p \in DOMAIN journal
  PROVE  journal[p] \in Entries
<1>1. journal \in Seq(Entries)
  BY DEF IInv, TypeOK
<1> QED
  BY <1>1

\* A function that goes through one sequence and then through another.
Pieces(f, a, b, n, k) ==
  /\ n = Len(a) /\ k = Len(b)
  /\ f = [i \in 1 .. n + k |-> f[i]]
  /\ \A i \in 1 .. n + k : f[i] = IF i <= n THEN a[i] ELSE b[i - n]

LEMMA PiecesAreConcat ==
  ASSUME NEW S, NEW a \in Seq(S), NEW b \in Seq(S), NEW f, NEW n, NEW k,
         Pieces(f, a, b, n, k)
  PROVE  f = a \o b
<1>0. /\ n = Len(a) /\ k = Len(b) /\ n \in Nat /\ k \in Nat
      /\ f = [i \in 1 .. n + k |-> f[i]]
      /\ \A i \in 1 .. n + k : f[i] = IF i <= n THEN a[i] ELSE b[i - n]
  BY DEF Pieces
<1>1. ASSUME NEW i \in 1 .. n + k PROVE f[i] \in S
  <2>1. CASE i \in 1 .. n
    BY <1>0, <2>1, ElementOfSeq
  <2>2. CASE i \in n + 1 .. n + k
    <3>1. i - n \in 1 .. k /\ ~(i <= n)
      BY <1>0, <2>2
    <3> QED
      BY <1>0, <3>1, ElementOfSeq
  <2> QED
    BY <1>0, <2>1, <2>2
<1>2. f \in Seq(S) /\ Len(f) = n + k
  BY <1>0, <1>1
<1>3. /\ a \o b \in Seq(S)
      /\ Len(a \o b) = n + k
      /\ \A i \in 1 .. n + k : (a \o b)[i] = IF i <= n THEN a[i] ELSE b[i - n]
  BY <1>0, ConcatProperties
<1>4. \A i \in 1 .. Len(f) : f[i] = (a \o b)[i]
  BY <1>0, <1>2, <1>3
<1> QED
  BY <1>2, <1>3, <1>4, SeqEqual

LEMMA EventsAreASequence ==
  ASSUME IInv, NEW s \in Streams
  PROVE  EventsOf(s) \in Seq(Sources) /\ Len(EventsOf(s)) = CurrentVersion(s)
<1>1. /\ CurrentVersion(s) \in Nat
      /\ Versions(s) = 1 .. CurrentVersion(s)
  BY StreamShape
<1>2. \A v \in Versions(s) : journal[streamIndexes[s][v]].source \in Sources
  <2> TAKE v \in Versions(s)
  <2>1. streamIndexes[s][v] \in DOMAIN journal
    BY DEF IInv, StreamsPartitionJournal, IndexLeadsToItsEntry
  <2>2. journal[streamIndexes[s][v]] \in Entries
    BY <2>1, PlaceHoldsEntry
  <2> QED
    BY <2>2 DEF Entries
<1>3. EventsOf(s) \in [1 .. CurrentVersion(s) -> Sources]
  BY <1>1, <1>2 DEF EventsOf
<1> QED
  BY <1>1, <1>3

\* An accepted append publishes its batch, whatever was stored before.
LEMMA GrownPublishes ==
  ASSUME IInv, NEW s \in Streams, NEW sources \in Batches, Grown(s, sources)
  PROVE  Streaming!Publish(s, sources)
<1>0. PICK n, k, l : GrownBy(s, sources, n, k, l)
  BY GrownShape
<1>1. /\ n \in Nat /\ k \in Nat /\ l \in Nat
      /\ n = CurrentVersion(s) /\ k = Len(sources) /\ l = Len(journal)
      /\ streamIndexes[s] \in [1 .. n -> 1 .. l]
      /\ journal' \in Seq(Entries) /\ DOMAIN journal' = 1 .. l + k
      /\ \A p \in 1 .. l : journal'[p] = journal[p]
      /\ \A i \in 1 .. k : journal'[l + i].source = sources[i]
      /\ streamIndexes'[s] \in [1 .. n + k -> 1 .. l + k]
      /\ \A v \in 1 .. n : streamIndexes'[s][v] = streamIndexes[s][v]
      /\ \A v \in n + 1 .. n + k : streamIndexes'[s][v] = l + (v - n)
      /\ \A t \in Streams \ {s} : streamIndexes'[t] = streamIndexes[t]
  BY <1>0 DEF GrownBy
<1>2. sources \in Seq(Sources)
  BY BatchFacts
<1>3. EventsOf(s) \in Seq(Sources) /\ Len(EventsOf(s)) = n
  BY <1>1, EventsAreASequence
<1>4. \A t \in Streams : \A v \in Versions(t) : streamIndexes[t][v] \in 1 .. l
  BY <1>1 DEF IInv, TypeOK, StreamsPartitionJournal, IndexLeadsToItsEntry
<1>5. EventsOf(s)' = EventsOf(s) \o sources
  <2>1. EventsOf(s)' = [v \in 1 .. n + k |-> journal'[streamIndexes'[s][v]].source]
    BY <1>1 DEF EventsOf, Versions
  <2>3. ASSUME NEW v \in 1 .. n + k
        PROVE  journal'[streamIndexes'[s][v]].source =
                 IF v <= n THEN EventsOf(s)[v] ELSE sources[v - n]
    <3>1. CASE v \in 1 .. n
      <4>1. v \in Versions(s) /\ streamIndexes[s][v] \in 1 .. l
        BY <1>1, <3>1 DEF Versions
      <4>2. EventsOf(s)[v] = journal[streamIndexes[s][v]].source
        BY <4>1 DEF EventsOf
      <4> QED
        BY <1>1, <3>1, <4>1, <4>2
    <3>2. CASE v \in n + 1 .. n + k
      <4>0. n \in Nat /\ k \in Nat
        BY <1>1
      <4>1. v - n \in 1 .. k /\ ~(v <= n)
        BY ONLY <4>0, <3>2
      <4>2. streamIndexes'[s][v] = l + (v - n)
        BY <1>1, <3>2
      <4>3. journal'[l + (v - n)].source = sources[v - n]
        BY <1>1, <4>1
      <4> QED
        BY <4>1, <4>2, <4>3
    <3> QED
      BY <1>1, <3>1, <3>2
  <2>4. Pieces(EventsOf(s)', EventsOf(s), sources, n, k)
    BY <1>1, <1>3, <2>1, <2>3 DEF Pieces
  <2> QED
    BY ONLY <1>2, <1>3, <2>4, PiecesAreConcat
<1>6. ASSUME NEW t \in Streams \ {s}
      PROVE  EventsOf(t)' = EventsOf(t)
  BY <1>1, <1>4 DEF EventsOf, Versions
<1>7. [t \in Streams |-> EventsOf(t)'] =
        [[t \in Streams |-> EventsOf(t)] EXCEPT ![s] = @ \o sources]
  BY <1>5, <1>6
<1>8. [p \in DOMAIN journal' |-> journal'[p].source] =
        [p \in DOMAIN journal |-> journal[p].source] \o sources
  <2> DEFINE h == [p \in DOMAIN journal |-> journal[p].source]
  <2>1. DOMAIN journal = 1 .. l
    BY <1>1 DEF IInv, TypeOK
  <2>2. h \in [1 .. l -> Sources]
    <3>1. \A p \in DOMAIN journal : journal[p].source \in Sources
      BY PlaceHoldsEntry DEF Entries
    <3> QED
      BY <2>1, <3>1
  <2>3. h \in Seq(Sources) /\ Len(h) = l
    <3>1. l \in Nat
      BY <1>1
    <3> HIDE DEF h
    <3> QED
      BY ONLY <2>2, <3>1
  <2>4. \A p \in 1 .. l : h[p] = journal[p].source
    BY <2>1
  <2> HIDE DEF h
  <2>6. ASSUME NEW p \in 1 .. l + k
        PROVE  journal'[p].source = IF p <= l THEN h[p] ELSE sources[p - l]
    <3>1. CASE p \in 1 .. l
      BY <1>1, <2>4, <3>1
    <3>2. CASE p \in l + 1 .. l + k
      <4>1. p - l \in 1 .. k /\ l + (p - l) = p /\ ~(p <= l)
        BY <1>1, <3>2
      <4> QED
        BY <1>1, <4>1
    <3> QED
      BY <1>1, <3>1, <3>2
  <2> DEFINE g == [p \in DOMAIN journal' |-> journal'[p].source]
  <2>7. Pieces(g, h, sources, l, k)
    BY <1>1, <2>3, <2>6 DEF Pieces
  <2> HIDE DEF g
  <2>8. g = h \o sources
    BY ONLY <1>2, <2>3, <2>7, PiecesAreConcat
  <2> QED
    BY <2>8 DEF g, h
<1>9. /\ [t \in Streams |-> StatusOf(t)][s] # "tombstoned"
      /\ [t \in Streams |-> StatusOf(t)'] =
           [[t \in Streams |-> StatusOf(t)] EXCEPT ![s] = "active"]
  BY DEF Grown, StatusOf, IsSoftDeleted, IInv, TypeOK
<1> QED
  BY <1>7, <1>8, <1>9 DEF Streaming!Publish

\* The journal implements EventStreams under the mapping of Journal!Streaming:
\* its four append handlers publish, deletions retire and bury, and refused
\* calls, truncations and reads are invisible to who only knows streams.
THEOREM JournalImplementsEventStreams == Spec => ImplementsEventStreams
<1>1. Init => Streaming!Init
  <2> SUFFICES ASSUME Init PROVE Streaming!Init
    OBVIOUS
  <2>1. \A s \in Streams : EventsOf(s) = <<>>
    BY DEF Init, EventsOf, Versions
  <2>2. \A s \in Streams : StatusOf(s) = "active"
    BY DEF Init, StatusOf, IsSoftDeleted
  <2>3. [p \in DOMAIN journal |-> journal[p].source] = <<>>
    BY DEF Init
  <2> QED
    BY <2>1, <2>2, <2>3 DEF Streaming!Init
<1>2. IInv /\ [Next]_vars => [Streaming!Next]_(Streaming!vars)
  <2> SUFFICES ASSUME IInv, [Next]_vars
               PROVE  Streaming!Next \/ UNCHANGED Streaming!vars
    OBVIOUS
  <2>1. CASE UNCHANGED <<journal, streamIndexes, tombstones, softDeleted>>
    BY <2>1 DEF Streaming!vars, EventsOf, StatusOf, IsSoftDeleted, Versions
  <2>2. ASSUME NEW s \in Streams, NEW expected \in ExpectedVersions, AppendStep(s, expected)
        PROVE  Streaming!Next \/ UNCHANGED Streaming!vars
    <3>1. CASE UNCHANGED store
      BY <2>1, <3>1 DEF store
    <3>2. ASSUME NEW sources \in Batches, Grown(s, sources)
          PROVE  Streaming!Next
      BY <3>2, GrownPublishes DEF Streaming!Next
    <3> QED
      BY <2>2, <3>1, <3>2, AppendEffect
  <2>3. ASSUME NEW s \in Streams, LifecycleStep(s)
        PROVE  Streaming!Next \/ UNCHANGED Streaming!vars
    <3>1. UNCHANGED <<journal, streamIndexes>>
      BY <2>3 DEF LifecycleStep, Tombstone, SoftDelete, TruncateBefore, store
    <3>2. \A t \in Streams : EventsOf(t)' = EventsOf(t)
      BY <3>1 DEF EventsOf, Versions
    <3>3. StreamIsEmpty(s) \/ EventsOf(s) # <<>>
      <4>1. EventsOf(s) = <<>> => CurrentVersion(s) = 0
        BY EventsAreASequence
      <4> QED
        BY <4>1, StreamShape
    <3>4. CASE UNCHANGED <<tombstones, softDeleted>>
      BY <2>1, <3>1, <3>4
    <3>5. CASE /\ s \notin tombstones /\ ~StreamIsEmpty(s)
               /\ tombstones' = tombstones \cup {s}
               /\ softDeleted' = [softDeleted EXCEPT ![s] = NotDeleted]
      <4>1. /\ [t \in Streams |-> StatusOf(t)][s] # "tombstoned"
            /\ [t \in Streams |-> StatusOf(t)'] =
                 [[t \in Streams |-> StatusOf(t)] EXCEPT ![s] = "tombstoned"]
        BY <3>5 DEF StatusOf, IsSoftDeleted, IInv, TypeOK
      <4>2. [t \in Streams |-> EventsOf(t)'] = [t \in Streams |-> EventsOf(t)]
        BY <3>2
      <4>3. Streaming!Bury(s)
        BY <3>1, <3>3, <3>5, <4>1, <4>2 DEF Streaming!Bury
      <4> QED
        BY <4>3 DEF Streaming!Next
    <3>6. CASE /\ s \notin tombstones /\ ~IsSoftDeleted(s) /\ ~StreamIsEmpty(s)
               /\ softDeleted' = [softDeleted EXCEPT ![s] = CurrentVersion(s)]
               /\ UNCHANGED tombstones
      <4>0. CurrentVersion(s) # NotDeleted
        BY StreamShape DEF NotDeleted
      <4>1. /\ [t \in Streams |-> StatusOf(t)][s] = "active"
            /\ [t \in Streams |-> StatusOf(t)'] =
                 [[t \in Streams |-> StatusOf(t)] EXCEPT ![s] = "softDeleted"]
        BY <3>6, <4>0 DEF StatusOf, IsSoftDeleted, IInv, TypeOK
      <4>2. [t \in Streams |-> EventsOf(t)'] = [t \in Streams |-> EventsOf(t)]
        BY <3>2
      <4>3. Streaming!Retire(s)
        BY <3>1, <3>3, <3>6, <4>1, <4>2 DEF Streaming!Retire
      <4> QED
        BY <4>3 DEF Streaming!Next
    <3> QED
      BY <2>3, <3>4, <3>5, <3>6
      DEF LifecycleStep, Tombstone, SoftDelete, TruncateBefore, store
  <2> QED
    BY <2>1, <2>2, <2>3 DEF Next, vars, store
<1> QED
  BY <1>1, <1>2, Invariance, PTL DEF Spec, Streaming!Spec, ImplementsEventStreams
=============================================================================
