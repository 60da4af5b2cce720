------------------------ MODULE SourcedEntityProofs ------------------------
(***************************************************************************)
(* Entities on a journal: the journal's invariant holds under them, no     *)
(* entity runs ahead of its stream, a sole writer meets no conflict, and   *)
(* without snapshots an entity is what its stream says it is.              *)
(***************************************************************************)
EXTENDS SourcedEntity, JournalProofs, Ranking

----------------------------------------------------------------------------
(* The inductive invariants *)

Answers == {"none", "Success", "ConcurrencyViolation", "StreamDeleted", "Thrown"}
Reads == [streamVersion : Nat, entries : Seq(Entries),
          snapshot : StoredSnapshots \cup {NoSnapshot},
          status : {"none", "active", "softDeleted", "tombstoned"}]
Requests == [sources : Batches, snapshot : SnapshotArgs, answer : Answers]

EntityTypeOK ==
  /\ phase \in [Entities -> Phases]
  /\ state \in [Entities -> Seq(Sources)]
  /\ version \in [Entities -> Nat]
  /\ read \in [Entities -> Reads]
  /\ request \in [Entities -> Requests]

\* A snapshot that is stored is a state its stream has had room for.
SnapshotsAreStates ==
  \A s \in Streams : snapshots[s] # NoSnapshot =>
    /\ CurrentVersion(s) > 0
    /\ snapshots[s].value \in Seq(Sources)
    /\ Len(snapshots[s].value) <= CurrentVersion(s)

\* Neither the entity, nor what it reads, nor what it asks for exceeds its stream.
VersionFits(e) ==
  /\ version[e] <= CurrentVersion(StreamOf[e])
  /\ Len(state[e]) <= CurrentVersion(StreamOf[e])
  /\ Len(state[e]) <= version[e] \/ version[e] = 0

RequestFits(e) ==
  /\ phase[e] # "answered" => request[e].answer = "none"
  /\ request[e].snapshot # NoSnapshot =>
       /\ request[e].snapshot.value \in Seq(Sources)
       /\ Len(request[e].snapshot.value) <= CurrentVersion(StreamOf[e])
       /\ request[e].snapshot.kind = "state" => CurrentVersion(StreamOf[e]) > 0
  /\ phase[e] = "answered" /\ request[e].answer = "Success" =>
       /\ Len(state[e]) <= version[e]
       /\ version[e] + Len(request[e].sources) <= CurrentVersion(StreamOf[e])

ReadFits(e) ==
  phase[e] = "restoring" =>
    /\ read[e].streamVersion <= CurrentVersion(StreamOf[e])
    /\ Len(read[e].entries) <= read[e].streamVersion
    /\ read[e].snapshot # NoSnapshot =>
         /\ read[e].snapshot.value \in Seq(Sources)
         /\ Len(read[e].snapshot.value) <= read[e].streamVersion

Fits(e) == VersionFits(e) /\ RequestFits(e) /\ ReadFits(e)

EntityInv ==
  /\ IInv
  /\ EntityTypeOK
  /\ SnapshotsAreStates
  /\ \A e \in Entities : Fits(e)

\* An entity that nobody disturbs is at the version of its stream, unless the
\* stream's snapshot cannot be read: then it is at version 0 and stays there.
Sound(e) ==
  /\ SoleWriter(e)
  /\ \A v \in Versions(StreamOf[e]) :
       EventsOf(StreamOf[e])[v] \notin Unconsumed \cup Unreadable

Lost(e) ==
  /\ version[e] = 0
  /\ CurrentVersion(StreamOf[e]) > 0
  /\ ~SnapshotReadable([snapshot |-> snapshots[StreamOf[e]]])

InStep(e) == version[e] = CurrentVersion(StreamOf[e]) \/ Lost(e)

IsEvent(e, source) ==
  \E v \in Versions(StreamOf[e]) : EventsOf(StreamOf[e])[v] = source

\* Where an entity stands between two steps when it is the only writer.
Stands(e) ==
  /\ phase[e] = "restoring" =>
       /\ read[e].streamVersion = CurrentVersion(StreamOf[e])
       /\ read[e].snapshot \in {NoSnapshot, snapshots[StreamOf[e]]}
       /\ \A i \in DOMAIN read[e].entries : IsEvent(e, read[e].entries[i].source)
  /\ phase[e] \in {"idle", "requested"} => InStep(e)
  /\ phase[e] = "answered" /\ request[e].answer = "Success" =>
       /\ version[e] + Len(request[e].sources) = CurrentVersion(StreamOf[e])
       /\ \A i \in DOMAIN request[e].sources : IsEvent(e, request[e].sources[i])
  /\ phase[e] = "answered" /\ request[e].answer # "Success" =>
       /\ InStep(e)
       /\ request[e].answer = "ConcurrencyViolation" => Lost(e)

StandingInv == \A e \in Entities \ LateJournal : Sound(e) => Stands(e)

\* Without snapshots, deletions and truncations, an entity mirrors its stream.
NothingHidden ==
  /\ tombstones = {}
  /\ \A s \in Streams : /\ softDeleted[s] = NotDeleted
                        /\ truncateBeforeMap[s] = 0
                        /\ snapshots[s] = NoSnapshot

Mirrors(e) ==
  LET events == EventsOf(StreamOf[e])
  IN  /\ Begins(state[e], events)
      /\ version[e] = Len(state[e]) \/ version[e] = 0
      /\ request[e].snapshot = NoSnapshot
      /\ phase[e] = "answered" /\ request[e].answer = "Success" =>
           /\ Begins(state[e] \o request[e].sources, events)
           /\ version[e] = Len(state[e])
      /\ phase[e] = "restoring" =>
           /\ Begins(SourcesOf(read[e]), events)
           /\ read[e].snapshot = NoSnapshot
           /\ read[e].streamVersion = Len(read[e].entries)

MirrorInv == NothingHidden /\ \A e \in Entities : Mirrors(e)

----------------------------------------------------------------------------
(* Sequences that begin others, and what can be applied of a batch *)

LEMMA BeginsPointwise ==
  ASSUME NEW S, NEW xs \in Seq(S), NEW ys \in Seq(S)
  PROVE  Begins(xs, ys) <=> /\ Len(xs) <= Len(ys)
                            /\ \A i \in 1 .. Len(xs) : xs[i] = ys[i]
<1> DEFINE front == SubSeq(ys, 1, Len(xs))
<1>1. Len(xs) \in Nat /\ Len(ys) \in Nat /\ DOMAIN xs = 1 .. Len(xs)
  OBVIOUS
<1>2. ASSUME Len(xs) <= Len(ys)
      PROVE  /\ front \in Seq(S)
             /\ Len(front) = Len(xs)
             /\ \A i \in 1 .. Len(xs) : front[i] = ys[i]
  <2>1. \A i \in 1 .. Len(xs) : ys[i] \in S
    BY <1>1, <1>2
  <2>2. /\ front \in Seq(S)
        /\ Len(front) = IF 1 <= Len(xs) THEN Len(xs) - 1 + 1 ELSE 0
        /\ \A i \in 1 .. Len(xs) - 1 + 1 : front[i] = ys[1 + i - 1]
    BY ONLY <1>1, <2>1, SubSeqProperties
  <2> QED
    BY <1>1, <2>2
<1> HIDE DEF front
<1>3. ASSUME Len(xs) <= Len(ys), \A i \in 1 .. Len(xs) : xs[i] = ys[i]
      PROVE  xs = front
  <2>1. /\ front \in Seq(S) /\ Len(front) = Len(xs)
        /\ \A i \in 1 .. Len(xs) : front[i] = ys[i]
    BY <1>2, <1>3
  <2>2. \A i \in 1 .. Len(xs) : xs[i] = front[i]
    BY <1>3, <2>1
  <2> QED
    BY <2>1, <2>2, SeqEqual
<1> QED
  BY <1>2, <1>3 DEF Begins, front

\* What is applied are the sources up to the first that cannot be.
LEMMA ApplicableBegins ==
  ASSUME NEW sources \in Seq(Sources), NEW without
  PROVE  /\ Applicable(sources, without) \in Seq(Sources)
         /\ Len(Applicable(sources, without)) <= Len(sources)
         /\ \A i \in 1 .. Len(Applicable(sources, without)) :
              Applicable(sources, without)[i] = sources[i]
         /\ (\A i \in 1 .. Len(sources) : sources[i] \notin without)
              => Applicable(sources, without) = sources
<1> DEFINE stuck == {i \in 1 .. Len(sources) : sources[i] \in without}
           least == Min(stuck)
<1>1. Len(sources) \in Nat /\ DOMAIN sources = 1 .. Len(sources)
  OBVIOUS
<1>2. CASE stuck = {}
  BY <1>1, <1>2 DEF Applicable
<1>3. CASE stuck # {}
  <2>1. IsFiniteSet(stuck) /\ stuck \in SUBSET Int
    <3>1. 1 \in Int /\ Len(sources) \in Int
      BY <1>1
    <3>2. IsFiniteSet(1 .. Len(sources))
      BY ONLY <3>1, FS_Interval
    <3>3. stuck \subseteq 1 .. Len(sources)
      OBVIOUS
    <3> QED
      BY <3>2, <3>3, FS_Subset
  <2>2. Cardinality(stuck) \in Nat /\ Cardinality(stuck) # 0
    BY <1>3, <2>1, FS_CardinalityType, FS_EmptySet
  <2>3. \E first \in stuck : Cardinality({j \in stuck : j < first}) = 0
    <3> HIDE DEF stuck
    <3>1. PICK one : one = 1
      OBVIOUS
    <3>2. one \in 1 .. Cardinality(stuck) /\ one - 1 = 0
      BY <2>2, <3>1
    <3>3. \E first \in stuck : Cardinality({j \in stuck : j < first}) = one - 1
      BY ONLY <2>1, <3>2, NthNumber
    <3> QED
      BY <3>2, <3>3
  <2>4. PICK first \in stuck : {j \in stuck : j < first} = {}
    <3> HIDE DEF stuck
    <3>0. PICK first \in stuck : Cardinality({j \in stuck : j < first}) = 0
      BY <2>3
    <3>1. IsFiniteSet({j \in stuck : j < first})
      BY <2>1, FS_Subset
    <3> QED
      BY <3>0, <3>1, FS_EmptySet
  <2>5. \A j \in stuck : first <= j
    BY <1>1, <2>4
  <2>6. least \in stuck
    BY <2>5 DEF Min
  <2>7. Applicable(sources, without) = SubSeq(sources, 1, least - 1)
    BY <1>1, <1>3 DEF Applicable
  <2> HIDE DEF least
  <2>8. least \in 1 .. Len(sources) /\ sources[least] \in without
    BY <2>6
  <2>9. \A i \in 1 .. least - 1 : sources[i] \in Sources
    BY <1>1, <2>8
  <2>10. least - 1 \in Int /\ 1 \in Int
    BY <2>8
  <2>11. /\ SubSeq(sources, 1, least - 1) \in Seq(Sources)
         /\ Len(SubSeq(sources, 1, least - 1)) = IF 1 <= least - 1 THEN least - 1 - 1 + 1 ELSE 0
         /\ \A i \in 1 .. least - 1 - 1 + 1 : SubSeq(sources, 1, least - 1)[i] = sources[1 + i - 1]
    BY ONLY <2>9, <2>10, SubSeqProperties
  <2> QED
    BY <1>1, <2>7, <2>8, <2>11
<1> QED
  BY <1>2, <1>3

----------------------------------------------------------------------------
(* What an entity reads *)

AreNumbered(entries, n) == \A i \in 1 .. n : IdNumber[entries[i].source] \in Int

\* Sorting answers entries that were there.
LEMMA SortedAreEntries ==
  ASSUME NEW n \in Nat, NEW entries, DOMAIN entries = 1 .. n, AreNumbered(entries, n),
         NEW k \in 1 .. n
  PROVE  \E i \in 1 .. n : SortedById(entries)[k] = entries[i]
<1> DEFINE Number(i) == IdNumber[entries[i].source]
           IsBefore(i, j) == Number(i) < Number(j) \/ (Number(i) = Number(j) /\ i < j)
           R == {pair \in (1 .. n) \X (1 .. n) : IsBefore(pair[1], pair[2])}
           Nth(m) == CHOOSE i \in 1 .. n : Cardinality({j \in 1 .. n : IsBefore(j, i)}) = m - 1
<1>1. \A i \in 1 .. n : Number(i) \in Int
  BY DEF AreNumbered
<1> HIDE DEF Number
<1>2. IsStrictOrder(1 .. n, R)
  BY <1>1 DEF IsStrictOrder
<1>3. \A i \in 1 .. n : Before(1 .. n, R, i) = {j \in 1 .. n : IsBefore(j, i)}
  BY DEF Before
<1> HIDE DEF R, IsBefore
<1>4. IsFiniteSet(1 .. n) /\ Cardinality(1 .. n) = n
  <2>1. 1 \in Int /\ n \in Int
    OBVIOUS
  <2>2. IsFiniteSet(1 .. n) /\ Cardinality(1 .. n) = IF 1 > n THEN 0 ELSE n - 1 + 1
    BY ONLY <2>1, FS_Interval
  <2> QED
    BY <2>2
<1>5. PICK i \in 1 .. n : Cardinality(Before(1 .. n, R, i)) = k - 1
  <2>1. k \in 1 .. Cardinality(1 .. n)
    BY <1>4
  <2> QED
    BY ONLY <1>2, <1>4, <2>1, EveryRankIsTaken
<1>6. Cardinality({j \in 1 .. n : IsBefore(j, i)}) = k - 1
  BY <1>3, <1>5
<1>7. Nth(k) \in 1 .. n
  BY <1>6
<1>8. SortedById(entries)[k] = entries[Nth(k)]
  BY DEF SortedById, IsBefore, Number
<1> QED
  BY <1>7, <1>8

\* streamFor answers entries of the stream, no more than it has, together with
\* the version of the stream, whether it is deleted or not.
LEMMA ReadFacts ==
  ASSUME IInv, NEW s \in Streams
  PROVE  /\ StreamFor(s) \in Reads
         /\ StreamFor(s).streamVersion = CurrentVersion(s)
         /\ Len(StreamFor(s).entries) <= CurrentVersion(s)
         /\ StreamFor(s).snapshot \in {NoSnapshot, snapshots[s]}
         /\ \A i \in 1 .. Len(StreamFor(s).entries) : \E v \in Versions(s) :
              EventsOf(s)[v] = StreamFor(s).entries[i].source
<1> DEFINE inOrder == InVersionOrder(s, VisibleVersions(s))
           sorted == SortedById(inOrder)
<1>1. PICK m \in Nat, n \in Nat :
        /\ m > 0 /\ n = CurrentVersion(s)
        /\ m <= n + 1
        /\ inOrder = [i \in 1 .. n + 1 - m |-> journal[streamIndexes[s][m + i - 1]]]
        /\ Len(inOrder) = n + 1 - m
        /\ \A i \in 1 .. n + 1 - m :
             /\ m + i - 1 \in Versions(s)
             /\ inOrder[i] \in Entries
             /\ inOrder[i].source = EventsOf(s)[m + i - 1]
  BY VisibleInOrder
<1> DEFINE size == n + 1 - m
<1>2. size \in Nat /\ size <= n
  BY <1>1
<1>3. DOMAIN inOrder = 1 .. size
  BY <1>1
<1>4. AreNumbered(inOrder, size)
  BY <1>1, IdNumberAssumption DEF Entries, AreNumbered
<1> HIDE DEF inOrder, size
<1>6. \A k \in 1 .. size : \E i \in 1 .. size : sorted[k] = inOrder[i]
  <2> SUFFICES ASSUME NEW k \in 1 .. size
               PROVE  \E i \in 1 .. size : sorted[k] = inOrder[i]
    OBVIOUS
  <2>1. \E i \in 1 .. size : SortedById(inOrder)[k] = inOrder[i]
    BY ONLY k \in 1 .. size, <1>2, <1>3, <1>4, SortedAreEntries
  <2> QED
    BY ONLY <2>1 DEF sorted
<1>7. sorted = [k \in 1 .. size |-> sorted[k]]
  BY <1>3 DEF SortedById
<1> HIDE DEF sorted
<1>8. Len(sorted) = size /\ DOMAIN sorted = 1 .. size
  BY ONLY <1>2, <1>7, LenOfFunction
<1>9. /\ sorted \in Seq(Entries)
      /\ \A k \in 1 .. size : \E v \in Versions(s) : EventsOf(s)[v] = sorted[k].source
  <2>1. \A k \in 1 .. size : sorted[k] \in Entries
    BY <1>1, <1>6 DEF size
  <2>2. sorted \in [1 .. size -> Entries]
    BY <1>7, <2>1
  <2>3. sorted \in Seq(Entries)
    BY <1>2, <2>2
  <2>4. \A k \in 1 .. size : \E v \in Versions(s) : EventsOf(s)[v] = sorted[k].source
    <3> TAKE k \in 1 .. size
    <3>1. PICK i \in 1 .. size : sorted[k] = inOrder[i]
      BY <1>6
    <3>2. m + i - 1 \in Versions(s) /\ inOrder[i].source = EventsOf(s)[m + i - 1]
      BY <1>1 DEF size
    <3> QED
      BY <3>1, <3>2
  <2> QED
    BY <2>3, <2>4
<1>10. /\ CurrentVersion(s) \in Nat
       /\ StreamIsEmpty(s) <=> CurrentVersion(s) = 0
  BY StreamShape
<1>11. snapshots[s] \in StoredSnapshots \cup {NoSnapshot}
  BY DEF IInv, TypeOK
<1>12. IsSoftDeleted(s) => softDeleted[s] = CurrentVersion(s)
  BY DEF IInv, DeletedAtCurrentVersion
<1>13. <<>> \in Seq(Entries) /\ Len(<<>>) = 0
  OBVIOUS
<1>14. CASE s \in tombstones \/ IsSoftDeleted(s) \/ StreamIsEmpty(s)
  BY <1>10, <1>12, <1>13, <1>14 DEF StreamFor, EntryStream, Reads
<1>15. CASE ~(s \in tombstones \/ IsSoftDeleted(s) \/ StreamIsEmpty(s))
  <2>1. StreamFor(s) = EntryStream(CurrentVersion(s), sorted, snapshots[s], "active")
    BY <1>15 DEF StreamFor, sorted, inOrder
  <2>2. Len(sorted) <= CurrentVersion(s)
    BY <1>1, <1>2, <1>8
  <2> QED
    BY <1>8, <1>9, <1>10, <1>11, <2>1, <2>2 DEF EntryStream, Reads
<1> QED
  BY <1>14, <1>15

----------------------------------------------------------------------------
(* What the steps of an entity do to it, and to no other *)

SameEntity(d) ==
  /\ phase'[d] = phase[d] /\ state'[d] = state[d] /\ version'[d] = version[d]
  /\ read'[d] = read[d] /\ request'[d] = request[d]

OthersStay(e) == \A d \in Entities \ {e} : SameEntity(d)

IsNow(e, p, applied, reached, stream, asked) ==
  /\ phase'[e] = p /\ state'[e] = applied /\ version'[e] = reached
  /\ read'[e] = stream /\ request'[e] = asked

LEMMA Becomes ==
  ASSUME EntityTypeOK, NEW e \in Entities,
         NEW p \in Phases, NEW applied \in Seq(Sources), NEW reached \in Nat,
         NEW stream \in Reads, NEW asked \in Requests,
         phase' = [phase EXCEPT ![e] = p], state' = [state EXCEPT ![e] = applied],
         version' = [version EXCEPT ![e] = reached], read' = [read EXCEPT ![e] = stream],
         request' = [request EXCEPT ![e] = asked]
  PROVE  EntityTypeOK' /\ OthersStay(e) /\ IsNow(e, p, applied, reached, stream, asked)
<1>1. /\ phase' \in [Entities -> Phases] /\ phase'[e] = p
      /\ \A d \in Entities \ {e} : phase'[d] = phase[d]
  BY DEF EntityTypeOK
<1>2. /\ state' \in [Entities -> Seq(Sources)] /\ state'[e] = applied
      /\ \A d \in Entities \ {e} : state'[d] = state[d]
  BY DEF EntityTypeOK
<1>3. /\ version' \in [Entities -> Nat] /\ version'[e] = reached
      /\ \A d \in Entities \ {e} : version'[d] = version[d]
  BY DEF EntityTypeOK
<1>4. /\ read' \in [Entities -> Reads] /\ read'[e] = stream
      /\ \A d \in Entities \ {e} : read'[d] = read[d]
  BY DEF EntityTypeOK
<1>5. /\ request' \in [Entities -> Requests] /\ request'[e] = asked
      /\ \A d \in Entities \ {e} : request'[d] = request[d]
  BY DEF EntityTypeOK
<1> QED
  BY <1>1, <1>2, <1>3, <1>4, <1>5 DEF EntityTypeOK, OthersStay, SameEntity, IsNow

\* What an action leaves alone it sets to what it was.
LEMMA Unchanged ==
  ASSUME EntityTypeOK, NEW e \in Entities
  PROVE  /\ phase = [phase EXCEPT ![e] = phase[e]]
         /\ state = [state EXCEPT ![e] = state[e]]
         /\ version = [version EXCEPT ![e] = version[e]]
         /\ read = [read EXCEPT ![e] = read[e]]
         /\ request = [request EXCEPT ![e] = request[e]]
         /\ phase[e] \in Phases /\ state[e] \in Seq(Sources) /\ version[e] \in Nat
         /\ read[e] \in Reads /\ request[e] \in Requests
<1>1. phase = [phase EXCEPT ![e] = phase[e]] /\ phase[e] \in Phases
  BY DEF EntityTypeOK
<1>2. state = [state EXCEPT ![e] = state[e]] /\ state[e] \in Seq(Sources)
  BY DEF EntityTypeOK
<1>3. version = [version EXCEPT ![e] = version[e]] /\ version[e] \in Nat
  BY DEF EntityTypeOK
<1>4. read = [read EXCEPT ![e] = read[e]] /\ read[e] \in Reads
  BY DEF EntityTypeOK
<1>5. request = [request EXCEPT ![e] = request[e]] /\ request[e] \in Requests
  BY DEF EntityTypeOK
<1> QED
  BY <1>1, <1>2, <1>3, <1>4, <1>5

LEMMA NothingIsTyped ==
  /\ NoRead \in Reads
  /\ NoRequest \in Requests
  /\ <<>> \in Seq(Sources) /\ Len(<<>>) = 0
<1>1. <<>> \in Seq(Entries) /\ <<>> \in Seq(Sources) /\ Len(<<>>) = 0 /\ <<>> \in Batches
  BY SmallBatches
<1> QED
  BY <1>1 DEF NoRead, EntryStream, Reads, NoRequest, Requests, SnapshotArgs, Answers

LEMMA StartEffect ==
  ASSUME EntityInv, NEW e \in Entities, Start(e)
  PROVE  /\ EntityTypeOK' /\ OthersStay(e) /\ UNCHANGED vars
         /\ phase[e] = "stopped"
         /\ IsNow(e, "restoring", <<>>, 0, StreamFor(StreamOf[e]), request[e])
<1>1. StreamFor(StreamOf[e]) \in Reads
  BY ReadFacts, StreamOfAssumption DEF EntityInv
<1>2. "restoring" \in Phases /\ 0 \in Nat /\ EntityTypeOK
  BY DEF Phases, EntityInv
<1> QED
  BY <1>1, <1>2, Becomes, Unchanged, NothingIsTyped DEF Start

LEMMA StartWithoutJournalEffect ==
  ASSUME EntityInv, NEW e \in Entities, StartWithoutJournal(e)
  PROVE  /\ EntityTypeOK' /\ OthersStay(e) /\ UNCHANGED vars
         /\ e \in LateJournal /\ phase[e] = "stopped"
         /\ IsNow(e, "idle", <<>>, 0, read[e], request[e])
<1>1. "idle" \in Phases /\ 0 \in Nat /\ EntityTypeOK
  BY DEF Phases, EntityInv
<1>2. /\ phase' = [phase EXCEPT ![e] = "idle"] /\ state' = [state EXCEPT ![e] = <<>>]
      /\ version' = [version EXCEPT ![e] = 0] /\ read' = read /\ request' = request
  BY DEF StartWithoutJournal
<1>3. /\ read' = [read EXCEPT ![e] = read[e]] /\ request' = [request EXCEPT ![e] = request[e]]
      /\ read[e] \in Reads /\ request[e] \in Requests
  BY <1>1, <1>2, Unchanged
<1>4. EntityTypeOK' /\ OthersStay(e) /\ IsNow(e, "idle", <<>>, 0, read[e], request[e])
  BY ONLY <1>1, <1>2, <1>3, NothingIsTyped, Becomes, e \in Entities
<1> QED
  BY <1>4 DEF StartWithoutJournal

LEMMA StopEffect ==
  ASSUME EntityInv, NEW e \in Entities, Stop(e)
  PROVE  /\ EntityTypeOK' /\ OthersStay(e) /\ UNCHANGED vars
         /\ phase[e] = "idle"
         /\ IsNow(e, "stopped", <<>>, 0, read[e], request[e])
<1>1. "stopped" \in Phases /\ 0 \in Nat /\ EntityTypeOK
  BY DEF Phases, EntityInv
<1>2. /\ phase' = [phase EXCEPT ![e] = "stopped"] /\ state' = [state EXCEPT ![e] = <<>>]
      /\ version' = [version EXCEPT ![e] = 0] /\ read' = read /\ request' = request
  BY DEF Stop
<1>3. /\ read' = [read EXCEPT ![e] = read[e]] /\ request' = [request EXCEPT ![e] = request[e]]
      /\ read[e] \in Reads /\ request[e] \in Requests
  BY <1>1, <1>2, Unchanged
<1>4. EntityTypeOK' /\ OthersStay(e) /\ IsNow(e, "stopped", <<>>, 0, read[e], request[e])
  BY ONLY <1>1, <1>2, <1>3, NothingIsTyped, Becomes, e \in Entities
<1> QED
  BY <1>4 DEF Stop

\* Either the whole stream was read, or the snapshot and nothing behind it.
LEMMA WhatIsApplied ==
  ASSUME EntityInv, NEW e \in Entities, phase[e] = "restoring"
  PROVE  /\ SourcesOf(read[e]) \in Seq(Sources)
         /\ Len(SourcesOf(read[e])) = Len(read[e].entries)
         /\ \A i \in 1 .. Len(read[e].entries) :
              SourcesOf(read[e])[i] = read[e].entries[i].source
         /\ read[e].snapshot = NoSnapshot =>
              SourcesToApply(read[e]) = SourcesOf(read[e]) /\ Skipped(read[e]) = 0
         /\ read[e].snapshot # NoSnapshot =>
              SourcesToApply(read[e]) = <<>> /\ Skipped(read[e]) = read[e].streamVersion
<1> DEFINE entries == read[e].entries
           sources == SourcesOf(read[e])
<1>1. read[e] \in Reads
  BY Unchanged DEF EntityInv
<1>2. entries \in Seq(Entries) /\ read[e].streamVersion \in Nat
  BY <1>1 DEF Reads
<1>3. Len(entries) <= read[e].streamVersion
  BY DEF EntityInv, Fits, ReadFits
<1>4. Len(entries) \in Nat /\ DOMAIN entries = 1 .. Len(entries)
  BY <1>2
<1>5. \A i \in 1 .. Len(entries) : entries[i].source \in Sources
  <2> TAKE i \in 1 .. Len(entries)
  <2>1. entries[i] \in Entries
    BY <1>2, <1>4
  <2> QED
    BY <2>1 DEF Entries
<1>6. sources = [i \in 1 .. Len(entries) |-> entries[i].source]
  BY <1>4 DEF SourcesOf
<1> HIDE DEF entries, sources
<1>7. sources \in [1 .. Len(entries) -> Sources]
  BY <1>5, <1>6
<1>8. sources \in Seq(Sources) /\ Len(sources) = Len(entries)
  BY <1>4, <1>7
<1>9. ASSUME read[e].snapshot = NoSnapshot
      PROVE  SourcesToApply(read[e]) = sources /\ Skipped(read[e]) = 0
  <2>1. Skipped(read[e]) = 0
    BY <1>9 DEF Skipped
  <2>2. SourcesToApply(read[e]) = SubSeq(sources, 1, Len(sources))
    BY <1>8, <2>1 DEF SourcesToApply, sources, entries
  <2>3. SubSeq(sources, 1, Len(sources)) = sources
    BY <1>8, SubSeqFull
  <2> QED
    BY <2>1, <2>2, <2>3
<1>10. ASSUME read[e].snapshot # NoSnapshot
       PROVE  SourcesToApply(read[e]) = <<>> /\ Skipped(read[e]) = read[e].streamVersion
  <2>1. Skipped(read[e]) = read[e].streamVersion
    BY <1>10 DEF Skipped
  <2>2. SourcesToApply(read[e]) = SubSeq(sources, read[e].streamVersion + 1, Len(entries))
    BY <2>1 DEF SourcesToApply, sources, entries
  <2>3. /\ read[e].streamVersion + 1 \in Int /\ Len(entries) \in Int
        /\ Len(entries) < read[e].streamVersion + 1
    BY <1>2, <1>3, <1>4 DEF entries
  <2> QED
    BY <2>1, <2>2, <2>3, SubSeqEmpty
<1> QED
  BY <1>6, <1>8, <1>9, <1>10 DEF sources, entries

\* How a restore can end: the snapshot could not be read, an event could not be
\* applied, or all of the events were, or the snapshot was taken as it is.
Restored(e, applied, reached) ==
  \/ /\ ~SnapshotReadable(read[e])
     /\ applied = <<>> /\ reached = 0
  \/ /\ read[e].snapshot = NoSnapshot
     /\ applied = Applicable(SourcesOf(read[e]), Unconsumed \cup Unreadable)
     /\ applied # SourcesOf(read[e]) /\ reached = 0
  \/ /\ read[e].snapshot = NoSnapshot
     /\ applied = SourcesOf(read[e]) /\ reached = read[e].streamVersion
  \/ /\ read[e].snapshot # NoSnapshot
     /\ applied = read[e].snapshot.value /\ reached = read[e].streamVersion

LEMMA RecoverEffect ==
  ASSUME EntityInv, NEW e \in Entities, Recover(e)
  PROVE  /\ EntityTypeOK' /\ OthersStay(e) /\ UNCHANGED vars
         /\ phase[e] = "restoring"
         /\ \E p \in {"idle", "stopped"}, applied \in Seq(Sources), reached \in Nat :
              /\ Restored(e, applied, reached)
              /\ IsNow(e, p, applied, reached, NoRead, request[e])
<1> DEFINE stream == read[e]
           sources == SourcesToApply(stream)
           taken == Applicable(sources, Unconsumed \cup Unreadable)
           base == RestoredSnapshot(stream)
<1>1. phase[e] = "restoring" /\ EntityTypeOK
  BY DEF Recover, EntityInv
<1>2. /\ SourcesOf(stream) \in Seq(Sources)
      /\ stream.snapshot = NoSnapshot => sources = SourcesOf(stream) /\ Skipped(stream) = 0
      /\ stream.snapshot # NoSnapshot => sources = <<>> /\ Skipped(stream) = stream.streamVersion
  BY <1>1, WhatIsApplied
<1>3. stream \in Reads /\ stream.streamVersion \in Nat
  BY <1>1, Unchanged DEF Reads
<1>4. stream.snapshot # NoSnapshot => stream.snapshot.value \in Seq(Sources)
  BY <1>1 DEF EntityInv, Fits, ReadFits
<1>5. taken \in Seq(Sources) /\ sources \in Seq(Sources)
  BY <1>2, NothingIsTyped, ApplicableBegins
<1>6. sources = <<>> => taken = sources
  BY NothingIsTyped DEF Applicable
<1>7. base = IF stream.snapshot = NoSnapshot THEN <<>> ELSE stream.snapshot.value
  BY DEF RestoredSnapshot
<1>8. \E p \in {"idle", "stopped"}, applied \in Seq(Sources), reached \in Nat :
        /\ Restored(e, applied, reached)
        /\ phase' = [phase EXCEPT ![e] = p] /\ state' = [state EXCEPT ![e] = applied]
        /\ version' = [version EXCEPT ![e] = reached]
  <2>1. CASE ~SnapshotReadable(stream)
    <3>1. NotRecovered(e, <<>>, 0)
      BY <2>1 DEF Recover
    <3>2. Restored(e, <<>>, 0)
      BY <2>1 DEF Restored
    <3> QED
      BY <3>1, <3>2, NothingIsTyped DEF NotRecovered
  <2>2. CASE SnapshotReadable(stream) /\ taken # sources
    <3>1. NotRecovered(e, base \o taken, Skipped(stream))
      BY <2>2 DEF Recover
    <3>2. stream.snapshot = NoSnapshot
      BY <1>2, <1>6, <2>2
    <3>3. base \o taken = taken /\ Skipped(stream) = 0
      BY <1>2, <1>5, <1>7, <3>2, ConcatEmptySeq
    <3>4. Restored(e, taken, 0)
      BY <1>2, <2>2, <3>2 DEF Restored
    <3> HIDE DEF taken, base, stream, sources
    <3>5. NotRecovered(e, taken, 0)
      BY ONLY <3>1, <3>3
    <3>6. /\ \E next \in {"idle", "stopped"} : phase' = [phase EXCEPT ![e] = next]
          /\ state' = [state EXCEPT ![e] = taken] /\ version' = [version EXCEPT ![e] = 0]
      BY <3>5 DEF NotRecovered
    <3> QED
      BY <1>5, <3>4, <3>6
  <2>3. CASE SnapshotReadable(stream) /\ taken = sources
    <3>1. /\ phase' = [phase EXCEPT ![e] = "idle"]
          /\ state' = [state EXCEPT ![e] = base \o sources]
          /\ version' = [version EXCEPT ![e] = stream.streamVersion]
      BY <2>3 DEF Recover, RestoredVersion
    <3>2. base \o sources \in Seq(Sources) /\ Restored(e, base \o sources, stream.streamVersion)
      <4>1. CASE stream.snapshot = NoSnapshot
        <5>1. base \o sources = SourcesOf(stream)
          BY <1>2, <1>5, <1>7, <4>1, ConcatEmptySeq
        <5> QED
          BY <1>2, <4>1, <5>1 DEF Restored
      <4>2. CASE stream.snapshot # NoSnapshot
        <5>1. base \o sources = stream.snapshot.value
          BY <1>2, <1>4, <1>7, <4>2, ConcatEmptySeq
        <5> QED
          BY <1>4, <4>2, <5>1 DEF Restored
      <4> QED
        BY <4>1, <4>2
    <3> HIDE DEF taken, base, stream, sources
    <3> QED
      BY <1>3, <3>1, <3>2
  <2> QED
    BY <2>1, <2>2, <2>3
<1>9. PICK p \in {"idle", "stopped"}, applied \in Seq(Sources), reached \in Nat :
        /\ Restored(e, applied, reached)
        /\ phase' = [phase EXCEPT ![e] = p] /\ state' = [state EXCEPT ![e] = applied]
        /\ version' = [version EXCEPT ![e] = reached]
  BY <1>8
<1>10. read' = [read EXCEPT ![e] = NoRead] /\ request' = request /\ UNCHANGED vars
  BY DEF Recover
<1>11. /\ request' = [request EXCEPT ![e] = request[e]] /\ request[e] \in Requests
       /\ p \in Phases /\ NoRead \in Reads
  BY <1>1, <1>10, Unchanged, NothingIsTyped DEF Phases
<1>12. EntityTypeOK' /\ OthersStay(e) /\ IsNow(e, p, applied, reached, NoRead, request[e])
  BY ONLY <1>1, <1>9, <1>10, <1>11, Becomes, e \in Entities, p \in {"idle", "stopped"},
     applied \in Seq(Sources), reached \in Nat
<1> QED
  BY <1>1, <1>9, <1>10, <1>12

\* A snapshot that is asked for is one the journal can store.
LEMMA RequestEffect ==
  ASSUME EntityInv, NEW e \in Entities, NEW sources \in Batches, NEW kind \in SnapshotKinds,
         Request(e, sources, kind)
  PROVE  /\ EntityTypeOK' /\ OthersStay(e) /\ UNCHANGED vars
         /\ phase[e] = "idle"
         /\ kind = "state" => version[e] > 0
         /\ IsNow(e, "requested", state[e], version[e], read[e],
                  [sources |-> sources, snapshot |-> Snapshot(e, kind), answer |-> "none"])
<1> DEFINE s == StreamOf[e]
           asked == [sources |-> sources, snapshot |-> Snapshot(e, kind), answer |-> "none"]
<1>1. EntityTypeOK /\ IInv /\ s \in Streams
  BY StreamOfAssumption DEF EntityInv
<1>2. state[e] \in Seq(Sources) /\ version[e] \in Nat
  BY <1>1, Unchanged
<1>3. /\ CurrentVersion(s) \in Nat /\ CurrentVersion(s) <= MaxEntries /\ MaxEntries \in Nat
      /\ version[e] <= CurrentVersion(s) /\ Len(state[e]) <= CurrentVersion(s)
  <2>1. CurrentVersion(s) \in Nat /\ CurrentVersion(s) <= Len(journal) /\ Len(journal) \in Nat
    BY <1>1, StreamShape
  <2>2. version[e] <= CurrentVersion(s) /\ Len(state[e]) <= CurrentVersion(s)
    BY DEF EntityInv, Fits, VersionFits
  <2>3. Len(journal) <= MaxEntries
    BY <1>1 DEF IInv, EntriesFit
  <2> QED
    BY <2>1, <2>2, <2>3, BoundsAssumption
<1>4. Snapshot(e, kind) \in SnapshotArgs
  <2>1. CASE kind = "none"
    BY <2>1 DEF Snapshot, SnapshotArgs
  <2>2. CASE kind # "none"
    <3>1. kind \in {"plain", "state"}
      BY <2>2, SnapshotKindsAssumption
    <3>2. /\ \A n \in 0 .. MaxEntries : [1 .. n -> Sources] \subseteq SnapshotValues
          /\ 1 .. MaxEntries \subseteq StateVersions
      BY <2>2, SnapshotStatesAssumption
    <3>3. Len(state[e]) \in 0 .. MaxEntries /\ state[e] \in [1 .. Len(state[e]) -> Sources]
      BY <1>2, <1>3, LenProperties
    <3>4. state[e] \in SnapshotValues
      BY <3>2, <3>3
    <3>5. kind = "state" => version[e] \in StateVersions
      BY <1>2, <1>3, <3>2 DEF Request
    <3> QED
      BY <3>1, <3>4, <3>5 DEF Snapshot, SnapshotArgs, PlainSnapshots, StateSnapshots
  <2> QED
    BY <2>1, <2>2
<1>5. asked \in Requests
  BY <1>4 DEF Requests, Answers
<1>6. /\ phase[e] = "idle" /\ phase' = [phase EXCEPT ![e] = "requested"]
      /\ request' = [request EXCEPT ![e] = asked]
      /\ state' = state /\ version' = version /\ read' = read /\ UNCHANGED vars
      /\ kind = "state" => version[e] > 0
  BY DEF Request
<1> HIDE DEF asked
<1>7. /\ state' = [state EXCEPT ![e] = state[e]] /\ version' = [version EXCEPT ![e] = version[e]]
      /\ read' = [read EXCEPT ![e] = read[e]] /\ read[e] \in Reads /\ "requested" \in Phases
  BY <1>1, <1>6, Unchanged DEF Phases
<1>8. EntityTypeOK' /\ OthersStay(e) /\ IsNow(e, "requested", state[e], version[e], read[e], asked)
  BY ONLY <1>1, <1>2, <1>5, <1>6, <1>7, Becomes, e \in Entities
<1> QED
  BY <1>6, <1>8 DEF asked

LEMMA ConcludeAcceptedEffect ==
  ASSUME EntityInv, NEW e \in Entities, ConcludeAccepted(e)
  PROVE  LET applied == Applicable(request[e].sources, Unconsumed)
         IN  /\ EntityTypeOK' /\ OthersStay(e) /\ UNCHANGED vars
             /\ phase[e] = "answered" /\ request[e].answer = "Success"
             /\ IsNow(e, "idle", state[e] \o applied, version[e] + Len(applied), read[e], NoRequest)
<1> DEFINE applied == Applicable(request[e].sources, Unconsumed)
<1>1. EntityTypeOK
  BY DEF EntityInv
<1>2. /\ state[e] \in Seq(Sources) /\ version[e] \in Nat /\ read[e] \in Reads
      /\ request[e] \in Requests
  BY <1>1, Unchanged
<1>3. request[e].sources \in Seq(Sources)
  BY <1>2, BatchFacts DEF Requests
<1>4. applied \in Seq(Sources) /\ Len(applied) \in Nat
  BY <1>3, ApplicableBegins, LenProperties
<1>5. /\ phase[e] = "answered" /\ request[e].answer = "Success"
      /\ phase' = [phase EXCEPT ![e] = "idle"] /\ request' = [request EXCEPT ![e] = NoRequest]
      /\ state' = [state EXCEPT ![e] = state[e] \o applied]
      /\ version' = [version EXCEPT ![e] = version[e] + Len(applied)]
      /\ read' = read /\ UNCHANGED vars
  BY DEF ConcludeAccepted, Concluded
<1> HIDE DEF applied
<1>6. /\ read' = [read EXCEPT ![e] = read[e]] /\ "idle" \in Phases
      /\ state[e] \o applied \in Seq(Sources) /\ version[e] + Len(applied) \in Nat
      /\ NoRequest \in Requests
  BY <1>1, <1>2, <1>4, <1>5, Unchanged, NothingIsTyped DEF Phases
<1>7. EntityTypeOK' /\ OthersStay(e)
      /\ IsNow(e, "idle", state[e] \o applied, version[e] + Len(applied), read[e], NoRequest)
  BY ONLY <1>1, <1>2, <1>5, <1>6, Becomes, e \in Entities
<1> QED
  BY <1>5, <1>7 DEF applied

LEMMA ConcludeFailedEffect ==
  ASSUME EntityInv, NEW e \in Entities, ConcludeFailed(e)
  PROVE  /\ EntityTypeOK' /\ OthersStay(e) /\ UNCHANGED vars
         /\ phase[e] = "answered" /\ request[e].answer # "Success"
         /\ IsNow(e, "idle", state[e], version[e], read[e], NoRequest)
<1>1. EntityTypeOK
  BY DEF EntityInv
<1>2. /\ phase[e] = "answered" /\ request[e].answer # "Success"
      /\ phase' = [phase EXCEPT ![e] = "idle"] /\ request' = [request EXCEPT ![e] = NoRequest]
      /\ state' = state /\ version' = version /\ read' = read /\ UNCHANGED vars
  BY DEF ConcludeFailed, Concluded
<1>3. /\ read' = [read EXCEPT ![e] = read[e]] /\ state' = [state EXCEPT ![e] = state[e]]
      /\ version' = [version EXCEPT ![e] = version[e]] /\ "idle" \in Phases
      /\ state[e] \in Seq(Sources) /\ version[e] \in Nat /\ read[e] \in Reads
      /\ NoRequest \in Requests
  BY <1>1, <1>2, Unchanged, NothingIsTyped DEF Phases
<1>4. EntityTypeOK' /\ OthersStay(e) /\ IsNow(e, "idle", state[e], version[e], read[e], NoRequest)
  BY ONLY <1>1, <1>2, <1>3, Becomes, e \in Entities
<1> QED
  BY <1>2, <1>4

----------------------------------------------------------------------------
(* What the journal does with a request *)

Quiet == UNCHANGED <<journal, streamIndexes, snapshots>>

\* Refused or thrown: nothing is stored, and a conflict has a reason.
TurnedDown(e) ==
  /\ Quiet
  /\ reply'.result \in {"ConcurrencyViolation", "StreamDeleted", "Thrown"}
  /\ reply'.result = "ConcurrencyViolation" => version[e] # CurrentVersion(StreamOf[e])

\* Accepted: the entity was at the version of its stream, which grows by the batch.
Accepted(e) ==
  LET s == StreamOf[e]
      asked == request[e]
      reached == CurrentVersion(s) + Len(asked.sources)
  IN  /\ reply'.result = "Success"
      /\ version[e] = CurrentVersion(s)
      /\ Grown(s, asked.sources)
      /\ \/ UNCHANGED snapshots
         \/ /\ asked.snapshot # NoSnapshot
            /\ asked.snapshot.kind = "plain" => reached # 0
            /\ snapshots' = [snapshots EXCEPT ![s] = StoredSnapshot(asked.snapshot, reached)]

LEMMA HandleEffect ==
  ASSUME EntityInv, NEW e \in Entities, Handle(e)
  PROVE  /\ IInv' /\ EntityTypeOK' /\ OthersStay(e) /\ [Next]_vars
         /\ phase[e] = "requested"
         /\ IsNow(e, "answered", state[e], version[e], read[e],
                  [request[e] EXCEPT !.answer = reply'.result])
         /\ TurnedDown(e) \/ Accepted(e)
<1> DEFINE s == StreamOf[e]
           expected == NextVersion(e)
           asked == request[e]
<1>1. EntityTypeOK /\ IInv /\ s \in Streams
  BY StreamOfAssumption DEF EntityInv
<1>2. /\ state[e] \in Seq(Sources) /\ version[e] \in Nat /\ read[e] \in Reads
      /\ asked \in Requests
  BY <1>1, Unchanged
<1>3. asked.sources \in Batches /\ asked.snapshot \in SnapshotArgs
  BY <1>2 DEF Requests
<1>4. asked.sources \in Seq(Sources) /\ Len(asked.sources) \in Nat
  BY <1>3, BatchFacts
<1>5. /\ CurrentVersion(s) \in Nat /\ version[e] <= CurrentVersion(s)
      /\ expected = version[e] + 1 /\ expected \in ExpectedVersions
  <2>1. CurrentVersion(s) \in Nat /\ CurrentVersion(s) <= Len(journal) /\ Len(journal) \in Nat
    BY <1>1, StreamShape
  <2>2. version[e] <= CurrentVersion(s)
    BY DEF EntityInv, Fits, VersionFits
  <2>3. Len(journal) <= MaxEntries
    BY <1>1 DEF IInv, EntriesFit
  <2> QED
    BY <1>2, <2>1, <2>2, <2>3, BoundsAssumption DEF NextVersion, ExpectedVersions
<1>6. /\ phase[e] = "requested" /\ phase' = [phase EXCEPT ![e] = "answered"]
      /\ request' = [request EXCEPT ![e] = [asked EXCEPT !.answer = reply'.result]]
      /\ state' = state /\ version' = version /\ read' = read
  BY DEF Handle
<1> HIDE DEF s, expected, asked
<1>7. \/ AppendAll(s, expected, asked.sources)
      \/ AppendAllWith(s, expected, asked.sources, asked.snapshot)
  BY DEF Handle, s, expected, asked
<1>8. AppendStep(s, expected)
  BY <1>3, <1>7 DEF AppendStep
<1>9. Next
  BY <1>1, <1>5, <1>8 DEF Next
<1>10. IInv' /\ [Next]_vars
  BY <1>1, <1>9, NextKeepsInvariant
<1>11. Told
  BY <1>1, <1>5, <1>8, AppendsAreTold
<1>12. TurnedDown(e) \/ Accepted(e)
  <2>1. ASSUME NEW op, Refused(op, s, expected) PROVE TurnedDown(e)
    <3>1. Quiet /\ reply'.result \in {"ConcurrencyViolation", "StreamDeleted"}
      BY <2>1 DEF Refused, Reply, Quiet, store
    <3>2. reply'.result = "ConcurrencyViolation" => ~ValidExpectedVersion(s, expected)
      BY <2>1 DEF Refused, Reply
    <3>3. version[e] = CurrentVersion(s) => ValidExpectedVersion(s, expected)
      BY <1>2, <1>5 DEF ValidExpectedVersion
    <3> QED
      BY <3>1, <3>2, <3>3 DEF TurnedDown, s
  <2>2. ASSUME NEW op, AdapterThrows(op, s, expected, asked.sources) PROVE TurnedDown(e)
    BY <2>2 DEF AdapterThrows, Reply, TurnedDown, Quiet
  <2>3. ASSUME Stored(s, expected, asked.sources)
        PROVE  /\ Grown(s, asked.sources) /\ version[e] = CurrentVersion(s)
               /\ FinalVersion(s, expected, asked.sources) = CurrentVersion(s) + Len(asked.sources)
    <3>1. Grown(s, asked.sources)
      BY <1>1, <1>4, <1>5, <2>3, StoredGrows
    <3>2. Admitted(s, expected)
      BY <2>3 DEF Stored
    <3>3. ResolveActualVersion(s, expected) = CurrentVersion(s) + 1
      BY <1>1, <1>5, <3>2, AdmittedVersion
    <3>4. ValidExpectedVersion(s, expected)
      BY <3>2 DEF Admitted
    <3>5. version[e] = CurrentVersion(s)
      BY <1>2, <1>5, <3>4 DEF ValidExpectedVersion, Any, NoStream, StreamExists
    <3> QED
      BY <1>4, <1>5, <3>1, <3>3, <3>5 DEF FinalVersion
  <2>4. CASE AppendAll(s, expected, asked.sources)
    <3>1. CASE /\ Stored(s, expected, asked.sources)
               /\ Reply("appendAll", s, "Success", FinalVersion(s, expected, asked.sources))
               /\ UNCHANGED snapshots
      BY <2>3, <3>1 DEF Accepted, Reply, s, asked
    <3> QED
      BY <2>1, <2>2, <2>4, <3>1 DEF AppendAll
  <2>5. CASE AppendAllWith(s, expected, asked.sources, asked.snapshot)
    <3> DEFINE reached == FinalVersion(s, expected, asked.sources)
    <3>1. CASE /\ Stored(s, expected, asked.sources)
               /\ WrappingThrows(asked.snapshot, reached)
               /\ Reply("appendAllWith", s, "Thrown", expected)
      <4>1. reply'.result = "Thrown"
        BY <3>1 DEF Reply
      <4>2. Quiet
        BY <1>11, <4>1 DEF Told, Quiet
      <4> QED
        BY <4>1, <4>2 DEF TurnedDown
    <3>2. CASE /\ Stored(s, expected, asked.sources)
               /\ ~WrappingThrows(asked.snapshot, reached)
               /\ Reply("appendAllWith", s, "Success", reached)
               /\ snapshots' = IF asked.snapshot = NoSnapshot THEN snapshots
                               ELSE [snapshots EXCEPT ![s] = StoredSnapshot(asked.snapshot, reached)]
      <4>1. /\ Grown(s, asked.sources) /\ version[e] = CurrentVersion(s)
            /\ reached = CurrentVersion(s) + Len(asked.sources)
        BY <2>3, <3>2
      <4>2. reply'.result = "Success"
        BY <3>2 DEF Reply
      <4> HIDE DEF reached
      <4>3. CASE asked.snapshot = NoSnapshot
        BY <3>2, <4>1, <4>2, <4>3 DEF Accepted, s, asked
      <4>4. CASE asked.snapshot # NoSnapshot
        <5>1. asked.snapshot.kind = "plain" => reached # 0
          BY <3>2, <4>4 DEF WrappingThrows
        <5>2. snapshots' = [snapshots EXCEPT ![s] = StoredSnapshot(asked.snapshot, reached)]
          BY <3>2, <4>4
        <5> QED
          BY <4>1, <4>2, <4>4, <5>1, <5>2 DEF Accepted, s, asked
      <4> QED
        BY <4>3, <4>4
    <3>3. \/ Refused("appendAllWith", s, expected)
          \/ AdapterThrows("appendAllWith", s, expected, asked.sources)
          \/ /\ Stored(s, expected, asked.sources)
             /\ \/ /\ WrappingThrows(asked.snapshot, reached)
                   /\ Reply("appendAllWith", s, "Thrown", expected)
                \/ /\ ~WrappingThrows(asked.snapshot, reached)
                   /\ Reply("appendAllWith", s, "Success", reached)
                   /\ snapshots' = IF asked.snapshot = NoSnapshot THEN snapshots
                                   ELSE [snapshots EXCEPT ![s] = StoredSnapshot(asked.snapshot, reached)]
      BY <2>5, Zenon DEF AppendAllWith
    <3> QED
      BY <2>1, <2>2, <3>1, <3>2, <3>3
  <2> QED
    BY <1>7, <2>4, <2>5
<1>13. reply'.result \in Answers
  BY <1>12 DEF TurnedDown, Accepted, Answers
<1>14. /\ [asked EXCEPT !.answer = reply'.result] \in Requests /\ "answered" \in Phases
       /\ state' = [state EXCEPT ![e] = state[e]] /\ version' = [version EXCEPT ![e] = version[e]]
       /\ read' = [read EXCEPT ![e] = read[e]]
  <2>1. [asked EXCEPT !.answer = reply'.result] \in Requests
    BY <1>2, <1>13 DEF Requests
  <2> QED
    BY <1>1, <1>6, <2>1, Unchanged DEF Phases
<1>15. /\ EntityTypeOK' /\ OthersStay(e)
       /\ IsNow(e, "answered", state[e], version[e], read[e], [asked EXCEPT !.answer = reply'.result])
  <2>1. PICK answered : answered = [asked EXCEPT !.answer = reply'.result]
    OBVIOUS
  <2>2. answered \in Requests /\ request' = [request EXCEPT ![e] = answered]
    BY <1>6, <1>14, <2>1
  <2>3. EntityTypeOK' /\ OthersStay(e)
        /\ IsNow(e, "answered", state[e], version[e], read[e], answered)
    BY ONLY <1>1, <1>2, <1>6, <1>14, <2>2, Becomes, e \in Entities
  <2> QED
    BY <2>1, <2>3
<1> QED
  BY <1>6, <1>10, <1>12, <1>15 DEF asked

----------------------------------------------------------------------------
(* What becomes of the streams *)

LEMMA QuietStreams ==
  ASSUME Quiet
  PROVE  \A s \in Streams : /\ Versions(s)' = Versions(s)
                            /\ CurrentVersion(s)' = CurrentVersion(s)
                            /\ EventsOf(s)' = EventsOf(s)
                            /\ snapshots'[s] = snapshots[s]
<1>1. \A s : Versions(s)' = Versions(s)
  BY DEF Quiet, Versions
<1>2. \A s : StreamIsEmpty(s)' = StreamIsEmpty(s)
  BY <1>1 DEF StreamIsEmpty
<1>3. \A s : CurrentVersion(s)' = CurrentVersion(s)
  BY <1>1, <1>2 DEF CurrentVersion
<1>4. \A s : EventsOf(s)' = EventsOf(s)
  BY <1>1 DEF Quiet, EventsOf
<1> QED
  BY <1>1, <1>3, <1>4 DEF Quiet

LEMMA StreamsOfGrown ==
  ASSUME IInv, IInv', NEW s \in Streams, NEW sources \in Batches, Grown(s, sources)
  PROVE  /\ CurrentVersion(s)' = CurrentVersion(s) + Len(sources)
         /\ EventsOf(s)' = EventsOf(s) \o sources
         /\ \A t \in Streams \ {s} : /\ CurrentVersion(t)' = CurrentVersion(t)
                                     /\ EventsOf(t)' = EventsOf(t)
         /\ \A t \in Streams : Versions(t)' = 1 .. CurrentVersion(t)'
<1>1. PICK n, k, l : GrownBy(s, sources, n, k, l)
  BY GrownShape
<1>2. /\ CurrentVersion(s)' = CurrentVersion(s) + Len(sources)
      /\ \A t \in Streams \ {s} : CurrentVersion(t)' = CurrentVersion(t)
  BY <1>1 DEF GrownBy
<1>3. \A t \in Streams : Versions(t)' = 1 .. CurrentVersion(t)'
  BY DEF IInv, VersionsAreGapless
<1>4. [t \in Streams |-> EventsOf(t)'] =
        [[t \in Streams |-> EventsOf(t)] EXCEPT ![s] = @ \o sources]
  BY GrownPublishes DEF Streaming!Publish
<1>5. \A t \in Streams : EventsOf(t)' = IF t = s THEN EventsOf(s) \o sources ELSE EventsOf(t)
  <2> DEFINE after == [t \in Streams |-> EventsOf(t)']
  <2>1. \A t \in Streams : after[t] = EventsOf(t)'
    OBVIOUS
  <2>2. \A t \in Streams : after[t] = IF t = s THEN EventsOf(s) \o sources ELSE EventsOf(t)
    BY <1>4
  <2> QED
    BY <2>1, <2>2
<1> QED
  BY <1>2, <1>3, <1>5

----------------------------------------------------------------------------
(* No step breaks the invariant of an entity *)

LEMMA FitsStay ==
  ASSUME EntityTypeOK, NEW d \in Entities, SameEntity(d), Fits(d),
         CurrentVersion(StreamOf[d]) \in Nat, CurrentVersion(StreamOf[d])' \in Nat,
         CurrentVersion(StreamOf[d]) <= CurrentVersion(StreamOf[d])'
  PROVE  Fits(d)'
<1>1. /\ state[d] \in Seq(Sources) /\ version[d] \in Nat /\ read[d] \in Reads
      /\ request[d] \in Requests
  BY Unchanged
<1>2. /\ Len(state[d]) \in Nat /\ read[d].streamVersion \in Nat
      /\ Len(request[d].sources) \in Nat
  BY <1>1, BatchFacts DEF Reads, Requests
<1>3. VersionFits(d)'
  BY <1>1, <1>2 DEF SameEntity, Fits, VersionFits
<1>4. RequestFits(d)'
  <2>1. request[d].snapshot # NoSnapshot /\ request[d].snapshot.value \in Seq(Sources)
          => Len(request[d].snapshot.value) \in Nat
    OBVIOUS
  <2> QED
    BY <1>1, <1>2, <2>1 DEF SameEntity, Fits, RequestFits
<1>5. ReadFits(d)'
  BY <1>1, <1>2 DEF SameEntity, Fits, ReadFits
<1> QED
  BY <1>3, <1>4, <1>5 DEF Fits

\* A step that stores nothing concerns only the entity that takes it.
LEMMA QuietKeepsInvariant ==
  ASSUME EntityInv, Quiet, IInv', EntityTypeOK',
         \A d \in Entities : SameEntity(d) \/ Fits(d)'
  PROVE  EntityInv'
<1>1. SnapshotsAreStates'
  BY QuietStreams DEF EntityInv, SnapshotsAreStates
<1>2. ASSUME NEW d \in Entities PROVE Fits(d)'
  <2>1. CASE Fits(d)'
    BY <2>1
  <2>2. CASE SameEntity(d)
    <3>1. StreamOf[d] \in Streams
      BY StreamOfAssumption
    <3>2. /\ CurrentVersion(StreamOf[d]) \in Nat
          /\ CurrentVersion(StreamOf[d])' = CurrentVersion(StreamOf[d])
      BY <3>1, StreamShape, QuietStreams DEF EntityInv
    <3>3. Fits(d) /\ EntityTypeOK
      BY DEF EntityInv
    <3> QED
      BY <2>2, <3>2, <3>3, FitsStay
  <2> QED
    BY <2>1, <2>2
<1> QED
  BY <1>1, <1>2 DEF EntityInv

\* The same for a step that leaves the journal alone.
LEMMA IdleJournalKeepsInvariant ==
  ASSUME EntityInv, UNCHANGED vars, EntityTypeOK', NEW e \in Entities, OthersStay(e), Fits(e)'
  PROVE  EntityInv'
<1>1. UNCHANGED store /\ Quiet
  BY DEF vars, store, Quiet
<1>2. IInv'
  BY <1>1, IdleKeepsInvariant DEF EntityInv
<1>3. \A d \in Entities : SameEntity(d) \/ Fits(d)'
  BY DEF OthersStay
<1> QED
  BY <1>1, <1>2, <1>3, QuietKeepsInvariant

\* Facts about one entity and its stream that every case below uses.
LEMMA EntityFacts ==
  ASSUME EntityInv, NEW e \in Entities
  PROVE  /\ IInv /\ EntityTypeOK /\ Fits(e) /\ StreamOf[e] \in Streams
         /\ CurrentVersion(StreamOf[e]) \in Nat
         /\ state[e] \in Seq(Sources) /\ Len(state[e]) \in Nat /\ version[e] \in Nat
         /\ read[e] \in Reads /\ read[e].streamVersion \in Nat
         /\ request[e] \in Requests
         /\ request[e].sources \in Batches /\ request[e].sources \in Seq(Sources)
         /\ Len(request[e].sources) \in Nat
<1>1. IInv /\ EntityTypeOK /\ Fits(e) /\ StreamOf[e] \in Streams
  BY StreamOfAssumption DEF EntityInv
<1>2. /\ state[e] \in Seq(Sources) /\ version[e] \in Nat /\ read[e] \in Reads
      /\ request[e] \in Requests
  BY <1>1, Unchanged
<1>3. request[e].sources \in Batches
  BY <1>2 DEF Requests
<1> QED
  BY <1>1, <1>2, <1>3, StreamShape, BatchFacts DEF Reads

LEMMA StartKeeps ==
  ASSUME EntityInv, NEW e \in Entities, Start(e) \/ StartWithoutJournal(e) \/ Stop(e)
  PROVE  EntityInv'
<1> DEFINE s == StreamOf[e]
<1>1. /\ IInv /\ Fits(e) /\ s \in Streams /\ CurrentVersion(s) \in Nat
  BY EntityFacts
<1>2. \E p \in Phases, stream \in Reads :
        /\ EntityTypeOK' /\ OthersStay(e) /\ UNCHANGED vars
        /\ phase[e] # "answered" /\ p # "answered"
        /\ p = "restoring" => stream = StreamFor(s)
        /\ IsNow(e, p, <<>>, 0, stream, request[e])
  <2>1. StreamFor(s) \in Reads /\ read[e] \in Reads
    BY <1>1, ReadFacts, EntityFacts
  <2>2. {"restoring", "idle", "stopped"} \subseteq Phases
    BY DEF Phases
  <2>3. CASE Start(e)
    BY <2>1, <2>2, <2>3, StartEffect
  <2>4. CASE StartWithoutJournal(e)
    BY <2>1, <2>2, <2>4, StartWithoutJournalEffect
  <2>5. CASE Stop(e)
    BY <2>1, <2>2, <2>5, StopEffect
  <2> QED
    BY <2>3, <2>4, <2>5
<1>3. PICK p \in Phases, stream \in Reads :
        /\ EntityTypeOK' /\ OthersStay(e) /\ UNCHANGED vars
        /\ phase[e] # "answered" /\ p # "answered"
        /\ p = "restoring" => stream = StreamFor(s)
        /\ IsNow(e, p, <<>>, 0, stream, request[e])
  BY <1>2
<1>4. CurrentVersion(s)' = CurrentVersion(s)
  BY <1>1, <1>3, QuietStreams DEF vars, store, Quiet
<1>5. VersionFits(e)'
  BY <1>1, <1>3, <1>4, NothingIsTyped DEF IsNow, VersionFits
<1>6. RequestFits(e)'
  BY <1>1, <1>3, <1>4 DEF IsNow, Fits, RequestFits
<1>7. ReadFits(e)'
  <2> SUFFICES ASSUME p = "restoring" PROVE ReadFits(e)'
    BY <1>3 DEF IsNow, ReadFits
  <2>1. /\ StreamFor(s).streamVersion = CurrentVersion(s)
        /\ Len(StreamFor(s).entries) <= CurrentVersion(s)
        /\ StreamFor(s).snapshot \in {NoSnapshot, snapshots[s]}
    BY <1>1, ReadFacts
  <2>2. StreamFor(s).snapshot # NoSnapshot =>
          /\ StreamFor(s).snapshot.value \in Seq(Sources)
          /\ Len(StreamFor(s).snapshot.value) <= CurrentVersion(s)
    BY <1>1, <2>1 DEF EntityInv, SnapshotsAreStates
  <2>3. read'[e] = StreamFor(s)
    BY <1>3 DEF IsNow
  <2> QED
    BY <1>1, <1>4, <2>1, <2>2, <2>3 DEF ReadFits
<1> QED
  BY <1>3, <1>5, <1>6, <1>7, IdleJournalKeepsInvariant DEF Fits

LEMMA RecoverKeeps ==
  ASSUME EntityInv, NEW e \in Entities, Recover(e)
  PROVE  EntityInv'
<1> DEFINE s == StreamOf[e]
<1>1. /\ IInv /\ EntityTypeOK /\ Fits(e) /\ s \in Streams /\ CurrentVersion(s) \in Nat
      /\ read[e].streamVersion \in Nat
  BY EntityFacts
<1>2. /\ EntityTypeOK' /\ OthersStay(e) /\ UNCHANGED vars /\ phase[e] = "restoring"
      /\ \E p \in {"idle", "stopped"}, applied \in Seq(Sources), reached \in Nat :
           /\ Restored(e, applied, reached)
           /\ IsNow(e, p, applied, reached, NoRead, request[e])
  BY RecoverEffect
<1>3. PICK p \in {"idle", "stopped"}, applied \in Seq(Sources), reached \in Nat :
        /\ Restored(e, applied, reached)
        /\ IsNow(e, p, applied, reached, NoRead, request[e])
  BY <1>2
<1>4. CurrentVersion(s)' = CurrentVersion(s)
  BY <1>1, <1>2, QuietStreams DEF vars, store, Quiet
<1>5. /\ Len(applied) \in Nat /\ Len(applied) <= CurrentVersion(s)
      /\ reached <= CurrentVersion(s)
      /\ Len(applied) <= reached \/ reached = 0
  <2>1. /\ SourcesOf(read[e]) \in Seq(Sources)
        /\ Len(SourcesOf(read[e])) = Len(read[e].entries)
    BY <1>2, WhatIsApplied
  <2>2. /\ Len(read[e].entries) <= read[e].streamVersion
        /\ read[e].streamVersion <= CurrentVersion(s)
        /\ read[e].snapshot # NoSnapshot => Len(read[e].snapshot.value) <= read[e].streamVersion
    BY <1>1, <1>2 DEF Fits, ReadFits
  <2>3. Len(SourcesOf(read[e])) \in Nat /\ Len(applied) \in Nat
    BY <2>1
  <2>4. CASE ~SnapshotReadable(read[e]) /\ applied = <<>> /\ reached = 0
    BY <1>1, <2>4
  <2>5. CASE /\ applied = Applicable(SourcesOf(read[e]), Unconsumed \cup Unreadable)
             /\ reached = 0
    <3>1. Len(applied) <= Len(SourcesOf(read[e]))
      BY <2>1, <2>5, ApplicableBegins
    <3> QED
      BY <1>1, <2>1, <2>2, <2>3, <2>5, <3>1
  <2>6. CASE applied = SourcesOf(read[e]) /\ reached = read[e].streamVersion
    BY <1>1, <2>1, <2>2, <2>3, <2>6
  <2>7. CASE /\ read[e].snapshot # NoSnapshot
             /\ applied = read[e].snapshot.value /\ reached = read[e].streamVersion
    BY <1>1, <2>2, <2>3, <2>7
  <2> QED
    BY <1>3, <2>4, <2>5, <2>6, <2>7 DEF Restored
<1>6. VersionFits(e)'
  BY <1>3, <1>4, <1>5 DEF IsNow, VersionFits
<1>7. RequestFits(e)'
  BY <1>1, <1>2, <1>3, <1>4 DEF IsNow, Fits, RequestFits
<1>8. ReadFits(e)'
  BY <1>3 DEF IsNow, ReadFits
<1> QED
  BY <1>2, <1>6, <1>7, <1>8, IdleJournalKeepsInvariant DEF Fits

LEMMA RequestKeeps ==
  ASSUME EntityInv, NEW e \in Entities, NEW sources \in Batches, NEW kind \in SnapshotKinds,
         Request(e, sources, kind)
  PROVE  EntityInv'
<1> DEFINE s == StreamOf[e]
<1>1. /\ IInv /\ Fits(e) /\ s \in Streams /\ CurrentVersion(s) \in Nat
      /\ state[e] \in Seq(Sources) /\ Len(state[e]) \in Nat /\ version[e] \in Nat
  BY EntityFacts
<1>2. /\ EntityTypeOK' /\ OthersStay(e) /\ UNCHANGED vars
      /\ kind = "state" => version[e] > 0
      /\ IsNow(e, "requested", state[e], version[e], read[e],
               [sources |-> sources, snapshot |-> Snapshot(e, kind), answer |-> "none"])
  BY RequestEffect
<1>3. CurrentVersion(s)' = CurrentVersion(s)
  BY <1>1, <1>2, QuietStreams DEF vars, store, Quiet
<1>4. Snapshot(e, kind) # NoSnapshot =>
        /\ Snapshot(e, kind).value = state[e]
        /\ Snapshot(e, kind).kind = kind
  BY SnapshotKindsAssumption DEF Snapshot
<1>5. VersionFits(e)'
  BY <1>1, <1>2, <1>3 DEF IsNow, Fits, VersionFits
<1>6. RequestFits(e)'
  <2>1. /\ phase'[e] = "requested" /\ request'[e].answer = "none"
        /\ request'[e].snapshot = Snapshot(e, kind)
    BY <1>2 DEF IsNow
  <2>2. version[e] <= CurrentVersion(s) /\ Len(state[e]) <= CurrentVersion(s)
    BY <1>1 DEF Fits, VersionFits
  <2> QED
    BY <1>1, <1>2, <1>3, <1>4, <2>1, <2>2 DEF RequestFits
<1>7. ReadFits(e)'
  BY <1>2 DEF IsNow, ReadFits
<1> QED
  BY <1>2, <1>5, <1>6, <1>7, IdleJournalKeepsInvariant DEF Fits

LEMMA ConcludeKeeps ==
  ASSUME EntityInv, NEW e \in Entities, ConcludeAccepted(e) \/ ConcludeFailed(e)
  PROVE  EntityInv'
<1> DEFINE s == StreamOf[e]
           taken == Applicable(request[e].sources, Unconsumed)
<1>1. /\ IInv /\ Fits(e) /\ s \in Streams /\ CurrentVersion(s) \in Nat
      /\ state[e] \in Seq(Sources) /\ Len(state[e]) \in Nat /\ version[e] \in Nat
      /\ request[e].sources \in Seq(Sources) /\ Len(request[e].sources) \in Nat
  BY EntityFacts
<1>2. taken \in Seq(Sources) /\ Len(taken) \in Nat /\ Len(taken) <= Len(request[e].sources)
  BY <1>1, ApplicableBegins, LenProperties
<1> HIDE DEF taken
<1>3. \E applied \in Seq(Sources), reached \in Nat :
        /\ EntityTypeOK' /\ OthersStay(e) /\ UNCHANGED vars
        /\ IsNow(e, "idle", applied, reached, read[e], NoRequest)
        /\ reached <= CurrentVersion(s) /\ Len(applied) <= CurrentVersion(s)
        /\ Len(applied) <= reached \/ reached = 0
  <2>1. CASE ConcludeAccepted(e)
    <3>1. /\ EntityTypeOK' /\ OthersStay(e) /\ UNCHANGED vars
          /\ phase[e] = "answered" /\ request[e].answer = "Success"
          /\ IsNow(e, "idle", state[e] \o taken, version[e] + Len(taken), read[e], NoRequest)
      BY <2>1, ConcludeAcceptedEffect DEF taken
    <3>2. /\ Len(state[e]) <= version[e]
          /\ version[e] + Len(request[e].sources) <= CurrentVersion(s)
      BY <1>1, <3>1 DEF Fits, RequestFits
    <3>3. /\ state[e] \o taken \in Seq(Sources)
          /\ Len(state[e] \o taken) = Len(state[e]) + Len(taken)
      BY <1>1, <1>2, ConcatProperties
    <3>4. /\ version[e] + Len(taken) \in Nat
          /\ version[e] + Len(taken) <= CurrentVersion(s)
          /\ Len(state[e] \o taken) <= version[e] + Len(taken)
          /\ Len(state[e] \o taken) <= CurrentVersion(s)
      BY <1>1, <1>2, <3>2, <3>3
    <3> QED
      BY <3>1, <3>3, <3>4
  <2>2. CASE ConcludeFailed(e)
    <3>1. /\ version[e] <= CurrentVersion(s) /\ Len(state[e]) <= CurrentVersion(s)
          /\ Len(state[e]) <= version[e] \/ version[e] = 0
      BY <1>1 DEF Fits, VersionFits
    <3> QED
      BY <1>1, <2>2, <3>1, ConcludeFailedEffect
  <2> QED
    BY <2>1, <2>2
<1>4. PICK applied \in Seq(Sources), reached \in Nat :
        /\ EntityTypeOK' /\ OthersStay(e) /\ UNCHANGED vars
        /\ IsNow(e, "idle", applied, reached, read[e], NoRequest)
        /\ reached <= CurrentVersion(s) /\ Len(applied) <= CurrentVersion(s)
        /\ Len(applied) <= reached \/ reached = 0
  BY <1>3
<1>5. CurrentVersion(s)' = CurrentVersion(s)
  BY <1>1, <1>4, QuietStreams DEF vars, store, Quiet
<1>6. VersionFits(e)'
  BY <1>4, <1>5 DEF IsNow, VersionFits
<1>7. RequestFits(e)'
  BY <1>4 DEF IsNow, RequestFits, NoRequest
<1>8. ReadFits(e)'
  BY <1>4 DEF IsNow, ReadFits
<1> QED
  BY <1>4, <1>6, <1>7, <1>8, IdleJournalKeepsInvariant DEF Fits

LEMMA HandleKeeps ==
  ASSUME EntityInv, NEW e \in Entities, Handle(e)
  PROVE  EntityInv'
<1> DEFINE s == StreamOf[e]
           sources == request[e].sources
           snapshot == request[e].snapshot
<1>1. /\ IInv /\ EntityTypeOK /\ Fits(e) /\ s \in Streams /\ CurrentVersion(s) \in Nat
      /\ state[e] \in Seq(Sources) /\ Len(state[e]) \in Nat /\ version[e] \in Nat
      /\ request[e] \in Requests /\ sources \in Batches /\ Len(sources) \in Nat
  BY EntityFacts
<1>2. /\ IInv' /\ EntityTypeOK' /\ OthersStay(e)
      /\ phase[e] = "requested"
      /\ IsNow(e, "answered", state[e], version[e], read[e],
               [request[e] EXCEPT !.answer = reply'.result])
      /\ TurnedDown(e) \/ Accepted(e)
  BY HandleEffect
<1>3. /\ request'[e].sources = sources /\ request'[e].snapshot = snapshot
      /\ request'[e].answer = reply'.result
  BY <1>1, <1>2 DEF IsNow, Requests
<1>4. /\ version[e] <= CurrentVersion(s) /\ Len(state[e]) <= CurrentVersion(s)
      /\ Len(state[e]) <= version[e] \/ version[e] = 0
      /\ snapshot # NoSnapshot =>
           /\ snapshot.value \in Seq(Sources) /\ Len(snapshot.value) <= CurrentVersion(s)
           /\ snapshot.kind = "state" => CurrentVersion(s) > 0
  BY <1>1 DEF Fits, VersionFits, RequestFits
<1> HIDE DEF sources, snapshot
<1>5. CASE TurnedDown(e)
  <2>1. Quiet /\ reply'.result # "Success"
    BY <1>5 DEF TurnedDown
  <2>2. CurrentVersion(s)' = CurrentVersion(s)
    BY <1>1, <2>1, QuietStreams
  <2>3. VersionFits(e)' /\ ReadFits(e)'
    BY <1>2, <1>4, <2>2 DEF IsNow, VersionFits, ReadFits
  <2>4. RequestFits(e)'
    BY <1>2, <1>3, <1>4, <2>1, <2>2 DEF IsNow, RequestFits
  <2>5. \A d \in Entities : SameEntity(d) \/ Fits(d)'
    BY <1>2, <2>3, <2>4 DEF OthersStay, Fits
  <2> QED
    BY <1>2, <2>1, <2>5, QuietKeepsInvariant
<1>6. CASE Accepted(e)
  <2>1. /\ version[e] = CurrentVersion(s) /\ Grown(s, sources) /\ reply'.result = "Success"
    BY <1>6 DEF Accepted, sources
  <2>2. /\ CurrentVersion(s)' = CurrentVersion(s) + Len(sources)
        /\ \A t \in Streams \ {s} : CurrentVersion(t)' = CurrentVersion(t)
    BY <1>1, <1>2, <2>1, StreamsOfGrown
  <2>3. ASSUME NEW t \in Streams, snapshots'[t] # NoSnapshot
        PROVE  /\ CurrentVersion(t)' > 0
               /\ snapshots'[t].value \in Seq(Sources)
               /\ Len(snapshots'[t].value) <= CurrentVersion(t)'
    <3>1. CurrentVersion(t) \in Nat
      BY <1>1, StreamShape
    <3>2. CASE snapshots'[t] = snapshots[t]
      <4>1. /\ CurrentVersion(t) > 0 /\ snapshots[t].value \in Seq(Sources)
            /\ Len(snapshots[t].value) <= CurrentVersion(t)
        BY <2>3, <3>2 DEF EntityInv, SnapshotsAreStates
      <4>2. Len(snapshots[t].value) \in Nat
        BY <4>1
      <4>3. CurrentVersion(t)' >= CurrentVersion(t) /\ CurrentVersion(t)' \in Nat
        BY <1>1, <2>2, <3>1
      <4> QED
        BY <3>1, <3>2, <4>1, <4>2, <4>3
    <3>3. CASE snapshots'[t] # snapshots[t]
      <4> DEFINE reached == CurrentVersion(s) + Len(sources)
      <4>1. /\ snapshot # NoSnapshot /\ (snapshot.kind = "plain" => reached # 0)
            /\ snapshots' = [snapshots EXCEPT ![s] = StoredSnapshot(snapshot, reached)]
        BY <1>6, <3>3 DEF Accepted, sources, snapshot
      <4>2. snapshots \in [Streams -> StoredSnapshots \cup {NoSnapshot}]
        BY <1>1 DEF IInv, TypeOK
      <4> HIDE DEF reached
      <4>3. t = s /\ snapshots'[t] = StoredSnapshot(snapshot, reached)
        BY <1>1, <3>3, <4>1, <4>2
      <4>4. snapshots'[t].value = snapshot.value
        BY <4>3 DEF StoredSnapshot
      <4>5. snapshot.kind \in {"plain", "state"}
        <5>1. snapshot \in SnapshotArgs
          BY <1>1 DEF Requests, snapshot
        <5> QED
          BY <4>1, <5>1 DEF SnapshotArgs, PlainSnapshots, StateSnapshots
      <4>6. reached \in Nat /\ reached > 0 /\ reached >= CurrentVersion(s)
        BY <1>1, <1>4, <4>1, <4>5 DEF reached
      <4>7. Len(snapshot.value) \in Nat
        BY <1>4, <4>1
      <4> QED
        BY <1>1, <1>4, <2>2, <4>1, <4>3, <4>4, <4>6, <4>7 DEF reached
    <3> QED
      BY <3>2, <3>3
  <2>4. Fits(e)'
    <3>1. VersionFits(e)' /\ ReadFits(e)'
      BY <1>1, <1>2, <1>4, <2>2 DEF IsNow, VersionFits, ReadFits
    <3>2. snapshot # NoSnapshot => Len(snapshot.value) \in Nat
      BY <1>4
    <3>3. Len(state[e]) <= version[e]
      BY <1>1, <1>4, <2>1
    <3>4. RequestFits(e)'
      BY <1>1, <1>2, <1>3, <1>4, <2>1, <2>2, <3>2, <3>3 DEF IsNow, RequestFits
    <3> QED
      BY <3>1, <3>4 DEF Fits
  <2>5. ASSUME NEW d \in Entities, d # e PROVE Fits(d)'
    <3>1. SameEntity(d) /\ Fits(d) /\ StreamOf[d] \in Streams /\ CurrentVersion(StreamOf[d]) \in Nat
      BY <1>2, <2>5, EntityFacts DEF OthersStay
    <3>2. /\ CurrentVersion(StreamOf[d])' \in Nat
          /\ CurrentVersion(StreamOf[d]) <= CurrentVersion(StreamOf[d])'
      BY <1>1, <2>2, <3>1
    <3> QED
      BY <1>1, <3>1, <3>2, FitsStay
  <2> QED
    BY <1>2, <2>3, <2>4, <2>5 DEF EntityInv, SnapshotsAreStates
<1> QED
  BY <1>2, <1>5, <1>6

\* What somebody else does to the lifecycle of a stream stores nothing.
LEMMA AdministerEffect ==
  ASSUME EntityInv, Administer
  PROVE  /\ IInv' /\ [Next]_vars /\ Quiet
         /\ UNCHANGED entityVars
         /\ EntityTypeOK'
         /\ \A d \in Entities : SameEntity(d)
<1>1. PICK s \in Administered : LifecycleStep(s)
  BY DEF Administer
<1>2. s \in Streams
  BY AdministeredAssumption
<1>3. Next
  BY <1>1, <1>2 DEF Next
<1>4. IInv'
  BY <1>3, NextKeepsInvariant DEF EntityInv
<1>5. Quiet
  BY <1>1 DEF LifecycleStep, Tombstone, SoftDelete, TruncateBefore, Quiet, store
<1>6. UNCHANGED entityVars
  BY DEF Administer
<1>7. EntityTypeOK' /\ \A d \in Entities : SameEntity(d)
  BY <1>6 DEF EntityInv, EntityTypeOK, SameEntity, entityVars
<1> QED
  BY <1>3, <1>4, <1>5, <1>6, <1>7

LEMMA EntityInitInvariant == EntityInit => EntityInv
<1> SUFFICES ASSUME EntityInit PROVE EntityInv
  OBVIOUS
<1>1. IInv
  BY InitInvariant DEF EntityInit
<1>2. EntityTypeOK
  BY NothingIsTyped DEF EntityInit, EntityTypeOK, Phases
<1>3. SnapshotsAreStates
  BY DEF EntityInit, Init, SnapshotsAreStates
<1>4. ASSUME NEW e \in Entities PROVE Fits(e)
  <2>1. /\ phase[e] = "stopped" /\ state[e] = <<>> /\ version[e] = 0
        /\ request[e] = NoRequest
    BY DEF EntityInit
  <2>2. StreamOf[e] \in Streams /\ CurrentVersion(StreamOf[e]) \in Nat
    BY <1>1, StreamOfAssumption, StreamShape
  <2> QED
    BY <2>1, <2>2, NothingIsTyped DEF Fits, VersionFits, RequestFits, ReadFits, NoRequest
<1> QED
  BY <1>1, <1>2, <1>3, <1>4 DEF EntityInv

LEMMA EntityNextInvariant == EntityInv /\ [EntityNext]_allVars => EntityInv'
<1> SUFFICES ASSUME EntityInv, [EntityNext]_allVars PROVE EntityInv'
  OBVIOUS
<1>1. CASE UNCHANGED allVars
  <2>1. UNCHANGED store /\ Quiet /\ UNCHANGED entityVars
    BY <1>1 DEF allVars, vars, store, Quiet, entityVars
  <2>2. IInv'
    BY <2>1, IdleKeepsInvariant DEF EntityInv
  <2>3. EntityTypeOK' /\ \A d \in Entities : SameEntity(d)
    BY <2>1 DEF EntityInv, EntityTypeOK, SameEntity, entityVars
  <2> QED
    BY <2>1, <2>2, <2>3, QuietKeepsInvariant
<1>2. CASE Administer
  <2>1. IInv' /\ Quiet /\ EntityTypeOK' /\ \A d \in Entities : SameEntity(d)
    BY <1>2, AdministerEffect
  <2> QED
    BY <2>1, QuietKeepsInvariant
<1>3. ASSUME NEW e \in Entities, EntityStep(e) PROVE EntityInv'
  <2>1. CASE Start(e) \/ StartWithoutJournal(e) \/ Stop(e)
    BY <2>1, StartKeeps
  <2>2. CASE Recover(e)
    BY <2>2, RecoverKeeps
  <2>3. ASSUME NEW sources \in Batches, NEW kind \in SnapshotKinds, Request(e, sources, kind)
        PROVE  EntityInv'
    BY <2>3, RequestKeeps
  <2>4. CASE Handle(e)
    BY <2>4, HandleKeeps
  <2>5. CASE ConcludeAccepted(e) \/ ConcludeFailed(e)
    BY <2>5, ConcludeKeeps
  <2> QED
    BY <1>3, <2>1, <2>2, <2>3, <2>4, <2>5 DEF EntityStep
<1> QED
  BY <1>1, <1>2, <1>3 DEF EntityNext

----------------------------------------------------------------------------
(* Theorems *)

\* Types, what is stored, what is read and what is asked for, in every state that
\* entities, their restarts and deletions and truncations can reach.
THEOREM EntityInvariant == EntitySpec => []EntityInv
<1> QED
  BY EntityInitInvariant, EntityNextInvariant, PTL DEF EntitySpec

\* Restored from whatever streamFor answers, appending whatever it decides, an
\* entity is never ahead of its stream and counts no event twice.
THEOREM VersionsStayBehind == EntitySpec => []VersionNeverAhead
<1>1. EntityInv => VersionNeverAhead
  BY DEF EntityInv, Fits, VersionFits, VersionNeverAhead
<1> QED
  BY <1>1, EntityInvariant, PTL

\* Entities use the journal as its specification allows, so that all that is
\* proved of the journal holds under them.
THEOREM EntitiesUseTheJournal == EntitySpec => Spec
<1>1. EntityInit => Init
  BY DEF EntityInit
<1>2. EntityInv /\ [EntityNext]_allVars => [Next]_vars
  <2> SUFFICES ASSUME EntityInv, [EntityNext]_allVars PROVE [Next]_vars
    OBVIOUS
  <2>1. CASE UNCHANGED allVars
    BY <2>1 DEF allVars
  <2>2. CASE Administer
    BY <2>2, AdministerEffect
  <2>3. ASSUME NEW e \in Entities, EntityStep(e) PROVE [Next]_vars
    <3>1. CASE Handle(e)
      BY <3>1, HandleEffect
    <3>2. CASE ~Handle(e)
      BY <2>3, <3>2 DEF EntityStep, Start, StartWithoutJournal, Recover, Stop, Request,
         ConcludeAccepted, ConcludeFailed, Concluded
    <3> QED
      BY <3>1, <3>2
  <2> QED
    BY <2>1, <2>2, <2>3 DEF EntityNext
<1> QED
  BY <1>1, <1>2, EntityInvariant, PTL DEF EntitySpec, Spec

----------------------------------------------------------------------------
(* The only writer of a stream *)

SameStream(s) ==
  /\ Versions(s)' = Versions(s) /\ CurrentVersion(s)' = CurrentVersion(s)
  /\ EventsOf(s)' = EventsOf(s) /\ snapshots'[s] = snapshots[s]

\* Neither the entity nor its stream took part in the step.
LEMMA StandsStay ==
  ASSUME NEW d \in Entities, SameEntity(d), SameStream(StreamOf[d]),
         Sound(d) => Stands(d), Sound(d)'
  PROVE  Stands(d)'
<1> DEFINE s == StreamOf[d]
<1>1. Sound(d)
  BY DEF Sound, SoleWriter, SameStream
<1>2. \A source : IsEvent(d, source) => IsEvent(d, source)'
  BY DEF IsEvent, SameStream
<1>3. Lost(d) => Lost(d)'
  BY DEF Lost, SnapshotReadable, SameStream, SameEntity
<1>4. InStep(d) => InStep(d)'
  BY <1>3 DEF InStep, SameStream, SameEntity
<1> QED
  BY <1>1, <1>2, <1>3, <1>4 DEF Stands, SameStream, SameEntity

\* The entity took a step that stored nothing.
LEMMA RestoringStands ==
  ASSUME EntityInv, NEW e \in Entities, Start(e), SameStream(StreamOf[e])
  PROVE  Stands(e)'
<1> DEFINE s == StreamOf[e]
<1>1. IInv /\ s \in Streams
  BY EntityFacts
<1>2. PICK stream : stream = StreamFor(s)
  OBVIOUS
<1>3. phase'[e] = "restoring" /\ read'[e] = stream
  BY <1>2, StartEffect DEF IsNow
<1>4. /\ stream.streamVersion = CurrentVersion(s)
      /\ stream.snapshot \in {NoSnapshot, snapshots[s]}
      /\ stream.entries \in Seq(Entries)
      /\ \A i \in 1 .. Len(stream.entries) : \E v \in Versions(s) :
           EventsOf(s)[v] = stream.entries[i].source
  BY <1>1, <1>2, ReadFacts DEF Reads
<1>5. DOMAIN stream.entries = 1 .. Len(stream.entries)
  BY <1>4
<1>6. \A i \in DOMAIN stream.entries : IsEvent(e, stream.entries[i].source)'
  BY <1>4, <1>5 DEF IsEvent, SameStream
<1> QED
  BY <1>3, <1>4, <1>6 DEF Stands, SameStream

LEMMA RecoveredStands ==
  ASSUME EntityInv, NEW e \in Entities, Recover(e), SameStream(StreamOf[e]),
         Sound(e), Stands(e)
  PROVE  Stands(e)'
<1> DEFINE s == StreamOf[e]
<1>1. IInv /\ s \in Streams
  BY EntityFacts
<1>2. /\ phase[e] = "restoring"
      /\ \E p \in {"idle", "stopped"}, applied \in Seq(Sources), reached \in Nat :
           /\ Restored(e, applied, reached)
           /\ IsNow(e, p, applied, reached, NoRead, request[e])
  BY RecoverEffect
<1>3. PICK p \in {"idle", "stopped"}, applied \in Seq(Sources), reached \in Nat :
        /\ Restored(e, applied, reached)
        /\ IsNow(e, p, applied, reached, NoRead, request[e])
  BY <1>2
<1>4. /\ read[e].streamVersion = CurrentVersion(s)
      /\ read[e].snapshot \in {NoSnapshot, snapshots[s]}
      /\ \A i \in DOMAIN read[e].entries : IsEvent(e, read[e].entries[i].source)
  BY <1>2 DEF Stands
<1>5. version'[e] = reached /\ phase'[e] = p
  BY <1>3 DEF IsNow
<1>6. InStep(e)'
  <2>1. CASE ~SnapshotReadable(read[e]) /\ reached = 0
    <3>1. read[e].snapshot # NoSnapshot /\ read[e].snapshot = snapshots[s]
      BY <1>4, <2>1 DEF SnapshotReadable
    <3>2. ~SnapshotReadable([snapshot |-> snapshots[s]])
      BY <2>1, <3>1 DEF SnapshotReadable
    <3>3. CurrentVersion(s) > 0
      BY <1>1, <3>1 DEF EntityInv, SnapshotsAreStates
    <3>4. ~SnapshotReadable([snapshot |-> snapshots[s]])'
      BY <3>2 DEF SnapshotReadable, SameStream
    <3> QED
      BY <1>5, <2>1, <3>3, <3>4 DEF InStep, Lost, SameStream
  <2>2. CASE /\ applied = Applicable(SourcesOf(read[e]), Unconsumed \cup Unreadable)
             /\ applied # SourcesOf(read[e])
    <3>1. /\ SourcesOf(read[e]) \in Seq(Sources)
          /\ Len(SourcesOf(read[e])) = Len(read[e].entries)
          /\ \A i \in 1 .. Len(read[e].entries) :
               SourcesOf(read[e])[i] = read[e].entries[i].source
      BY <1>2, WhatIsApplied
    <3>2. DOMAIN read[e].entries = 1 .. Len(read[e].entries)
      <4>1. read[e].entries \in Seq(Entries)
        BY EntityFacts DEF Reads
      <4> QED
        BY <4>1
    <3>3. \A i \in 1 .. Len(SourcesOf(read[e])) :
            SourcesOf(read[e])[i] \notin Unconsumed \cup Unreadable
      BY <1>4, <3>1, <3>2 DEF IsEvent, Sound
    <3> QED
      BY <2>2, <3>1, <3>3, ApplicableBegins
  <2>3. CASE reached = read[e].streamVersion
    BY <1>4, <1>5, <2>3 DEF InStep, SameStream
  <2> QED
    BY <1>3, <2>1, <2>2, <2>3 DEF Restored
<1> QED
  BY <1>5, <1>6 DEF Stands

LEMMA AskingStands ==
  ASSUME EntityInv, NEW e \in Entities, SameStream(StreamOf[e]), Stands(e),
         \/ \E sources \in Batches, kind \in SnapshotKinds : Request(e, sources, kind)
         \/ ConcludeFailed(e)
  PROVE  Stands(e)'
<1>1. /\ phase[e] = "idle" \/ (phase[e] = "answered" /\ request[e].answer # "Success")
      /\ version'[e] = version[e]
      /\ phase'[e] \in {"idle", "requested"}
  <2>1. CASE ConcludeFailed(e)
    BY <2>1, ConcludeFailedEffect DEF IsNow
  <2>2. ASSUME NEW sources \in Batches, NEW kind \in SnapshotKinds, Request(e, sources, kind)
        PROVE  phase[e] = "idle" /\ version'[e] = version[e] /\ phase'[e] = "requested"
    BY <2>2, RequestEffect DEF IsNow
  <2> QED
    BY <2>1, <2>2
<1>2. InStep(e)
  BY <1>1 DEF Stands
<1>3. InStep(e)'
  BY <1>1, <1>2 DEF InStep, Lost, SnapshotReadable, SameStream
<1> QED
  BY <1>1, <1>3 DEF Stands

LEMMA AppliedStands ==
  ASSUME EntityInv, NEW e \in Entities, SameStream(StreamOf[e]), Sound(e), Stands(e),
         ConcludeAccepted(e)
  PROVE  Stands(e)'
<1> DEFINE applied == Applicable(request[e].sources, Unconsumed)
<1>1. /\ phase[e] = "answered" /\ request[e].answer = "Success"
      /\ phase'[e] = "idle" /\ version'[e] = version[e] + Len(applied)
  BY ConcludeAcceptedEffect DEF IsNow
<1>2. /\ version[e] + Len(request[e].sources) = CurrentVersion(StreamOf[e])
      /\ \A i \in DOMAIN request[e].sources : IsEvent(e, request[e].sources[i])
  BY <1>1 DEF Stands
<1>3. request[e].sources \in Seq(Sources)
  BY EntityFacts
<1>4. \A i \in 1 .. Len(request[e].sources) : request[e].sources[i] \notin Unconsumed
  BY <1>2, <1>3 DEF IsEvent, Sound
<1>5. applied = request[e].sources
  BY <1>3, <1>4, ApplicableBegins
<1>6. InStep(e)'
  BY <1>1, <1>2, <1>5 DEF InStep, SameStream
<1> QED
  BY <1>1, <1>6 DEF Stands

LEMMA TurnedDownStands ==
  ASSUME EntityInv, NEW e \in Entities, SameStream(StreamOf[e]), Stands(e),
         Handle(e), TurnedDown(e)
  PROVE  Stands(e)'
<1>1. /\ phase[e] = "requested" /\ phase'[e] = "answered" /\ version'[e] = version[e]
      /\ request'[e] = [request[e] EXCEPT !.answer = reply'.result]
  BY HandleEffect DEF IsNow
<1>2. request'[e].answer = reply'.result
  BY <1>1, EntityFacts DEF Requests
<1>3. /\ reply'.result # "Success"
      /\ reply'.result = "ConcurrencyViolation" => version[e] # CurrentVersion(StreamOf[e])
  BY DEF TurnedDown
<1>4. InStep(e)
  BY <1>1 DEF Stands
<1>5. Lost(e) => Lost(e)'
  BY <1>1 DEF Lost, SnapshotReadable, SameStream
<1>6. InStep(e)' /\ (reply'.result = "ConcurrencyViolation" => Lost(e)')
  BY <1>1, <1>3, <1>4, <1>5 DEF InStep, SameStream
<1> QED
  BY <1>1, <1>2, <1>3, <1>6 DEF Stands

LEMMA AcceptedStands ==
  ASSUME EntityInv, NEW e \in Entities, Handle(e), Accepted(e)
  PROVE  Stands(e)'
<1> DEFINE s == StreamOf[e]
<1>0. PICK sources : sources = request[e].sources
  OBVIOUS
<1>1. /\ IInv /\ s \in Streams /\ CurrentVersion(s) \in Nat
      /\ sources \in Batches /\ sources \in Seq(Sources) /\ Len(sources) \in Nat
      /\ request[e] \in Requests
  BY <1>0, EntityFacts
<1>2. /\ IInv' /\ phase'[e] = "answered" /\ version'[e] = version[e]
      /\ request'[e] = [request[e] EXCEPT !.answer = reply'.result]
  BY HandleEffect DEF IsNow
<1>3. request'[e].sources = sources /\ request'[e].answer = reply'.result
  BY <1>0, <1>1, <1>2 DEF Requests
<1>4. /\ reply'.result = "Success" /\ version[e] = CurrentVersion(s) /\ Grown(s, sources)
  BY <1>0 DEF Accepted
<1>5. /\ CurrentVersion(s)' = CurrentVersion(s) + Len(sources)
      /\ EventsOf(s)' = EventsOf(s) \o sources
      /\ Versions(s)' = 1 .. CurrentVersion(s)'
  BY <1>1, <1>2, <1>4, StreamsOfGrown
<1>6. EventsOf(s) \in Seq(Sources) /\ Len(EventsOf(s)) = CurrentVersion(s)
  BY <1>1, EventsAreASequence
<1>7. ASSUME NEW i \in DOMAIN sources PROVE IsEvent(e, sources[i])'
  <2>1. i \in 1 .. Len(sources)
    BY <1>1
  <2>2. CurrentVersion(s) + i \in Versions(s)'
    BY <1>1, <1>5, <2>1
  <2>3. (EventsOf(s) \o sources)[CurrentVersion(s) + i] = sources[i]
    BY <1>1, <1>6, <2>1, ConcatProperties
  <2> QED
    BY <1>5, <2>2, <2>3 DEF IsEvent
<1> QED
  BY <1>2, <1>3, <1>4, <1>5, <1>7 DEF Stands

\* An accepted batch concerns no other stream.
LEMMA OtherStreamsStay ==
  ASSUME EntityInv, NEW e \in Entities, Handle(e), Accepted(e),
         NEW s \in Streams, s # StreamOf[e]
  PROVE  SameStream(s)
<1>1. /\ IInv /\ StreamOf[e] \in Streams /\ request[e].sources \in Batches
  BY EntityFacts
<1>2. IInv'
  BY HandleEffect
<1>3. Grown(StreamOf[e], request[e].sources)
  BY DEF Accepted
<1>4. /\ CurrentVersion(s)' = CurrentVersion(s) /\ EventsOf(s)' = EventsOf(s)
      /\ Versions(s)' = 1 .. CurrentVersion(s)'
  BY <1>1, <1>2, <1>3, StreamsOfGrown
<1>5. Versions(s) = 1 .. CurrentVersion(s)
  BY <1>1, StreamShape
<1>6. snapshots'[s] = snapshots[s]
  <2>1. snapshots \in [Streams -> StoredSnapshots \cup {NoSnapshot}]
    BY <1>1 DEF IInv, TypeOK
  <2>2. PICK x : snapshots' = snapshots \/ snapshots' = [snapshots EXCEPT ![StreamOf[e]] = x]
    BY DEF Accepted
  <2> QED
    BY <2>1, <2>2
<1> QED
  BY <1>4, <1>5, <1>6 DEF SameStream

LEMMA StandingNext ==
  ASSUME EntityInv, StandingInv, [EntityNext]_allVars
  PROVE  StandingInv'
<1> SUFFICES ASSUME NEW d \in Entities \ LateJournal, Sound(d)'
             PROVE  Stands(d)'
  BY DEF StandingInv
<1>1. StreamOf[d] \in Streams
  BY StreamOfAssumption
<1>2. Sound(d) => Stands(d)
  BY DEF StandingInv
<1>3. ASSUME Quiet PROVE SameStream(StreamOf[d])
  BY <1>1, <1>3, QuietStreams DEF SameStream
<1>4. CASE UNCHANGED allVars
  <2>1. Quiet /\ SameEntity(d)
    BY <1>4 DEF allVars, vars, store, Quiet, entityVars, SameEntity
  <2> QED
    BY <1>2, <1>3, <2>1, StandsStay
<1>5. CASE Administer
  BY <1>2, <1>3, <1>5, AdministerEffect, StandsStay
<1>6. ASSUME NEW e \in Entities, EntityStep(e) PROVE Stands(d)'
  <2>1. OthersStay(e) /\ (~Handle(e) => Quiet)
    <3>1. CASE Handle(e)
      BY <3>1, HandleEffect
    <3>2. CASE Start(e) \/ StartWithoutJournal(e) \/ Stop(e) \/ Recover(e)
               \/ ConcludeAccepted(e) \/ ConcludeFailed(e)
      BY <3>2, StartEffect, StartWithoutJournalEffect, StopEffect, RecoverEffect,
         ConcludeAcceptedEffect, ConcludeFailedEffect DEF vars, store, Quiet
    <3>3. ASSUME NEW sources \in Batches, NEW kind \in SnapshotKinds, Request(e, sources, kind)
          PROVE  OthersStay(e) /\ Quiet
      BY <3>3, RequestEffect DEF vars, store, Quiet
    <3> QED
      BY <1>6, <3>1, <3>2, <3>3 DEF EntityStep
  <2>2. Handle(e) => TurnedDown(e) \/ Accepted(e)
    BY HandleEffect
  <2>3. TurnedDown(e) => Quiet
    BY DEF TurnedDown
  <2>4. CASE d # e
    <3>1. SameEntity(d)
      BY <2>1, <2>4 DEF OthersStay
    <3>2. CASE Quiet
      BY <1>2, <1>3, <3>1, <3>2, StandsStay
    <3>3. CASE Handle(e) /\ Accepted(e)
      <4>1. StreamOf[d] # StreamOf[e]
        BY <2>4 DEF Sound, SoleWriter
      <4>2. SameStream(StreamOf[d])
        BY <1>1, <3>3, <4>1, OtherStreamsStay
      <4> QED
        BY <1>2, <3>1, <4>2, StandsStay
    <3> QED
      BY <2>1, <2>2, <2>3, <3>2, <3>3
  <2>5. CASE d = e
    <3>1. CASE Handle(e) /\ Accepted(e)
      BY <2>5, <3>1, AcceptedStands
    <3>2. CASE Quiet
      <4>1. SameStream(StreamOf[e])
        BY <1>3, <2>5, <3>2
      <4>2. Sound(e) /\ Stands(e)
        BY <1>2, <2>5, <4>1 DEF Sound, SoleWriter, SameStream
      <4>3. CASE Start(e)
        BY <2>5, <4>1, <4>3, RestoringStands
      <4>4. CASE StartWithoutJournal(e)
        BY <2>5, <4>4, StartWithoutJournalEffect
      <4>5. CASE Recover(e)
        BY <2>5, <4>1, <4>2, <4>5, RecoveredStands
      <4>6. CASE Stop(e)
        BY <2>5, <4>6, StopEffect DEF IsNow, Stands
      <4>7. CASE \/ \E sources \in Batches, kind \in SnapshotKinds : Request(e, sources, kind)
                 \/ ConcludeFailed(e)
        BY <2>5, <4>1, <4>2, <4>7, AskingStands
      <4>8. CASE Handle(e) /\ TurnedDown(e)
        BY <2>5, <4>1, <4>2, <4>8, TurnedDownStands
      <4>9. CASE ConcludeAccepted(e)
        BY <2>5, <4>1, <4>2, <4>9, AppliedStands
      <4> QED
        BY <1>6, <2>2, <3>1, <4>3, <4>4, <4>5, <4>6, <4>7, <4>8, <4>9 DEF EntityStep
    <3> QED
      BY <2>1, <2>2, <2>3, <3>1, <3>2
  <2> QED
    BY <2>4, <2>5
<1> QED
  BY <1>4, <1>5, <1>6 DEF EntityNext

\* An entity that nobody disturbs is always where the journal expects it.
THEOREM StandingInvariant == EntitySpec => [](EntityInv /\ StandingInv)
<1>1. EntityInit => StandingInv
  <2> SUFFICES ASSUME EntityInit, NEW e \in Entities PROVE Stands(e)
    BY DEF StandingInv
  <2>1. phase[e] = "stopped"
    BY DEF EntityInit
  <2> QED
    BY <2>1 DEF Stands
<1>2. EntityInv /\ StandingInv /\ [EntityNext]_allVars => StandingInv'
  BY StandingNext
<1> QED
  BY <1>1, <1>2, EntityInitInvariant, EntityNextInvariant, PTL DEF EntitySpec

\* restore() finds the version the journal expects of the only writer of a stream,
\* through refusals, thrown appends, deletions, truncations and restarts.
THEOREM SoleWritersMeetNoConflict == EntitySpec => []SoleWriterNeverConflicts
<1>1. EntityInv /\ StandingInv => SoleWriterNeverConflicts
  <2> SUFFICES ASSUME EntityInv, StandingInv, NEW e \in Entities \ LateJournal,
                      SoleWriter(e),
                      \A v \in Versions(StreamOf[e]) :
                        EventsOf(StreamOf[e])[v] \notin Unconsumed \cup Unreadable,
                      SnapshotReadable([snapshot |-> snapshots[StreamOf[e]]]),
                      request[e].answer = "ConcurrencyViolation"
               PROVE  FALSE
    BY DEF SoleWriterNeverConflicts
  <2>1. phase[e] = "answered"
    BY DEF EntityInv, Fits, RequestFits
  <2>2. Stands(e)
    BY DEF StandingInv, Sound
  <2> QED
    BY <2>1, <2>2 DEF Stands, Lost
<1> QED
  BY <1>1, StandingInvariant, PTL

----------------------------------------------------------------------------
(* Streams that nothing hides a part of *)

\* No snapshots, nobody who deletes or truncates, and ids that sorting by leaves
\* in order.
NothingToHide ==
  /\ SnapshotKinds \subseteq {"none"}
  /\ Administered = {}
  /\ \A a, b \in Sources : IdNumber[a] = IdNumber[b]

LEMMA BeginsLonger ==
  ASSUME NEW S, NEW xs \in Seq(S), NEW ys \in Seq(S), NEW zs \in Seq(S)
  PROVE  /\ Begins(xs, ys) => Begins(xs, ys \o zs)
         /\ Begins(xs, ys) /\ Begins(ys, zs) => Begins(xs, zs)
         /\ Begins(xs, ys) /\ Len(xs) = Len(ys) => xs = ys
         /\ Begins(xs, xs) /\ Begins(xs, xs \o ys) /\ Begins(<<>>, xs)
         /\ Begins(ys, zs) => Begins(xs \o ys, xs \o zs)
<1> DEFINE longer == ys \o zs
<1>1. /\ Len(xs) \in Nat /\ Len(ys) \in Nat /\ Len(zs) \in Nat
      /\ <<>> \in Seq(S) /\ Len(<<>>) = 0
  OBVIOUS
<1>2. \A us, vs \in Seq(S) : Begins(us, vs) <=> /\ Len(us) <= Len(vs)
                                               /\ \A i \in 1 .. Len(us) : us[i] = vs[i]
  BY BeginsPointwise
<1>3. \A us, vs \in Seq(S) : /\ us \o vs \in Seq(S)
                             /\ Len(us \o vs) = Len(us) + Len(vs)
                             /\ \A i \in 1 .. Len(us) + Len(vs) :
                                  (us \o vs)[i] = IF i <= Len(us) THEN us[i] ELSE vs[i - Len(us)]
  BY ConcatProperties
<1>4. \A us, vs \in Seq(S) : Begins(us, us \o vs)
  <2> SUFFICES ASSUME NEW us \in Seq(S), NEW vs \in Seq(S) PROVE Begins(us, us \o vs)
    OBVIOUS
  <2>1. Len(us) \in Nat /\ Len(vs) \in Nat
    OBVIOUS
  <2>2. /\ us \o vs \in Seq(S) /\ Len(us \o vs) = Len(us) + Len(vs)
        /\ \A i \in 1 .. Len(us) + Len(vs) :
             (us \o vs)[i] = IF i <= Len(us) THEN us[i] ELSE vs[i - Len(us)]
    BY <1>3
  <2>3. \A i \in 1 .. Len(us) : us[i] = (us \o vs)[i]
    BY <2>1, <2>2
  <2>4. PICK both : both = us \o vs
    OBVIOUS
  <2>5. /\ both \in Seq(S) /\ Len(us) <= Len(both)
        /\ \A i \in 1 .. Len(us) : us[i] = both[i]
    BY <2>1, <2>2, <2>3, <2>4
  <2>6. Begins(us, both)
    BY <1>2, <2>5
  <2> QED
    BY <2>4, <2>6
<1>5. \A us, vs, ws \in Seq(S) : Begins(us, vs) /\ Begins(vs, ws) => Begins(us, ws)
  <2> SUFFICES ASSUME NEW us \in Seq(S), NEW vs \in Seq(S), NEW ws \in Seq(S),
                      Begins(us, vs), Begins(vs, ws)
               PROVE  Begins(us, ws)
    OBVIOUS
  <2>1. Len(us) \in Nat /\ Len(vs) \in Nat /\ Len(ws) \in Nat
    OBVIOUS
  <2>2. /\ Len(us) <= Len(vs) /\ \A i \in 1 .. Len(us) : us[i] = vs[i]
        /\ Len(vs) <= Len(ws) /\ \A i \in 1 .. Len(vs) : vs[i] = ws[i]
    BY <1>2
  <2>3. Len(us) <= Len(ws) /\ \A i \in 1 .. Len(us) : us[i] = ws[i]
    BY <2>1, <2>2
  <2> QED
    BY <1>2, <2>3
<1>6. Begins(xs, ys) => Begins(xs, ys \o zs)
  BY <1>3, <1>4, <1>5
<1>7. Begins(xs, ys) /\ Len(xs) = Len(ys) => xs = ys
  BY <1>2, SeqEqual
<1>8. Begins(xs, xs) /\ Begins(<<>>, xs)
  <2>1. Begins(xs, xs)
    BY <1>1, <1>2
  <2>2. PICK nothing : nothing = <<>>
    OBVIOUS
  <2>3. nothing \in Seq(S) /\ nothing \o xs = xs
    BY <2>2, ConcatEmptySeq
  <2>4. Begins(nothing, nothing \o xs)
    BY <1>4, <2>3
  <2> QED
    BY <2>1, <2>2, <2>3, <2>4
<1>9. ASSUME Begins(ys, zs) PROVE Begins(xs \o ys, xs \o zs)
  <2>1. Len(ys) <= Len(zs) /\ \A i \in 1 .. Len(ys) : ys[i] = zs[i]
    BY <1>2, <1>9
  <2>2. /\ xs \o ys \in Seq(S) /\ Len(xs \o ys) = Len(xs) + Len(ys)
        /\ xs \o zs \in Seq(S) /\ Len(xs \o zs) = Len(xs) + Len(zs)
        /\ \A i \in 1 .. Len(xs) + Len(ys) :
             (xs \o ys)[i] = IF i <= Len(xs) THEN xs[i] ELSE ys[i - Len(xs)]
        /\ \A i \in 1 .. Len(xs) + Len(zs) :
             (xs \o zs)[i] = IF i <= Len(xs) THEN xs[i] ELSE zs[i - Len(xs)]
    BY <1>3
  <2>3. ASSUME NEW i \in 1 .. Len(xs) + Len(ys) PROVE (xs \o ys)[i] = (xs \o zs)[i]
    <3>1. i \in 1 .. Len(xs) + Len(zs) /\ (i <= Len(xs) \/ i - Len(xs) \in 1 .. Len(ys))
      BY <1>1, <2>1
    <3> QED
      BY <2>1, <2>2, <3>1
  <2>4. Len(xs \o ys) <= Len(xs \o zs)
    BY <1>1, <2>1, <2>2
  <2> QED
    BY <1>2, <2>2, <2>3, <2>4
<1> QED
  BY <1>4, <1>5, <1>6, <1>7, <1>8, <1>9

\* streamFor answers the whole of such a stream.
LEMMA WholeRead ==
  ASSUME NothingToHide, IInv, NothingHidden, NEW s \in Streams
  PROVE  /\ SourcesOf(StreamFor(s)) = EventsOf(s)
         /\ StreamFor(s).snapshot = NoSnapshot
         /\ StreamFor(s).streamVersion = Len(StreamFor(s).entries)
<1> DEFINE inOrder == InVersionOrder(s, VisibleVersions(s))
<1>1. /\ CurrentVersion(s) \in Nat /\ Versions(s) = 1 .. CurrentVersion(s)
      /\ StreamIsEmpty(s) <=> CurrentVersion(s) = 0
      /\ EventsOf(s) \in Seq(Sources) /\ Len(EventsOf(s)) = CurrentVersion(s)
  BY StreamShape, EventsAreASequence
<1>2. s \notin tombstones /\ ~IsSoftDeleted(s) /\ snapshots[s] = NoSnapshot
  BY DEF NothingHidden, IsSoftDeleted
<1>3. CASE StreamIsEmpty(s)
  <2>1. StreamFor(s) = EntryStream(0, <<>>, NoSnapshot, "active")
    BY <1>2, <1>3 DEF StreamFor
  <2>2. SourcesOf(StreamFor(s)) = [i \in {} |-> StreamFor(s).entries[i].source]
    BY <2>1 DEF EntryStream, SourcesOf
  <2>3. EventsOf(s) = [v \in {} |-> journal[streamIndexes[s][v]].source]
    BY <1>3 DEF EventsOf, StreamIsEmpty
  <2>4. SourcesOf(StreamFor(s)) = EventsOf(s)
    BY <2>2, <2>3
  <2> QED
    BY <2>1, <2>4 DEF EntryStream
<1>4. CASE ~StreamIsEmpty(s)
  <2>1. NumbersFollowVersions
    BY OneNumberFollows DEF NothingToHide
  <2>2. StreamFor(s) = EntryStream(CurrentVersion(s), inOrder, NoSnapshot, "active")
    BY <1>2, <1>4, <2>1, SortingKeepsOrder DEF StreamFor
  <2>3. PICK m \in Nat, n \in Nat :
          /\ m > 0 /\ n = CurrentVersion(s) /\ VisibleVersions(s) = m .. n
          /\ Len(inOrder) = n + 1 - m
          /\ inOrder = [i \in 1 .. n + 1 - m |-> journal[streamIndexes[s][m + i - 1]]]
          /\ \A i \in 1 .. n + 1 - m : inOrder[i].source = EventsOf(s)[m + i - 1]
    BY VisibleInOrder
  <2>4. VisibleVersions(s) = 1 .. n
    BY <1>1, <2>3 DEF VisibleVersions, NothingHidden
  <2>5. m = 1
    <3>1. 1 \in 1 .. n
      BY <1>1, <1>4, <2>3
    <3>2. 1 \in m .. n
      BY <2>3, <2>4, <3>1
    <3> QED
      BY <2>3, <3>2
  <2> HIDE DEF inOrder
  <2>6. /\ Len(inOrder) = n /\ DOMAIN inOrder = 1 .. n
        /\ \A i \in 1 .. n : inOrder[i].source = EventsOf(s)[i]
    BY <2>3, <2>5
  <2>7. SourcesOf(StreamFor(s)) = [i \in 1 .. n |-> inOrder[i].source]
    BY <2>2, <2>6 DEF SourcesOf, EntryStream
  <2>8. SourcesOf(StreamFor(s)) = [i \in 1 .. n |-> EventsOf(s)[i]]
    BY <2>6, <2>7
  <2>9. EventsOf(s) = [i \in 1 .. n |-> EventsOf(s)[i]]
    BY <1>1, <2>3
  <2>10. SourcesOf(StreamFor(s)) = EventsOf(s)
    BY ONLY <2>8, <2>9
  <2>11. /\ StreamFor(s).snapshot = NoSnapshot
         /\ StreamFor(s).streamVersion = CurrentVersion(s)
         /\ StreamFor(s).entries = inOrder
    BY <2>2 DEF EntryStream
  <2> QED
    BY <2>3, <2>6, <2>10, <2>11
<1> QED
  BY <1>3, <1>4

\* The entity did nothing and its stream only grew.
LEMMA MirrorsStay ==
  ASSUME EntityInv, NEW d \in Entities, SameEntity(d), Mirrors(d),
         NEW more \in Seq(Sources), EventsOf(StreamOf[d])' = EventsOf(StreamOf[d]) \o more
  PROVE  Mirrors(d)'
<1> DEFINE s == StreamOf[d]
<1>1. /\ IInv /\ s \in Streams /\ state[d] \in Seq(Sources)
      /\ request[d].sources \in Seq(Sources)
  BY EntityFacts
<1>2. EventsOf(s) \in Seq(Sources)
  BY <1>1, EventsAreASequence
<1>3. Begins(state[d], EventsOf(s))'
  <2>1. Begins(state[d], EventsOf(s) \o more)
    BY <1>1, <1>2, BeginsLonger DEF Mirrors
  <2> QED
    BY <2>1 DEF SameEntity
<1>4. ASSUME phase[d] = "answered", request[d].answer = "Success"
      PROVE  Begins(state[d] \o request[d].sources, EventsOf(s))'
  <2>1. state[d] \o request[d].sources \in Seq(Sources)
    BY <1>1, ConcatProperties
  <2>2. PICK both : both = state[d] \o request[d].sources
    OBVIOUS
  <2>3. both \in Seq(Sources) /\ Begins(both, EventsOf(s))
    BY <1>4, <2>1, <2>2 DEF Mirrors
  <2>4. Begins(both, EventsOf(s) \o more)
    BY <1>2, <2>3, BeginsLonger
  <2> QED
    BY <2>2, <2>4 DEF SameEntity
<1>5. ASSUME phase[d] = "restoring" PROVE Begins(SourcesOf(read[d]), EventsOf(s))'
  <2>1. SourcesOf(read[d]) \in Seq(Sources)
    BY <1>5, WhatIsApplied
  <2>2. Begins(SourcesOf(read[d]), EventsOf(s) \o more)
    BY <1>2, <1>5, <2>1, BeginsLonger DEF Mirrors
  <2>3. SourcesOf(read[d])' = SourcesOf(read[d])
    BY DEF SameEntity, SourcesOf
  <2> QED
    BY <2>2, <2>3
<1> QED
  BY <1>3, <1>4, <1>5 DEF Mirrors, SameEntity

\* The stream is as it was, and the entity has just been born, or is restored.
LEMMA BornMirrors ==
  ASSUME EntityInv, NothingToHide, NothingHidden, NEW e \in Entities, Mirrors(e),
         EventsOf(StreamOf[e])' = EventsOf(StreamOf[e]),
         Start(e) \/ StartWithoutJournal(e) \/ Stop(e)
  PROVE  Mirrors(e)'
<1> DEFINE s == StreamOf[e]
<1>1. /\ IInv /\ s \in Streams /\ EventsOf(s) \in Seq(Sources)
  BY EntityFacts, EventsAreASequence
<1>2. PICK stream : stream = StreamFor(s)
  OBVIOUS
<1>3. /\ SourcesOf(stream) = EventsOf(s) /\ stream.snapshot = NoSnapshot
      /\ stream.streamVersion = Len(stream.entries)
  BY <1>1, <1>2, WholeRead
<1>4. /\ state'[e] = <<>> /\ version'[e] = 0 /\ request'[e] = request[e]
      /\ phase'[e] # "answered"
      /\ phase'[e] = "restoring" => read'[e] = stream
  BY <1>2, StartEffect, StartWithoutJournalEffect, StopEffect DEF IsNow
<1>5. Begins(state[e], EventsOf(s))'
  <2>1. Begins(<<>>, EventsOf(s))
    BY <1>1, BeginsLonger
  <2> QED
    BY <1>4, <2>1
<1>6. ASSUME phase'[e] = "restoring" PROVE Begins(SourcesOf(read[e]), EventsOf(s))'
  <2>1. SourcesOf(read[e])' = SourcesOf(stream)
    BY <1>4, <1>6 DEF SourcesOf
  <2>2. Begins(EventsOf(s), EventsOf(s))
    BY <1>1, BeginsLonger
  <2> QED
    BY <1>3, <2>1, <2>2
<1>7. version'[e] = 0 /\ request'[e].snapshot = NoSnapshot
  BY <1>4 DEF Mirrors
<1>8. phase'[e] = "restoring" => /\ read'[e].snapshot = NoSnapshot
                                /\ read'[e].streamVersion = Len(read'[e].entries)
  BY <1>3, <1>4
<1> QED
  BY <1>4, <1>5, <1>6, <1>7, <1>8 DEF Mirrors

LEMMA RecoveredMirrors ==
  ASSUME EntityInv, NEW e \in Entities, Mirrors(e),
         EventsOf(StreamOf[e])' = EventsOf(StreamOf[e]), Recover(e)
  PROVE  Mirrors(e)'
<1> DEFINE s == StreamOf[e]
<1>1. /\ IInv /\ s \in Streams /\ EventsOf(s) \in Seq(Sources)
  BY EntityFacts, EventsAreASequence
<1>2. /\ phase[e] = "restoring"
      /\ \E p \in {"idle", "stopped"}, applied \in Seq(Sources), reached \in Nat :
           /\ Restored(e, applied, reached)
           /\ IsNow(e, p, applied, reached, NoRead, request[e])
  BY RecoverEffect
<1>3. PICK p \in {"idle", "stopped"}, applied \in Seq(Sources), reached \in Nat :
        /\ Restored(e, applied, reached)
        /\ IsNow(e, p, applied, reached, NoRead, request[e])
  BY <1>2
<1>4. /\ SourcesOf(read[e]) \in Seq(Sources)
      /\ Len(SourcesOf(read[e])) = Len(read[e].entries)
  BY <1>2, WhatIsApplied
<1>5. /\ Begins(SourcesOf(read[e]), EventsOf(s)) /\ read[e].snapshot = NoSnapshot
      /\ read[e].streamVersion = Len(read[e].entries)
  BY <1>2 DEF Mirrors
<1>6. Begins(applied, EventsOf(s)) /\ (reached = Len(applied) \/ reached = 0)
  <2>1. CASE applied = <<>> /\ reached = 0
    BY <1>1, <2>1, BeginsLonger
  <2>2. CASE /\ applied = Applicable(SourcesOf(read[e]), Unconsumed \cup Unreadable)
             /\ reached = 0
    <3>1. /\ Len(applied) <= Len(SourcesOf(read[e]))
          /\ \A i \in 1 .. Len(applied) : applied[i] = SourcesOf(read[e])[i]
      BY <1>4, <2>2, ApplicableBegins
    <3>2. Begins(applied, SourcesOf(read[e]))
      BY <1>4, <3>1, BeginsPointwise
    <3> QED
      BY <1>1, <1>4, <1>5, <2>2, <3>2, BeginsLonger
  <2>3. CASE applied = SourcesOf(read[e]) /\ reached = read[e].streamVersion
    BY <1>4, <1>5, <2>3
  <2> QED
    BY <1>3, <1>5, <2>1, <2>2, <2>3 DEF Restored
<1>7. /\ phase'[e] \in {"idle", "stopped"} /\ state'[e] = applied /\ version'[e] = reached
      /\ request'[e] = request[e]
  BY <1>3 DEF IsNow
<1> QED
  BY <1>6, <1>7 DEF Mirrors

LEMMA AskingMirrors ==
  ASSUME EntityInv, NothingToHide, NEW e \in Entities, Mirrors(e),
         EventsOf(StreamOf[e])' = EventsOf(StreamOf[e]),
         \/ \E sources \in Batches, kind \in SnapshotKinds : Request(e, sources, kind)
         \/ ConcludeFailed(e)
         \/ Handle(e) /\ TurnedDown(e)
  PROVE  Mirrors(e)'
<1>1. /\ state'[e] = state[e] /\ version'[e] = version[e]
      /\ request'[e].snapshot = NoSnapshot
      /\ phase'[e] # "restoring"
      /\ ~(phase'[e] = "answered" /\ request'[e].answer = "Success")
  <2>1. CASE ConcludeFailed(e)
    BY <2>1, ConcludeFailedEffect DEF IsNow, NoRequest
  <2>2. ASSUME NEW sources \in Batches, NEW kind \in SnapshotKinds, Request(e, sources, kind)
        PROVE  /\ state'[e] = state[e] /\ version'[e] = version[e]
               /\ request'[e].snapshot = NoSnapshot
               /\ phase'[e] = "requested"
    <3>1. kind = "none"
      BY DEF NothingToHide
    <3>2. Snapshot(e, kind) = NoSnapshot
      BY <3>1 DEF Snapshot
    <3>3. IsNow(e, "requested", state[e], version[e], read[e],
                [sources |-> sources, snapshot |-> Snapshot(e, kind), answer |-> "none"])
      BY <2>2, RequestEffect
    <3>4. request'[e] = [sources |-> sources, snapshot |-> NoSnapshot, answer |-> "none"]
      BY <3>2, <3>3 DEF IsNow
    <3> QED
      BY <3>3, <3>4 DEF IsNow
  <2>3. CASE Handle(e) /\ TurnedDown(e)
    <3>1. IsNow(e, "answered", state[e], version[e], read[e],
                [request[e] EXCEPT !.answer = reply'.result])
      BY <2>3, HandleEffect
    <3>2. request[e] \in Requests
      BY EntityFacts
    <3>3. request'[e].snapshot = request[e].snapshot /\ request'[e].answer = reply'.result
      BY <3>1, <3>2 DEF IsNow, Requests
    <3>4. reply'.result # "Success"
      BY <2>3 DEF TurnedDown
    <3> QED
      BY <3>1, <3>3, <3>4 DEF IsNow, Mirrors
  <2> QED
    BY <2>1, <2>2, <2>3
<1> QED
  BY <1>1 DEF Mirrors

LEMMA AppliedMirrors ==
  ASSUME EntityInv, NEW e \in Entities, Mirrors(e),
         EventsOf(StreamOf[e])' = EventsOf(StreamOf[e]), ConcludeAccepted(e)
  PROVE  Mirrors(e)'
<1> DEFINE s == StreamOf[e]
           sources == request[e].sources
<1>0. PICK applied : applied = Applicable(sources, Unconsumed)
  OBVIOUS
<1>1. /\ IInv /\ s \in Streams /\ EventsOf(s) \in Seq(Sources)
      /\ state[e] \in Seq(Sources) /\ Len(state[e]) \in Nat /\ sources \in Seq(Sources)
  BY EntityFacts, EventsAreASequence
<1>2. /\ phase[e] = "answered" /\ request[e].answer = "Success"
      /\ phase'[e] = "idle" /\ state'[e] = state[e] \o applied
      /\ version'[e] = version[e] + Len(applied) /\ request'[e] = NoRequest
  BY <1>0, ConcludeAcceptedEffect DEF IsNow
<1>3. Begins(state[e] \o sources, EventsOf(s)) /\ version[e] = Len(state[e])
  BY <1>2 DEF Mirrors
<1>4. /\ applied \in Seq(Sources) /\ Len(applied) \in Nat
      /\ Begins(applied, sources)
  <2>1. /\ applied \in Seq(Sources) /\ Len(applied) <= Len(sources)
        /\ \A i \in 1 .. Len(applied) : applied[i] = sources[i]
    BY <1>0, <1>1, ApplicableBegins
  <2> QED
    BY <1>1, <2>1, BeginsPointwise, LenProperties
<1>5. /\ state[e] \o applied \in Seq(Sources) /\ state[e] \o sources \in Seq(Sources)
      /\ Len(state[e] \o applied) = Len(state[e]) + Len(applied)
  BY <1>1, <1>4, ConcatProperties
<1> HIDE DEF sources
<1>6. Begins(state[e] \o applied, EventsOf(s))
  <2>1. Begins(state[e] \o applied, state[e] \o sources)
    BY <1>1, <1>4, BeginsLonger
  <2>2. PICK some, all : some = state[e] \o applied /\ all = state[e] \o sources
    OBVIOUS
  <2>3. /\ some \in Seq(Sources) /\ all \in Seq(Sources)
        /\ Begins(some, all) /\ Begins(all, EventsOf(s))
    BY <1>3, <1>5, <2>1, <2>2
  <2>4. Begins(some, EventsOf(s))
    BY <1>1, <2>3, BeginsLonger
  <2> QED
    BY <2>2, <2>4
<1>7. /\ Begins(state[e], EventsOf(s))' /\ version'[e] = Len(state'[e])
      /\ request'[e].snapshot = NoSnapshot
  BY <1>2, <1>3, <1>5, <1>6 DEF NoRequest
<1> QED
  BY <1>2, <1>7 DEF Mirrors

LEMMA BeginsWithAll ==
  ASSUME NEW S, NEW xs \in Seq(S), NEW ys \in Seq(S), Begins(xs, ys), Len(xs) = Len(ys)
  PROVE  xs = ys
BY BeginsLonger

\* Who is accepted has applied all of the stream.
LEMMA AcceptedIsCurrent ==
  ASSUME EntityInv, NEW e \in Entities, Mirrors(e), Accepted(e)
  PROVE  state[e] = EventsOf(StreamOf[e]) /\ version[e] = Len(state[e])
<1> DEFINE s == StreamOf[e]
<1>1. /\ IInv /\ s \in Streams /\ CurrentVersion(s) \in Nat
      /\ EventsOf(s) \in Seq(Sources) /\ Len(EventsOf(s)) = CurrentVersion(s)
      /\ state[e] \in Seq(Sources) /\ Len(state[e]) \in Nat
  BY EntityFacts, EventsAreASequence
<1>2. /\ Begins(state[e], EventsOf(s))
      /\ version[e] = Len(state[e]) \/ version[e] = 0
      /\ version[e] = CurrentVersion(s)
  BY DEF Mirrors, Accepted
<1>3. Len(state[e]) <= CurrentVersion(s)
  BY <1>1, <1>2 DEF Begins
<1>4. version[e] = Len(state[e]) /\ Len(state[e]) = Len(EventsOf(s))
  BY <1>1, <1>2, <1>3
<1>5. state[e] = EventsOf(s)
  BY ONLY <1>1, <1>2, <1>4, BeginsWithAll
<1> QED
  BY <1>4, <1>5

LEMMA AcceptedMirrors ==
  ASSUME EntityInv, NEW e \in Entities, Mirrors(e), Handle(e), Accepted(e)
  PROVE  /\ Mirrors(e)'
         /\ EventsOf(StreamOf[e])' = EventsOf(StreamOf[e]) \o request[e].sources
<1> DEFINE s == StreamOf[e]
<1>0. PICK sources : sources = request[e].sources
  OBVIOUS
<1>1. /\ IInv /\ s \in Streams /\ state[e] \in Seq(Sources)
      /\ sources \in Batches /\ sources \in Seq(Sources) /\ request[e] \in Requests
  BY <1>0, EntityFacts
<1>2. /\ IInv'
      /\ IsNow(e, "answered", state[e], version[e], read[e],
               [request[e] EXCEPT !.answer = reply'.result])
  BY HandleEffect
<1>3. /\ request'[e].sources = sources /\ request'[e].snapshot = request[e].snapshot
      /\ phase'[e] = "answered" /\ state'[e] = state[e] /\ version'[e] = version[e]
  BY <1>0, <1>1, <1>2 DEF IsNow, Requests
<1>4. Grown(s, sources)
  BY <1>0 DEF Accepted
<1>5. EventsOf(s)' = EventsOf(s) \o sources
  BY <1>1, <1>2, <1>4, StreamsOfGrown
<1>6. state[e] = EventsOf(s) /\ version[e] = Len(state[e])
  BY AcceptedIsCurrent
<1>7. PICK grown : grown = state[e] \o sources
  OBVIOUS
<1>8. grown \in Seq(Sources) /\ Begins(state[e], grown) /\ Begins(grown, grown)
  <2>1. grown \in Seq(Sources) /\ Begins(state[e], state[e] \o sources)
    BY <1>1, <1>7, ConcatProperties, BeginsLonger
  <2> QED
    BY <1>7, <2>1, BeginsLonger
<1>9. EventsOf(s)' = grown /\ state'[e] \o request'[e].sources = grown
  BY <1>3, <1>5, <1>6, <1>7
<1>10. /\ Begins(state[e], EventsOf(s))'
       /\ Begins(state[e] \o request[e].sources, EventsOf(s))'
       /\ request'[e].snapshot = NoSnapshot
       /\ version'[e] = Len(state'[e])
  BY <1>3, <1>6, <1>8, <1>9 DEF Mirrors
<1> QED
  BY <1>0, <1>3, <1>5, <1>10 DEF Mirrors

\* Without a snapshot to store, the journal's handler hides nothing.
LEMMA HandleHidesNothing ==
  ASSUME EntityInv, NothingHidden, NEW e \in Entities, Mirrors(e), Handle(e)
  PROVE  NothingHidden'
<1> DEFINE s == StreamOf[e]
           sources == request[e].sources
<1>1. IInv /\ s \in Streams
  BY EntityFacts
<1>2. AppendAll(s, NextVersion(e), sources)
  BY DEF Handle, Mirrors
<1> HIDE DEF sources
<1>3. UNCHANGED <<snapshots, tombstones, truncateBeforeMap>>
  BY <1>2 DEF AppendAll, Refused, AdapterThrows, Stored, store
<1>4. softDeleted' = softDeleted \/ ReopenIfSoftDeleted(s)
  BY <1>2 DEF AppendAll, Refused, AdapterThrows, Stored, store
<1>5. softDeleted \in [Streams -> Nat \cup {NotDeleted}]
  BY <1>1 DEF IInv, TypeOK
<1>6. \A t \in Streams : softDeleted'[t] = NotDeleted
  BY <1>4, <1>5 DEF ReopenIfSoftDeleted, NothingHidden
<1> QED
  BY <1>3, <1>6 DEF NothingHidden

LEMMA MirrorNext ==
  ASSUME NothingToHide, EntityInv, MirrorInv, [EntityNext]_allVars
  PROVE  MirrorInv'
<1>1. NothingHidden /\ \A d \in Entities : Mirrors(d)
  BY DEF MirrorInv
<1>2. ASSUME UNCHANGED vars
      PROVE  NothingHidden' /\ \A d \in Entities : EventsOf(StreamOf[d])' = EventsOf(StreamOf[d])
  <2>1. NothingHidden'
    BY <1>1, <1>2 DEF NothingHidden, vars, store
  <2>2. Quiet
    BY <1>2 DEF vars, store, Quiet
  <2> QED
    BY <2>1, <2>2, QuietStreams, StreamOfAssumption
<1>3. ASSUME NEW d \in Entities, SameEntity(d), EventsOf(StreamOf[d])' = EventsOf(StreamOf[d])
      PROVE  Mirrors(d)'
  <2>1. EventsOf(StreamOf[d]) \in Seq(Sources)
    BY EntityFacts, EventsAreASequence
  <2>2. PICK none : none = <<>>
    OBVIOUS
  <2>3. none \in Seq(Sources) /\ EventsOf(StreamOf[d]) \o none = EventsOf(StreamOf[d])
    BY <2>1, <2>2, ConcatEmptySeq
  <2>4. EventsOf(StreamOf[d])' = EventsOf(StreamOf[d]) \o none
    BY <1>3, <2>3
  <2> QED
    BY <1>1, <1>3, <2>3, <2>4, MirrorsStay
<1>4. CASE UNCHANGED allVars
  <2>1. UNCHANGED vars /\ \A d \in Entities : SameEntity(d)
    BY <1>4 DEF allVars, entityVars, SameEntity
  <2> QED
    BY <1>2, <1>3, <2>1 DEF MirrorInv
<1>5. ~Administer
  BY DEF Administer, NothingToHide
<1>6. ASSUME NEW e \in Entities, EntityStep(e) PROVE MirrorInv'
  <2>1. CASE Handle(e) /\ Accepted(e)
    <3>1. /\ Mirrors(e)'
          /\ EventsOf(StreamOf[e])' = EventsOf(StreamOf[e]) \o request[e].sources
      BY <1>1, <2>1, AcceptedMirrors
    <3>2. NothingHidden'
      BY <1>1, <2>1, HandleHidesNothing
    <3>3. ASSUME NEW d \in Entities, d # e PROVE Mirrors(d)'
      <4>1. SameEntity(d)
        BY <2>1, <3>3, HandleEffect DEF OthersStay
      <4>2. request[e].sources \in Seq(Sources) /\ StreamOf[d] \in Streams
        BY EntityFacts
      <4>3. CASE StreamOf[d] = StreamOf[e]
        <5>1. EventsOf(StreamOf[d])' = EventsOf(StreamOf[d]) \o request[e].sources
          BY <3>1, <4>3
        <5> QED
          BY <1>1, <4>1, <4>2, <5>1, MirrorsStay
      <4>4. CASE StreamOf[d] # StreamOf[e]
        <5>1. SameStream(StreamOf[d])
          BY <2>1, <4>2, <4>4, OtherStreamsStay
        <5> QED
          BY <1>3, <4>1, <5>1 DEF SameStream
      <4> QED
        BY <4>3, <4>4
    <3> QED
      BY <3>1, <3>2, <3>3 DEF MirrorInv
  <2>2. ASSUME NothingHidden', OthersStay(e), Mirrors(e)',
               \A d \in Entities : EventsOf(StreamOf[d])' = EventsOf(StreamOf[d])
        PROVE  MirrorInv'
    BY <1>3, <2>2 DEF OthersStay, MirrorInv
  <2>3. CASE Handle(e) /\ TurnedDown(e)
    <3>1. NothingHidden' /\ OthersStay(e)
      BY <1>1, <2>3, HandleHidesNothing, HandleEffect
    <3>2. \A d \in Entities : EventsOf(StreamOf[d])' = EventsOf(StreamOf[d])
      BY <2>3, QuietStreams, StreamOfAssumption DEF TurnedDown
    <3>3. Mirrors(e)'
      BY <1>1, <2>3, <3>2, AskingMirrors
    <3> QED
      BY <2>2, <3>1, <3>2, <3>3
  <2>4. CASE Start(e) \/ StartWithoutJournal(e) \/ Stop(e)
    <3>1. UNCHANGED vars /\ OthersStay(e)
      BY <2>4, StartEffect, StartWithoutJournalEffect, StopEffect
    <3>2. Mirrors(e)'
      BY <1>1, <1>2, <2>4, <3>1, BornMirrors
    <3> QED
      BY <1>2, <2>2, <3>1, <3>2
  <2>5. CASE Recover(e)
    <3>1. UNCHANGED vars /\ OthersStay(e)
      BY <2>5, RecoverEffect
    <3>2. Mirrors(e)'
      BY <1>1, <1>2, <2>5, <3>1, RecoveredMirrors
    <3> QED
      BY <1>2, <2>2, <3>1, <3>2
  <2>6. CASE \/ \E sources \in Batches, kind \in SnapshotKinds : Request(e, sources, kind)
             \/ ConcludeFailed(e)
    <3>1. UNCHANGED vars /\ OthersStay(e)
      BY <2>6, RequestEffect, ConcludeFailedEffect
    <3>2. Mirrors(e)'
      BY <1>1, <1>2, <2>6, <3>1, AskingMirrors
    <3> QED
      BY <1>2, <2>2, <3>1, <3>2
  <2>7. CASE ConcludeAccepted(e)
    <3>1. UNCHANGED vars /\ OthersStay(e)
      BY <2>7, ConcludeAcceptedEffect
    <3>2. Mirrors(e)'
      BY <1>1, <1>2, <2>7, <3>1, AppliedMirrors
    <3> QED
      BY <1>2, <2>2, <3>1, <3>2
  <2>8. Handle(e) => TurnedDown(e) \/ Accepted(e)
    BY HandleEffect
  <2> QED
    BY <1>6, <2>1, <2>3, <2>4, <2>5, <2>6, <2>7, <2>8 DEF EntityStep
<1> QED
  BY <1>4, <1>5, <1>6 DEF EntityNext

LEMMA MirrorInitially ==
  ASSUME EntityInit
  PROVE  MirrorInv
<1>1. EntityInv
  BY EntityInitInvariant
<1>2. NothingHidden
  BY DEF EntityInit, Init, NothingHidden
<1>3. ASSUME NEW e \in Entities PROVE Mirrors(e)
  <2>1. EventsOf(StreamOf[e]) \in Seq(Sources)
    BY <1>1, EntityFacts, EventsAreASequence
  <2>2. Begins(<<>>, EventsOf(StreamOf[e]))
    BY <2>1, BeginsLonger
  <2>3. /\ phase[e] = "stopped" /\ state[e] = <<>> /\ version[e] = 0
        /\ request[e].snapshot = NoSnapshot
    BY DEF EntityInit, NoRequest
  <2> QED
    BY <2>2, <2>3 DEF Mirrors
<1> QED
  BY <1>2, <1>3 DEF MirrorInv

\* What an entity has applied, what it restores from and what was accepted from it
\* are the beginning of its stream, where no snapshot, deletion or truncation is used.
THEOREM EntitiesMirrorTheirStreams ==
  ASSUME NothingToHide
  PROVE  EntitySpec => []EntityMirrorsStream
<1>1. EntityInit => EntityInv /\ MirrorInv
  BY EntityInitInvariant, MirrorInitially
<1>2. EntityInv /\ MirrorInv /\ [EntityNext]_allVars => EntityInv' /\ MirrorInv'
  BY EntityNextInvariant, MirrorNext
<1>3. MirrorInv => EntityMirrorsStream
  BY DEF MirrorInv, Mirrors, EntityMirrorsStream
<1> QED
  BY <1>1, <1>2, <1>3, PTL DEF EntitySpec

\* Optimistic concurrency: the journal accepts a batch only from an entity that has
\* applied all of its stream, however many write to it.
THEOREM BatchesAreDecidedOnCurrentState ==
  ASSUME NothingToHide
  PROVE  EntitySpec => DecidedOnCurrentState
<1> DEFINE Decided == \A e \in Entities :
                        phase[e] = "requested" /\ request'[e].answer = "Success"
                          => EventsOf(StreamOf[e]) = state[e]
<1>1. EntityInit => EntityInv /\ MirrorInv
  BY EntityInitInvariant, MirrorInitially
<1>2. EntityInv /\ MirrorInv /\ [EntityNext]_allVars => EntityInv' /\ MirrorInv'
  BY EntityNextInvariant, MirrorNext
<1>3. EntityInv /\ MirrorInv /\ [EntityNext]_allVars => [Decided]_allVars
  <2> SUFFICES ASSUME EntityInv, MirrorInv, EntityNext, NEW e \in Entities,
                      phase[e] = "requested", request'[e].answer = "Success"
               PROVE  EventsOf(StreamOf[e]) = state[e]
    BY DEF Decided
  <2>1. Mirrors(e) /\ request[e].answer = "none"
    BY DEF MirrorInv, EntityInv, Fits, RequestFits
  <2>2. ~SameEntity(e)
    BY <2>1 DEF SameEntity
  <2>3. ~Administer
    BY <2>2, AdministerEffect
  <2>4. PICK d \in Entities : EntityStep(d)
    BY <2>3 DEF EntityNext
  <2>5. OthersStay(d)
    <3>1. CASE Handle(d) \/ Start(d) \/ StartWithoutJournal(d) \/ Stop(d) \/ Recover(d)
               \/ ConcludeAccepted(d) \/ ConcludeFailed(d)
      BY <3>1, HandleEffect, StartEffect, StartWithoutJournalEffect, StopEffect,
         RecoverEffect, ConcludeAcceptedEffect, ConcludeFailedEffect
    <3>2. ASSUME NEW sources \in Batches, NEW kind \in SnapshotKinds, Request(d, sources, kind)
          PROVE  OthersStay(d)
      BY <3>2, RequestEffect
    <3> QED
      BY <2>4, <3>1, <3>2 DEF EntityStep
  <2>6. d = e
    BY <2>2, <2>5 DEF OthersStay
  <2>7. Handle(e)
    BY <2>4, <2>6 DEF EntityStep, Start, StartWithoutJournal, Recover, Stop, Request,
       ConcludeAccepted, ConcludeFailed
  <2>8. request'[e].answer = reply'.result
    <3>1. request[e] \in Requests
      BY EntityFacts
    <3> QED
      BY <2>7, <3>1, HandleEffect DEF IsNow, Requests
  <2>9. Accepted(e)
    BY <2>7, <2>8, HandleEffect DEF TurnedDown
  <2> QED
    BY <2>1, <2>9, AcceptedIsCurrent
<1> QED
  BY <1>1, <1>2, <1>3, PTL DEF EntitySpec, DecidedOnCurrentState
=============================================================================
