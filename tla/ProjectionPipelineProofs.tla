---------------------- MODULE ProjectionPipelineProofs ----------------------
(***************************************************************************)
(* Proofs about module ProjectionPipeline, for any number of polling       *)
(* chains, any descriptions, batch size and length of the journal: pausing,*)
(* resuming, errors and retries never leave the consumer without a chain,  *)
(* never let two chains take each other's answers, and, as long as no      *)
(* projection throws, never lose or double an entry.                       *)
(***************************************************************************)
EXTENDS ProjectionPipeline, Ranking, SequenceTheorems, TLAPS

Entry == Nat \ {0}
Clients == Chains \cup {Nobody}
ChainStates == [at : Stages, batch : Seq(Entry)]
Messages == [client : Clients, entry : Entry]

PipelineTypeOK ==
  /\ entries \in Seq(Types) /\ position \in 0 .. Len(entries)
  /\ isRunning \in BOOLEAN
  /\ chains \in [Chains -> ChainStates]
  /\ mailbox \in Seq(Messages)
  /\ current \in [client : Clients, entry : Entry \cup {None}, todo : Seq(Projections)]
  /\ pendingMap \in [Types -> Entry \cup {None}]
  /\ confirmed \subseteq Types
  /\ received \in [Projections -> Seq(Entry)]
  /\ undisturbed \in BOOLEAN

\* Nothing is anywhere that the reader has not handed out.
NothingIsAhead ==
  /\ \A c \in Chains : \A i \in DOMAIN chains[c].batch : chains[c].batch[i] <= position
  /\ \A i \in DOMAIN mailbox : mailbox[i].entry <= position
  /\ current.entry <= position
  /\ \A id \in Types : pendingMap[id] <= position
  /\ \A p \in Projections : \A i \in DOMAIN received[p] : received[p][i] <= position

\* A chain that has not read holds nothing; who handles nothing is idle.
NothingIsLeftOver ==
  /\ \A c \in Chains : chains[c].at \in {"free", "timer", "reading"} => chains[c].batch = <<>>
  /\ current.entry = None => current = Idle

\* AnswersMatchCalls, by the dispatches themselves.
OneCallEach ==
  \A c \in Chains :
    IF chains[c].at = "waiting" THEN \E i \in Nat : DispatchesOf(c) = {i} ELSE DispatchesOf(c) = {}

BaseInv ==
  /\ PipelineTypeOK
  /\ NothingIsAhead
  /\ NothingIsLeftOver
  /\ OneCallEach
  /\ RunningMeansPolling
  /\ ConfirmerIsConsistent

\* Until a projection throws, no chain has an error to catch, ...
NoErrorYet == \A c \in Chains : chains[c].at # "caught"

\* ... an entry is in one batch, in the mailbox or handled, once, ...
EachInOnePlace ==
  /\ \A c \in Chains : IsInjective(chains[c].batch)
  /\ \A c, d \in Chains : c # d => Range(chains[c].batch) \cap Range(chains[d].batch) = {}
  /\ \A i, j \in DOMAIN mailbox : mailbox[i].entry = mailbox[j].entry => i = j
  /\ \A i \in DOMAIN mailbox : mailbox[i].entry # current.entry
  /\ \A c \in Chains : /\ current.entry \notin Range(chains[c].batch)
                       /\ \A i \in DOMAIN mailbox : mailbox[i].entry \notin Range(chains[c].batch)

\* ... no projection has what is still to come, ...
NotProjectedEarly ==
  \A p \in Projections :
    /\ \A c \in Chains : Range(received[p]) \cap Range(chains[c].batch) = {}
    /\ \A i \in DOMAIN mailbox : mailbox[i].entry \notin Range(received[p])
    /\ p \in Range(current.todo) => current.entry \notin Range(received[p])

\* ... and the entry that is handled is with those who are through with it.
HandledInTurn ==
  /\ IsInjective(current.todo)
  /\ current # Idle =>
       \A p \in Range(ProjectionsFor(entries[current.entry])) :
         p \in Range(current.todo) \/ current.entry \in Range(received[p])

\* The two parts of NothingLostNorDoubled.
NothingLost == \A entry \in 1 .. position : UnderWay(entry) \/ Projected(entry)
NothingDoubled == \A p \in Projections : IsInjective(received[p])

Flow ==
  /\ NoErrorYet
  /\ EachInOnePlace
  /\ NotProjectedEarly
  /\ HandledInTurn
  /\ NothingLost
  /\ NothingDoubled

FlowInv == undisturbed => Flow

----------------------------------------------------------------------------
(* Sequences *)

LEMMA TailOf ==
  ASSUME NEW S, NEW s \in Seq(S), s # <<>>
  PROVE  /\ Head(s) \in S /\ Head(s) = s[1] /\ Tail(s) \in Seq(S)
         /\ Len(s) \in Nat \ {0} /\ DOMAIN s = 1 .. Len(s)
         /\ Len(Tail(s)) = Len(s) - 1 /\ DOMAIN Tail(s) = 1 .. Len(s) - 1
         /\ \A i \in 1 .. Len(s) - 1 : i + 1 \in DOMAIN s /\ Tail(s)[i] = s[i + 1]
<1>1. /\ Len(s) \in Nat \ {0} /\ DOMAIN s = 1 .. Len(s)
      /\ Head(s) \in S /\ Tail(s) \in Seq(S)
      /\ Len(Tail(s)) = Len(s) - 1
      /\ \A i \in 1 .. Len(Tail(s)) : Tail(s)[i] = s[i + 1]
  BY EmptySeq, LenProperties, HeadTailProperties
<1>2. Head(s) = s[1]
  OBVIOUS
<1>3. DOMAIN Tail(s) = 1 .. Len(Tail(s))
  BY <1>1, LenProperties
<1> QED
  BY <1>1, <1>2, <1>3

LEMMA AppendOf ==
  ASSUME NEW S, NEW s \in Seq(S), NEW x \in S
  PROVE  /\ Append(s, x) \in Seq(S)
         /\ Len(s) \in Nat /\ DOMAIN s = 1 .. Len(s)
         /\ DOMAIN Append(s, x) = 1 .. Len(s) + 1
         /\ \A i \in 1 .. Len(s) : Append(s, x)[i] = s[i]
         /\ Append(s, x)[Len(s) + 1] = x
<1>1. /\ Append(s, x) \in Seq(S) /\ Len(Append(s, x)) = Len(s) + 1
      /\ \A i \in 1 .. Len(s) : Append(s, x)[i] = s[i]
      /\ Append(s, x)[Len(s) + 1] = x
  BY AppendProperties
<1>2. /\ Len(s) \in Nat /\ DOMAIN s = 1 .. Len(s)
      /\ DOMAIN Append(s, x) = 1 .. Len(Append(s, x))
  BY <1>1, LenProperties
<1> QED
  BY <1>1, <1>2

\* What is taken from an injective sequence is not in its rest.
LEMMA RangeOfTail ==
  ASSUME NEW S, NEW s \in Seq(S), s # <<>>
  PROVE  /\ Range(s) = {Head(s)} \cup Range(Tail(s))
         /\ IsInjective(s) => IsInjective(Tail(s)) /\ Head(s) \notin Range(Tail(s))
<1>0. /\ Head(s) = s[1] /\ Len(s) \in Nat \ {0} /\ DOMAIN s = 1 .. Len(s)
      /\ DOMAIN Tail(s) = 1 .. Len(s) - 1
      /\ \A i \in 1 .. Len(s) - 1 : i + 1 \in DOMAIN s /\ Tail(s)[i] = s[i + 1]
  BY TailOf
<1>1. Range(s) \subseteq {Head(s)} \cup Range(Tail(s))
  <2> SUFFICES ASSUME NEW i \in DOMAIN s PROVE s[i] \in {Head(s)} \cup Range(Tail(s))
    BY DEF Range
  <2>1. CASE i = 1
    BY <1>0, <2>1
  <2>2. CASE i # 1
    <3>1. i - 1 \in 1 .. Len(s) - 1 /\ (i - 1) + 1 = i
      BY <1>0, <2>2
    <3>2. Tail(s)[i - 1] = s[i]
      BY <1>0, <3>1
    <3> QED
      BY <1>0, <3>1, <3>2 DEF Range
  <2> QED
    BY <2>1, <2>2
<1>2. {Head(s)} \cup Range(Tail(s)) \subseteq Range(s)
  BY <1>0 DEF Range
<1>3. ASSUME IsInjective(s) PROVE IsInjective(Tail(s)) /\ Head(s) \notin Range(Tail(s))
  <2>1. \A i \in 1 .. Len(s) - 1 : i + 1 # 1 /\ Tail(s)[i] # s[1]
    BY <1>0, <1>3 DEF IsInjective
  <2>2. \A i, j \in 1 .. Len(s) - 1 : Tail(s)[i] = Tail(s)[j] => i + 1 = j + 1
    BY <1>0, <1>3 DEF IsInjective
  <2> QED
    BY <1>0, <2>1, <2>2 DEF IsInjective, Range
<1> QED
  BY <1>1, <1>2, <1>3

LEMMA RangeOfAppend ==
  ASSUME NEW S, NEW s \in Seq(S), NEW x \in S
  PROVE  /\ Range(Append(s, x)) = Range(s) \cup {x}
         /\ IsInjective(s) /\ x \notin Range(s) => IsInjective(Append(s, x))
<1>0. /\ Len(s) \in Nat /\ DOMAIN s = 1 .. Len(s)
      /\ DOMAIN Append(s, x) = 1 .. Len(s) + 1
      /\ \A i \in 1 .. Len(s) : Append(s, x)[i] = s[i]
      /\ Append(s, x)[Len(s) + 1] = x
  BY AppendOf
<1>1. \A i \in 1 .. Len(s) + 1 : i \in 1 .. Len(s) \/ i = Len(s) + 1
  BY <1>0
<1>2. \A i \in 1 .. Len(s) : i \in 1 .. Len(s) + 1 /\ i # Len(s) + 1
  BY <1>0
<1> QED
  BY <1>0, <1>1, <1>2 DEF Range, IsInjective

LEMMA RangeOfEmpty == Range(<<>>) = {} /\ IsInjective(<<>>)
BY DEF Range, IsInjective

----------------------------------------------------------------------------
(* The projections that match, and batches *)

\* No projection is found twice, whatever descriptions are registered.
LEMMA ProjectionsFound ==
  ASSUME NEW type
  PROVE  /\ ProjectionsFor(type) \in Seq(Projections)
         /\ IsInjective(ProjectionsFor(type))
<1> DEFINE matches == FirstMatches(type)
           size == Cardinality(matches)
           IsNth(i, n) == i \in matches /\ Cardinality({j \in matches : j < i}) = n - 1
           Nth(n) == CHOOSE i \in matches : Cardinality({j \in matches : j < i}) = n - 1
           found == [n \in 1 .. size |-> Descriptions[Nth(n)].projection]
<1>1. matches \in SUBSET (1 .. Len(Descriptions)) /\ DOMAIN Descriptions = 1 .. Len(Descriptions)
  BY DescriptionsAssumption DEF FirstMatches
<1>2. matches \in SUBSET Int /\ IsFiniteSet(matches)
  <2> HIDE DEF matches
  <2>1. Len(Descriptions) \in Int /\ 1 \in Int
    BY DescriptionsAssumption
  <2>2. IsFiniteSet(1 .. Len(Descriptions))
    BY <2>1, FS_Interval
  <2>3. IsFiniteSet(matches)
    BY <1>1, <2>2, FS_Subset
  <2>4. matches \subseteq Int
    BY <1>1, <2>1
  <2> QED
    BY <2>3, <2>4
<1>3. size \in Nat
  BY <1>2, FS_CardinalityType
<1>4. ASSUME NEW n \in 1 .. size
      PROVE  Nth(n) \in matches /\ Cardinality({j \in matches : j < Nth(n)}) = n - 1
  <2> HIDE DEF matches
  <2>1. \E i \in matches : Cardinality({j \in matches : j < i}) = n - 1
    BY <1>2, <1>4, NthNumber
  <2> QED
    BY <2>1
<1>5. \A n, m \in 1 .. size : Nth(n) = Nth(m) => n = m
  <2> HIDE DEF Nth
  <2> SUFFICES ASSUME NEW n \in 1 .. size, NEW m \in 1 .. size, Nth(n) = Nth(m) PROVE n = m
    OBVIOUS
  <2>1. n - 1 = m - 1
    BY <1>4
  <2> QED
    BY <1>3, <2>1
<1>6. \A n, m \in 1 .. size : found[n] = found[m] => n = m
  <2> SUFFICES ASSUME NEW n \in 1 .. size, NEW m \in 1 .. size,
                      Descriptions[Nth(n)].projection = Descriptions[Nth(m)].projection
               PROVE  Nth(n) = Nth(m)
    BY <1>5
  <2> HIDE DEF Nth
  <2>1. Nth(n) \in matches /\ Nth(m) \in matches
    BY <1>4
  <2>2. \A i, j \in matches :
          i < j => Descriptions[i].projection # Descriptions[j].projection
    <3>1. \A i, j \in matches : i < j => i \in 1 .. j - 1
      BY <1>1, DescriptionsAssumption
    <3> QED
      BY <3>1 DEF FirstMatches
  <2> QED
    BY <1>1, <2>1, <2>2, DescriptionsAssumption
<1>7. \A n \in 1 .. size : found[n] \in Projections
  <2> HIDE DEF Nth
  <2> QED
    BY <1>1, <1>4 DEF Projections
<1>8. found \in Seq(Projections)
  <2> HIDE DEF Nth
  <2>1. found \in [1 .. size -> Projections]
    BY <1>7
  <2> HIDE DEF found, size
  <2> QED
    BY <1>3, <2>1
<1>9. IsInjective(found)
  BY <1>6 DEF IsInjective
<1>10. ProjectionsFor(type) = found
  BY DEF ProjectionsFor
<1> QED
  BY <1>8, <1>9, <1>10

LEMMA MinOfTwo ==
  ASSUME NEW a \in Int, NEW b \in Int
  PROVE  Min({a, b}) = IF a <= b THEN a ELSE b
<1>1. CASE a <= b
  <2>1. a \in {a, b} /\ \A y \in {a, b} : a <= y
    BY <1>1
  <2>2. \A x \in {a, b} : (\A y \in {a, b} : x <= y) => x = a
    BY <1>1
  <2> QED
    BY <1>1, <2>1, <2>2 DEF Min
<1>2. CASE ~(a <= b)
  <2>1. b \in {a, b} /\ \A y \in {a, b} : b <= y
    BY <1>2
  <2>2. \A x \in {a, b} : (\A y \in {a, b} : x <= y) => x = b
    BY <1>2
  <2> QED
    BY <1>2, <2>1, <2>2 DEF Min
<1> QED
  BY <1>1, <1>2

LEMMA MaxWithZero ==
  ASSUME NEW a \in Nat
  PROVE  Max({0, a}) = a
<1>1. a \in {0, a} /\ \A y \in {0, a} : a >= y
  OBVIOUS
<1>2. \A x \in {0, a} : (\A y \in {0, a} : x >= y) => x = a
  OBVIOUS
<1> QED
  BY <1>1, <1>2 DEF Max

\* A batch is what lies between the reader's old position and its new one.
LEMMA BatchOfReader ==
  ASSUME PipelineTypeOK
  PROVE  /\ EndOfBatch(BatchSize) \in position .. Len(entries)
         /\ Batch(BatchSize) \in Seq(Entry) /\ IsInjective(Batch(BatchSize))
         /\ Range(Batch(BatchSize)) = (position + 1) .. EndOfBatch(BatchSize)
<1> DEFINE end == EndOfBatch(BatchSize)
           size == end - position
<1>1. position \in Nat /\ Len(entries) \in Nat /\ position <= Len(entries)
      /\ BatchSize \in Nat \ {0}
  BY PipelineAssumption DEF PipelineTypeOK
<1>2. end = IF position + BatchSize <= Len(entries) THEN position + BatchSize ELSE Len(entries)
  BY <1>1, MinOfTwo DEF EndOfBatch
<1>3. end \in position .. Len(entries) /\ size \in Nat
  BY <1>1, <1>2
<1>4. Min({end, Len(entries)}) = end
  <2> HIDE DEF end
  <2> QED
    BY <1>1, <1>3, MinOfTwo
<1>5. Max({0, size}) = size
  <2> HIDE DEF size
  <2> QED
    BY <1>3, MaxWithZero
<1>6. Batch(BatchSize) = [i \in 1 .. size |-> position + i]
  BY <1>4, <1>5 DEF Batch
<1> HIDE DEF end, size
<1>7. \A i \in 1 .. size : position + i \in Entry
  BY <1>1, <1>3 DEF Entry
<1>8. Batch(BatchSize) \in Seq(Entry)
  BY <1>3, <1>6, <1>7
<1>9. IsInjective(Batch(BatchSize))
  BY <1>1, <1>3, <1>6 DEF IsInjective
<1>10. Range(Batch(BatchSize)) = (position + 1) .. end
  <2> USE DEF size
  <2>1. \A i \in 1 .. size : position + i \in (position + 1) .. end
    BY <1>1, <1>3
  <2>2. \A e \in (position + 1) .. end : e - position \in 1 .. size /\ e = position + (e - position)
    BY <1>1, <1>3
  <2> QED
    BY <1>6, <2>1, <2>2 DEF Range
<1> QED
  BY <1>3, <1>8, <1>9, <1>10 DEF end

----------------------------------------------------------------------------
(* Effects of the parts of steps *)

\* Who moves a chain moves no other.
LEMMA MoveEffect ==
  ASSUME chains \in [Chains -> ChainStates], NEW c \in Chains, NEW stage \in Stages,
         NEW batch \in Seq(Entry), Move(c, stage, batch)
  PROVE  /\ chains' \in [Chains -> ChainStates]
         /\ chains'[c].at = stage /\ chains'[c].batch = batch
         /\ \A d \in Chains \ {c} : chains'[d] = chains[d]
<1>1. [at |-> stage, batch |-> batch] \in ChainStates
  BY DEF ChainStates
<1> QED
  BY <1>1 DEF Move

\* What was handed out has its type for ever.
LEMMA HandedOutStays ==
  ASSUME PipelineTypeOK, UNCHANGED entries \/ \E type \in Types : AppendEntry(type)
  PROVE  \A entry \in 1 .. position : entries[entry] \in Types /\ entries'[entry] = entries[entry]
<1>1. Len(entries) \in Nat /\ position \in 0 .. Len(entries) /\ entries \in Seq(Types)
  BY DEF PipelineTypeOK
<1>2. \A entry \in 1 .. position : entry \in 1 .. Len(entries)
  BY <1>1
<1>3. \A entry \in 1 .. position : entries[entry] \in Types
  BY <1>1, <1>2
<1>4. ASSUME NEW type \in Types, AppendEntry(type), NEW entry \in 1 .. position
      PROVE  entries'[entry] = entries[entry]
  BY <1>1, <1>2, <1>4, AppendOf DEF AppendEntry
<1> QED
  BY <1>3, <1>4

\* The confirmer's books stay in order when only entries and deliveries are added.
LEMMA ConsistencyStays ==
  ASSUME PipelineTypeOK, NothingIsAhead, ConfirmerIsConsistent, UNCHANGED confirmerVars,
         \A entry \in 1 .. position : entries'[entry] = entries[entry],
         \A p \in Projections : Range(received[p]) \subseteq Range(received'[p])
  PROVE  ConfirmerIsConsistent'
<1>1. UNCHANGED <<pendingMap, confirmed>>
  BY DEF confirmerVars
<1>2. ASSUME NEW id \in Types, pendingMap[id] # None
      PROVE  entries'[pendingMap[id]] = entries[pendingMap[id]]
  <2>1. pendingMap[id] \in Nat \ {0} /\ pendingMap[id] <= position /\ position \in Nat
    BY <1>2 DEF PipelineTypeOK, NothingIsAhead, Entry, None
  <2> QED
    BY <2>1
<1>3. ASSUME NEW p \in Projections, NEW entry \in Range(received[p])
      PROVE  entries'[entry] = entries[entry]
  <2>1. entry \in Nat \ {0} /\ entry <= position /\ position \in Nat
    BY <1>3 DEF PipelineTypeOK, NothingIsAhead, Entry, Range
  <2> QED
    BY <2>1
<1> SUFFICES ASSUME NEW id \in Types
             PROVE  /\ pendingMap'[id] # None => id \notin confirmed' /\ entries'[pendingMap'[id]] = id
                    /\ id \in confirmed' =>
                         \E p \in Projections : \E entry \in Range(received'[p]) : entries'[entry] = id
  BY DEF ConfirmerIsConsistent, ProjectableId, ProjectableType
<1>4. pendingMap[id] # None => id \notin confirmed /\ entries[pendingMap[id]] = id
  BY DEF ConfirmerIsConsistent, ProjectableId, ProjectableType
<1>5. id \in confirmed => \E p \in Projections : \E entry \in Range(received[p]) : entries[entry] = id
  BY DEF ConfirmerIsConsistent, ProjectableId, ProjectableType
<1>6. ASSUME id \in confirmed
      PROVE  \E p \in Projections : \E entry \in Range(received'[p]) : entries'[entry] = id
  <2>1. PICK p \in Projections : \E entry \in Range(received[p]) : entries[entry] = id
    BY <1>5, <1>6
  <2>2. PICK entry \in Range(received[p]) : entries[entry] = id
    BY <2>1
  <2> QED
    BY <1>3, <2>2
<1> QED
  BY <1>1, <1>2, <1>4, <1>6

\* Who waits and for what changes only with calls and answers.
LEMMA CallsStay ==
  ASSUME OneCallEach, UNCHANGED mailbox, current'.client = current.client,
         \A c \in Chains : chains'[c].at = "waiting" <=> chains[c].at = "waiting"
  PROVE  OneCallEach'
<1>1. \A c \in Chains : DispatchesOf(c)' = DispatchesOf(c)
  BY DEF DispatchesOf
<1> QED
  BY <1>1 DEF OneCallEach

----------------------------------------------------------------------------
(* The base of the invariant: a chain moves *)

\* A chain that awaits no dispatch starts over or ends, and only when the consumer
\* is paused does it end.
LEMMA ChainStartsOver ==
  ASSUME BaseInv, NEW c \in Chains, NEW stage \in {"free", "timer", "reading"},
         chains[c].at # "waiting", Move(c, stage, <<>>),
         isRunning' \in BOOLEAN, isRunning' => stage # "free",
         UNCHANGED <<readerVars, dispatcherVars>>
  PROVE  BaseInv'
<1>1. UNCHANGED <<entries, position, mailbox, current, pendingMap, confirmed, received, undisturbed>>
  BY DEF readerVars, dispatcherVars, confirmerVars
<1>2. /\ chains' \in [Chains -> ChainStates]
      /\ chains'[c].at = stage /\ chains'[c].batch = <<>>
      /\ \A d \in Chains \ {c} : chains'[d] = chains[d]
  <2>1. stage \in Stages /\ <<>> \in Seq(Entry) /\ chains \in [Chains -> ChainStates]
    BY DEF Stages, BaseInv, PipelineTypeOK
  <2> QED
    BY <2>1, MoveEffect
<1>3. PipelineTypeOK'
  BY <1>1, <1>2 DEF BaseInv, PipelineTypeOK
<1>4. NothingIsAhead'
  BY <1>1, <1>2 DEF BaseInv, NothingIsAhead
<1>5. NothingIsLeftOver'
  BY <1>1, <1>2 DEF BaseInv, NothingIsLeftOver
<1>6. OneCallEach'
  <2>1. \A d \in Chains : chains'[d].at = "waiting" <=> chains[d].at = "waiting"
    BY <1>2
  <2> QED
    BY <1>1, <2>1, CallsStay DEF BaseInv
<1>7. RunningMeansPolling'
  BY <1>2 DEF RunningMeansPolling, Free
<1>8. ConfirmerIsConsistent'
  <2>1. UNCHANGED confirmerVars
    BY <1>1 DEF confirmerVars
  <2> QED
    BY <1>1, <2>1, ConsistencyStays DEF BaseInv
<1> QED
  BY <1>3, <1>4, <1>5, <1>6, <1>7, <1>8 DEF BaseInv

LEMMA BaseReadBatch ==
  ASSUME BaseInv, NEW c \in Chains, ReadBatch(c)
  PROVE  BaseInv'
<1>1. /\ UNCHANGED <<entries, isRunning, mailbox, current, pendingMap, confirmed, received, undisturbed>>
      /\ chains[c].at = "reading" /\ position' = EndOfBatch(BatchSize)
      /\ Move(c, "holding", Batch(BatchSize))
  BY DEF ReadBatch, ReadNext, dispatcherVars, confirmerVars
<1>2. /\ position \in Nat /\ position' \in position .. Len(entries) /\ Len(entries) \in Nat
      /\ Batch(BatchSize) \in Seq(Entry)
      /\ Range(Batch(BatchSize)) = (position + 1) .. position'
  BY <1>1, BatchOfReader DEF BaseInv, PipelineTypeOK
<1>3. /\ chains' \in [Chains -> ChainStates]
      /\ chains'[c].at = "holding" /\ chains'[c].batch = Batch(BatchSize)
      /\ \A d \in Chains \ {c} : chains'[d] = chains[d]
  <2>1. "holding" \in Stages /\ chains \in [Chains -> ChainStates]
    BY DEF Stages, BaseInv, PipelineTypeOK
  <2> QED
    BY <1>1, <1>2, <2>1, MoveEffect
<1>4. PipelineTypeOK'
  BY <1>1, <1>2, <1>3 DEF BaseInv, PipelineTypeOK
<1>5. NothingIsAhead'
  <2>1. \A d \in Chains : \A i \in DOMAIN chains'[d].batch : chains'[d].batch[i] <= position'
    <3> SUFFICES ASSUME NEW d \in Chains, NEW i \in DOMAIN chains'[d].batch
                 PROVE  chains'[d].batch[i] <= position'
      OBVIOUS
    <3>1. CASE d = c
      <4>1. chains'[d].batch[i] \in Range(Batch(BatchSize))
        BY <1>3, <3>1 DEF Range
      <4> QED
        BY <1>2, <4>1
    <3>2. CASE d # c
      <4>1. chains[d].batch \in Seq(Entry) /\ chains'[d] = chains[d]
        BY <1>3, <3>2 DEF BaseInv, PipelineTypeOK, ChainStates
      <4>2. chains[d].batch[i] \in Nat /\ chains[d].batch[i] <= position
        BY <4>1 DEF BaseInv, NothingIsAhead, Entry
      <4> QED
        BY <1>2, <4>1, <4>2
    <3> QED
      BY <3>1, <3>2
  <2>2. \A i \in DOMAIN mailbox : mailbox[i].entry \in Nat
    <3>1. mailbox \in Seq(Messages)
      BY DEF BaseInv, PipelineTypeOK
    <3>2. \A i \in DOMAIN mailbox : mailbox[i] \in Messages
      BY <3>1
    <3> QED
      BY <3>2 DEF Messages, Entry
  <2>3. current.entry \in Nat /\ \A id \in Types : pendingMap[id] \in Nat
    BY DEF BaseInv, PipelineTypeOK, Entry, None
  <2>4. \A p \in Projections : \A i \in DOMAIN received[p] : received[p][i] \in Nat
    BY DEF BaseInv, PipelineTypeOK, Entry
  <2>5. \A n \in Nat : n <= position => n <= position'
    BY <1>2
  <2> QED
    BY <1>1, <2>1, <2>2, <2>3, <2>4, <2>5 DEF BaseInv, NothingIsAhead
<1>6. NothingIsLeftOver'
  BY <1>1, <1>3 DEF BaseInv, NothingIsLeftOver
<1>7. OneCallEach'
  <2>1. \A d \in Chains : chains'[d].at = "waiting" <=> chains[d].at = "waiting"
    BY <1>1, <1>3
  <2> QED
    BY <1>1, <2>1, CallsStay DEF BaseInv
<1>8. RunningMeansPolling'
  BY <1>3 DEF RunningMeansPolling, Free
<1>9. ConfirmerIsConsistent'
  <2>1. UNCHANGED confirmerVars
    BY <1>1 DEF confirmerVars
  <2> QED
    BY <1>1, <2>1, ConsistencyStays DEF BaseInv
<1> QED
  BY <1>4, <1>5, <1>6, <1>7, <1>8, <1>9 DEF BaseInv

LEMMA BaseDispatchNext ==
  ASSUME BaseInv, NEW c \in Chains, DispatchNext(c)
  PROVE  BaseInv'
<1> DEFINE message == [client |-> c, entry |-> Head(chains[c].batch)]
<1>1. /\ UNCHANGED <<entries, position, isRunning, current, pendingMap, confirmed, received, undisturbed>>
      /\ chains[c].at = "holding" /\ chains[c].batch # <<>>
      /\ mailbox' = Append(mailbox, message)
      /\ Move(c, "waiting", Tail(chains[c].batch))
  BY DEF DispatchNext, readerVars, confirmerVars
<1>2. /\ Head(chains[c].batch) \in Entry /\ Tail(chains[c].batch) \in Seq(Entry)
      /\ Head(chains[c].batch) <= position
      /\ \A i \in DOMAIN Tail(chains[c].batch) : Tail(chains[c].batch)[i] <= position
  <2>1. chains[c].batch \in Seq(Entry)
    BY DEF BaseInv, PipelineTypeOK, ChainStates
  <2>2. \A i \in DOMAIN chains[c].batch : chains[c].batch[i] <= position
    BY DEF BaseInv, NothingIsAhead
  <2> QED
    BY <1>1, <2>1, <2>2, TailOf
<1>3. /\ chains' \in [Chains -> ChainStates]
      /\ chains'[c].at = "waiting" /\ chains'[c].batch = Tail(chains[c].batch)
      /\ \A d \in Chains \ {c} : chains'[d] = chains[d]
  <2>1. "waiting" \in Stages /\ chains \in [Chains -> ChainStates]
    BY DEF Stages, BaseInv, PipelineTypeOK
  <2> QED
    BY <1>1, <1>2, <2>1, MoveEffect
<1>4. /\ mailbox' \in Seq(Messages) /\ Len(mailbox) \in Nat /\ DOMAIN mailbox = 1 .. Len(mailbox)
      /\ DOMAIN mailbox' = 1 .. Len(mailbox) + 1
      /\ \A i \in 1 .. Len(mailbox) : mailbox'[i] = mailbox[i]
      /\ mailbox'[Len(mailbox) + 1] = message
  <2>1. message \in Messages /\ mailbox \in Seq(Messages)
    BY <1>2 DEF Messages, Clients, BaseInv, PipelineTypeOK
  <2> HIDE DEF message
  <2> QED
    BY <1>1, <2>1, AppendOf
<1>5. \A i \in DOMAIN mailbox' : i \in DOMAIN mailbox \/ i = Len(mailbox) + 1
  BY <1>4
<1>6. PipelineTypeOK'
  BY <1>1, <1>3, <1>4 DEF BaseInv, PipelineTypeOK
<1>7. NothingIsAhead'
  <2>1. \A d \in Chains : \A i \in DOMAIN chains'[d].batch : chains'[d].batch[i] <= position
    BY <1>2, <1>3 DEF BaseInv, NothingIsAhead
  <2>2. \A i \in DOMAIN mailbox' : mailbox'[i].entry <= position
    BY <1>2, <1>4, <1>5 DEF BaseInv, NothingIsAhead
  <2> QED
    BY <1>1, <2>1, <2>2 DEF BaseInv, NothingIsAhead
<1>8. NothingIsLeftOver'
  BY <1>1, <1>3 DEF BaseInv, NothingIsLeftOver
<1>9. OneCallEach'
  <2>1. ASSUME NEW d \in Chains, d # c
        PROVE  DispatchesOf(d)' = DispatchesOf(d) /\ chains'[d] = chains[d]
    BY <1>1, <1>3, <1>4, <1>5, <2>1 DEF DispatchesOf
  <2>2. DispatchesOf(c) = {}
    BY <1>1 DEF BaseInv, OneCallEach
  <2>3. DispatchesOf(c)' = {Len(mailbox) + 1}
    BY <1>1, <1>4, <1>5, <2>2 DEF DispatchesOf
  <2>4. Len(mailbox) + 1 \in Nat
    BY <1>4
  <2> SUFFICES ASSUME NEW d \in Chains
               PROVE  IF chains'[d].at = "waiting" THEN \E i \in Nat : DispatchesOf(d)' = {i}
                      ELSE DispatchesOf(d)' = {}
    BY DEF OneCallEach
  <2>5. CASE d = c
    BY <1>3, <2>3, <2>4, <2>5
  <2>6. CASE d # c
    BY <2>1, <2>6 DEF BaseInv, OneCallEach
  <2> QED
    BY <2>5, <2>6
<1>10. RunningMeansPolling'
  BY <1>3 DEF RunningMeansPolling, Free
<1>11. ConfirmerIsConsistent'
  <2>1. UNCHANGED confirmerVars
    BY <1>1 DEF confirmerVars
  <2> QED
    BY <1>1, <2>1, ConsistencyStays DEF BaseInv
<1> QED
  BY <1>6, <1>7, <1>8, <1>9, <1>10, <1>11 DEF BaseInv

LEMMA BaseRetry ==
  ASSUME BaseInv, Retry
  PROVE  BaseInv'
<1>1. PICK entry \in CheckUnconfirmed :
        /\ entry # current.entry
        /\ \A i \in DOMAIN mailbox : mailbox[i].entry # entry
        /\ mailbox' = Append(mailbox, [client |-> Nobody, entry |-> entry])
  BY DEF Retry
<1> DEFINE message == [client |-> Nobody, entry |-> entry]
<1>2. /\ UNCHANGED <<entries, position, isRunning, chains, current, pendingMap, confirmed, received>>
      /\ undisturbed' = FALSE
  BY DEF Retry, readerVars, confirmerVars
<1>3. entry \in Entry /\ entry <= position
  BY DEF CheckUnconfirmed, BaseInv, PipelineTypeOK, NothingIsAhead
<1>4. /\ mailbox' \in Seq(Messages) /\ Len(mailbox) \in Nat /\ DOMAIN mailbox = 1 .. Len(mailbox)
      /\ DOMAIN mailbox' = 1 .. Len(mailbox) + 1
      /\ \A i \in 1 .. Len(mailbox) : mailbox'[i] = mailbox[i]
      /\ mailbox'[Len(mailbox) + 1] = message
  <2>1. message \in Messages /\ mailbox \in Seq(Messages)
    BY <1>3 DEF Messages, Clients, BaseInv, PipelineTypeOK
  <2>2. mailbox' = Append(mailbox, message)
    BY <1>1
  <2> HIDE DEF message
  <2> QED
    BY <2>1, <2>2, AppendOf
<1>5. \A i \in DOMAIN mailbox' : i \in DOMAIN mailbox \/ i = Len(mailbox) + 1
  BY <1>4
<1>6. PipelineTypeOK'
  BY <1>2, <1>4 DEF BaseInv, PipelineTypeOK
<1>7. NothingIsAhead'
  <2>1. \A i \in DOMAIN mailbox' : mailbox'[i].entry <= position
    BY <1>3, <1>4, <1>5 DEF BaseInv, NothingIsAhead
  <2> QED
    BY <1>2, <2>1 DEF BaseInv, NothingIsAhead
<1>8. NothingIsLeftOver'
  BY <1>2 DEF BaseInv, NothingIsLeftOver
<1>9. OneCallEach'
  <2>1. \A d \in Chains : d # Nobody
    BY DEF Chains, Nobody
  <2>2. \A d \in Chains : DispatchesOf(d)' = DispatchesOf(d)
    BY <1>2, <1>4, <1>5, <2>1 DEF DispatchesOf
  <2> QED
    BY <1>2, <2>2 DEF BaseInv, OneCallEach
<1>10. RunningMeansPolling'
  BY <1>2 DEF BaseInv, RunningMeansPolling
<1>11. ConfirmerIsConsistent'
  <2>1. UNCHANGED confirmerVars
    BY <1>2 DEF confirmerVars
  <2> QED
    BY <1>2, <2>1, ConsistencyStays DEF BaseInv
<1> QED
  BY <1>6, <1>7, <1>8, <1>9, <1>10, <1>11 DEF BaseInv

LEMMA BaseJournalGrows ==
  ASSUME BaseInv, JournalGrows
  PROVE  BaseInv'
<1>1. /\ UNCHANGED <<position, isRunning, chains, mailbox, current, pendingMap, confirmed, received, undisturbed>>
      /\ \E type \in Types : AppendEntry(type)
  BY DEF JournalGrows, AppendEntry, dispatcherVars, confirmerVars
<1>2. PipelineTypeOK'
  <2>1. PICK type \in Types : AppendEntry(type)
    BY <1>1
  <2>2. Len(entries) \in Nat /\ entries' \in Seq(Types) /\ Len(entries') = Len(entries) + 1
    BY <2>1, AppendProperties, LenProperties DEF AppendEntry, BaseInv, PipelineTypeOK
  <2>3. position \in 0 .. Len(entries')
    BY <2>2 DEF BaseInv, PipelineTypeOK
  <2> QED
    BY <1>1, <2>2, <2>3 DEF BaseInv, PipelineTypeOK
<1>3. NothingIsAhead' /\ NothingIsLeftOver' /\ RunningMeansPolling'
  BY <1>1 DEF BaseInv, NothingIsAhead, NothingIsLeftOver, RunningMeansPolling
<1>4. OneCallEach'
  BY <1>1, CallsStay DEF BaseInv
<1>5. ConfirmerIsConsistent'
  <2>1. UNCHANGED confirmerVars
    BY <1>1 DEF confirmerVars
  <2> QED
    BY <1>1, <2>1, HandedOutStays, ConsistencyStays DEF BaseInv
<1> QED
  BY <1>2, <1>3, <1>4, <1>5 DEF BaseInv

LEMMA BasePause ==
  ASSUME BaseInv, Pause
  PROVE  BaseInv'
<1>1. /\ UNCHANGED <<entries, position, chains, mailbox, current, pendingMap, confirmed, received, undisturbed>>
      /\ isRunning' = FALSE
  BY DEF Pause, readerVars, dispatcherVars, confirmerVars
<1>2. OneCallEach'
  BY <1>1, CallsStay DEF BaseInv
<1>3. ConfirmerIsConsistent'
  <2>1. UNCHANGED confirmerVars
    BY <1>1 DEF confirmerVars
  <2> QED
    BY <1>1, <2>1, ConsistencyStays DEF BaseInv
<1> QED
  BY <1>1, <1>2, <1>3
  DEF BaseInv, PipelineTypeOK, NothingIsAhead, NothingIsLeftOver, RunningMeansPolling

----------------------------------------------------------------------------
(* The base of the invariant: the dispatcher *)

\* The first of the mailbox is taken out, the others move up.
LEMMA FirstOfMailbox ==
  ASSUME PipelineTypeOK, NothingIsAhead, mailbox # <<>>
  PROVE  /\ Head(mailbox) = mailbox[1] /\ Tail(mailbox) \in Seq(Messages)
         /\ Head(mailbox).client \in Clients /\ Head(mailbox).entry \in Entry
         /\ Head(mailbox).entry \in 1 .. position
         /\ entries[Head(mailbox).entry] \in Types
         /\ Len(mailbox) \in Nat \ {0} /\ DOMAIN mailbox = 1 .. Len(mailbox)
         /\ DOMAIN Tail(mailbox) = 1 .. Len(mailbox) - 1
         /\ \A i \in 1 .. Len(mailbox) - 1 :
              i + 1 \in DOMAIN mailbox /\ Tail(mailbox)[i] = mailbox[i + 1]
<1>1. mailbox \in Seq(Messages)
  BY DEF PipelineTypeOK
<1>2. /\ Head(mailbox) \in Messages /\ Head(mailbox) = mailbox[1]
      /\ Tail(mailbox) \in Seq(Messages)
      /\ Len(mailbox) \in Nat \ {0} /\ DOMAIN mailbox = 1 .. Len(mailbox)
      /\ DOMAIN Tail(mailbox) = 1 .. Len(mailbox) - 1
      /\ \A i \in 1 .. Len(mailbox) - 1 :
           i + 1 \in DOMAIN mailbox /\ Tail(mailbox)[i] = mailbox[i + 1]
  BY <1>1, TailOf
<1>3. Head(mailbox).entry \in Entry /\ Head(mailbox).client \in Clients
  BY <1>2 DEF Messages
<1>4. Head(mailbox).entry <= position
  BY <1>2 DEF NothingIsAhead
<1>5. Head(mailbox).entry \in 1 .. position
  BY <1>3, <1>4 DEF Entry, PipelineTypeOK
<1>6. entries[Head(mailbox).entry] \in Types
  <2>1. entries \in Seq(Types) /\ Len(entries) \in Nat /\ position \in 0 .. Len(entries)
    BY DEF PipelineTypeOK
  <2>2. Head(mailbox).entry \in 1 .. Len(entries)
    BY <1>5, <2>1
  <2> QED
    BY <2>1, <2>2
<1> QED
  BY <1>2, <1>3, <1>5, <1>6

LEMMA BaseDispatch ==
  ASSUME BaseInv, Dispatch
  PROVE  BaseInv'
<1> DEFINE message == Head(mailbox)
           type == entries[message.entry]
<1>1. /\ UNCHANGED <<entries, position, isRunning, chains, received, undisturbed, confirmed>>
      /\ mailbox # <<>> /\ current = Idle /\ mailbox' = Tail(mailbox)
      /\ pendingMap' = IF type \in confirmed THEN pendingMap
                       ELSE [pendingMap EXCEPT ![type] = message.entry]
      /\ current' = [client |-> message.client, entry |-> message.entry,
                     todo |-> ProjectionsFor(type)]
  BY DEF Dispatch, Pending, readerVars, ProjectableId, ProjectableType, BecauseOf
<1>2. /\ message = mailbox[1] /\ Tail(mailbox) \in Seq(Messages)
      /\ message.client \in Clients /\ message.entry \in Entry
      /\ message.entry \in 1 .. position /\ type \in Types
      /\ Len(mailbox) \in Nat \ {0} /\ DOMAIN mailbox = 1 .. Len(mailbox)
      /\ DOMAIN Tail(mailbox) = 1 .. Len(mailbox) - 1
      /\ \A i \in 1 .. Len(mailbox) - 1 :
           i + 1 \in DOMAIN mailbox /\ Tail(mailbox)[i] = mailbox[i + 1]
  BY <1>1, FirstOfMailbox DEF BaseInv
<1>3. ProjectionsFor(type) \in Seq(Projections)
  BY ProjectionsFound
<1> HIDE DEF message, type
<1>4. /\ current'.client = message.client /\ current'.entry = message.entry
      /\ current' \in [client : Clients, entry : Entry \cup {None}, todo : Seq(Projections)]
  BY <1>1, <1>2, <1>3
<1>5. /\ pendingMap' \in [Types -> Entry \cup {None}]
      /\ \A id \in Types : \/ pendingMap'[id] = pendingMap[id]
                           \/ id = type /\ id \notin confirmed /\ pendingMap'[id] = message.entry
  BY <1>1, <1>2 DEF BaseInv, PipelineTypeOK
<1>6. PipelineTypeOK'
  BY <1>1, <1>2, <1>4, <1>5 DEF BaseInv, PipelineTypeOK
<1>7. NothingIsAhead'
  <2>1. \A i \in DOMAIN mailbox' : mailbox'[i].entry <= position
    BY <1>1, <1>2 DEF BaseInv, NothingIsAhead
  <2>2. message.entry <= position
    BY <1>2
  <2> QED
    BY <1>1, <1>4, <1>5, <2>1, <2>2 DEF BaseInv, NothingIsAhead
<1>8. NothingIsLeftOver'
  BY <1>1, <1>2, <1>4 DEF BaseInv, NothingIsLeftOver, Entry, None
<1>9. OneCallEach'
  <2> SUFFICES ASSUME NEW c \in Chains
               PROVE  IF chains[c].at = "waiting" THEN \E i \in Nat : DispatchesOf(c)' = {i}
                      ELSE DispatchesOf(c)' = {}
    BY <1>1 DEF OneCallEach
  <2>1. DispatchesOf(c) = {i \in DOMAIN mailbox : mailbox[i].client = c}
    <3>1. current.client # c
      BY <1>1 DEF Idle, Nobody, Chains
    <3> QED
      BY <3>1 DEF DispatchesOf
  <2>2. DispatchesOf(c)' = {i \in 1 .. Len(mailbox) - 1 : mailbox[i + 1].client = c}
                             \cup (IF message.client = c THEN {0} ELSE {})
    BY <1>1, <1>2, <1>4 DEF DispatchesOf
  <2>3. \A i : i \in DispatchesOf(c)' => i + 1 \in DispatchesOf(c) /\ i \in Nat
    BY <1>2, <2>1, <2>2
  <2>4. \A i \in DispatchesOf(c) : i - 1 \in DispatchesOf(c)'
    <3> SUFFICES ASSUME NEW i \in DispatchesOf(c) PROVE i - 1 \in DispatchesOf(c)'
      OBVIOUS
    <3>1. i \in 1 .. Len(mailbox) /\ mailbox[i].client = c
      BY <1>2, <2>1
    <3>2. CASE i = 1
      BY <1>2, <2>2, <3>1, <3>2
    <3>3. CASE i # 1
      <4>1. i - 1 \in 1 .. Len(mailbox) - 1 /\ (i - 1) + 1 = i
        BY <1>2, <3>1, <3>3
      <4> QED
        BY <2>2, <3>1, <4>1
    <3> QED
      BY <3>2, <3>3
  <2>5. CASE chains[c].at = "waiting"
    <3>1. PICK i \in Nat : DispatchesOf(c) = {i}
      BY <2>5 DEF BaseInv, OneCallEach
    <3>2. i - 1 \in DispatchesOf(c)'
      BY <2>4, <3>1
    <3>3. \A j \in DispatchesOf(c)' : j = i - 1
      BY <2>3, <3>1
    <3>4. DispatchesOf(c)' = {i - 1} /\ i - 1 \in Nat
      BY <2>3, <3>2, <3>3
    <3> QED
      BY <2>5, <3>4
  <2>6. CASE chains[c].at # "waiting"
    <3>1. DispatchesOf(c) = {}
      BY <2>6 DEF BaseInv, OneCallEach
    <3> QED
      BY <2>3, <2>6, <3>1
  <2> QED
    BY <2>5, <2>6
<1>10. RunningMeansPolling'
  BY <1>1 DEF BaseInv, RunningMeansPolling
<1>11. ConfirmerIsConsistent'
  <2>1. ASSUME NEW id \in Types
        PROVE  pendingMap'[id] # None => id \notin confirmed /\ entries[pendingMap'[id]] = id
    <3>1. pendingMap[id] # None => id \notin confirmed /\ entries[pendingMap[id]] = id
      BY DEF BaseInv, ConfirmerIsConsistent, ProjectableId, ProjectableType
    <3> QED
      BY <1>5, <3>1 DEF type
  <2> QED
    BY <1>1, <2>1 DEF BaseInv, ConfirmerIsConsistent, ProjectableId, ProjectableType
<1> QED
  BY <1>6, <1>7, <1>8, <1>9, <1>10, <1>11 DEF BaseInv

\* What a projection is given is handed out and still to be given to others.
LEMMA OneIsTaken ==
  ASSUME PipelineTypeOK, NothingIsAhead, NothingIsLeftOver, ProjectWith
  PROVE  /\ UNCHANGED <<entries, position, isRunning, chains, mailbox, undisturbed>>
         /\ current # Idle /\ current.todo # <<>> /\ current.todo \in Seq(Projections)
         /\ Head(current.todo) \in Projections /\ current.entry \in Entry
         /\ current.entry \in 1 .. position /\ entries[current.entry] \in Types
         /\ received' = [received EXCEPT ![Head(current.todo)] = Append(@, current.entry)]
         /\ ConfirmProjected(Head(current.todo), current.entry)
         /\ current'.client = current.client /\ current'.entry = current.entry
         /\ current'.todo = Tail(current.todo) /\ Tail(current.todo) \in Seq(Projections)
         /\ current' \in [client : Clients, entry : Entry \cup {None}, todo : Seq(Projections)]
<1>1. /\ UNCHANGED <<entries, position, isRunning, chains, mailbox, undisturbed>>
      /\ current # Idle /\ current.todo # <<>>
      /\ received' = [received EXCEPT ![Head(current.todo)] = Append(@, current.entry)]
      /\ ConfirmProjected(Head(current.todo), current.entry)
      /\ current' = [current EXCEPT !.todo = Tail(@)]
  BY DEF ProjectWith, readerVars
<1>2. current \in [client : Clients, entry : Entry \cup {None}, todo : Seq(Projections)]
  BY DEF PipelineTypeOK
<1>3. Head(current.todo) \in Projections /\ Tail(current.todo) \in Seq(Projections)
  <2>1. current.todo \in Seq(Projections)
    BY <1>2
  <2> QED
    BY <1>1, <2>1, TailOf
<1>4. current.entry \in Entry /\ current.entry <= position
  BY <1>1, <1>2 DEF NothingIsLeftOver, NothingIsAhead
<1>5. current.entry \in 1 .. position
  BY <1>4 DEF Entry, PipelineTypeOK
<1>6. entries[current.entry] \in Types
  BY <1>1, <1>5, HandedOutStays
<1> QED
  BY <1>1, <1>2, <1>3, <1>4, <1>5, <1>6

LEMMA BaseProjectWith ==
  ASSUME BaseInv, ProjectWith
  PROVE  BaseInv'
<1> DEFINE projection == Head(current.todo)
           entry == current.entry
           id == entries[entry]
<1>1. /\ UNCHANGED <<entries, position, isRunning, chains, mailbox, undisturbed>>
      /\ projection \in Projections /\ entry \in Entry /\ entry \in 1 .. position /\ id \in Types
      /\ received' = [received EXCEPT ![projection] = Append(@, entry)]
      /\ ConfirmProjected(projection, entry)
      /\ current'.client = current.client /\ current'.entry = entry
      /\ current' \in [client : Clients, entry : Entry \cup {None}, todo : Seq(Projections)]
      /\ current # Idle
  BY OneIsTaken DEF BaseInv
<1>2. /\ confirmed' \subseteq Types /\ pendingMap' \in [Types -> Entry \cup {None}]
      /\ \/ UNCHANGED <<pendingMap, confirmed>>
         \/ /\ confirmed' = confirmed \cup {id}
            /\ pendingMap'[id] = None
            /\ \A other \in Types \ {id} : pendingMap'[other] = pendingMap[other]
  <2>1. pendingMap \in [Types -> Entry \cup {None}] /\ confirmed \subseteq Types
    BY DEF BaseInv, PipelineTypeOK
  <2> QED
    BY <1>1, <2>1 DEF ConfirmProjected, Confirm, confirmerVars, ProjectableId, ProjectableType
<1> HIDE DEF projection, entry, id
<1>3. /\ received' \in [Projections -> Seq(Entry)]
      /\ \A p \in Projections \ {projection} : received'[p] = received[p]
      /\ received'[projection] = Append(received[projection], entry)
  <2>1. received \in [Projections -> Seq(Entry)]
    BY DEF BaseInv, PipelineTypeOK
  <2>2. Append(received[projection], entry) \in Seq(Entry)
    BY <1>1, <2>1, AppendProperties
  <2> QED
    BY <1>1, <2>1, <2>2
<1>4. Range(received'[projection]) = Range(received[projection]) \cup {entry}
  BY <1>1, <1>3, RangeOfAppend DEF BaseInv, PipelineTypeOK
<1>5. PipelineTypeOK'
  BY <1>1, <1>2, <1>3 DEF BaseInv, PipelineTypeOK
<1>6. NothingIsAhead'
  <2>1. \A p \in Projections : \A i \in DOMAIN received'[p] : received'[p][i] <= position
    <3> SUFFICES ASSUME NEW p \in Projections, NEW i \in DOMAIN received'[p]
                 PROVE  received'[p][i] <= position
      OBVIOUS
    <3>1. CASE p # projection
      BY <1>3, <3>1 DEF BaseInv, NothingIsAhead
    <3>2. CASE p = projection
      <4>1. received'[p][i] \in Range(received[p]) \cup {entry}
        BY <1>4, <3>2 DEF Range
      <4>2. \A e \in Range(received[p]) : e <= position
        BY DEF BaseInv, NothingIsAhead, Range
      <4> QED
        BY <1>1, <4>1, <4>2
    <3> QED
      BY <3>1, <3>2
  <2>2. \A other \in Types : pendingMap'[other] <= position
    <3>1. None <= position
      BY DEF None, BaseInv, PipelineTypeOK
    <3> QED
      BY <1>2, <3>1 DEF BaseInv, NothingIsAhead
  <2>3. entry <= position
    BY <1>1
  <2> QED
    BY <1>1, <2>1, <2>2, <2>3 DEF BaseInv, NothingIsAhead
<1>7. NothingIsLeftOver'
  BY <1>1 DEF BaseInv, NothingIsLeftOver, Entry, None
<1>8. OneCallEach'
  BY <1>1, CallsStay DEF BaseInv
<1>9. RunningMeansPolling'
  BY <1>1 DEF BaseInv, RunningMeansPolling
<1>10. ConfirmerIsConsistent'
  <2> SUFFICES ASSUME NEW other \in Types
               PROVE  /\ pendingMap'[other] # None =>
                           other \notin confirmed' /\ entries[pendingMap'[other]] = other
                      /\ other \in confirmed' =>
                           \E p \in Projections : \E e \in Range(received'[p]) : entries[e] = other
    BY <1>1 DEF ConfirmerIsConsistent, ProjectableId, ProjectableType
  <2>1. /\ pendingMap[other] # None => other \notin confirmed /\ entries[pendingMap[other]] = other
        /\ other \in confirmed =>
             \E p \in Projections : \E e \in Range(received[p]) : entries[e] = other
    BY DEF BaseInv, ConfirmerIsConsistent, ProjectableId, ProjectableType
  <2>2. pendingMap'[other] # None => other \notin confirmed' /\ entries[pendingMap'[other]] = other
    BY <1>2, <2>1
  <2>3. \A p \in Projections : Range(received[p]) \subseteq Range(received'[p])
    BY <1>3, <1>4
  <2>4. ASSUME other \in confirmed'
        PROVE  \E p \in Projections : \E e \in Range(received'[p]) : entries[e] = other
    <3>1. CASE other \in confirmed
      BY <2>1, <2>3, <3>1
    <3>2. CASE other \notin confirmed
      <4>1. other = id
        BY <1>2, <2>4, <3>2
      <4> QED
        BY <1>1, <1>4, <4>1 DEF id
    <3> QED
      BY <3>1, <3>2
  <2> QED
    BY <2>2, <2>4
<1> QED
  BY <1>5, <1>6, <1>7, <1>8, <1>9, <1>10 DEF BaseInv

\* An answer reaches the chain that waits for it and nobody else.
LEMMA AnswerEffect ==
  ASSUME PipelineTypeOK, NEW stage \in {"caught", "holding"}, Answer(stage)
  PROVE  /\ chains' \in [Chains -> ChainStates]
         /\ \A c \in Chains : chains'[c].batch = chains[c].batch
         /\ \A c \in Chains :
              chains'[c].at = IF c = current.client THEN stage ELSE chains[c].at
<1>1. chains \in [Chains -> ChainStates] /\ current.client \in Clients /\ stage \in Stages
  BY DEF PipelineTypeOK, Stages
<1>2. CASE current.client = Nobody
  <2>1. UNCHANGED chains
    BY <1>2 DEF Answer
  <2>2. \A c \in Chains : c # current.client
    BY <1>2 DEF Chains, Nobody
  <2> QED
    BY <1>1, <2>1, <2>2
<1>3. CASE current.client # Nobody
  <2>1. PICK b \in Chains : b = current.client
    BY <1>1, <1>3 DEF Clients
  <2>2. Move(b, stage, chains[b].batch)
    BY <1>3, <2>1 DEF Answer
  <2>3. chains[b].batch \in Seq(Entry)
    BY <1>1 DEF ChainStates
  <2>4. /\ chains' \in [Chains -> ChainStates]
        /\ chains'[b].at = stage /\ chains'[b].batch = chains[b].batch
        /\ \A d \in Chains \ {b} : chains'[d] = chains[d]
    BY <1>1, <2>2, <2>3, MoveEffect
  <2> QED
    BY <2>1, <2>4
<1> QED
  BY <1>2, <1>3

\* A dispatch ends, with an error or without.
LEMMA BaseAnswer ==
  ASSUME BaseInv, NEW stage \in {"caught", "holding"}, Answer(stage), current' = Idle,
         UNCHANGED <<readerVars, isRunning, mailbox, confirmerVars, received>>,
         undisturbed' \in BOOLEAN
  PROVE  BaseInv'
<1>1. UNCHANGED <<entries, position, isRunning, mailbox, pendingMap, confirmed, received>>
  BY DEF readerVars, confirmerVars
<1>2. /\ chains' \in [Chains -> ChainStates]
      /\ \A c \in Chains : chains'[c].batch = chains[c].batch
      /\ \A c \in Chains :
           chains'[c].at = IF c = current.client THEN stage ELSE chains[c].at
  BY AnswerEffect DEF BaseInv
<1>3. /\ current'.client = Nobody /\ current'.entry = None
      /\ current' \in [client : Clients, entry : Entry \cup {None}, todo : Seq(Projections)]
  <2>1. <<>> \in Seq(Projections)
    OBVIOUS
  <2> QED
    BY <2>1 DEF Idle, Clients
<1>4. PipelineTypeOK'
  BY <1>1, <1>2, <1>3 DEF BaseInv, PipelineTypeOK
<1>5. NothingIsAhead'
  <2>1. None <= position
    BY DEF None, BaseInv, PipelineTypeOK
  <2> QED
    BY <1>1, <1>2, <1>3, <2>1 DEF BaseInv, NothingIsAhead
<1>6. NothingIsLeftOver'
  BY <1>2 DEF BaseInv, NothingIsLeftOver
<1>7. OneCallEach'
  <2> SUFFICES ASSUME NEW c \in Chains
               PROVE  IF chains'[c].at = "waiting" THEN \E i \in Nat : DispatchesOf(c)' = {i}
                      ELSE DispatchesOf(c)' = {}
    BY DEF OneCallEach
  <2>1. DispatchesOf(c)' = {i \in DOMAIN mailbox : mailbox[i].client = c}
    <3>1. current'.client # c
      BY <1>3 DEF Nobody, Chains
    <3> QED
      BY <1>1, <3>1 DEF DispatchesOf
  <2>2. CASE c = current.client
    <3>1. 0 \in DispatchesOf(c)
      BY <2>2 DEF DispatchesOf
    <3>2. PICK i \in Nat : DispatchesOf(c) = {i}
      BY <3>1 DEF BaseInv, OneCallEach
    <3>3. 0 \notin DOMAIN mailbox
      BY DEF BaseInv, PipelineTypeOK
    <3>4. DispatchesOf(c)' = {}
      BY <2>1, <3>1, <3>2, <3>3 DEF DispatchesOf
    <3> QED
      BY <1>2, <2>2, <3>4
  <2>3. CASE c # current.client
    <3>1. DispatchesOf(c)' = DispatchesOf(c)
      BY <2>1, <2>3 DEF DispatchesOf
    <3> QED
      BY <1>2, <2>3, <3>1 DEF BaseInv, OneCallEach
  <2> QED
    BY <2>2, <2>3
<1>8. RunningMeansPolling'
  <2>1. \A c \in Chains : chains[c] # Free => chains'[c] # Free
    <3> SUFFICES ASSUME NEW c \in Chains, chains[c] # Free PROVE chains'[c] # Free
      OBVIOUS
    <3>1. CASE c = current.client
      BY <1>2, <3>1 DEF Free
    <3>2. CASE c # current.client
      BY <1>2, <3>2 DEF Free, ChainStates, BaseInv, PipelineTypeOK
    <3> QED
      BY <3>1, <3>2
  <2> QED
    BY <1>1, <2>1 DEF BaseInv, RunningMeansPolling
<1>9. ConfirmerIsConsistent'
  BY <1>1, ConsistencyStays DEF BaseInv
<1> QED
  BY <1>4, <1>5, <1>6, <1>7, <1>8, <1>9 DEF BaseInv

----------------------------------------------------------------------------
(* The base of the invariant is kept *)

LEMMA BaseAtFirst == PipelineInit => BaseInv
<1> SUFFICES ASSUME PipelineInit PROVE BaseInv
  OBVIOUS
<1>1. /\ entries = <<>> /\ position = 0 /\ isRunning = TRUE /\ mailbox = <<>> /\ current = Idle
      /\ pendingMap = [id \in Types |-> None] /\ confirmed = {} /\ undisturbed = TRUE
      /\ received = [p \in Projections |-> <<>>]
  BY DEF PipelineInit, ReaderInit
<1>2. /\ 1 \in Chains /\ chains[1].at = "timer"
      /\ \A c \in Chains : /\ chains[c].batch = <<>> /\ chains[c] \in ChainStates
                           /\ chains[c].at \in {"free", "timer"}
      /\ chains \in [Chains -> ChainStates]
  <2>1. 1 \in Chains
    BY PipelineAssumption DEF Chains
  <2>2. /\ Free \in ChainStates /\ [Free EXCEPT !.at = "timer"] \in ChainStates
        /\ Free.batch = <<>> /\ [Free EXCEPT !.at = "timer"].batch = <<>>
        /\ Free.at = "free" /\ [Free EXCEPT !.at = "timer"].at = "timer"
    <3>1. <<>> \in Seq(Entry)
      OBVIOUS
    <3>2. [Free EXCEPT !.at = "timer"] = [at |-> "timer", batch |-> <<>>]
      BY DEF Free
    <3> QED
      BY <3>1, <3>2 DEF Free, ChainStates, Stages
  <2>3. chains = [c \in Chains |-> IF c = 1 THEN [Free EXCEPT !.at = "timer"] ELSE Free]
    BY DEF PipelineInit
  <2> QED
    BY <2>1, <2>2, <2>3
<1>3. PipelineTypeOK
  <2>1. Idle \in [client : Clients, entry : Entry \cup {None}, todo : Seq(Projections)]
    BY DEF Idle, Clients
  <2> QED
    BY <1>1, <1>2, <2>1 DEF PipelineTypeOK, None
<1>4. NothingIsAhead /\ NothingIsLeftOver
  BY <1>1, <1>2 DEF NothingIsAhead, NothingIsLeftOver, Idle, None
<1>5. OneCallEach
  <2>1. \A c \in Chains : DispatchesOf(c) = {}
    BY <1>1 DEF DispatchesOf, Idle, Nobody, Chains
  <2> QED
    BY <1>2, <2>1 DEF OneCallEach
<1>6. RunningMeansPolling
  BY <1>2 DEF RunningMeansPolling, Free
<1>7. ConfirmerIsConsistent
  BY <1>1 DEF ConfirmerIsConsistent
<1> QED
  BY <1>3, <1>4, <1>5, <1>6, <1>7 DEF BaseInv

LEMMA BaseIsKept == BaseInv /\ [PipelineNext]_pipelineVars => BaseInv'
<1> SUFFICES ASSUME BaseInv, [PipelineNext]_pipelineVars PROVE BaseInv'
  OBVIOUS
<1>1. ASSUME NEW c \in Chains, ChainStep(c) PROVE BaseInv'
  <2>1. CASE TimerFires(c)
    <3>1. /\ chains[c].at = "timer" /\ UNCHANGED <<readerVars, isRunning, dispatcherVars>>
          /\ Move(c, IF isRunning THEN "reading" ELSE "free", <<>>)
      BY <2>1 DEF TimerFires
    <3>2. isRunning' \in BOOLEAN
      BY <3>1 DEF BaseInv, PipelineTypeOK
    <3> QED
      BY <3>1, <3>2, ChainStartsOver
  <2>2. CASE ReadBatch(c)
    BY <2>2, BaseReadBatch
  <2>3. CASE DispatchNext(c)
    BY <2>3, BaseDispatchNext
  <2>4. CASE EndOfCycle(c) \/ CatchError(c)
    <3>1. /\ chains[c].at \in {"holding", "caught"}
          /\ UNCHANGED <<readerVars, isRunning, dispatcherVars>>
          /\ Move(c, IF isRunning THEN "timer" ELSE "free", <<>>)
      BY <2>4 DEF EndOfCycle, CatchError, ScheduleNext
    <3>2. isRunning' \in BOOLEAN
      BY <3>1 DEF BaseInv, PipelineTypeOK
    <3> QED
      BY <3>1, <3>2, ChainStartsOver
  <2> QED
    BY <1>1, <2>1, <2>2, <2>3, <2>4 DEF ChainStep
<1>2. ASSUME DispatcherStep PROVE BaseInv'
  <2>1. CASE ProjectionFails
    <3>1. undisturbed' \in BOOLEAN
      BY <2>1 DEF ProjectionFails
    <3> QED
      BY <2>1, <3>1, BaseAnswer DEF ProjectionFails
  <2>2. CASE EndOfDispatch
    <3>1. undisturbed' \in BOOLEAN
      BY <2>2 DEF EndOfDispatch, BaseInv, PipelineTypeOK
    <3> QED
      BY <2>2, <3>1, BaseAnswer DEF EndOfDispatch
  <2> QED
    BY <1>2, <2>1, <2>2, BaseDispatch, BaseProjectWith DEF DispatcherStep
<1>3. CASE Resume
  <2>1. PICK c \in Chains : chains[c] = Free /\ Move(c, "timer", <<>>)
    BY <1>3 DEF Resume
  <2>2. chains[c].at # "waiting"
    BY <2>1 DEF Free
  <2>3. isRunning' = TRUE /\ UNCHANGED <<readerVars, dispatcherVars>>
    BY <1>3 DEF Resume
  <2> QED
    BY <2>1, <2>2, <2>3, ChainStartsOver
<1>4. CASE UNCHANGED pipelineVars
  <2>1. UNCHANGED <<entries, position, isRunning, chains, mailbox, current, pendingMap,
                    confirmed, received, undisturbed>>
    BY <1>4 DEF pipelineVars, readerVars
  <2>2. OneCallEach'
    BY <2>1, CallsStay DEF BaseInv
  <2>3. ConfirmerIsConsistent'
    BY <2>1, ConsistencyStays DEF BaseInv, confirmerVars
  <2> QED
    BY <2>1, <2>2, <2>3
    DEF BaseInv, PipelineTypeOK, NothingIsAhead, NothingIsLeftOver, RunningMeansPolling
<1> QED
  BY <1>1, <1>2, <1>3, <1>4, BasePause, BaseRetry, BaseJournalGrows DEF PipelineNext

\* Who has one dispatch has one, and who has none none.
LEMMA CallsAreCounted == BaseInv => AnswersMatchCalls
<1> SUFFICES ASSUME BaseInv, NEW c \in Chains
             PROVE  Cardinality(DispatchesOf(c)) = (IF chains[c].at = "waiting" THEN 1 ELSE 0)
  BY DEF AnswersMatchCalls
<1>1. CASE chains[c].at = "waiting"
  <2>1. PICK i \in Nat : DispatchesOf(c) = {i}
    BY <1>1 DEF BaseInv, OneCallEach
  <2> QED
    BY <1>1, <2>1, FS_Singleton
<1>2. CASE chains[c].at # "waiting"
  <2>1. DispatchesOf(c) = {}
    BY <1>2 DEF BaseInv, OneCallEach
  <2> QED
    BY <1>2, <2>1, FS_EmptySet
<1> QED
  BY <1>1, <1>2

\* Whatever is paused, resumed, thrown or dispatched again, everything keeps its
\* type, nothing is ahead of the reader, and the parts of the consumer, of the
\* dispatcher and of the confirmer fit each other.
THEOREM PipelineInvariant == PipelineSpec => []BaseInv
BY BaseAtFirst, BaseIsKept, PTL DEF PipelineSpec

\* No sequence of pause, resume, errors and empty reads leaves the consumer
\* running without a timer, a read or a dispatch that will call it back.
THEOREM ConsumerKeepsPolling == PipelineSpec => []RunningMeansPolling
<1>1. BaseInv => RunningMeansPolling
  BY DEF BaseInv
<1> QED
  BY <1>1, PipelineInvariant, PTL

\* Every polling chain waits for exactly one dispatch and gets the answer to it,
\* however many chains pause and resume have set going.
THEOREM AnswersAreOnesOwn == PipelineSpec => []AnswersMatchCalls
BY CallsAreCounted, PipelineInvariant, PTL

\* The confirmer never holds an id as pending and as confirmed, and confirms
\* only what some projection has projected.
THEOREM ConfirmerKeepsItsBooks == PipelineSpec => []ConfirmerIsConsistent
<1>1. BaseInv => ConfirmerIsConsistent
  BY DEF BaseInv
<1> QED
  BY <1>1, PipelineInvariant, PTL

----------------------------------------------------------------------------
(* While nothing is disturbed *)

LEMMA WhereEntriesAre ==
  ASSUME BaseInv
  PROVE  /\ position \in Nat
         /\ \A c \in Chains : chains[c].batch \in Seq(Entry) /\ Range(chains[c].batch) \subseteq 1 .. position
         /\ \A i \in DOMAIN mailbox : mailbox[i].entry \in 1 .. position
         /\ \A p \in Projections : received[p] \in Seq(Entry) /\ Range(received[p]) \subseteq 1 .. position
         /\ current.entry \in 0 .. position
         /\ current # Idle => current.entry \in 1 .. position
<1>1. position \in Nat
  BY DEF BaseInv, PipelineTypeOK
<1>2. \A s \in Seq(Entry) : (\A i \in DOMAIN s : s[i] <= position) => Range(s) \subseteq 1 .. position
  <2>1. \A s \in Seq(Entry) : \A i \in DOMAIN s : s[i] \in Nat \ {0}
    BY DEF Entry
  <2> QED
    BY <1>1, <2>1 DEF Range
<1>3. \A c \in Chains : chains[c].batch \in Seq(Entry) /\ Range(chains[c].batch) \subseteq 1 .. position
  <2>1. \A c \in Chains : chains[c].batch \in Seq(Entry)
    BY DEF BaseInv, PipelineTypeOK, ChainStates
  <2> QED
    BY <1>2, <2>1 DEF BaseInv, NothingIsAhead
<1>4. \A i \in DOMAIN mailbox : mailbox[i].entry \in 1 .. position
  <2>1. mailbox \in Seq(Messages)
    BY DEF BaseInv, PipelineTypeOK
  <2>2. \A i \in DOMAIN mailbox : mailbox[i] \in Messages
    BY <2>1
  <2>3. \A i \in DOMAIN mailbox : mailbox[i].entry \in Nat \ {0} /\ mailbox[i].entry <= position
    BY <2>2 DEF Messages, Entry, BaseInv, NothingIsAhead
  <2> QED
    BY <1>1, <2>3
<1>5. \A p \in Projections : received[p] \in Seq(Entry) /\ Range(received[p]) \subseteq 1 .. position
  BY <1>2 DEF BaseInv, PipelineTypeOK, NothingIsAhead
<1>6. current.entry \in Nat /\ current.entry <= position /\ (current # Idle => current.entry # 0)
  BY DEF BaseInv, PipelineTypeOK, NothingIsAhead, NothingIsLeftOver, Entry, None
<1>7. current.entry \in 0 .. position /\ (current # Idle => current.entry \in 1 .. position)
  BY <1>1, <1>6
<1> QED
  BY <1>1, <1>3, <1>4, <1>5, <1>7

\* Steps that move no entry.
LEMMA FlowStays ==
  ASSUME BaseInv, Flow, UNCHANGED <<position, mailbox, current, received>>,
         \A c \in Chains : chains'[c].batch = chains[c].batch /\ chains'[c].at # "caught",
         \A entry \in 1 .. position : entries'[entry] = entries[entry]
  PROVE  Flow'
<1>1. NoErrorYet' /\ EachInOnePlace' /\ NotProjectedEarly' /\ NothingDoubled'
  BY DEF Flow, NoErrorYet, EachInOnePlace, NotProjectedEarly, NothingDoubled
<1>2. HandledInTurn'
  <2>1. current # Idle => entries'[current.entry] = entries[current.entry]
    BY WhereEntriesAre
  <2>2. \A entry : entries'[entry] = entries[entry]
          => ProjectionsFor(entries'[entry]) = ProjectionsFor(entries[entry])
    OBVIOUS
  <2> QED
    BY <2>1, <2>2 DEF Flow, HandledInTurn
<1>3. NothingLost'
  <2> SUFFICES ASSUME NEW entry \in 1 .. position
               PROVE  UnderWay(entry)' \/ Projected(entry)'
    BY DEF NothingLost
  <2>1. entries'[entry] = entries[entry]
    OBVIOUS
  <2>2. UnderWay(entry) => UnderWay(entry)'
    BY DEF UnderWay
  <2>3. ProjectionsFor(entries'[entry]) = ProjectionsFor(entries[entry])
    BY <2>1
  <2>4. Projected(entry) => Projected(entry)'
    BY <2>3 DEF Projected
  <2> QED
    BY <2>2, <2>4 DEF Flow, NothingLost
<1> QED
  BY <1>1, <1>2, <1>3 DEF Flow

LEMMA FlowReadBatch ==
  ASSUME BaseInv, Flow, NEW c \in Chains, ReadBatch(c)
  PROVE  Flow'
<1> DEFINE batch == Batch(BatchSize)
<1>1. /\ UNCHANGED <<entries, mailbox, current, received>>
      /\ chains[c].at = "reading" /\ position' = EndOfBatch(BatchSize)
      /\ Move(c, "holding", batch)
  BY DEF ReadBatch, ReadNext, dispatcherVars
<1>2. /\ position' \in position .. Len(entries) /\ Len(entries) \in Nat
      /\ batch \in Seq(Entry) /\ IsInjective(batch)
      /\ Range(batch) = (position + 1) .. position'
  BY <1>1, BatchOfReader DEF BaseInv, PipelineTypeOK
<1> HIDE DEF batch
<1>3. /\ chains'[c].at = "holding" /\ chains'[c].batch = batch
      /\ \A d \in Chains \ {c} : chains'[d] = chains[d]
  <2>1. "holding" \in Stages /\ chains \in [Chains -> ChainStates]
    BY DEF Stages, BaseInv, PipelineTypeOK
  <2> QED
    BY <1>1, <1>2, <2>1, MoveEffect
<1>4. /\ position \in Nat
      /\ \A d \in Chains : Range(chains[d].batch) \subseteq 1 .. position
      /\ \A i \in DOMAIN mailbox : mailbox[i].entry \in 1 .. position
      /\ \A p \in Projections : Range(received[p]) \subseteq 1 .. position
      /\ current.entry \in 0 .. position
  BY WhereEntriesAre
<1>5. \A e \in 0 .. position : e \notin Range(batch)
  BY <1>2, <1>4
<1>6. \A e \in 1 .. position : e \in 0 .. position
  BY <1>4
<1>7. NoErrorYet'
  BY <1>3 DEF Flow, NoErrorYet
<1>8. EachInOnePlace'
  <2>1. \A d \in Chains : IsInjective(chains'[d].batch)
    BY <1>2, <1>3 DEF Flow, EachInOnePlace
  <2>2. ASSUME NEW d \in Chains, NEW e \in Chains, d # e
        PROVE  Range(chains'[d].batch) \cap Range(chains'[e].batch) = {}
    <3>1. CASE d # c /\ e # c
      BY <1>3, <2>2, <3>1 DEF Flow, EachInOnePlace
    <3>2. CASE d = c \/ e = c
      BY <1>3, <1>4, <1>5, <1>6, <2>2, <3>2
    <3> QED
      BY <3>1, <3>2
  <2>3. ASSUME NEW d \in Chains
        PROVE  /\ current.entry \notin Range(chains'[d].batch)
               /\ \A i \in DOMAIN mailbox : mailbox[i].entry \notin Range(chains'[d].batch)
    BY <1>3, <1>4, <1>5, <1>6 DEF Flow, EachInOnePlace
  <2> QED
    BY <1>1, <2>1, <2>2, <2>3 DEF Flow, EachInOnePlace
<1>9. NotProjectedEarly'
  <2>1. ASSUME NEW p \in Projections, NEW d \in Chains
        PROVE  Range(received[p]) \cap Range(chains'[d].batch) = {}
    BY <1>3, <1>4, <1>5, <1>6 DEF Flow, NotProjectedEarly
  <2> QED
    BY <1>1, <2>1 DEF Flow, NotProjectedEarly
<1>10. HandledInTurn' /\ NothingDoubled'
  BY <1>1 DEF Flow, HandledInTurn, NothingDoubled
<1>11. NothingLost'
  <2> SUFFICES ASSUME NEW entry \in 1 .. position' PROVE UnderWay(entry)' \/ Projected(entry)'
    BY DEF NothingLost
  <2>1. CASE entry \in 1 .. position
    <3>1. chains[c].batch = <<>>
      BY <1>1 DEF BaseInv, NothingIsLeftOver
    <3>2. \A d \in Chains : entry \in Range(chains[d].batch) => entry \in Range(chains'[d].batch)
      BY <1>3, <3>1, RangeOfEmpty
    <3>3. UnderWay(entry) => UnderWay(entry)'
      BY <1>1, <3>2 DEF UnderWay
    <3>4. Projected(entry) => Projected(entry)'
      BY <1>1 DEF Projected
    <3> QED
      BY <2>1, <3>3, <3>4 DEF Flow, NothingLost
  <2>2. CASE entry \notin 1 .. position
    <3>1. entry \in Range(chains'[c].batch)
      BY <1>2, <1>3, <1>4, <2>2
    <3> QED
      BY <3>1 DEF UnderWay
  <2> QED
    BY <2>1, <2>2
<1> QED
  BY <1>7, <1>8, <1>9, <1>10, <1>11 DEF Flow

\* An entry leaves a batch for the mailbox.
LEMMA FlowDispatchNext ==
  ASSUME BaseInv, Flow, NEW c \in Chains, DispatchNext(c)
  PROVE  Flow'
<1> DEFINE entry == Head(chains[c].batch)
           rest == Tail(chains[c].batch)
           message == [client |-> c, entry |-> entry]
<1>1. /\ UNCHANGED <<entries, position, current, received>>
      /\ chains[c].at = "holding" /\ chains[c].batch # <<>>
      /\ mailbox' = Append(mailbox, message)
      /\ Move(c, "waiting", rest)
  BY DEF DispatchNext, readerVars
<1>2. /\ entry \in Entry /\ rest \in Seq(Entry)
      /\ Range(chains[c].batch) = {entry} \cup Range(rest)
      /\ IsInjective(rest) /\ entry \notin Range(rest)
  <2>1. chains[c].batch \in Seq(Entry) /\ IsInjective(chains[c].batch)
    BY WhereEntriesAre DEF Flow, EachInOnePlace
  <2> QED
    BY <1>1, <2>1, TailOf, RangeOfTail
<1>3. /\ chains'[c].at = "waiting" /\ chains'[c].batch = rest
      /\ \A d \in Chains \ {c} : chains'[d] = chains[d]
  <2>1. "waiting" \in Stages /\ chains \in [Chains -> ChainStates]
    BY DEF Stages, BaseInv, PipelineTypeOK
  <2> HIDE DEF rest
  <2> QED
    BY <1>1, <1>2, <2>1, MoveEffect
<1>4. /\ DOMAIN mailbox = 1 .. Len(mailbox) /\ Len(mailbox) \in Nat
      /\ DOMAIN mailbox' = 1 .. Len(mailbox) + 1
      /\ \A i \in 1 .. Len(mailbox) : mailbox'[i] = mailbox[i]
      /\ mailbox'[Len(mailbox) + 1] = message
  <2>1. message \in Messages /\ mailbox \in Seq(Messages)
    BY <1>2 DEF Messages, Clients, BaseInv, PipelineTypeOK
  <2> HIDE DEF message
  <2> QED
    BY <1>1, <2>1, AppendOf
<1>5. /\ \A i \in DOMAIN mailbox' : i \in DOMAIN mailbox \/ i = Len(mailbox) + 1
      /\ \A i \in DOMAIN mailbox : i \in DOMAIN mailbox'
      /\ Len(mailbox) + 1 \in DOMAIN mailbox'
  BY <1>4
<1>6. mailbox'[Len(mailbox) + 1].entry = entry
  BY <1>4
<1> HIDE DEF entry, rest, message
<1>7. /\ \A d \in Chains : Range(chains'[d].batch) \subseteq Range(chains[d].batch)
      /\ \A d \in Chains : entry \notin Range(chains'[d].batch)
      /\ \A i \in DOMAIN mailbox : mailbox[i].entry # entry
      /\ current.entry # entry
      /\ \A p \in Projections : entry \notin Range(received[p])
  <2>1. entry \in Range(chains[c].batch) /\ Range(rest) \subseteq Range(chains[c].batch)
    BY <1>2
  <2> QED
    BY <1>2, <1>3, <2>1 DEF Flow, EachInOnePlace, NotProjectedEarly
<1>8. NoErrorYet'
  BY <1>3 DEF Flow, NoErrorYet
<1>9. EachInOnePlace'
  <2>1. \A d \in Chains : IsInjective(chains'[d].batch)
    BY <1>2, <1>3 DEF Flow, EachInOnePlace
  <2>2. \A d, e \in Chains : d # e => Range(chains'[d].batch) \cap Range(chains'[e].batch) = {}
    BY <1>7 DEF Flow, EachInOnePlace
  <2>3. \A i, j \in DOMAIN mailbox' : mailbox'[i].entry = mailbox'[j].entry => i = j
    BY <1>4, <1>5, <1>6, <1>7 DEF Flow, EachInOnePlace
  <2>4. \A i \in DOMAIN mailbox' : mailbox'[i].entry # current.entry
    BY <1>4, <1>5, <1>6, <1>7 DEF Flow, EachInOnePlace
  <2>5. ASSUME NEW d \in Chains
        PROVE  /\ current.entry \notin Range(chains'[d].batch)
               /\ \A i \in DOMAIN mailbox' : mailbox'[i].entry \notin Range(chains'[d].batch)
    <3>1. Range(chains'[d].batch) \subseteq Range(chains[d].batch) /\ entry \notin Range(chains'[d].batch)
      BY <1>7
    <3>2. /\ current.entry \notin Range(chains[d].batch)
          /\ \A i \in DOMAIN mailbox : mailbox[i].entry \notin Range(chains[d].batch)
      BY DEF Flow, EachInOnePlace
    <3>3. \A i \in DOMAIN mailbox' :
            \/ mailbox'[i].entry = entry
            \/ i \in DOMAIN mailbox /\ mailbox'[i].entry = mailbox[i].entry
      BY <1>4, <1>5, <1>6
    <3> QED
      BY <3>1, <3>2, <3>3
  <2> QED
    BY <1>1, <2>1, <2>2, <2>3, <2>4, <2>5 DEF EachInOnePlace
<1>10. NotProjectedEarly'
  <2> SUFFICES ASSUME NEW p \in Projections
               PROVE  /\ \A d \in Chains : Range(received[p]) \cap Range(chains'[d].batch) = {}
                      /\ \A i \in DOMAIN mailbox' : mailbox'[i].entry \notin Range(received[p])
                      /\ p \in Range(current.todo) => current.entry \notin Range(received[p])
    BY <1>1 DEF NotProjectedEarly
  <2>1. \A d \in Chains : Range(received[p]) \cap Range(chains'[d].batch) = {}
    BY <1>7 DEF Flow, NotProjectedEarly
  <2>2. \A i \in DOMAIN mailbox' : mailbox'[i].entry \notin Range(received[p])
    BY <1>4, <1>5, <1>6, <1>7 DEF Flow, NotProjectedEarly
  <2> QED
    BY <2>1, <2>2 DEF Flow, NotProjectedEarly
<1>11. HandledInTurn' /\ NothingDoubled'
  BY <1>1 DEF Flow, HandledInTurn, NothingDoubled
<1>12. NothingLost'
  <2> SUFFICES ASSUME NEW other \in 1 .. position, UnderWay(other)
               PROVE  UnderWay(other)'
    BY <1>1 DEF Flow, NothingLost, Projected
  <2>1. ASSUME NEW d \in Chains, other \in Range(chains[d].batch) PROVE UnderWay(other)'
    <3>1. CASE d = c /\ other = entry
      BY <1>5, <1>6, <3>1 DEF UnderWay
    <3>2. CASE ~(d = c /\ other = entry)
      <4>1. other \in Range(chains'[d].batch)
        BY <1>2, <1>3, <2>1, <3>2
      <4> QED
        BY <4>1 DEF UnderWay
    <3> QED
      BY <3>1, <3>2
  <2>2. ASSUME NEW i \in DOMAIN mailbox, mailbox[i].entry = other PROVE UnderWay(other)'
    <3>1. i \in DOMAIN mailbox' /\ mailbox'[i].entry = other
      BY <1>4, <1>5, <2>2
    <3> QED
      BY <3>1 DEF UnderWay
  <2>3. CASE current.entry = other
    BY <1>1, <2>3 DEF UnderWay
  <2> QED
    BY <2>1, <2>2, <2>3 DEF UnderWay
<1> QED
  BY <1>8, <1>9, <1>10, <1>11, <1>12 DEF Flow

\* An entry leaves the mailbox to be handled.
LEMMA FlowDispatch ==
  ASSUME BaseInv, Flow, Dispatch
  PROVE  Flow'
<1> DEFINE entry == Head(mailbox).entry
           found == ProjectionsFor(entries[entry])
<1>1. /\ UNCHANGED <<entries, position, chains, received>>
      /\ mailbox # <<>> /\ current = Idle /\ mailbox' = Tail(mailbox)
      /\ current'.entry = entry /\ current'.todo = found
  BY DEF Dispatch, readerVars, BecauseOf, ProjectableType
<1>2. /\ entry = mailbox[1].entry /\ 1 \in DOMAIN mailbox
      /\ Len(mailbox) \in Nat \ {0} /\ DOMAIN mailbox = 1 .. Len(mailbox)
      /\ DOMAIN Tail(mailbox) = 1 .. Len(mailbox) - 1
      /\ \A i \in 1 .. Len(mailbox) - 1 :
           i + 1 \in DOMAIN mailbox /\ i + 1 # 1 /\ Tail(mailbox)[i] = mailbox[i + 1]
  BY <1>1, FirstOfMailbox DEF BaseInv
<1>3. IsInjective(found)
  BY ProjectionsFound
<1> HIDE DEF entry, found
<1>4. \A i \in DOMAIN mailbox' : /\ i + 1 \in DOMAIN mailbox /\ i + 1 # 1
                                 /\ mailbox'[i].entry = mailbox[i + 1].entry
  BY <1>1, <1>2
<1>5. NoErrorYet' /\ NothingDoubled'
  BY <1>1 DEF Flow, NoErrorYet, NothingDoubled
<1>6. EachInOnePlace'
  <2>1. \A i, j \in DOMAIN mailbox' : mailbox'[i].entry = mailbox'[j].entry => i = j
    <3> SUFFICES ASSUME NEW i \in DOMAIN mailbox', NEW j \in DOMAIN mailbox',
                        mailbox'[i].entry = mailbox'[j].entry
                 PROVE  i = j
      OBVIOUS
    <3>1. i + 1 = j + 1
      BY <1>4 DEF Flow, EachInOnePlace
    <3> QED
      BY <1>1, <1>2, <3>1
  <2>2. \A i \in DOMAIN mailbox' : mailbox'[i].entry # entry
    BY <1>2, <1>4 DEF Flow, EachInOnePlace
  <2>3. \A c \in Chains : /\ entry \notin Range(chains[c].batch)
                          /\ \A i \in DOMAIN mailbox' : mailbox'[i].entry \notin Range(chains[c].batch)
    BY <1>2, <1>4 DEF Flow, EachInOnePlace
  <2> QED
    BY <1>1, <2>1, <2>2, <2>3 DEF Flow, EachInOnePlace
<1>7. NotProjectedEarly'
  BY <1>1, <1>2, <1>4 DEF Flow, NotProjectedEarly
<1>8. HandledInTurn'
  BY <1>1, <1>3 DEF HandledInTurn, found
<1>9. NothingLost'
  <2> SUFFICES ASSUME NEW other \in 1 .. position, UnderWay(other)
               PROVE  UnderWay(other)'
    BY <1>1 DEF Flow, NothingLost, Projected
  <2>1. ASSUME NEW c \in Chains, other \in Range(chains[c].batch) PROVE UnderWay(other)'
    BY <1>1, <2>1 DEF UnderWay
  <2>2. ASSUME NEW i \in DOMAIN mailbox, mailbox[i].entry = other PROVE UnderWay(other)'
    <3>1. CASE i = 1
      BY <1>1, <1>2, <2>2, <3>1 DEF UnderWay
    <3>2. CASE i # 1
      <4>1. i - 1 \in 1 .. Len(mailbox) - 1 /\ (i - 1) + 1 = i
        BY <1>2, <3>2
      <4>2. i - 1 \in DOMAIN mailbox' /\ mailbox'[i - 1].entry = other
        BY <1>1, <1>2, <2>2, <4>1
      <4> QED
        BY <4>2 DEF UnderWay
    <3> QED
      BY <3>1, <3>2
  <2>3. current.entry # other
    BY <1>1 DEF Idle, None
  <2> QED
    BY <2>1, <2>2, <2>3 DEF UnderWay
<1> QED
  BY <1>5, <1>6, <1>7, <1>8, <1>9 DEF Flow

\* The next projection gets the entry that is handled.
LEMMA FlowProjectWith ==
  ASSUME BaseInv, Flow, ProjectWith
  PROVE  Flow'
<1> DEFINE projection == Head(current.todo)
           entry == current.entry
<1>1. /\ UNCHANGED <<entries, position, chains, mailbox>>
      /\ projection \in Projections /\ entry \in Entry /\ current # Idle
      /\ received' = [received EXCEPT ![projection] = Append(@, entry)]
      /\ current'.entry = entry /\ current'.todo = Tail(current.todo)
      /\ current.todo # <<>> /\ current.todo \in Seq(Projections)
  BY OneIsTaken DEF BaseInv
<1>2. /\ Range(current.todo) = {projection} \cup Range(Tail(current.todo))
      /\ IsInjective(Tail(current.todo)) /\ projection \notin Range(Tail(current.todo))
  BY <1>1, RangeOfTail DEF Flow, HandledInTurn
<1> HIDE DEF projection, entry
<1>3. /\ \A p \in Projections \ {projection} : received'[p] = received[p]
      /\ received'[projection] = Append(received[projection], entry)
      /\ received[projection] \in Seq(Entry)
  BY <1>1 DEF BaseInv, PipelineTypeOK
<1>4. entry \notin Range(received[projection])
  BY <1>1, <1>2 DEF Flow, NotProjectedEarly, entry
<1>5. /\ Range(received'[projection]) = Range(received[projection]) \cup {entry}
      /\ IsInjective(received[projection]) => IsInjective(received'[projection])
  BY <1>1, <1>3, <1>4, RangeOfAppend
<1>6. NoErrorYet' /\ EachInOnePlace'
  BY <1>1 DEF Flow, NoErrorYet, EachInOnePlace, entry
<1>7. NotProjectedEarly'
  <2>1. /\ \A c \in Chains : entry \notin Range(chains[c].batch)
        /\ \A i \in DOMAIN mailbox : mailbox[i].entry # entry
    BY DEF Flow, EachInOnePlace, entry
  <2> SUFFICES ASSUME NEW p \in Projections
               PROVE  /\ \A c \in Chains : Range(received'[p]) \cap Range(chains[c].batch) = {}
                      /\ \A i \in DOMAIN mailbox : mailbox[i].entry \notin Range(received'[p])
                      /\ p \in Range(Tail(current.todo)) => entry \notin Range(received'[p])
    BY <1>1 DEF NotProjectedEarly
  <2>2. /\ \A c \in Chains : Range(received[p]) \cap Range(chains[c].batch) = {}
        /\ \A i \in DOMAIN mailbox : mailbox[i].entry \notin Range(received[p])
        /\ p \in Range(current.todo) => entry \notin Range(received[p])
    BY DEF Flow, NotProjectedEarly, entry
  <2>3. CASE p = projection
    BY <1>2, <1>5, <2>1, <2>2, <2>3
  <2>4. CASE p # projection
    BY <1>2, <1>3, <2>2, <2>4
  <2> QED
    BY <2>3, <2>4
<1>8. \A p \in Projections : Range(received[p]) \subseteq Range(received'[p])
  BY <1>3, <1>5
<1>9. \A type : \A p \in Range(ProjectionsFor(type)) : p \in Projections
  <2> TAKE type
  <2>1. ProjectionsFor(type) \in Seq(Projections)
    BY ProjectionsFound
  <2> QED
    BY <2>1 DEF Range
<1>10. HandledInTurn'
  <2> SUFFICES ASSUME NEW p \in Range(ProjectionsFor(entries[entry]))
               PROVE  p \in Range(Tail(current.todo)) \/ entry \in Range(received'[p])
    BY <1>1, <1>2 DEF HandledInTurn
  <2>1. p \in Range(current.todo) \/ entry \in Range(received[p])
    BY <1>1 DEF Flow, HandledInTurn, entry
  <2> QED
    BY <1>2, <1>5, <1>8, <1>9, <2>1
<1>11. NothingDoubled'
  BY <1>3, <1>5 DEF Flow, NothingDoubled
<1>12. NothingLost'
  <2> SUFFICES ASSUME NEW other \in 1 .. position
               PROVE  UnderWay(other)' \/ Projected(other)'
    BY <1>1 DEF NothingLost
  <2>1. UnderWay(other) => UnderWay(other)'
    BY <1>1 DEF UnderWay, entry
  <2>2. Projected(other) => Projected(other)'
    BY <1>1, <1>8, <1>9 DEF Projected
  <2> QED
    BY <2>1, <2>2 DEF Flow, NothingLost
<1> QED
  BY <1>6, <1>7, <1>10, <1>11, <1>12 DEF Flow

\* An entry is handled when all the projections it matches have it.
LEMMA FlowEndOfDispatch ==
  ASSUME BaseInv, Flow, EndOfDispatch
  PROVE  Flow'
<1>1. /\ UNCHANGED <<entries, position, mailbox, received>>
      /\ current # Idle /\ current.todo = <<>> /\ Answer("holding") /\ current' = Idle
  BY DEF EndOfDispatch, readerVars
<1>2. current'.entry = 0 /\ current'.todo = <<>>
  BY <1>1 DEF Idle, None
<1>3. \A c \in Chains : chains'[c].batch = chains[c].batch /\ chains'[c].at # "caught"
  <2>1. PipelineTypeOK
    BY DEF BaseInv
  <2> QED
    BY <1>1, <2>1, AnswerEffect DEF Flow, NoErrorYet
<1>4. /\ \A c \in Chains : 0 \notin Range(chains[c].batch)
      /\ \A i \in DOMAIN mailbox : mailbox[i].entry # 0
  <2>1. \A n \in 1 .. position : n # 0
    OBVIOUS
  <2> QED
    BY <2>1, WhereEntriesAre
<1>5. NoErrorYet' /\ NothingDoubled'
  BY <1>1, <1>3 DEF Flow, NoErrorYet, NothingDoubled
<1>6. EachInOnePlace'
  BY <1>1, <1>2, <1>3, <1>4 DEF Flow, EachInOnePlace
<1>7. NotProjectedEarly' /\ HandledInTurn'
  BY <1>1, <1>2, <1>3, RangeOfEmpty DEF Flow, NotProjectedEarly, HandledInTurn
<1>8. Projected(current.entry)
  BY <1>1, RangeOfEmpty DEF Flow, HandledInTurn, Projected
<1>9. NothingLost'
  <2> SUFFICES ASSUME NEW other \in 1 .. position
               PROVE  UnderWay(other)' \/ Projected(other)'
    BY <1>1 DEF NothingLost
  <2>1. CASE Projected(other)
    BY <1>1, <2>1 DEF Projected
  <2>2. CASE UnderWay(other) /\ other # current.entry
    BY <1>1, <1>3, <2>2 DEF UnderWay
  <2>3. CASE other = current.entry
    BY <1>8, <2>1, <2>3
  <2> QED
    BY <2>1, <2>2, <2>3 DEF Flow, NothingLost
<1> QED
  BY <1>5, <1>6, <1>7, <1>9 DEF Flow

LEMMA FlowAtFirst == PipelineInit => Flow
<1> SUFFICES ASSUME PipelineInit PROVE Flow
  OBVIOUS
<1>1. /\ position = 0 /\ mailbox = <<>> /\ current = Idle
      /\ \A p \in Projections : received[p] = <<>>
      /\ \A c \in Chains : chains[c].batch = <<>> /\ chains[c].at # "caught"
  BY DEF PipelineInit, ReaderInit, Free
<1>2. current.todo = <<>>
  BY <1>1 DEF Idle
<1> QED
  BY <1>1, <1>2, RangeOfEmpty DEF Flow, NoErrorYet, EachInOnePlace, NotProjectedEarly,
     HandledInTurn, NothingLost, NothingDoubled

LEMMA FlowIsKept == BaseInv /\ FlowInv /\ [PipelineNext]_pipelineVars => FlowInv'
<1> SUFFICES ASSUME BaseInv, FlowInv, [PipelineNext]_pipelineVars, undisturbed' PROVE Flow'
  BY DEF FlowInv
\* Steps that move no entry
<1>1. ASSUME UNCHANGED <<position, mailbox, current, received, undisturbed>>,
             UNCHANGED entries \/ \E type \in Types : AppendEntry(type),
             \A c \in Chains : /\ chains'[c].batch = chains[c].batch
                               /\ chains[c].at # "caught" => chains'[c].at # "caught"
      PROVE  Flow'
  <2>1. Flow
    BY <1>1 DEF FlowInv
  <2>2. \A c \in Chains : chains'[c].batch = chains[c].batch /\ chains'[c].at # "caught"
    BY <1>1, <2>1 DEF Flow, NoErrorYet
  <2>3. \A entry \in 1 .. position : entries'[entry] = entries[entry]
    BY <1>1, HandedOutStays DEF BaseInv
  <2> QED
    BY <1>1, <2>1, <2>2, <2>3, FlowStays
<1>2. ASSUME NEW c \in Chains, NEW stage \in {"free", "timer", "reading"},
             Move(c, stage, <<>>), chains[c].batch = <<>>, UNCHANGED <<readerVars, dispatcherVars>>
      PROVE  Flow'
  <2>1. UNCHANGED <<entries, position, mailbox, current, received, undisturbed>>
    BY <1>2 DEF readerVars, dispatcherVars
  <2>2. /\ chains'[c].at = stage /\ chains'[c].batch = <<>>
        /\ \A d \in Chains \ {c} : chains'[d] = chains[d]
    <3>1. stage \in Stages /\ <<>> \in Seq(Entry) /\ chains \in [Chains -> ChainStates]
      BY DEF Stages, BaseInv, PipelineTypeOK
    <3> QED
      BY <1>2, <3>1, MoveEffect
  <2>3. \A d \in Chains : /\ chains'[d].batch = chains[d].batch
                          /\ chains[d].at # "caught" => chains'[d].at # "caught"
    BY <1>2, <2>2
  <2> QED
    BY <1>1, <2>1, <2>3
<1>3. ASSUME NEW c \in Chains, ChainStep(c) PROVE Flow'
  <2>1. CASE TimerFires(c)
    <3>1. chains[c].at = "timer" /\ chains[c].batch = <<>>
      BY <2>1 DEF TimerFires, BaseInv, NothingIsLeftOver
    <3> QED
      BY <1>2, <2>1, <3>1 DEF TimerFires
  <2>2. CASE ReadBatch(c)
    <3>1. undisturbed
      BY <2>2 DEF ReadBatch, dispatcherVars
    <3> QED
      BY <2>2, <3>1, FlowReadBatch DEF FlowInv
  <2>3. CASE DispatchNext(c)
    <3>1. undisturbed
      BY <2>3 DEF DispatchNext
    <3> QED
      BY <2>3, <3>1, FlowDispatchNext DEF FlowInv
  <2>4. CASE EndOfCycle(c)
    BY <1>2, <2>4 DEF EndOfCycle, ScheduleNext
  <2>5. CASE CatchError(c)
    <3>1. undisturbed /\ chains[c].at = "caught"
      BY <2>5 DEF CatchError, dispatcherVars
    <3> QED
      BY <3>1 DEF FlowInv, Flow, NoErrorYet
  <2> QED
    BY <1>3, <2>1, <2>2, <2>3, <2>4, <2>5 DEF ChainStep
<1>4. ASSUME DispatcherStep PROVE Flow'
  <2>1. CASE Dispatch
    <3>1. undisturbed
      BY <2>1 DEF Dispatch
    <3> QED
      BY <2>1, <3>1, FlowDispatch DEF FlowInv
  <2>2. CASE ProjectWith
    <3>1. undisturbed
      BY <2>2 DEF ProjectWith
    <3> QED
      BY <2>2, <3>1, FlowProjectWith DEF FlowInv
  <2>3. CASE ProjectionFails
    BY <2>3 DEF ProjectionFails
  <2>4. CASE EndOfDispatch
    <3>1. undisturbed
      BY <2>4 DEF EndOfDispatch
    <3> QED
      BY <2>4, <3>1, FlowEndOfDispatch DEF FlowInv
  <2> QED
    BY <1>4, <2>1, <2>2, <2>3, <2>4 DEF DispatcherStep
<1>5. CASE Pause
  <2>1. UNCHANGED <<entries, position, chains, mailbox, current, received, undisturbed>>
    BY <1>5 DEF Pause, readerVars, dispatcherVars
  <2> QED
    BY <1>1, <2>1
<1>6. CASE Resume
  <2>1. PICK c \in Chains : chains[c] = Free /\ Move(c, "timer", <<>>)
    BY <1>6 DEF Resume
  <2>2. chains[c].batch = <<>> /\ UNCHANGED <<readerVars, dispatcherVars>>
    BY <1>6, <2>1 DEF Resume, Free
  <2> QED
    BY <1>2, <2>1, <2>2
<1>7. CASE Retry
  BY <1>7 DEF Retry
<1>8. CASE JournalGrows
  <2>1. UNCHANGED <<position, chains, mailbox, current, received, undisturbed>>
        /\ \E type \in Types : AppendEntry(type)
    BY <1>8 DEF JournalGrows, AppendEntry, dispatcherVars
  <2> QED
    BY <1>1, <2>1
<1>9. CASE UNCHANGED pipelineVars
  <2>1. UNCHANGED <<entries, position, chains, mailbox, current, received, undisturbed>>
    BY <1>9 DEF pipelineVars, readerVars
  <2> QED
    BY <1>1, <2>1
<1> QED
  BY <1>3, <1>4, <1>5, <1>6, <1>7, <1>8, <1>9 DEF PipelineNext

\* Until a projection throws or somebody dispatches again, every entry that was
\* read is in exactly one place between the reader and the last of its projections.
THEOREM FlowInvariant == PipelineSpec => [](BaseInv /\ FlowInv)
<1>1. PipelineInit => BaseInv /\ FlowInv
  BY BaseAtFirst, FlowAtFirst DEF FlowInv
<1> QED
  BY <1>1, BaseIsKept, FlowIsKept, PTL DEF PipelineSpec

\* As long as no projection throws and nobody dispatches again, an entry that was
\* read is on its way or with all the projections it matches, and no projection
\* gets it twice: the reader that several chains share gives each entry to one.
THEOREM EntriesArriveOnce == PipelineSpec => []NothingLostNorDoubled
<1>1. FlowInv => NothingLostNorDoubled
  BY DEF FlowInv, Flow, NothingLost, NothingDoubled, NothingLostNorDoubled
<1> QED
  BY <1>1, FlowInvariant, PTL
=============================================================================
