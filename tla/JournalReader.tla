---------------------------- MODULE JournalReader ----------------------------
(***************************************************************************)
(* A named reader of the whole journal (src/store/journal/inmemory/        *)
(* InMemoryJournalReader.ts): a cursor on the array of entries it shares   *)
(* with the journal, which only ever appends to it (Journal!AppendOnly).   *)
(* An entry is its type here, which is all that projections are matched    *)
(* by.  Readers of the same name are one reader.                           *)
(***************************************************************************)
EXTENDS Integers, Sequences, FiniteSetsExt

CONSTANTS
  Types,      \* entry types
  MaxEntries  \* bound: length of the journal

ASSUME ReaderBoundsAssumption == MaxEntries \in Nat

VARIABLES
  entries,   \* the journal
  position   \* currentPosition

readerVars == <<entries, position>>

AppendEntry(type) ==
  /\ Len(entries) < MaxEntries
  /\ entries' = Append(entries, type)
  /\ UNCHANGED position

\* Mutant: an incomplete batch is not read.
EndOfFullBatch(max) ==
  IF position + max > Len(entries) THEN position ELSE position + max

EndOfBatch(max) == Min({position + max, Len(entries)})

\* Mutant: positions are taken for places.
BatchFromZero(max) ==
  [i \in 1 .. Max({0, EndOfBatch(max) - position}) |-> position + i - 1]

\* slice(position, end): the places below both end and length, which are none
\* when the reader was sent beyond the end of the journal.
Batch(max) ==
  LET end == Min({EndOfBatch(max), Len(entries)})
  IN  [i \in 1 .. Max({0, end - position}) |-> position + i]

\* max is positive: readNext throws on anything else and changes nothing.  The
\* position becomes the end even when that is a step back.
ReadNext(max) ==
  /\ max > 0
  /\ position' = EndOfBatch(max)
  /\ UNCHANGED entries

ReaderInit == entries = <<>> /\ position = 0
=============================================================================
