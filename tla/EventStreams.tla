---------------------------- MODULE EventStreams ----------------------------
(***************************************************************************)
(* What a journal promises its users (the interface in                     *)
(* src/store/journal/Journal.ts), without indexes, positions or snapshots: *)
(* every stream is a sequence of sources that only grows, all sources form *)
(* one history in the order they were accepted, and a stream is active,    *)
(* soft-deleted (until something is appended) or tombstoned (for good).    *)
(***************************************************************************)
EXTENDS Integers, Sequences

CONSTANTS
  Streams,
  Sources,
  Batches   \* the sequences of sources one append may carry

VARIABLES
  events,   \* stream -> all its sources, visible or not
  history,  \* every source of every stream in order of acceptance
  status    \* stream -> "active", "softDeleted" or "tombstoned"

vars == <<events, history, status>>

Statuses == {"active", "softDeleted", "tombstoned"}

TypeOK ==
  /\ events \in [Streams -> Seq(Sources)]
  /\ history \in Seq(Sources)
  /\ status \in [Streams -> Statuses]

Init ==
  /\ events = [s \in Streams |-> <<>>]
  /\ history = <<>>
  /\ status = [s \in Streams |-> "active"]

\* An accepted append.  It reopens a soft-deleted stream, even when it adds no
\* source: an empty batch, or a batch whose adapter throws.
Publish(s, sources) ==
  /\ status[s] # "tombstoned"
  /\ events' = [events EXCEPT ![s] = @ \o sources]
  /\ history' = history \o sources
  /\ status' = [status EXCEPT ![s] = "active"]

\* Only a stream that has events can be deleted, and only an active one softly.
Retire(s) ==
  /\ status[s] = "active"
  /\ events[s] # <<>>
  /\ status' = [status EXCEPT ![s] = "softDeleted"]
  /\ UNCHANGED <<events, history>>

Bury(s) ==
  /\ status[s] # "tombstoned"
  /\ events[s] # <<>>
  /\ status' = [status EXCEPT ![s] = "tombstoned"]
  /\ UNCHANGED <<events, history>>

Next ==
  \E s \in Streams :
    \/ \E sources \in Batches : Publish(s, sources)
    \/ Retire(s)
    \/ Bury(s)

Spec == Init /\ [][Next]_vars
=============================================================================
