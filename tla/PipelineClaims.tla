--------------------------- MODULE PipelineClaims ---------------------------
(***************************************************************************)
(* What comments of the repository say of the way from the journal to the  *)
(* projections and the code does not do.  Each is refuted by a run.        *)
(***************************************************************************)
EXTENDS ProjectionPipeline

\* "At-least-once delivery semantics via confirmation" (ProjectionDispatcher.ts):
\* an entry the reader has handed out, and that some projection matches, is under
\* way, has got to one of its projections at least, or is kept for a retry.
AtLeastOnce ==
  \A entry \in 1 .. position :
    LET wanting == Range(ProjectionsFor(entries[entry]))
    IN  \/ UnderWay(entry)
        \/ wanting # {} => \E p \in wanting : entry \in Range(received[p])
        \/ entry \in CheckUnconfirmed
=============================================================================
