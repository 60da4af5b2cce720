------------------------ MODULE MCProjectionPipeline ------------------------
(***************************************************************************)
(* Small instances of the way from the journal to the projections for TLC. *)
(***************************************************************************)
EXTENDS PipelineClaims

CONSTANTS opened, renamed, summary, audit

\* The second description of summary must not make it project twice.
Registered ==
  << [projection |-> summary, types |-> {opened}],
     [projection |-> audit,   types |-> {opened, renamed}],
     [projection |-> summary, types |-> {opened, renamed}] >>
=============================================================================
