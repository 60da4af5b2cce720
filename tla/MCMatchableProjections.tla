----------------------- MODULE MCMatchableProjections -----------------------
(***************************************************************************)
(* Small instances of the registry of projections for TLC.                 *)
(***************************************************************************)
EXTENDS MatchableProjections

CONSTANTS x, y, first, second

NamesOver(characters, n) == UNION {[1 .. k -> characters] : k \in 0 .. n}

AllPatterns == NamesOver({x, Dot, Star}, 4) \ {<<>>}
ShortNames == NamesOver({x, Dot}, 4)

\* Descriptions that overlap, of one projection and of two; the last one is
\* registered for every pattern of up to four characters.
Overlapping ==
  { [projection |-> first,  becauseOf |-> {<<x>>, <<y, Star>>}],
    [projection |-> second, becauseOf |-> {<<Star, y>>}],
    [projection |-> second, becauseOf |-> {<<x, Dot, Star>>}],
    [projection |-> first,  becauseOf |-> AllPatterns] }

CachedReasons == {<<x>>, <<x, y>>, <<y>>, <<x, Dot>>, <<Star>>}
=============================================================================
