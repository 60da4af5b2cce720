--------------------------- MODULE PatternMatching ---------------------------
(***************************************************************************)
(* When a pattern of a projection matches a reason (matchesPattern in      *)
(* src/model/projections/ProjectToDescription.ts), and what its wildcards  *)
(* stand for.  A name is a sequence of characters.                         *)
(***************************************************************************)
EXTENDS Integers, SequencesExt

CONSTANTS
  Characters,  \* what names and patterns are made of
  Star         \* the character '*'

ASSUME StarAssumption == Star \in Characters

\* contains(whole, part): includes() of strings.
Includes(whole, part) ==
  \E i \in 0 .. Len(whole) - Len(part) : SubSeq(whole, i + 1, i + Len(part)) = part

StartsWithStar(pattern) == pattern # <<>> /\ pattern[1] = Star
EndsWithStar(pattern) == pattern # <<>> /\ pattern[Len(pattern)] = Star

\* Mutant: a star in front is taken for a star at the end as well.
MatchesPatternLoosely(pattern, reason) ==
  \/ pattern = reason
  \/ EndsWithStar(pattern) /\ IsPrefix(SubSeq(pattern, 1, Len(pattern) - 1), reason)
  \/ StartsWithStar(pattern) /\ Includes(reason, SubSeq(pattern, 2, Len(pattern)))

MatchesPattern(pattern, reason) ==
  \/ pattern = reason
  \/ pattern = <<Star>>
  \/ /\ EndsWithStar(pattern) /\ ~StartsWithStar(pattern)
     /\ IsPrefix(SubSeq(pattern, 1, Len(pattern) - 1), reason)
  \/ /\ StartsWithStar(pattern) /\ ~EndsWithStar(pattern)
     /\ IsSuffix(SubSeq(pattern, 2, Len(pattern)), reason)
  \/ /\ StartsWithStar(pattern) /\ EndsWithStar(pattern) /\ Len(pattern) > 2
     /\ Includes(reason, SubSeq(pattern, 2, Len(pattern) - 1))

\* The reference: every star stands for some characters or none.  What follows the
\* first i characters of the pattern matches what follows the first j characters
\* of the reason for the j in ends[i].
StandsFor(pattern, reason) ==
  LET ends[i \in 0 .. Len(pattern)] ==
        IF i = Len(pattern) THEN {Len(reason)}
        ELSE LET further == ends[i + 1]
             IN  IF pattern[i + 1] = Star
                 THEN {j \in 0 .. Len(reason) : \E l \in further : j <= l}
                 ELSE {j \in 0 .. Len(reason) - 1 :
                         reason[j + 1] = pattern[i + 1] /\ j + 1 \in further}
  IN  0 \in ends[0]

\* The forms that ProjectToDescription.ts lists: exact, '*', 'Account*', '*Event',
\* '*Account*', and 'name.space.*', in which the dot stands for itself.  (The example
\* in MatchableProjections.ts expects 'Account.*' to match 'AccountOpened', too, which
\* neither this definition nor the code agrees with.)
DocumentedForm(pattern) ==
  /\ \A i \in DOMAIN pattern : pattern[i] = Star => i \in {1, Len(pattern)}
  /\ pattern # <<Star, Star>>
=============================================================================
