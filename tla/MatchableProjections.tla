------------------------ MODULE MatchableProjections ------------------------
(***************************************************************************)
(* The registry a dispatcher matches projectables with, and its cache      *)
(* (src/model/projections/MatchableProjections.ts).                        *)
(***************************************************************************)
EXTENDS PatternMatching, Functions

CONSTANTS
  Registrable,     \* descriptions: [projection, becauseOf (a set of patterns)]
  Reasons,         \* what match is asked for
  Names,           \* names a pattern is tried on
  Dot,             \* the character '.'
  MaxDescriptions  \* bound: registered at a time

ASSUME DescriptionsAssumption ==
  \A d \in Registrable : /\ d.becauseOf # {}
                         /\ \A pattern \in d.becauseOf : pattern \in Seq(Characters)
ASSUME NamesAssumption == \A name \in Names : name \in Seq(Characters)
ASSUME RegistryBoundAssumption == MaxDescriptions \in Nat

VARIABLES
  descriptions,    \* what is registered, in order
  exactMatchCache, \* reason -> projections, for some reasons
  answer           \* the last match: what was asked, what was answered

registryVars == <<descriptions, exactMatchCache, answer>>

Matches(description, reasons) ==
  \E pattern \in description.becauseOf, reason \in Range(reasons) :
    MatchesPattern(pattern, reason)

\* The projections of all descriptions that match, each once.
Found(reasons) ==
  LET AddMatching(found, d) ==
        IF Matches(d, reasons) /\ ~Contains(found, d.projection)
        THEN Append(found, d.projection) ELSE found
  IN  FoldLeft(AddMatching, <<>>, descriptions)

HasWildcardPatterns(reason) ==
  Contains(reason, Star) \/ (reason # <<>> /\ reason[Len(reason)] = Dot)

\* Mutant: the cache survives a registration.
RegisterKeepingCache(d) ==
  /\ Len(descriptions) < MaxDescriptions
  /\ descriptions' = Append(descriptions, d)
  /\ UNCHANGED <<exactMatchCache, answer>>

Register(d) ==
  /\ Len(descriptions) < MaxDescriptions
  /\ descriptions' = Append(descriptions, d)
  /\ exactMatchCache' = <<>>
  /\ UNCHANGED answer

Answer(reasons, projections) == answer' = [reasons |-> reasons, projections |-> projections]

Match(reasons) ==
  \/ /\ reasons = <<>>
     /\ Answer(reasons, <<>>)
     /\ UNCHANGED <<descriptions, exactMatchCache>>
  \/ /\ Len(reasons) = 1
     /\ reasons[1] \in DOMAIN exactMatchCache
     /\ Answer(reasons, exactMatchCache[reasons[1]])
     /\ UNCHANGED <<descriptions, exactMatchCache>>
  \/ /\ Len(reasons) = 1
     /\ reasons[1] \notin DOMAIN exactMatchCache
     /\ Answer(reasons, Found(reasons))
     /\ exactMatchCache' =
          IF HasWildcardPatterns(reasons[1]) THEN exactMatchCache
          ELSE [r \in DOMAIN exactMatchCache \cup {reasons[1]} |->
                  IF r = reasons[1] THEN Found(reasons) ELSE exactMatchCache[r]]
     /\ UNCHANGED descriptions
  \/ /\ Len(reasons) > 1
     /\ Answer(reasons, Found(reasons))
     /\ UNCHANGED <<descriptions, exactMatchCache>>

Clear ==
  /\ descriptions' = <<>>
  /\ exactMatchCache' = <<>>
  /\ UNCHANGED answer

RegistryInit ==
  /\ descriptions = <<>>
  /\ exactMatchCache = <<>>
  /\ answer = [reasons |-> <<>>, projections |-> <<>>]

RegistryNext ==
  \/ \E d \in Registrable : Register(d)
  \/ \E reasons \in {<<>>} \cup (Reasons \X Reasons) \cup {<<reason>> : reason \in Reasons} :
       Match(reasons)
  \/ Clear

RegistrySpec == RegistryInit /\ [][RegistryNext]_registryVars

----------------------------------------------------------------------------
(* Properties *)

\* A pattern of one of the forms that ProjectToDescription.ts documents matches what
\* its wildcards stand for, all other characters, a dot too, standing for themselves:
\* the five cases of the code are this one rule.
FormsMatchWhatTheyStandFor ==
  \A i \in DOMAIN descriptions : \A pattern \in descriptions[i].becauseOf :
    DocumentedForm(pattern) =>
      \A reason \in Names : MatchesPattern(pattern, reason) <=> StandsFor(pattern, reason)

\* Every answer, from the cache or not, is what the descriptions registered at
\* that moment ask for: all their projections that want one of the reasons,
\* none of the others, none twice.
AnswersAreCurrent ==
  [][Match(answer'.reasons) =>
       LET wanted == {d \in Range(descriptions) : Matches(d, answer'.reasons)}
       IN  /\ Range(answer'.projections) = {d.projection : d \in wanted}
           /\ IsInjective(answer'.projections)]_registryVars
=============================================================================
