--------------------------- MODULE StoreTypeMapper ---------------------------
(***************************************************************************)
(* The names under which types are stored (src/store/StoreTypeMapper.ts):  *)
(* explicit mappings in both directions, and otherwise the convention that *)
(* PascalCase is stored as kebab-case.  A name is a sequence of characters *)
(* and a character its case and what it is without the case, since the     *)
(* convention looks at nothing else.                                       *)
(***************************************************************************)
EXTENDS Integers, SequencesExt

CONSTANTS
  TypeNames,  \* names of classes
  Mappable    \* the <<type name, symbolic name>> pairs mapping() is called with

\* A character is its case and what it is without it.
Characters == {"upper", "lower", "other"} \X STRING

ASSUME NamesAssumption == \A name \in TypeNames : name \in Seq(Characters)

VARIABLES
  typeToSymbolic, \* type name -> symbolic name, for the types mapped
  symbolicToType  \* symbolic name -> type name, for the names mapped to

mapperVars == <<typeToSymbolic, symbolicToType>>

Hyphen == <<"other", "-">>
IsUpper(c) == c[1] = "upper"
IsLower(c) == c[1] = "lower"
ToUpper(c) == IF IsLower(c) THEN <<"upper", c[2]>> ELSE c
ToLower(c) == IF IsUpper(c) THEN <<"lower", c[2]>> ELSE c

----------------------------------------------------------------------------
(* The convention *)

\* Mutant: words begin only after capitals.
BeginsWordInCapitals(name, i) ==
  i > 1 /\ IsUpper(name[i]) /\ IsUpper(name[i - 1]) /\ i < Len(name) /\ IsLower(name[i + 1])

\* What the two replacements put a hyphen in front of: a capital after a small
\* letter, and the last of several capitals when a small letter follows.
BeginsWord(name, i) ==
  /\ i > 1
  /\ IsUpper(name[i])
  /\ \/ IsLower(name[i - 1])
     \/ IsUpper(name[i - 1]) /\ i < Len(name) /\ IsLower(name[i + 1])

PascalToKebab(name) ==
  FlattenSeq([i \in DOMAIN name |->
    IF BeginsWord(name, i) THEN <<Hyphen, ToLower(name[i])>> ELSE <<ToLower(name[i])>>])

LooksPascal(name) ==
  ~Contains(name, Hyphen) /\ \E i \in DOMAIN name : IsUpper(name[i])

\* A name that looks like PascalCase stays; otherwise the parts between hyphens
\* are capitalized and joined.
KebabToPascal(name) ==
  LET Cased(i) == IF i = 1 \/ name[i - 1] = Hyphen THEN ToUpper(name[i]) ELSE ToLower(name[i])
  IN  IF LooksPascal(name) THEN name
      ELSE FlattenSeq([i \in DOMAIN name |-> IF name[i] = Hyphen THEN <<>> ELSE <<Cased(i)>>])

----------------------------------------------------------------------------
(* The mapper *)

With(map, key, value) ==
  [k \in DOMAIN map \cup {key} |-> IF k = key THEN value ELSE map[k]]

\* Earlier mappings of the same type to other names stay readable.
Mapping(typeName, symbolicName) ==
  /\ typeToSymbolic' = With(typeToSymbolic, typeName, symbolicName)
  /\ symbolicToType' = With(symbolicToType, symbolicName, typeName)

ToSymbolicName(typeName) ==
  IF typeName \in DOMAIN typeToSymbolic THEN typeToSymbolic[typeName]
  ELSE PascalToKebab(typeName)

ToTypeName(symbolicName) ==
  IF symbolicName \in DOMAIN symbolicToType THEN symbolicToType[symbolicName]
  ELSE KebabToPascal(symbolicName)

ResetMapper == typeToSymbolic' = <<>> /\ symbolicToType' = <<>>

MapperInit == typeToSymbolic = <<>> /\ symbolicToType = <<>>

MapperNext ==
  \/ \E pair \in Mappable : Mapping(pair[1], pair[2])
  \/ ResetMapper

----------------------------------------------------------------------------
(* Properties *)

\* Words are a capital and small letters, and are put together without digits in
\* front of a capital: AccountOpened, but neither XMLParser nor Level2Reached.
MadeOfWords(name) ==
  /\ name # <<>>
  /\ IsUpper(name[1])
  /\ ~Contains(name, Hyphen)
  /\ \A i \in DOMAIN name : IsUpper(name[i]) =>
       /\ i < Len(name) /\ IsLower(name[i + 1])
       /\ i > 1 => IsLower(name[i - 1])

\* No other type was ever given the name that this one is stored under.
Unclaimed(typeName) ==
  ToSymbolicName(typeName) \in DOMAIN symbolicToType
    => symbolicToType[ToSymbolicName(typeName)] = typeName

\* A type that is mapped, or whose name is made of words, comes back from the
\* name it is stored under, whatever was mapped before, unless that name was
\* claimed for another type.
NamesComeBack ==
  \A t \in TypeNames :
    (t \in DOMAIN typeToSymbolic \/ MadeOfWords(t)) /\ Unclaimed(t)
      => ToTypeName(ToSymbolicName(t)) = t
=============================================================================
