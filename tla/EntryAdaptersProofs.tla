------------------------ MODULE EntryAdaptersProofs ------------------------
(***************************************************************************)
(* Proofs about modules StoreTypeMapper and EntryAdapters, for all names,  *)
(* classes, versions and contexts: a class comes back from the name it is  *)
(* stored under, and a source from the entry it was written as, whatever   *)
(* was mapped, registered and reset in between                             *)
(* (src/store/StoreTypeMapper.ts, EntryAdapterProvider.ts).                *)
(***************************************************************************)
EXTENDS EntryAdapters, Ranking, SequenceTheorems, TLAPS

----------------------------------------------------------------------------
(* Sequences put together *)

\* q[k] is the first k of the parts, one after the other.
AreJoined(q, parts, n) ==
  /\ q[0] = <<>>
  /\ \A k \in 1 .. n : q[k] = q[k - 1] \o parts[k]

LEMMA PartsCanBeJoined ==
  ASSUME NEW S, NEW n \in Nat, NEW parts \in [1 .. n -> Seq(S)]
  PROVE  \E q \in [0 .. n -> Seq(S)] : AreJoined(q, parts, n)
<1> DEFINE Fails == {k \in 0 .. n : ~\E q \in [0 .. k -> Seq(S)] : AreJoined(q, parts, k)}
<1>1. SUFFICES ASSUME Fails # {} PROVE FALSE
  <2>1. n \in 0 .. n
    OBVIOUS
  <2> QED
    BY <2>1
<1>2. PICK k \in Fails : \A j \in Fails : k <= j
  BY <1>1, LeastNumber
<1>3. /\ [i \in 0 .. 0 |-> <<>>] \in [0 .. 0 -> Seq(S)]
      /\ AreJoined([i \in 0 .. 0 |-> <<>>], parts, 0)
  BY DEF AreJoined
<1>4. k \in 1 .. n
  <2>1. \E q \in [0 .. 0 -> Seq(S)] : AreJoined(q, parts, 0)
    BY <1>3
  <2>2. k # 0
    BY <1>2, <2>1
  <2> QED
    BY <1>2, <2>2
<1>5. k - 1 \in 0 .. n /\ k - 1 \notin Fails
  BY <1>2, <1>4
<1>6. PICK q \in [0 .. k - 1 -> Seq(S)] : AreJoined(q, parts, k - 1)
  BY <1>5
<1> DEFINE longer == [i \in 0 .. k |-> IF i = k THEN q[k - 1] \o parts[k] ELSE q[i]]
<1>7. longer \in [0 .. k -> Seq(S)]
  <2>1. q[k - 1] \o parts[k] \in Seq(S)
    BY <1>4
  <2>2. ASSUME NEW i \in 0 .. k, i # k PROVE q[i] \in Seq(S)
    BY <1>4, <2>2
  <2> QED
    BY <2>1, <2>2
<1>8. AreJoined(longer, parts, k)
  <2>1. \A i \in 0 .. k - 1 : longer[i] = q[i]
    BY <1>4
  <2>2. longer[k] = q[k - 1] \o parts[k] /\ longer[k - 1] = q[k - 1]
    BY <1>4
  <2>3. longer[0] = <<>>
    BY <1>4, <1>6, <2>1 DEF AreJoined
  <2> HIDE DEF longer
  <2>4. ASSUME NEW i \in 1 .. k PROVE longer[i] = longer[i - 1] \o parts[i]
    <3>1. CASE i = k
      BY <2>2, <3>1
    <3>2. CASE i # k
      <4>1. i \in 1 .. k - 1 /\ i - 1 \in 0 .. k - 1 /\ i \in 0 .. k - 1
        BY <1>4, <3>2
      <4> QED
        BY <1>6, <2>1, <4>1 DEF AreJoined
    <3> QED
      BY <3>1, <3>2
  <2> QED
    BY <2>3, <2>4 DEF AreJoined
<1> QED
  BY <1>2, <1>7, <1>8

LEMMA FlatIsJoined ==
  ASSUME NEW S, NEW n \in Nat, NEW parts \in [1 .. n -> Seq(S)],
         NEW q \in [0 .. n -> Seq(S)], AreJoined(q, parts, n)
  PROVE  FlattenSeq(parts) = q[n]
<1>1. Len(parts) = n
  BY DOMAIN parts = 1 .. n, parts = [i \in 1 .. n |-> parts[i]]
<1>4. n > 0 => q[1] = parts[1]
  <2> SUFFICES ASSUME n > 0 PROVE q[1] = parts[1]
    OBVIOUS
  <2>1. 1 \in 1 .. n /\ 1 - 1 = 0
    OBVIOUS
  <2>2. q[1] = q[1 - 1] \o parts[1] /\ q[0] = <<>> /\ parts[1] \in Seq(S)
    BY <2>1 DEF AreJoined
  <2>3. <<>> \o parts[1] = parts[1]
    BY <2>2, ConcatEmptySeq
  <2> QED
    BY <2>1, <2>2, <2>3
<1>2. CASE n = 0
  <2>1. FlattenSeq(parts) = parts
    BY <1>1, <1>2 DEF FlattenSeq
  <2>2. parts = <<>>
    BY <1>2
  <2> QED
    BY <1>2, <2>1, <2>2 DEF AreJoined
<1>3. CASE n > 0
  <2> DEFINE IsFlat(f) == f = [i \in 1 .. n |-> IF i = 1 THEN parts[i] ELSE f[i - 1] \o parts[i]]
             flat == CHOOSE f : IsFlat(f)
             r == [i \in 1 .. n |-> q[i]]
  <2>1. FlattenSeq(parts) = flat[n]
    BY <1>1, <1>3 DEF FlattenSeq
  <2>2. IsFlat(r)
    <3>1. ASSUME NEW i \in 1 .. n
          PROVE  r[i] = IF i = 1 THEN parts[i] ELSE r[i - 1] \o parts[i]
      <4>1. q[i] = q[i - 1] \o parts[i] /\ r[i] = q[i] /\ parts[i] \in Seq(S)
        BY DEF AreJoined
      <4>2. CASE i = 1
        BY ONLY <1>4, <4>1, <4>2
      <4>3. CASE i # 1
        <5>1. i - 1 \in 1 .. n
          BY <4>3
        <5>2. r[i - 1] = q[i - 1]
          BY <5>1
        <5> QED
          BY <4>1, <4>3, <5>2
      <4> QED
        BY <4>2, <4>3
    <3> QED
      BY <3>1
  <2>3. IsFlat(flat)
    BY <2>2
  <2> HIDE DEF flat
  <2>4. \A i \in 1 .. n : flat[i] = IF i = 1 THEN parts[i] ELSE flat[i - 1] \o parts[i]
    BY <2>3
  <2> DEFINE Differs == {k \in 1 .. n : flat[k] # q[k]}
  <2>5. CASE Differs = {}
    <3>1. n \in 1 .. n
      BY <1>3
    <3> QED
      BY <2>1, <2>5, <3>1
  <2>6. CASE Differs # {}
    <3>1. Differs \in SUBSET (0 .. n)
      OBVIOUS
    <3>2. PICK k \in Differs : \A j \in Differs : k <= j
      BY ONLY n \in Nat, <2>6, <3>1, LeastNumber
    <3>3. q[k] = q[k - 1] \o parts[k] /\ parts[k] \in Seq(S)
      BY <3>2 DEF AreJoined
    <3>4. CASE k = 1
      <4>1. flat[1] = parts[1]
        BY <2>4, <3>2, <3>4
      <4> QED
        BY <1>4, <3>2, <3>4, <4>1
    <3>5. CASE k # 1
      <4>1. k - 1 \in 1 .. n /\ k - 1 \notin Differs
        BY <3>2, <3>5
      <4>2. flat[k - 1] = q[k - 1]
        BY <4>1
      <4> QED
        BY <2>4, <3>2, <3>3, <3>5, <4>2
    <3> QED
      BY <3>4, <3>5
  <2> QED
    BY <2>5, <2>6
<1> QED
  BY <1>2, <1>3

\* What is joined so far is how the whole begins.
LEMMA JoinedGrows ==
  ASSUME NEW S, NEW n \in Nat, NEW parts \in [1 .. n -> Seq(S)],
         NEW q \in [0 .. n -> Seq(S)], AreJoined(q, parts, n), NEW k \in 0 .. n
  PROVE  Len(q[k]) <= Len(q[n]) /\ \A i \in 1 .. Len(q[k]) : q[n][i] = q[k][i]
<1> DEFINE Begin(m) == Len(q[k]) <= Len(q[m]) /\ \A i \in 1 .. Len(q[k]) : q[m][i] = q[k][i]
           Fails == {m \in 0 .. n : k <= m /\ ~Begin(m)}
<1>1. SUFFICES ASSUME Fails # {} PROVE FALSE
  <2>1. n \in 0 .. n /\ k <= n
    OBVIOUS
  <2> QED
    BY <2>1
<1>2. PICK m \in Fails : \A j \in Fails : m <= j
  BY <1>1, LeastNumber
<1>3. \A j \in 0 .. n : q[j] \in Seq(S) /\ Len(q[j]) \in Nat
  OBVIOUS
<1>4. Begin(k)
  BY <1>3
<1>5. m - 1 \in 0 .. n /\ k <= m - 1 /\ m - 1 \notin Fails /\ m \in 1 .. n
  BY <1>2, <1>4
<1>6. Begin(m - 1)
  BY <1>5
<1>7. q[m] = q[m - 1] \o parts[m] /\ parts[m] \in Seq(S)
  BY <1>5 DEF AreJoined
<1>8. /\ Len(q[m - 1]) <= Len(q[m])
      /\ \A i \in 1 .. Len(q[m - 1]) : q[m][i] = q[m - 1][i]
  BY <1>3, <1>5, <1>7
<1>9. Begin(m)
  BY <1>3, <1>5, <1>6, <1>8
<1> QED
  BY <1>2, <1>9

----------------------------------------------------------------------------
(* The convention *)

LEMMA CasesOfCharacters ==
  ASSUME NEW c \in Characters
  PROVE  /\ ToLower(c) \in Characters /\ ToUpper(c) \in Characters
         /\ ~IsUpper(ToLower(c))
         /\ IsUpper(c) => ToUpper(ToLower(c)) = c
         /\ ~IsUpper(c) => ToLower(c) = c
         /\ c # Hyphen => ToLower(c) # Hyphen
<1>1. PICK case, letter : /\ case \in {"upper", "lower", "other"} /\ letter \in STRING
                          /\ c = <<case, letter>>
  <2>1. c[1] \in {"upper", "lower", "other"} /\ c[2] \in STRING /\ c = <<c[1], c[2]>>
    BY DEF Characters
  <2> QED
    BY <2>1
<1>2. c[1] = case /\ c[2] = letter
  BY <1>1
<1>3. CASE case = "upper"
  <2>1. IsUpper(c) /\ ToLower(c) = <<"lower", letter>> /\ ToUpper(c) = c
    BY <1>2, <1>3 DEF IsUpper, IsLower, ToLower, ToUpper
  <2>2. ToUpper(<<"lower", letter>>) = <<"upper", letter>> /\ ~IsUpper(<<"lower", letter>>)
    BY DEF IsUpper, IsLower, ToUpper
  <2>3. <<"lower", letter>> # Hyphen /\ <<"lower", letter>> \in Characters
    <3>1. <<"lower", letter>> \in Characters
      BY <1>1 DEF Characters
    <3>2. <<"lower", letter>>[1] # Hyphen[1]
      BY DEF Hyphen
    <3> QED
      BY <3>1, <3>2
  <2> QED
    BY <1>1, <1>3, <2>1, <2>2, <2>3
<1>4. CASE case # "upper"
  <2>1. ~IsUpper(c) /\ ToLower(c) = c
    BY <1>2, <1>4 DEF IsUpper, ToLower
  <2>2. ToUpper(c) \in Characters
    BY <1>1, <1>2 DEF ToUpper, Characters
  <2> QED
    BY <2>1, <2>2
<1> QED
  BY <1>3, <1>4

LEMMA HyphenIsNoCapital == ~IsUpper(Hyphen)
BY DEF Hyphen, IsUpper

StoredCharacters == {Hyphen} \cup {c \in Characters : ~IsUpper(c)}

\* What stands for a character of the name when it is stored, ...
Separated(name, i) ==
  IF BeginsWord(name, i) THEN <<Hyphen, ToLower(name[i])>> ELSE <<ToLower(name[i])>>

\* ... and for one of the stored name when it is read.
Cased(name, i) ==
  IF i = 1 \/ name[i - 1] = Hyphen THEN ToUpper(name[i]) ELSE ToLower(name[i])

Capitalized(name, i) == IF name[i] = Hyphen THEN <<>> ELSE <<Cased(name, i)>>

\* Words begin at capitals, after small letters.
LEMMA WordsBeginAtCapitals ==
  ASSUME NEW name \in Seq(Characters), MadeOfWords(name), NEW i \in 1 .. Len(name)
  PROVE  /\ name[i] \in Characters /\ name[i] # Hyphen
         /\ BeginsWord(name, i) <=> i > 1 /\ IsUpper(name[i])
         /\ i = 1 => IsUpper(name[i])
<1>1. name[i] \in Characters /\ Len(name) \in Nat /\ DOMAIN name = 1 .. Len(name)
  OBVIOUS
<1>2. name[i] # Hyphen
  BY DEF MadeOfWords, Contains
<1>3. IsUpper(name[i]) /\ i > 1 => IsLower(name[i - 1])
  BY <1>1 DEF MadeOfWords
<1>4. i = 1 => IsUpper(name[i])
  BY DEF MadeOfWords
<1> QED
  BY <1>1, <1>2, <1>3, <1>4 DEF BeginsWord

LEMMA SeparatedIsStored ==
  ASSUME NEW name \in Seq(Characters), NEW i \in 1 .. Len(name)
  PROVE  Separated(name, i) \in Seq(StoredCharacters)
<1>1. ToLower(name[i]) \in StoredCharacters /\ Hyphen \in StoredCharacters
  BY CasesOfCharacters DEF StoredCharacters
<1> QED
  BY <1>1 DEF Separated

LEMMA StoredNameIsJoined ==
  ASSUME NEW name \in Seq(Characters)
  PROVE  \E q \in [0 .. Len(name) -> Seq(StoredCharacters)] :
           /\ AreJoined(q, [i \in 1 .. Len(name) |-> Separated(name, i)], Len(name))
           /\ PascalToKebab(name) = q[Len(name)]
<1> DEFINE n == Len(name)
           parts == [i \in 1 .. n |-> Separated(name, i)]
<1>1. n \in Nat /\ DOMAIN name = 1 .. n
  OBVIOUS
<1>3. parts \in [1 .. n -> Seq(StoredCharacters)]
  BY SeparatedIsStored
<1>4. PascalToKebab(name) = FlattenSeq(parts)
  BY <1>1 DEF PascalToKebab, Separated
<1> HIDE DEF parts
<1>5. PICK q \in [0 .. n -> Seq(StoredCharacters)] : AreJoined(q, parts, n)
  BY <1>1, <1>3, PartsCanBeJoined
<1>6. FlattenSeq(parts) = q[n]
  BY <1>1, <1>3, <1>5, FlatIsJoined
<1> QED
  BY <1>4, <1>5, <1>6 DEF parts

LEMMA ReadNameIsJoined ==
  ASSUME NEW name \in Seq(StoredCharacters)
  PROVE  \E q \in [0 .. Len(name) -> Seq(Characters)] :
           /\ AreJoined(q, [i \in 1 .. Len(name) |-> Capitalized(name, i)], Len(name))
           /\ KebabToPascal(name) = q[Len(name)]
<1> DEFINE n == Len(name)
           parts == [i \in 1 .. n |-> Capitalized(name, i)]
<1>1. n \in Nat /\ DOMAIN name = 1 .. n /\ \A i \in 1 .. n : name[i] \in StoredCharacters
  OBVIOUS
<1>2. ASSUME NEW i \in 1 .. n PROVE Capitalized(name, i) \in Seq(Characters)
  <2>1. name[i] # Hyphen => ToLower(name[i]) \in Characters /\ ToUpper(name[i]) \in Characters
    BY <1>1, CasesOfCharacters DEF StoredCharacters
  <2> QED
    BY <2>1 DEF Capitalized, Cased
<1>3. parts \in [1 .. n -> Seq(Characters)]
  BY <1>2
<1>4. ~LooksPascal(name)
  BY <1>1, HyphenIsNoCapital DEF LooksPascal, StoredCharacters
<1>5. KebabToPascal(name) = FlattenSeq(parts)
  BY <1>1, <1>4 DEF KebabToPascal, Capitalized, Cased
<1> HIDE DEF parts
<1>6. PICK q \in [0 .. n -> Seq(Characters)] : AreJoined(q, parts, n)
  BY <1>1, <1>3, PartsCanBeJoined
<1>7. FlattenSeq(parts) = q[n]
  BY <1>1, <1>3, <1>6, FlatIsJoined
<1> QED
  BY <1>5, <1>6, <1>7 DEF parts

\* What is read of the stored characters of name[k] is name[k].
LEMMA CharacterComesBack ==
  ASSUME NEW name \in Seq(Characters), MadeOfWords(name), NEW k \in 1 .. Len(name),
         NEW kebab \in Seq(StoredCharacters), NEW l \in Nat,
         k = 1 <=> l = 0,
         l > 0 => kebab[l] # Hyphen,
         l + Len(Separated(name, k)) <= Len(kebab),
         \A i \in 1 .. Len(Separated(name, k)) : kebab[l + i] = Separated(name, k)[i],
         NEW r \in [0 .. Len(kebab) -> Seq(Characters)],
         AreJoined(r, [i \in 1 .. Len(kebab) |-> Capitalized(kebab, i)], Len(kebab))
  PROVE  /\ r[l + Len(Separated(name, k))] = r[l] \o <<name[k]>>
         /\ kebab[l + Len(Separated(name, k))] # Hyphen
         /\ Len(Separated(name, k)) \in 1 .. 2
<1> DEFINE c == ToLower(name[k])
<1>1. /\ name[k] \in Characters /\ name[k] # Hyphen
      /\ BeginsWord(name, k) <=> k > 1 /\ IsUpper(name[k])
      /\ k = 1 => IsUpper(name[k])
  BY WordsBeginAtCapitals
<1>2. /\ c \in Characters /\ c # Hyphen
      /\ IsUpper(name[k]) => ToUpper(c) = name[k]
      /\ ~IsUpper(name[k]) => ToLower(c) = name[k]
  BY <1>1, CasesOfCharacters
<1>3. Len(kebab) \in Nat /\ k \in Nat
  OBVIOUS
<1>4. ASSUME NEW j \in 1 .. Len(kebab)
      PROVE  r[j] = r[j - 1] \o Capitalized(kebab, j) /\ r[j - 1] \in Seq(Characters)
  <2>1. j - 1 \in 0 .. Len(kebab)
    BY <1>3
  <2> QED
    BY <2>1 DEF AreJoined
<1> HIDE DEF c
<1>5. CASE BeginsWord(name, k)
  <2>1. Separated(name, k) = <<Hyphen, c>> /\ Len(Separated(name, k)) = 2
    BY <1>5 DEF Separated, c
  <2>2. l + 1 \in 1 .. Len(kebab) /\ l + 2 \in 1 .. Len(kebab) /\ l + 2 # 1
        /\ (l + 1) - 1 = l /\ (l + 2) - 1 = l + 1
    BY <1>3, <2>1
  <2>3. kebab[l + 1] = Hyphen /\ kebab[l + 2] = c
    BY <2>1
  <2>4. Capitalized(kebab, l + 1) = <<>>
    BY <2>3 DEF Capitalized
  <2>5. Capitalized(kebab, l + 2) = <<name[k]>>
    BY <1>1, <1>2, <1>5, <2>2, <2>3 DEF Capitalized, Cased
  <2>6. r[l + 1] = r[l] \o <<>> /\ r[l] \in Seq(Characters)
    BY <1>4, <2>2, <2>4
  <2>7. r[l + 1] = r[l]
    BY <2>6, ConcatEmptySeq
  <2>8. r[l + 2] = r[l + 1] \o <<name[k]>>
    BY <1>4, <2>2, <2>5
  <2> QED
    BY <1>2, <2>1, <2>3, <2>7, <2>8
<1>6. CASE ~BeginsWord(name, k)
  <2>1. Separated(name, k) = <<c>> /\ Len(Separated(name, k)) = 1
    BY <1>6 DEF Separated, c
  <2>2. l + 1 \in 1 .. Len(kebab) /\ (l + 1) - 1 = l
    BY <1>3, <2>1
  <2>3. kebab[l + 1] = c
    BY <2>1
  <2>4. Capitalized(kebab, l + 1) = <<name[k]>>
    <3>1. CASE k = 1
      BY <1>1, <1>2, <2>3, <3>1 DEF Capitalized, Cased
    <3>2. CASE k # 1
      <4>1. l + 1 # 1 /\ kebab[l] # Hyphen
        BY <3>2
      <4>2. ~IsUpper(name[k])
        BY <1>1, <1>3, <1>6, <3>2
      <4> QED
        BY <1>2, <2>2, <2>3, <4>1, <4>2 DEF Capitalized, Cased
    <3> QED
      BY <3>1, <3>2
  <2>5. r[l + 1] = r[l] \o <<name[k]>>
    BY <1>4, <2>2, <2>4
  <2> QED
    BY <1>2, <2>1, <2>3, <2>5
<1> QED
  BY <1>5, <1>6

\* A name made of words comes back from the one it is stored under by convention.
LEMMA ConventionIsUndone ==
  ASSUME NEW name \in Seq(Characters), MadeOfWords(name)
  PROVE  KebabToPascal(PascalToKebab(name)) = name
<1> DEFINE n == Len(name)
           parts == [i \in 1 .. n |-> Separated(name, i)]
<1>1. n \in Nat /\ name = [i \in 1 .. n |-> name[i]] /\ \A i \in 1 .. n : name[i] \in Characters
  OBVIOUS
<1>2. PICK q \in [0 .. n -> Seq(StoredCharacters)] :
        AreJoined(q, parts, n) /\ PascalToKebab(name) = q[n]
  BY StoredNameIsJoined
<1>3. PICK kebab \in Seq(StoredCharacters) : kebab = PascalToKebab(name) /\ kebab = q[n]
  BY <1>1, <1>2
<1>4. PICK r \in [0 .. Len(kebab) -> Seq(Characters)] :
        /\ AreJoined(r, [i \in 1 .. Len(kebab) |-> Capitalized(kebab, i)], Len(kebab))
        /\ KebabToPascal(kebab) = r[Len(kebab)]
  BY ReadNameIsJoined
<1>5. parts \in [1 .. n -> Seq(StoredCharacters)]
  BY SeparatedIsStored
<1>6. \A k \in 0 .. n : /\ q[k] \in Seq(StoredCharacters) /\ Len(q[k]) \in Nat
                        /\ Len(q[k]) <= Len(kebab)
                        /\ \A i \in 1 .. Len(q[k]) : kebab[i] = q[k][i]
  <2> SUFFICES ASSUME NEW k \in 0 .. n
               PROVE  /\ q[k] \in Seq(StoredCharacters) /\ Len(q[k]) \in Nat
                      /\ Len(q[k]) <= Len(kebab)
                      /\ \A i \in 1 .. Len(q[k]) : kebab[i] = q[k][i]
    OBVIOUS
  <2>1. q[k] \in Seq(StoredCharacters)
    BY <1>2
  <2> HIDE DEF parts
  <2>2. Len(q[k]) <= Len(q[n]) /\ \A i \in 1 .. Len(q[k]) : q[n][i] = q[k][i]
    BY ONLY <1>1, <1>2, <1>5, k \in 0 .. n, JoinedGrows, ZenonT(30)
  <2> QED
    BY <1>3, <2>1, <2>2
<1>7. \A k \in 1 .. n : q[k] = q[k - 1] \o Separated(name, k)
  BY <1>2 DEF AreJoined
<1> DEFINE FirstOf(k) == [i \in 1 .. k |-> name[i]]
           IsBack(k) == /\ r[Len(q[k])] = FirstOf(k)
                        /\ k = 0 <=> Len(q[k]) = 0
                        /\ k > 0 => kebab[Len(q[k])] # Hyphen
           Fails == {k \in 0 .. n : ~IsBack(k)}
<1>8. IsBack(0)
  <2>1. q[0] = <<>> /\ r[0] = <<>>
    BY <1>2, <1>4 DEF AreJoined
  <2>2. Len(q[0]) = 0 /\ FirstOf(0) = <<>>
    BY <2>1
  <2> QED
    BY <2>1, <2>2
<1>9. ASSUME NEW k \in 1 .. n, IsBack(k - 1) PROVE IsBack(k)
  <2>0. k - 1 \in 0 .. n /\ k \in 0 .. n
    BY <1>1
  <2>1. PICK l \in Nat : l = Len(q[k - 1])
    BY <1>6, <2>0
  <2>2. PICK part \in Seq(StoredCharacters) : part = Separated(name, k)
    BY SeparatedIsStored
  <2>3. /\ q[k] = q[k - 1] \o part /\ Len(q[k]) = l + Len(part)
        /\ \A i \in 1 .. Len(part) : q[k][l + i] = part[i]
    <3>1. q[k - 1] \in Seq(StoredCharacters) /\ q[k] = q[k - 1] \o part
      BY <1>6, <1>7, <2>0, <2>2
    <3> QED
      BY ONLY <2>1, <3>1, part \in Seq(StoredCharacters)
  <2>4. /\ l + Len(part) <= Len(kebab)
        /\ \A i \in 1 .. Len(part) : kebab[l + i] = part[i]
    <3>1. /\ Len(q[k]) <= Len(kebab)
          /\ \A i \in 1 .. Len(q[k]) : kebab[i] = q[k][i]
      BY <1>1, <1>6
    <3>2. \A i \in 1 .. Len(part) : l + i \in 1 .. Len(q[k])
      BY <2>3
    <3> QED
      BY <2>3, <3>1, <3>2
  <2>5. k = 1 <=> l = 0
    BY <1>1, <1>9, <2>1
  <2>6. l > 0 => kebab[l] # Hyphen
    BY <1>1, <1>9, <2>1
  <2>7. /\ r[l + Len(part)] = r[l] \o <<name[k]>>
        /\ kebab[l + Len(part)] # Hyphen
        /\ Len(part) \in 1 .. 2
    BY ONLY name \in Seq(Characters), MadeOfWords(name), k \in 1 .. n, <1>4, <2>2, <2>4, <2>5, <2>6,
            CharacterComesBack
  <2>8. r[l] = FirstOf(k - 1)
    BY <1>9, <2>1
  <2>9. FirstOf(k - 1) \o <<name[k]>> = FirstOf(k)
    BY <1>1
  <2>10. r[Len(q[k])] = FirstOf(k) /\ kebab[Len(q[k])] # Hyphen
    BY <2>3, <2>7, <2>8, <2>9
  <2>11. Len(q[k]) # 0 /\ k # 0
    <3>1. PICK more \in 1 .. 2 : Len(q[k]) = l + more
      BY <2>3, <2>7
    <3>2. l + more # 0
      BY ONLY l \in Nat, more \in 1 .. 2
    <3>3. k # 0
      BY ONLY k \in 1 .. n
    <3> QED
      BY <3>1, <3>2, <3>3
  <2> QED
    BY <2>10, <2>11
<1>10. CASE Fails = {}
  <2>1. n \in 0 .. n /\ FirstOf(n) = name
    BY <1>1
  <2>2. IsBack(n)
    BY <1>10, <2>1
  <2> QED
    BY <1>3, <1>4, <2>1, <2>2
<1>11. CASE Fails # {}
  <2> HIDE DEF IsBack
  <2>1. PICK k \in Fails : \A j \in Fails : k <= j
    BY <1>1, <1>11, LeastNumber
  <2>2. k \in 1 .. n
    BY <1>8, <2>1
  <2>3. k - 1 \in 0 .. n /\ k - 1 \notin Fails
    <3>1. k - 1 \in 0 .. n /\ ~(k <= k - 1)
      BY ONLY <1>1, <2>2
    <3> HIDE DEF Fails
    <3> QED
      BY <2>1, <3>1
  <2> QED
    BY <1>9, <2>1, <2>2, <2>3
<1> QED
  BY <1>10, <1>11

----------------------------------------------------------------------------
(* The invariant *)

\* The name a type is mapped to is mapped back, to this type or to another one.
MappedBothWays ==
  \A typeName \in DOMAIN typeToSymbolic : typeToSymbolic[typeName] \in DOMAIN symbolicToType

HasAdapters(provider) ==
  \A class \in Classes \cap DOMAIN provider : provider[class] \in {Restoring} \cup Own[class]

\* Providers hold adapters of the classes they are registered for, ...
ProvidersFit ==
  /\ HasAdapters(global)
  /\ \A context \in DOMAIN profiles : HasAdapters(profiles[context])

\* ... and entries were written for a class, in a version.
EntriesAreVersioned ==
  \A entry \in stored : entry.class \in Classes /\ entry.typeVersion \in Nat \ {0}

AdaptersInv == MappedBothWays /\ ProvidersFit /\ EntriesAreVersioned

LEMMA WithHasAdapters ==
  ASSUME NEW provider, HasAdapters(provider), NEW class \in Classes,
         NEW adapter \in {Restoring} \cup Own[class]
  PROVE  HasAdapters(With(provider, class, adapter))
<1> SUFFICES ASSUME NEW c \in Classes, c \in DOMAIN With(provider, class, adapter)
             PROVE  With(provider, class, adapter)[c] \in {Restoring} \cup Own[c]
  BY DEF HasAdapters
<1>1. CASE c = class
  BY <1>1 DEF With
<1>2. CASE c # class
  BY <1>2 DEF With, HasAdapters
<1> QED
  BY <1>1, <1>2

LEMMA NothingHasAdapters == HasAdapters(<<>>)
BY DEF HasAdapters

LEMMA InitiallyNoAdapter == AdaptersInit => AdaptersInv
BY NothingHasAdapters
   DEF AdaptersInit, MapperInit, AdaptersInv, MappedBothWays, ProvidersFit, EntriesAreVersioned

LEMMA OwnVersions ==
  ASSUME NEW class \in Classes
  PROVE  Own[class] \subseteq Nat \ {0}
BY SchemasAssumption

LEMMA MappingKeeps ==
  ASSUME MappedBothWays, NEW typeName, NEW symbolicName, Mapping(typeName, symbolicName)
  PROVE  MappedBothWays'
<1> SUFFICES ASSUME NEW t \in DOMAIN typeToSymbolic'
             PROVE  typeToSymbolic'[t] \in DOMAIN symbolicToType'
  BY DEF MappedBothWays
<1>1. DOMAIN symbolicToType' = DOMAIN symbolicToType \cup {symbolicName}
  BY DEF Mapping, With
<1>2. CASE t = typeName
  BY <1>1, <1>2 DEF With, Mapping
<1>3. CASE t # typeName
  BY <1>1, <1>3 DEF With, Mapping, MappedBothWays
<1> QED
  BY <1>2, <1>3

LEMMA RegisterKeeps ==
  ASSUME ProvidersFit, NEW context, NEW class \in Classes,
         NEW adapter \in {Restoring} \cup Own[class], Register(context, class, adapter)
  PROVE  ProvidersFit'
<1>1. HasAdapters(Profile(context))
  BY NothingHasAdapters DEF Profile, ProvidersFit
<1>2. HasAdapters(With(Profile(context), class, adapter))
  BY <1>1, WithHasAdapters
<1>3. global' = global /\ profiles' = With(profiles, context, With(Profile(context), class, adapter))
  BY DEF Register
<1>4. HasAdapters(global)'
  BY <1>3 DEF ProvidersFit, HasAdapters
<1>5. ASSUME NEW c \in DOMAIN profiles' PROVE HasAdapters(profiles'[c])
  <2>1. CASE c = context
    BY <1>2, <1>3, <2>1 DEF With
  <2>2. CASE c # context
    BY <1>3, <2>2 DEF With, ProvidersFit
  <2> QED
    BY <2>1, <2>2
<1> QED
  BY <1>4, <1>5 DEF ProvidersFit, HasAdapters

LEMMA AppendKeeps ==
  ASSUME EntriesAreVersioned, NEW class \in Classes, AppendSource(class)
  PROVE  EntriesAreVersioned'
<1>1. AsEntry(class).class = class /\ AsEntry(class).typeVersion \in Nat \ {0}
  BY OwnVersions DEF AsEntry, SourceTypeVersion
<1> QED
  BY <1>1 DEF AppendSource, EntriesAreVersioned

LEMMA AdaptersStep == AdaptersInv /\ [AdaptersNext]_adapterVars => AdaptersInv'
<1> SUFFICES ASSUME AdaptersInv, [AdaptersNext]_adapterVars PROVE AdaptersInv'
  OBVIOUS
<1> USE DEF AdaptersInv
<1>1. UNCHANGED mapperVars => MappedBothWays'
  BY DEF mapperVars, MappedBothWays
<1>2. UNCHANGED <<global, profiles>> => ProvidersFit'
  BY DEF ProvidersFit, HasAdapters
<1>3. UNCHANGED stored => EntriesAreVersioned'
  BY DEF EntriesAreVersioned
<1>4. CASE UNCHANGED adapterVars
  BY <1>1, <1>2, <1>3, <1>4 DEF adapterVars, providerVars
<1>5. CASE MapperNext /\ UNCHANGED <<providerVars, stored>>
  <2>1. CASE ResetMapper
    BY <1>2, <1>3, <1>5, <2>1 DEF ResetMapper, MappedBothWays, providerVars
  <2>2. ASSUME NEW pair \in Mappable, Mapping(pair[1], pair[2])
        PROVE  AdaptersInv'
    BY <1>2, <1>3, <1>5, <2>2, MappingKeeps DEF providerVars
  <2> QED
    BY <1>5, <2>1, <2>2 DEF MapperNext
<1>6. ASSUME NEW class \in Classes, NEW version \in Own[class], RegisterAdapter(class, version)
      PROVE  AdaptersInv'
  <2>1. HasAdapters(With(global, class, version))
    BY WithHasAdapters DEF ProvidersFit
  <2>2. ProvidersFit'
    BY <1>6, <2>1 DEF RegisterAdapter, ProvidersFit, HasAdapters
  <2> QED
    BY <1>1, <1>3, <1>6, <2>2 DEF RegisterAdapter
<1>7. ASSUME NEW class \in Classes, NEW context \in Contexts,
             NEW adapter \in {Restoring} \cup Own[class], Register(context, class, adapter)
      PROVE  AdaptersInv'
  <2>1. ProvidersFit'
    BY <1>7, RegisterKeeps
  <2> QED
    BY <1>1, <1>3, <1>7, <2>1 DEF Register
<1>8. ASSUME NEW class \in Classes, AppendSource(class)
      PROVE  AdaptersInv'
  BY <1>1, <1>2, <1>8, AppendKeeps DEF AppendSource, providerVars
<1>9. CASE ResetProvider
  BY <1>1, <1>3, <1>9, NothingHasAdapters DEF ResetProvider, ProvidersFit, HasAdapters
<1>10. CASE ResetProfiles
  BY <1>1, <1>3, <1>10 DEF ResetProfiles, ProvidersFit, HasAdapters
<1> QED
  BY <1>4, <1>5, <1>6, <1>7, <1>8, <1>9, <1>10 DEF AdaptersNext

\* What is mapped leads both ways, providers hold adapters of the classes they
\* are registered for, and entries were written for a class in a version
\* (EntryAdapterProvider.ts).
THEOREM AdaptersInvariant == AdaptersSpec => []AdaptersInv
BY InitiallyNoAdapter, AdaptersStep, PTL DEF AdaptersSpec

----------------------------------------------------------------------------
(* What follows *)

LEMMA NamesAreFound == MappedBothWays => NamesComeBack
<1> SUFFICES ASSUME MappedBothWays, NEW t \in TypeNames,
                    t \in DOMAIN typeToSymbolic \/ MadeOfWords(t), Unclaimed(t)
             PROVE  ToTypeName(ToSymbolicName(t)) = t
  BY DEF NamesComeBack
<1>1. CASE ToSymbolicName(t) \in DOMAIN symbolicToType
  BY <1>1 DEF Unclaimed, ToTypeName
<1>2. CASE ToSymbolicName(t) \notin DOMAIN symbolicToType
  <2>1. t \notin DOMAIN typeToSymbolic
    BY <1>2 DEF ToSymbolicName, MappedBothWays
  <2>2. KebabToPascal(PascalToKebab(t)) = t
    BY <2>1, NamesAssumption, ConventionIsUndone
  <2> QED
    BY <1>2, <2>1, <2>2 DEF ToSymbolicName, ToTypeName
<1> QED
  BY <1>1, <1>2

\* A type that is mapped, or whose name is made of words, comes back from the
\* name it is stored under unless that was claimed for another type
\* (toSymbolicName and toTypeName, StoreTypeMapper.ts).
THEOREM NamesAlwaysComeBack == AdaptersSpec => []NamesComeBack
<1>1. AdaptersInv => NamesComeBack
  BY NamesAreFound DEF AdaptersInv
<1> QED
  BY <1>1, AdaptersInvariant, PTL

LEMMA LeadsBackToItsClass ==
  ASSUME NEW entry, entry.class \in Classes, LeadsBack(entry)
  PROVE  ToTypeName(entry.type) = entry.class
<1>1. entry.class \in TypeNames /\ entry.class \in Seq(Characters)
  BY ClassesAssumption, NamesAssumption
<1>2. CASE entry.type \in DOMAIN symbolicToType
  BY <1>2 DEF LeadsBack, ToTypeName
<1>3. CASE entry.type \notin DOMAIN symbolicToType
  <2>1. ToTypeName(entry.type) = KebabToPascal(entry.type)
    BY <1>3 DEF ToTypeName
  <2>2. CASE entry.type = entry.class /\ LooksPascal(entry.class)
    BY <2>1, <2>2 DEF KebabToPascal
  <2>3. CASE entry.type = PascalToKebab(entry.class) /\ MadeOfWords(entry.class)
    BY <1>1, <2>1, <2>3, ConventionIsUndone
  <2> QED
    BY <1>3, <2>2, <2>3 DEF LeadsBack
<1> QED
  BY <1>2, <1>3

LEMMA SourcesAreRead == AdaptersInv => SourcesComeBack
<1> SUFFICES ASSUME AdaptersInv, NEW entry \in stored, NEW context \in Contexts,
                    LeadsBack(entry), Reads(AdapterFor(Provider(context), entry.class), entry)
             PROVE  LET adapter == AdapterFor(Provider(context), entry.class)
                        source == AsSource(context, entry)
                    IN  /\ source.class = entry.class
                        /\ adapter = Restoring \/ Labelled(entry) => source.fields = entry.fields
  BY DEF SourcesComeBack
<1>1. PICK class \in Classes : class = entry.class /\ entry.typeVersion \in Nat \ {0}
  BY DEF AdaptersInv, EntriesAreVersioned
<1>2. PICK adapter : adapter = AdapterFor(Provider(context), class)
  OBVIOUS
<1>3. ToTypeName(entry.type) = class
  BY <1>1, LeadsBackToItsClass
<1>4. adapter = Default \/ adapter \in {Restoring} \cup Own[class]
  BY <1>2 DEF AdapterFor, Provider, AdaptersInv, ProvidersFit, HasAdapters
<1>5. adapter = Restoring \/ adapter >= entry.typeVersion
  BY <1>1, <1>2 DEF Reads
<1>6. CASE adapter = Restoring
  BY <1>1, <1>2, <1>3, <1>6 DEF AsSource, Restoring, Default
<1>7. CASE adapter # Restoring
  <2>1. adapter # Default /\ ~(entry.typeVersion > adapter)
    BY <1>1, <1>4, <1>5, <1>7, OwnVersions DEF Default
  <2>2. AsSource(context, entry)
          = [class |-> class, fields |-> entry.fields \cap Schemas[class][entry.typeVersion]]
    BY <1>1, <1>2, <1>3, <1>7, <2>1 DEF AsSource, UpcastIfNeeded
  <2>3. Labelled(entry) => entry.fields \cap Schemas[class][entry.typeVersion] = entry.fields
    BY <1>1 DEF Labelled
  <2> QED
    BY <1>1, <1>2, <1>7, <2>2, <2>3
<1> QED
  BY <1>6, <1>7

\* An entry whose name leads back to its class is read as an object of that class
\* by every adapter that is not older than it, with the fields that were written
\* if they are those of the version it states (asSource, EntryAdapterProvider.ts).
THEOREM SourcesAlwaysComeBack == AdaptersSpec => []SourcesComeBack
BY AdaptersInvariant, SourcesAreRead, PTL

LEMMA StepsAreIndependent ==
  ASSUME [AdaptersNext]_adapterVars, NEW context, NEW other, other # context,
         RegistersIn(context), NEW entry
  PROVE  AsSource(other, entry)' = AsSource(other, entry)
<1>1. SUFFICES UNCHANGED <<symbolicToType, Provider(other)>>
  BY DEF AsSource, ToTypeName
<1>2. PICK c \in Contexts, class \in Classes :
        \E adapter \in {Restoring} \cup Own[class] : Register(c, class, adapter)
  BY DEF AdaptersNext, RegistersIn, adapterVars, providerVars, RegisterAdapter, AppendSource,
         ResetProvider, ResetProfiles
<1>3. PICK adapter \in {Restoring} \cup Own[class] : Register(c, class, adapter)
  BY <1>2
<1>4. /\ profiles' = With(profiles, c, With(Profile(c), class, adapter))
      /\ UNCHANGED <<global, mapperVars>>
  BY <1>3 DEF Register
<1>5. c = context
  BY <1>4 DEF With, RegistersIn
<1>6. /\ other \in DOMAIN profiles' <=> other \in DOMAIN profiles
      /\ other \in DOMAIN profiles => profiles'[other] = profiles[other]
  BY <1>4, <1>5 DEF With
<1> QED
  BY <1>4, <1>6 DEF Provider, mapperVars

\* What is registered in one context changes nothing that another one reads
\* (forContext and register, ContextProfile.ts).
THEOREM ContextsStayIndependent == AdaptersSpec => ContextsAreIndependent
<1> DEFINE Independent ==
      \A context, other \in Contexts :
        RegistersIn(context) /\ other # context =>
          \A entry \in stored : AsSource(other, entry)' = AsSource(other, entry)
<1>1. [AdaptersNext]_adapterVars => [Independent]_adapterVars
  BY StepsAreIndependent
<1> QED
  BY <1>1, PTL DEF AdaptersSpec, ContextsAreIndependent
=============================================================================
