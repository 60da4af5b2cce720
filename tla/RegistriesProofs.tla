-------------------------- MODULE RegistriesProofs --------------------------
(***************************************************************************)
(* Proofs about what is registered by name and looked up: the adapters of  *)
(* states (module StateAdapters) and the descriptions of projections       *)
(* (MatchableProjections, PatternMatching).                                *)
(***************************************************************************)
EXTENDS StateAdapters, MatchableProjections, Ranking, SequenceTheorems, TLAPS

----------------------------------------------------------------------------
(* What wildcards stand for *)

\* The places in the reason from which on it matches what follows the first i
\* characters of the pattern, given those for one character more.
EndsHere(further, pattern, reason, i) ==
  IF i = Len(pattern) THEN {Len(reason)}
  ELSE IF pattern[i + 1] = Star
       THEN {j \in 0 .. Len(reason) : \E l \in further : j <= l}
       ELSE {j \in 0 .. Len(reason) - 1 : reason[j + 1] = pattern[i + 1] /\ j + 1 \in further}

AreEnds(ends, pattern, reason) ==
  ends = [i \in 0 .. Len(pattern) |-> EndsHere(ends[i + 1], pattern, reason, i)]

\* The last place before a star at the end.
Final(pattern) == IF EndsWithStar(pattern) THEN Len(pattern) - 1 ELSE Len(pattern)

\* Up to there, what follows place i of the pattern stands in the reason behind j.
Stands(pattern, reason, i, j) ==
  /\ j + (Final(pattern) - i) <= Len(reason)
  /\ \A k \in 1 .. Final(pattern) - i : reason[j + k] = pattern[i + k]

\* What is left of a pattern matches what is left of the reason, if no star in
\* front is left, ...
Remains(pattern, reason, i, j) ==
  IF i = Len(pattern) THEN j = Len(reason)
  ELSE /\ Stands(pattern, reason, i, j)
       /\ EndsWithStar(pattern) \/ j + (Final(pattern) - i) = Len(reason)

\* ... and if one is.
Fits(pattern, reason, i, j) ==
  IF i = 0 /\ StartsWithStar(pattern)
  THEN \E l \in j .. Len(reason) : Remains(pattern, reason, 1, l)
  ELSE Remains(pattern, reason, i, j)

FittingEnds(pattern, reason, i) == {j \in 0 .. Len(reason) : Fits(pattern, reason, i, j)}

\* A character that is no star stands first, and what follows it behind.
LEMMA StandsOneFurther ==
  ASSUME NEW S, NEW pattern \in Seq(S), NEW reason \in Seq(S),
         NEW i \in Nat, NEW j \in Nat, i < Final(pattern), Final(pattern) \in Nat
  PROVE  Stands(pattern, reason, i, j)
           <=> j < Len(reason) /\ reason[j + 1] = pattern[i + 1] /\ Stands(pattern, reason, i + 1, j + 1)
<1>1. PICK f \in Nat : f = Final(pattern)
  OBVIOUS
<1>2. PICK m \in Nat : m = Len(reason)
  OBVIOUS
<1>3. /\ (j + 1) + (f - (i + 1)) = j + (f - i) /\ 1 \in 1 .. f - i /\ j + (f - i) >= j + 1
      /\ f - (i + 1) = f - i - 1
  BY <1>1
<1>4. ASSUME Stands(pattern, reason, i, j)
      PROVE  j < m /\ reason[j + 1] = pattern[i + 1] /\ Stands(pattern, reason, i + 1, j + 1)
  <2>1. j + (f - i) <= m /\ \A k \in 1 .. f - i : reason[j + k] = pattern[i + k]
    BY <1>1, <1>2, <1>4 DEF Stands
  <2>2. j < m
    BY <1>1, <1>3, <2>1
  <2>3. ASSUME NEW k \in 1 .. f - (i + 1) PROVE reason[(j + 1) + k] = pattern[(i + 1) + k]
    <3>1. k + 1 \in 1 .. f - i /\ j + (k + 1) = (j + 1) + k /\ i + (k + 1) = (i + 1) + k
      BY <1>1
    <3> QED
      BY <2>1, <3>1
  <2> QED
    BY <1>1, <1>2, <1>3, <2>1, <2>2, <2>3 DEF Stands
<1>5. ASSUME j < m, reason[j + 1] = pattern[i + 1], Stands(pattern, reason, i + 1, j + 1)
      PROVE  Stands(pattern, reason, i, j)
  <2>1. /\ (j + 1) + (f - (i + 1)) <= m
        /\ \A k \in 1 .. f - (i + 1) : reason[(j + 1) + k] = pattern[(i + 1) + k]
    BY <1>1, <1>2, <1>5 DEF Stands
  <2>2. ASSUME NEW k \in 1 .. f - i PROVE reason[j + k] = pattern[i + k]
    <3>1. CASE k = 1
      BY <1>5, <3>1
    <3>2. CASE k # 1
      <4>1. k - 1 \in 1 .. f - (i + 1) /\ (j + 1) + (k - 1) = j + k /\ (i + 1) + (k - 1) = i + k
        BY <1>1, <3>2
      <4> QED
        BY <2>1, <4>1
    <3> QED
      BY <3>1, <3>2
  <2> QED
    BY <1>1, <1>2, <1>3, <2>1, <2>2 DEF Stands
<1> QED
  BY <1>2, <1>4, <1>5

LEMMA FittingEndsAreEnds ==
  ASSUME NEW S, NEW pattern \in Seq(S), NEW reason \in Seq(S), DocumentedForm(pattern),
         NEW i \in 0 .. Len(pattern)
  PROVE  FittingEnds(pattern, reason, i)
           = EndsHere(FittingEnds(pattern, reason, i + 1), pattern, reason, i)
<1>1. PICK n \in Nat : n = Len(pattern)
  OBVIOUS
<1>2. PICK m \in Nat : m = Len(reason)
  OBVIOUS
<1>3. /\ DOMAIN pattern = 1 .. n
      /\ \A a \in 1 .. n : pattern[a] = Star => a = 1 \/ a = n
  BY <1>1 DEF DocumentedForm
<1> DEFINE next == FittingEnds(pattern, reason, i + 1)
<1>4. CASE i = n
  <2>1. i = 0 => ~StartsWithStar(pattern)
    <3>1. Len(pattern) = 0 => pattern = <<>>
      BY ONLY pattern \in Seq(S), EmptySeq
    <3> QED
      BY <1>1, <1>4, <3>1 DEF StartsWithStar
  <2>2. \A j \in 0 .. m : Fits(pattern, reason, i, j) <=> j = m
    BY <1>1, <1>2, <1>4, <2>1 DEF Fits, Remains
  <2>3. FittingEnds(pattern, reason, i) = {m}
    BY <1>2, <2>2 DEF FittingEnds
  <2> QED
    BY <1>1, <1>2, <1>4, <2>3 DEF EndsHere
<1>5. CASE i # n /\ pattern[i + 1] = Star /\ i = 0
  <2>1. StartsWithStar(pattern) /\ i + 1 = 1
    BY <1>1, <1>5 DEF StartsWithStar
  <2>2. \A j \in 0 .. m : Fits(pattern, reason, i, j)
          <=> \E l \in 0 .. m : j <= l /\ Remains(pattern, reason, 1, l)
    BY <1>2, <1>5, <2>1 DEF Fits
  <2>3. \A l \in 0 .. m : l \in next <=> Remains(pattern, reason, 1, l)
    BY <1>2, <2>1 DEF FittingEnds, Fits
  <2>4. next \subseteq 0 .. m
    BY <1>2 DEF FittingEnds
  <2> HIDE DEF next
  <2>5. \A j \in 0 .. m : Fits(pattern, reason, i, j) <=> \E l \in next : j <= l
    BY <2>2, <2>3, <2>4
  <2>6. FittingEnds(pattern, reason, i) = {j \in 0 .. m : \E l \in next : j <= l}
    BY <1>2, <2>5 DEF FittingEnds
  <2>7. EndsHere(next, pattern, reason, i) = {j \in 0 .. m : \E l \in next : j <= l}
    BY <1>1, <1>2, <1>5 DEF EndsHere
  <2> QED
    BY <2>6, <2>7 DEF next
<1>6. CASE i # n /\ pattern[i + 1] = Star /\ i # 0
  <2>1. i + 1 = n /\ EndsWithStar(pattern) /\ Final(pattern) = i
    BY <1>1, <1>3, <1>6 DEF EndsWithStar, Final
  <2>2. \A j \in 0 .. m : Fits(pattern, reason, i, j)
    BY <1>1, <1>2, <1>6, <2>1 DEF Fits, Remains, Stands
  <2>3. m \in next
    BY <1>1, <1>2, <2>1 DEF FittingEnds, Fits, Remains
  <2> HIDE DEF next
  <2>4. EndsHere(next, pattern, reason, i) = {j \in 0 .. m : \E l \in next : j <= l}
    BY <1>1, <1>2, <1>6 DEF EndsHere
  <2>5. FittingEnds(pattern, reason, i) = 0 .. m
    BY <1>2, <2>2 DEF FittingEnds
  <2>6. \A j \in 0 .. m : \E l \in next : j <= l
    BY <2>3
  <2>7. {j \in 0 .. m : \E l \in next : j <= l} = 0 .. m
    BY <2>6
  <2> QED
    BY <2>4, <2>5, <2>7 DEF next
<1>7. CASE i # n /\ pattern[i + 1] # Star
  <2>1. i \in 0 .. n - 1 /\ i + 1 \in 1 .. n /\ i + 1 \in Nat /\ i \in Nat
    BY <1>1, <1>7
  <2>2. ~(i = 0 /\ StartsWithStar(pattern))
    BY <1>7 DEF StartsWithStar
  <2>3. PICK f \in Nat : f = Final(pattern)
    <3>1. n - 1 \in Nat /\ Final(pattern) \in {n - 1, n}
      BY <1>1, <2>1 DEF Final
    <3> QED
      BY ONLY <3>1, n \in Nat
  <2>4. /\ i < f /\ f <= n
        /\ IF EndsWithStar(pattern) THEN f = n - 1 ELSE f = n
    BY <1>1, <1>7, <2>1, <2>3 DEF Final, EndsWithStar
  <2>5. \A j \in 0 .. m : Fits(pattern, reason, i, j)
          <=> /\ Stands(pattern, reason, i, j)
              /\ EndsWithStar(pattern) \/ j + (f - i) = m
    BY <1>1, <1>2, <1>7, <2>2, <2>3 DEF Fits, Remains
  <2>6. \A j \in 0 .. m : Fits(pattern, reason, i + 1, j)
          <=> /\ Stands(pattern, reason, i + 1, j)
              /\ EndsWithStar(pattern) \/ j + (f - (i + 1)) = m
    <3> TAKE j \in 0 .. m
    <3>1. i + 1 # 0
      BY <2>1
    <3>2. Fits(pattern, reason, i + 1, j) <=> Remains(pattern, reason, i + 1, j)
      BY <3>1 DEF Fits
    <3>3. CASE i + 1 = n
      <4>1. f = n /\ ~EndsWithStar(pattern) /\ f - (i + 1) = 0
        BY <2>1, <2>4, <3>3
      <4>2. Stands(pattern, reason, i + 1, j)
        BY <1>2, <2>3, <4>1 DEF Stands
      <4>3. Remains(pattern, reason, i + 1, j) <=> j = m
        BY <1>1, <1>2, <3>3 DEF Remains
      <4> QED
        BY <3>2, <4>1, <4>2, <4>3
    <3>4. CASE i + 1 # n
      BY <1>1, <1>2, <2>3, <3>2, <3>4 DEF Remains
    <3> QED
      BY <3>3, <3>4
  <2>7. \A j \in 0 .. m : Fits(pattern, reason, i, j)
          <=> j < m /\ reason[j + 1] = pattern[i + 1] /\ Fits(pattern, reason, i + 1, j + 1)
    <3> TAKE j \in 0 .. m
    <3>1. Stands(pattern, reason, i, j)
            <=> j < m /\ reason[j + 1] = pattern[i + 1] /\ Stands(pattern, reason, i + 1, j + 1)
      BY <1>2, <2>1, <2>3, <2>4, StandsOneFurther
    <3>2. CASE j < m
      <4>1. j + 1 \in 0 .. m /\ (j + 1) + (f - (i + 1)) = j + (f - i)
        BY <2>1, <3>2
      <4> QED
        BY <2>5, <2>6, <3>1, <3>2, <4>1
    <3>3. CASE ~(j < m)
      BY <2>5, <3>1, <3>3
    <3> QED
      BY <3>2, <3>3
  <2>8. \A j \in 0 .. m - 1 : j \in 0 .. m /\ j + 1 \in 0 .. m /\ j < m
    BY <1>2
  <2>9. \A j \in 0 .. m - 1 : j + 1 \in next <=> Fits(pattern, reason, i + 1, j + 1)
    BY <1>2, <2>8 DEF FittingEnds
  <2> HIDE DEF next
  <2>10. EndsHere(next, pattern, reason, i)
           = {j \in 0 .. m - 1 : reason[j + 1] = pattern[i + 1] /\ j + 1 \in next}
    BY <1>1, <1>2, <1>7 DEF EndsHere
  <2>11. \A j : j \in FittingEnds(pattern, reason, i)
           <=> j \in 0 .. m - 1 /\ reason[j + 1] = pattern[i + 1] /\ j + 1 \in next
    <3> TAKE j
    <3>1. j \in FittingEnds(pattern, reason, i) <=> j \in 0 .. m /\ Fits(pattern, reason, i, j)
      BY <1>2 DEF FittingEnds
    <3>2. j \in 0 .. m /\ j < m <=> j \in 0 .. m - 1
      BY <1>2
    <3> QED
      BY <2>7, <2>9, <3>1, <3>2
  <2> QED
    BY <2>10, <2>11 DEF next
<1> QED
  BY <1>4, <1>5, <1>6, <1>7


\* The fitting places satisfy the equation of the reference, nothing else does.
LEMMA TheEndsAreFitting ==
  ASSUME NEW S, NEW pattern \in Seq(S), NEW reason \in Seq(S), DocumentedForm(pattern)
  PROVE  LET fitting == [i \in 0 .. Len(pattern) |-> FittingEnds(pattern, reason, i)]
         IN  /\ AreEnds(fitting, pattern, reason)
             /\ \A ends : AreEnds(ends, pattern, reason) => ends = fitting
<1>1. PICK n \in Nat : n = Len(pattern)
  OBVIOUS
<1> DEFINE fitting == [i \in 0 .. n |-> FittingEnds(pattern, reason, i)]
<1>2. \A i \in 0 .. n : FittingEnds(pattern, reason, i)
                          = EndsHere(FittingEnds(pattern, reason, i + 1), pattern, reason, i)
  BY <1>1, FittingEndsAreEnds
<1>3. \A far, near : EndsHere(far, pattern, reason, n) = EndsHere(near, pattern, reason, n)
  BY <1>1 DEF EndsHere
<1>4. \A i \in 0 .. n : fitting[i] = EndsHere(fitting[i + 1], pattern, reason, i)
  <2> TAKE i \in 0 .. n
  <2>1. CASE i = n
    BY <1>2, <1>3, <2>1
  <2>2. CASE i # n
    <3>1. i + 1 \in 0 .. n
      BY <2>2
    <3> QED
      BY <1>2, <3>1
  <2> QED
    BY <2>1, <2>2
<1>5. AreEnds(fitting, pattern, reason)
  <2>1. fitting = [i \in 0 .. n |-> fitting[i]]
    OBVIOUS
  <2>2. [i \in 0 .. n |-> fitting[i]]
          = [i \in 0 .. n |-> EndsHere(fitting[i + 1], pattern, reason, i)]
    <3> HIDE DEF fitting
    <3> QED
      BY <1>4
  <2> HIDE DEF fitting
  <2> QED
    BY <1>1, <2>1, <2>2 DEF AreEnds
<1>6. ASSUME NEW ends, AreEnds(ends, pattern, reason)
      PROVE  ends = fitting
  <2>1. ends = [i \in 0 .. n |-> EndsHere(ends[i + 1], pattern, reason, i)]
    BY <1>1, <1>6 DEF AreEnds
  <2>2. \A i \in 0 .. n : ends[i] = EndsHere(ends[i + 1], pattern, reason, i)
    BY <2>1
  <2> DEFINE Wrong == {k \in 0 .. n : ends[n - k] # fitting[n - k]}
  <2> HIDE DEF fitting
  <2>3. Wrong = {}
    <3>1. SUFFICES ASSUME Wrong # {} PROVE FALSE
      OBVIOUS
    <3>2. PICK k \in Wrong : \A l \in Wrong : k <= l
      <4> HIDE DEF Wrong
      <4>1. Wrong \in SUBSET (0 .. n)
        BY DEF Wrong
      <4> QED
        BY <3>1, <4>1, LeastNumber
    <3>3. k \in 0 .. n /\ n - k \in 0 .. n /\ (n - k) + 1 = n - (k - 1)
      OBVIOUS
    <3>4. CASE k = 0
      <4>1. ends[n] = EndsHere(ends[n + 1], pattern, reason, n) /\ n - k = n
        BY <2>2, <3>4
      <4>2. fitting[n] = EndsHere(fitting[n + 1], pattern, reason, n)
        BY <1>4
      <4> QED
        BY <1>3, <3>2, <4>1, <4>2
    <3>5. CASE k # 0
      <4>1. k - 1 \in 0 .. n /\ ~(k <= k - 1)
        BY <3>3, <3>5
      <4>2. ends[n - (k - 1)] = fitting[n - (k - 1)]
        BY <3>2, <4>1
      <4>3. ends[n - k] = fitting[n - k]
        BY <1>4, <2>2, <3>3, <4>2
      <4> QED
        BY <3>2, <4>3
    <3> QED
      BY <3>4, <3>5
  <2>4. \A i \in 0 .. n : ends[i] = fitting[i]
    <3> TAKE i \in 0 .. n
    <3>1. n - i \in 0 .. n /\ n - (n - i) = i
      OBVIOUS
    <3>2. n - i \notin Wrong
      BY <2>3
    <3> QED
      BY <3>1, <3>2
  <2>5. DOMAIN ends = 0 .. n
    BY ONLY <2>1
  <2>6. fitting = [i \in 0 .. n |-> fitting[i]]
    BY DEF fitting
  <2>7. ends = [i \in 0 .. n |-> ends[i]]
    BY ONLY <2>1
  <2> QED
    BY <2>4, <2>6, <2>7
<1> QED
  BY <1>1, <1>5, <1>6

LEMMA StandsForFits ==
  ASSUME NEW S, NEW pattern \in Seq(S), NEW reason \in Seq(S), DocumentedForm(pattern)
  PROVE  StandsFor(pattern, reason) <=> Fits(pattern, reason, 0, 0)
<1> DEFINE fitting == [i \in 0 .. Len(pattern) |-> FittingEnds(pattern, reason, i)]
           theEnds == CHOOSE ends : AreEnds(ends, pattern, reason)
<1>1. theEnds = fitting
  BY TheEndsAreFitting
<1>2. StandsFor(pattern, reason) <=> 0 \in theEnds[0]
  BY DEF StandsFor, AreEnds, EndsHere
<1>3. theEnds[0] = FittingEnds(pattern, reason, 0)
  BY <1>1
<1>4. 0 \in 0 .. Len(reason)
  OBVIOUS
<1> QED
  BY <1>2, <1>3, <1>4 DEF FittingEnds


\* A part of a sequence, character by character.
LEMMA PartIs ==
  ASSUME NEW S, NEW s \in Seq(S), NEW a \in Nat, NEW len \in Nat, a + len <= Len(s)
  PROVE  LET part == SubSeq(s, a + 1, a + len)
         IN  /\ part \in Seq(S)
             /\ Len(part) = len
             /\ \A k \in 1 .. len : part[k] = s[a + k]
<1> DEFINE part == SubSeq(s, a + 1, a + len)
<1>1. PICK n \in Nat : n = Len(s)
  OBVIOUS
<1>2. \A i \in a + 1 .. a + len : i \in 1 .. n
  BY <1>1
<1>3. \A i \in a + 1 .. a + len : s[i] \in S
  BY <1>1, <1>2, ElementOfSeq
<1>4. a + 1 \in Int /\ a + len \in Int
  OBVIOUS
<1>5. /\ part \in Seq(S)
      /\ Len(part) = IF a + 1 <= a + len THEN a + len - (a + 1) + 1 ELSE 0
      /\ \A i \in 1 .. a + len - (a + 1) + 1 : part[i] = s[a + 1 + i - 1]
  BY <1>3, <1>4, SubSeqProperties
<1>6. a + len - (a + 1) + 1 = len /\ (a + 1 <= a + len <=> len # 0)
  OBVIOUS
<1>7. \A k \in 1 .. len : a + 1 + k - 1 = a + k
  OBVIOUS
<1> QED
  BY <1>5, <1>6, <1>7

\* The characters behind place a of one sequence stand behind place b of another.
Agree(s, a, t, b, len) == \A k \in 1 .. len : t[b + k] = s[a + k]

LEMMA PartsAreEqual ==
  ASSUME NEW S, NEW s \in Seq(S), NEW t \in Seq(S), NEW a \in Nat, NEW b \in Nat, NEW len \in Nat,
         a + len <= Len(s), b + len <= Len(t)
  PROVE  SubSeq(t, b + 1, b + len) = SubSeq(s, a + 1, a + len) <=> Agree(s, a, t, b, len)
<1> DEFINE left == SubSeq(t, b + 1, b + len)
           right == SubSeq(s, a + 1, a + len)
<1>1. left \in Seq(S) /\ Len(left) = len /\ \A k \in 1 .. len : left[k] = t[b + k]
  BY PartIs
<1>2. right \in Seq(S) /\ Len(right) = len /\ \A k \in 1 .. len : right[k] = s[a + k]
  BY PartIs
<1> HIDE DEF left, right
<1>3. ASSUME \A k \in 1 .. len : t[b + k] = s[a + k] PROVE left = right
  <2>1. \A k \in 1 .. Len(left) : left[k] = right[k]
    BY <1>1, <1>2, <1>3
  <2> QED
    BY <1>1, <1>2, <2>1, SeqEqual
<1>4. ASSUME left = right PROVE \A k \in 1 .. len : t[b + k] = s[a + k]
  BY <1>1, <1>2, <1>4
<1> QED
  BY <1>3, <1>4 DEF left, right, Agree

LEMMA PrefixIs ==
  ASSUME NEW S, NEW s \in Seq(S), NEW t \in Seq(S)
  PROVE  IsPrefix(s, t) <=> Len(s) <= Len(t) /\ \A k \in 1 .. Len(s) : t[k] = s[k]
<1>1. CASE Len(s) <= Len(t)
  <2>1. PICK n \in Nat : n = Len(s)
    OBVIOUS
  <2>2. 0 + n <= Len(s) /\ 0 + n <= Len(t) /\ 0 + 1 = 1 /\ 0 + n = n /\ 0 \in Nat
    BY <1>1, <2>1
  <2>3. SubSeq(t, 0 + 1, 0 + n) = SubSeq(s, 0 + 1, 0 + n)
          <=> \A k \in 1 .. n : t[0 + k] = s[0 + k]
    BY <2>2, PartsAreEqual DEF Agree
  <2>4. \A k \in 1 .. n : 0 + k = k
    OBVIOUS
  <2> QED
    BY <1>1, <2>1, <2>2, <2>3, <2>4 DEF IsPrefix
<1>2. CASE ~(Len(s) <= Len(t))
  BY <1>2 DEF IsPrefix
<1> QED
  BY <1>1, <1>2

LEMMA SuffixIs ==
  ASSUME NEW S, NEW s \in Seq(S), NEW t \in Seq(S)
  PROVE  IsSuffix(s, t)
           <=> Len(s) <= Len(t) /\ \A k \in 1 .. Len(s) : t[(Len(t) - Len(s)) + k] = s[k]
<1>1. PICK n \in Nat : n = Len(s)
  OBVIOUS
<1>2. PICK m \in Nat : m = Len(t)
  OBVIOUS
<1>3. Reverse(s) = [i \in 1 .. n |-> s[(n - i) + 1]]
  BY <1>1 DEF Reverse
<1>4. Reverse(t) = [i \in 1 .. m |-> t[(m - i) + 1]]
  BY <1>2 DEF Reverse
<1>5. \A i \in 1 .. n : (n - i) + 1 \in 1 .. n /\ s[(n - i) + 1] \in S
  <2>1. \A i \in 1 .. n : (n - i) + 1 \in 1 .. n
    OBVIOUS
  <2> QED
    BY <1>1, <2>1, ElementOfSeq
<1>6. \A i \in 1 .. m : (m - i) + 1 \in 1 .. m /\ t[(m - i) + 1] \in S
  <2>1. \A i \in 1 .. m : (m - i) + 1 \in 1 .. m
    OBVIOUS
  <2> QED
    BY <1>2, <2>1, ElementOfSeq
<1>7. Reverse(s) \in Seq(S) /\ Len(Reverse(s)) = n
  BY <1>3, <1>5, IsASeq
<1>8. Reverse(t) \in Seq(S) /\ Len(Reverse(t)) = m
  BY <1>4, <1>6, IsASeq
<1>9. IsSuffix(s, t) <=> n <= m /\ \A k \in 1 .. n : Reverse(t)[k] = Reverse(s)[k]
  BY <1>7, <1>8, PrefixIs DEF IsSuffix
<1>10. CASE n <= m
  <2>1. \A k \in 1 .. n : k \in 1 .. m /\ (m - k) + 1 = (m - n) + ((n - k) + 1)
    BY <1>10
  <2>2. \A k \in 1 .. n : Reverse(t)[k] = Reverse(s)[k]
                            <=> t[(m - n) + ((n - k) + 1)] = s[(n - k) + 1]
    BY <1>3, <1>4, <2>1
  <2>3. \A k \in 1 .. n : (n - ((n - k) + 1)) + 1 = k
    OBVIOUS
  <2>4. (\A k \in 1 .. n : t[(m - n) + ((n - k) + 1)] = s[(n - k) + 1])
          <=> \A k \in 1 .. n : t[(m - n) + k] = s[k]
    <3>1. ASSUME \A k \in 1 .. n : t[(m - n) + ((n - k) + 1)] = s[(n - k) + 1], NEW k \in 1 .. n
          PROVE  t[(m - n) + k] = s[k]
      <4>1. PICK i \in 1 .. n : i = (n - k) + 1
        BY <1>5
      <4>2. (n - i) + 1 = k
        BY <4>1
      <4> QED
        BY <3>1, <4>1, <4>2
    <3> QED
      BY <1>5, <3>1
  <2> QED
    BY <1>1, <1>2, <1>9, <1>10, <2>2, <2>4
<1>11. CASE ~(n <= m)
  BY <1>1, <1>2, <1>9, <1>11
<1> QED
  BY <1>10, <1>11


\* Without a star a pattern matches itself.
LEMMA ExactForm ==
  ASSUME NEW S, NEW pattern \in Seq(S), NEW reason \in Seq(S), DocumentedForm(pattern),
         ~StartsWithStar(pattern), ~EndsWithStar(pattern)
  PROVE  MatchesPattern(pattern, reason) <=> Fits(pattern, reason, 0, 0)
<1>1. PICK n \in Nat : n = Len(pattern)
  OBVIOUS
<1>2. PICK m \in Nat : m = Len(reason)
  OBVIOUS
<1>3. MatchesPattern(pattern, reason) <=> pattern = reason
  <2>1. <<Star>> # <<>> /\ <<Star>>[1] = Star
    OBVIOUS
  <2>2. pattern # <<Star>>
    BY <2>1 DEF StartsWithStar
  <2> QED
    BY <2>2 DEF MatchesPattern
<1>4. pattern = reason <=> n = m /\ \A k \in 1 .. n : reason[k] = pattern[k]
  BY <1>1, <1>2, SeqEqual
<1>5. Fits(pattern, reason, 0, 0) <=> Remains(pattern, reason, 0, 0)
  BY DEF Fits
<1>6. CASE n = 0
  BY <1>1, <1>2, <1>3, <1>4, <1>5, <1>6 DEF Remains
<1>7. CASE n # 0
  <2>1. Final(pattern) = n /\ n - 0 = n /\ 0 + n = n /\ \A k \in 1 .. n : 0 + k = k
    BY <1>1 DEF Final
  <2>2. Stands(pattern, reason, 0, 0) <=> n <= m /\ \A k \in 1 .. n : reason[k] = pattern[k]
    BY <1>2, <2>1 DEF Stands
  <2>3. Remains(pattern, reason, 0, 0) <=> Stands(pattern, reason, 0, 0) /\ n = m
    BY <1>1, <1>2, <1>7, <2>1 DEF Remains
  <2> QED
    BY <1>3, <1>4, <1>5, <2>2, <2>3
<1> QED
  BY <1>6, <1>7

\* With a star at the end it matches what starts with the rest.
LEMMA PrefixForm ==
  ASSUME NEW S, NEW pattern \in Seq(S), NEW reason \in Seq(S), DocumentedForm(pattern),
         ~StartsWithStar(pattern), EndsWithStar(pattern)
  PROVE  MatchesPattern(pattern, reason) <=> Fits(pattern, reason, 0, 0)
<1>1. PICK n \in Nat : n = Len(pattern)
  OBVIOUS
<1>2. PICK m \in Nat : m = Len(reason)
  OBVIOUS
<1>3. pattern # <<>> /\ pattern[n] = Star /\ pattern[1] # Star
  BY <1>1 DEF StartsWithStar, EndsWithStar
<1>4. n # 0
  BY <1>1, <1>3, EmptySeq
<1>5. n - 1 \in Nat /\ 0 + (n - 1) <= n /\ 0 \in Nat /\ 0 + 1 = 1 /\ 0 + (n - 1) = n - 1
  BY <1>4
<1> DEFINE rest == SubSeq(pattern, 1, n - 1)
<1>6. rest \in Seq(S) /\ Len(rest) = n - 1 /\ \A k \in 1 .. n - 1 : rest[k] = pattern[0 + k]
  BY <1>1, <1>5, PartIs
<1>7. \A k \in 1 .. n - 1 : 0 + k = k
  OBVIOUS
<1> HIDE DEF rest
<1>8. IsPrefix(rest, reason) <=> n - 1 <= m /\ \A k \in 1 .. n - 1 : reason[k] = pattern[k]
  <2>1. IsPrefix(rest, reason)
          <=> Len(rest) <= Len(reason) /\ \A k \in 1 .. Len(rest) : reason[k] = rest[k]
    BY <1>6, PrefixIs
  <2> QED
    BY <1>2, <1>6, <1>7, <2>1
<1>9. MatchesPattern(pattern, reason) <=> pattern = reason \/ IsPrefix(rest, reason)
  <2>1. <<Star>> # <<>> /\ <<Star>>[1] = Star
    OBVIOUS
  <2>2. pattern # <<Star>>
    BY <2>1 DEF StartsWithStar
  <2> QED
    BY <1>1, <2>2 DEF MatchesPattern, rest
<1>10. pattern = reason => IsPrefix(rest, reason)
  <2>1. n - 1 <= n
    OBVIOUS
  <2> QED
    BY <1>1, <1>2, <1>8, <2>1
<1>11. Fits(pattern, reason, 0, 0) <=> Stands(pattern, reason, 0, 0)
  BY <1>1, <1>4 DEF Fits, Remains
<1>12. Stands(pattern, reason, 0, 0) <=> n - 1 <= m /\ \A k \in 1 .. n - 1 : reason[k] = pattern[k]
  <2>1. Final(pattern) = n - 1 /\ n - 1 - 0 = n - 1
    BY <1>1, <1>5 DEF Final
  <2> QED
    BY <1>2, <1>5, <1>7, <2>1 DEF Stands
<1> QED
  BY <1>8, <1>9, <1>10, <1>11, <1>12

\* With one in front it matches what ends with the rest.
LEMMA SuffixForm ==
  ASSUME NEW S, NEW pattern \in Seq(S), NEW reason \in Seq(S), DocumentedForm(pattern),
         StartsWithStar(pattern), ~EndsWithStar(pattern)
  PROVE  MatchesPattern(pattern, reason) <=> Fits(pattern, reason, 0, 0)
<1>1. PICK n \in Nat : n = Len(pattern)
  OBVIOUS
<1>2. PICK m \in Nat : m = Len(reason)
  OBVIOUS
<1>3. pattern # <<>> /\ pattern[1] = Star /\ pattern[n] # Star
  BY <1>1 DEF StartsWithStar, EndsWithStar
<1>4. n # 0 /\ n # 1
  BY <1>1, <1>3, EmptySeq
<1>5. n - 1 \in Nat /\ 1 + (n - 1) <= n /\ 1 \in Nat /\ 1 + 1 = 2 /\ 1 + (n - 1) = n
  BY <1>4
<1> DEFINE rest == SubSeq(pattern, 2, n)
<1>6. rest \in Seq(S) /\ Len(rest) = n - 1 /\ \A k \in 1 .. n - 1 : rest[k] = pattern[1 + k]
  BY <1>1, <1>5, PartIs
<1> HIDE DEF rest
<1>7. IsSuffix(rest, reason)
        <=> n - 1 <= m /\ \A k \in 1 .. n - 1 : reason[(m - (n - 1)) + k] = pattern[1 + k]
  <2>1. IsSuffix(rest, reason)
          <=> /\ Len(rest) <= Len(reason)
              /\ \A k \in 1 .. Len(rest) : reason[(Len(reason) - Len(rest)) + k] = rest[k]
    BY <1>6, SuffixIs
  <2> QED
    BY <1>2, <1>6, <2>1
<1>8. MatchesPattern(pattern, reason) <=> pattern = reason \/ IsSuffix(rest, reason)
  <2>1. Len(<<Star>>) = 1
    OBVIOUS
  <2>2. pattern # <<Star>>
    BY <1>1, <1>4, <2>1
  <2> QED
    BY <1>1, <2>2 DEF MatchesPattern, rest
<1>9. pattern = reason => IsSuffix(rest, reason)
  <2>1. n - 1 <= n /\ n - (n - 1) = 1
    OBVIOUS
  <2> QED
    BY <1>1, <1>2, <1>7, <2>1
<1>10. Fits(pattern, reason, 0, 0)
         <=> \E l \in 0 .. m : Stands(pattern, reason, 1, l) /\ l + (n - 1) = m
  <2>1. Final(pattern) = n
    BY <1>1 DEF Final
  <2> QED
    BY <1>1, <1>2, <1>4, <2>1 DEF Fits, Remains
<1>11. ASSUME NEW l \in 0 .. m, l + (n - 1) = m
       PROVE  Stands(pattern, reason, 1, l)
                <=> \A k \in 1 .. n - 1 : reason[(m - (n - 1)) + k] = pattern[1 + k]
  <2>1. Final(pattern) = n
    BY <1>1 DEF Final
  <2>2. m - (n - 1) = l /\ l + (n - 1) <= m
    BY <1>11
  <2> QED
    BY <1>2, <2>1, <2>2 DEF Stands
<1>12. n - 1 <= m <=> \E l \in 0 .. m : l + (n - 1) = m
  <2>1. n - 1 <= m => m - (n - 1) \in 0 .. m /\ (m - (n - 1)) + (n - 1) = m
    BY <1>5
  <2> QED
    BY <1>5, <2>1
<1> QED
  BY <1>7, <1>8, <1>9, <1>10, <1>11, <1>12

\* With one at each end it matches what has the rest somewhere; alone, everything.
LEMMA InsideForm ==
  ASSUME NEW S, NEW pattern \in Seq(S), NEW reason \in Seq(S), DocumentedForm(pattern),
         StartsWithStar(pattern), EndsWithStar(pattern)
  PROVE  MatchesPattern(pattern, reason) <=> Fits(pattern, reason, 0, 0)
<1>1. PICK n \in Nat : n = Len(pattern)
  OBVIOUS
<1>2. PICK m \in Nat : m = Len(reason)
  OBVIOUS
<1>3. pattern # <<>> /\ pattern[1] = Star /\ pattern[n] = Star
  BY <1>1 DEF StartsWithStar, EndsWithStar
<1>4. n # 0
  BY <1>1, <1>3, EmptySeq
<1>5. Fits(pattern, reason, 0, 0) <=> \E l \in 0 .. m : Remains(pattern, reason, 1, l)
  BY <1>2 DEF Fits
<1>6. CASE n = 1
  <2>1. pattern = <<Star>>
    <3>1. Star \in S
      BY <1>1, <1>3, <1>6, ElementOfSeq
    <3>2. <<Star>> \in Seq(S) /\ Len(<<Star>>) = 1 /\ <<Star>>[1] = Star
      BY <3>1
    <3>3. \A k \in 1 .. 1 : k = 1
      OBVIOUS
    <3> QED
      BY <1>1, <1>3, <1>6, <3>2, <3>3, SeqEqual
  <2>2. Remains(pattern, reason, 1, m)
    BY <1>1, <1>2, <1>6 DEF Remains
  <2>3. m \in 0 .. m
    OBVIOUS
  <2> QED
    BY <1>5, <2>1, <2>2, <2>3 DEF MatchesPattern
<1>7. CASE n = 2
  <2>1. pattern = <<Star, Star>>
    <3>1. Star \in S
      BY <1>1, <1>3, <1>7, ElementOfSeq
    <3>2. /\ <<Star, Star>> \in Seq(S) /\ Len(<<Star, Star>>) = 2
          /\ <<Star, Star>>[1] = Star /\ <<Star, Star>>[2] = Star
      BY <3>1
    <3>3. \A k \in 1 .. 2 : k = 1 \/ k = 2
      OBVIOUS
    <3> QED
      BY <1>1, <1>3, <1>7, <3>2, <3>3, SeqEqual
  <2> QED
    BY <2>1 DEF DocumentedForm
<1>8. CASE n > 2
  <2> DEFINE rest == SubSeq(pattern, 2, n - 1)
  <2>1. PICK len \in Nat : len = n - 2
    BY <1>8
  <2>2. 1 + len <= n /\ 1 \in Nat /\ 1 + 1 = 2 /\ 1 + len = n - 1
    BY <2>1
  <2>3. rest \in Seq(S) /\ Len(rest) = len
    BY <1>1, <2>2, PartIs
  <2> HIDE DEF rest
  <2>4. MatchesPattern(pattern, reason) <=> pattern = reason \/ Includes(reason, rest)
    <3>1. Len(<<Star>>) = 1
      OBVIOUS
    <3>2. pattern # <<Star>>
      BY ONLY <1>1, <1>8, <3>1
    <3> QED
      BY <1>1, <1>8, <3>2 DEF MatchesPattern, rest
  <2>5. \A l \in 0 .. m : Remains(pattern, reason, 1, l) <=> Stands(pattern, reason, 1, l)
    <3>1. 1 # n
      BY <1>8
    <3> QED
      BY <1>1, <3>1 DEF Remains
  <2>6. \A l \in 0 .. m : Stands(pattern, reason, 1, l)
          <=> l + len <= m /\ \A k \in 1 .. len : reason[l + k] = pattern[1 + k]
    <3>1. Final(pattern) = n - 1 /\ n - 1 - 1 = len
      BY <1>1, <2>1 DEF Final
    <3> QED
      BY <1>2, <3>1 DEF Stands
  <2>7. \A l \in 0 .. m : l + len <= m =>
          (SubSeq(reason, l + 1, l + len) = rest
             <=> \A k \in 1 .. len : reason[l + k] = pattern[1 + k])
    <3> TAKE l \in 0 .. m
    <3> HAVE l + len <= m
    <3>1. l \in Nat /\ l + len <= Len(reason) /\ 1 + len <= Len(pattern)
      BY <1>1, <1>2, <2>2
    <3>2. PICK a \in Nat : a = 1
      OBVIOUS
    <3>3. PICK b \in Nat : b = l
      BY <3>1
    <3>4. SubSeq(reason, b + 1, b + len) = SubSeq(pattern, a + 1, a + len)
            <=> Agree(pattern, a, reason, b, len)
      <4>1. a + len <= Len(pattern) /\ b + len <= Len(reason)
        BY <3>1, <3>2, <3>3
      <4> QED
        BY ONLY pattern \in Seq(S), reason \in Seq(S), a \in Nat, b \in Nat, len \in Nat,
                <4>1, PartsAreEqual
    <3> QED
      BY <2>2, <3>2, <3>3, <3>4 DEF rest, Agree
  <2>8. Includes(reason, rest)
          <=> \E l \in 0 .. m - len : SubSeq(reason, l + 1, l + len) = rest
    BY <1>2, <2>3 DEF Includes
  <2>9. \A l : l \in 0 .. m - len <=> l \in 0 .. m /\ l + len <= m
    OBVIOUS
  <2>10. Includes(reason, rest) <=> Fits(pattern, reason, 0, 0)
    BY <1>5, <2>5, <2>6, <2>7, <2>8, <2>9
  <2>11. pattern = reason => Fits(pattern, reason, 0, 0)
    <3>1. pattern = reason => n = m /\ 1 \in 0 .. m
      BY <1>1, <1>2, <1>8
    <3>2. pattern = reason => Stands(pattern, reason, 1, 1)
      BY <2>2, <2>6, <3>1
    <3> QED
      BY <1>5, <2>5, <3>1, <3>2
  <2> QED
    BY <2>4, <2>10, <2>11
<1> QED
  BY <1>4, <1>6, <1>7, <1>8

\* The five cases of matchesPattern say what the wildcards stand for.
LEMMA CasesAreTheRule ==
  ASSUME NEW S, NEW pattern \in Seq(S), NEW reason \in Seq(S), DocumentedForm(pattern)
  PROVE  MatchesPattern(pattern, reason) <=> StandsFor(pattern, reason)
  BY StandsForFits, ExactForm, PrefixForm, SuffixForm, InsideForm


----------------------------------------------------------------------------
(* What is found *)

\* Projections that are each wanted by a description that matches, each once.
IsAnswer(projections, reasons) ==
  LET wanted == {d \in Range(descriptions) : Matches(d, reasons)}
  IN  /\ Range(projections) = {d.projection : d \in wanted}
      /\ IsInjective(projections)

\* One more description, as Found takes it.
Adding(reasons, found, d) ==
  IF Matches(d, reasons) /\ ~Contains(found, d.projection)
  THEN Append(found, d.projection) ELSE found

\* What is found with the descriptions at some places.
FoundAt(reasons, S, f) ==
  IF S = {} THEN <<>>
  ELSE Adding(reasons, f[S \ {Largest(S)}], descriptions[Largest(S)])

\* A projection that is not there yet is put last and is there once.
LEMMA AppendedOnce ==
  ASSUME NEW P, NEW found \in Seq(P), NEW projection \in P, IsInjective(found)
  PROVE  /\ Contains(found, projection) <=> projection \in Range(found)
         /\ ~Contains(found, projection) =>
              /\ Append(found, projection) \in Seq(P)
              /\ Range(Append(found, projection)) = Range(found) \cup {projection}
              /\ IsInjective(Append(found, projection))
<1>1. PICK n \in Nat : n = Len(found)
  OBVIOUS
<1>2. DOMAIN found = 1 .. n
  BY <1>1
<1>3. Contains(found, projection) <=> projection \in Range(found)
  BY <1>1, <1>2 DEF Contains, Range
<1> DEFINE longer == Append(found, projection)
<1>4. longer \in Seq(P) /\ DOMAIN longer = 1 .. n + 1
  BY <1>1
<1>5. longer[n + 1] = projection /\ \A i \in 1 .. n : longer[i] = found[i]
  BY <1>1
<1> HIDE DEF longer
<1>6. \A i : i \in 1 .. n + 1 <=> i \in 1 .. n \/ i = n + 1
  OBVIOUS
<1>7. Range(longer) = Range(found) \cup {projection}
  BY <1>2, <1>4, <1>5, <1>6 DEF Range
<1>8. ASSUME ~Contains(found, projection) PROVE IsInjective(longer)
  <2>1. \A i \in 1 .. n : found[i] # projection
    BY <1>2, <1>3, <1>8 DEF Range
  <2>2. \A i, j \in 1 .. n : found[i] = found[j] => i = j
    BY <1>2 DEF IsInjective
  <2>3. \A i, j \in 1 .. n + 1 : longer[i] = longer[j] => i = j
    BY <1>5, <1>6, <2>1, <2>2
  <2> QED
    BY <1>4, <2>3 DEF IsInjective
<1> QED
  BY <1>3, <1>4, <1>7, <1>8 DEF longer

\* The description after some is the last of those up to it.
LEMMA LastOfSome ==
  ASSUME NEW k \in Nat, k # 0, NEW S \in SUBSET (1 .. k), k \in S
  PROVE  Largest(S) = k /\ S \ {k} \in SUBSET (1 .. k - 1)
<1>1. PICK largest \in S : largest = Largest(S) /\ largest >= k
  BY LargestIs
<1>2. largest \in 1 .. k
  OBVIOUS
<1>3. largest = k
  BY ONLY k \in Nat, <1>1, <1>2
<1>4. \A i \in 1 .. k : i # k => i \in 1 .. k - 1
  OBVIOUS
<1>5. S \ {k} \in SUBSET (1 .. k - 1)
  BY <1>4
<1> QED
  BY <1>1, <1>3, <1>5

\* There is a function with the equation of the fold.
LEMMA ThereIsAFold ==
  ASSUME NEW reasons, NEW n \in Nat
  PROVE  \E f : f = [S \in SUBSET (1 .. n) |-> FoundAt(reasons, S, f)]
<1> DEFINE HasFold(k) == \E f : f = [S \in SUBSET (1 .. k) |-> FoundAt(reasons, S, f)]
           Without == {k \in 0 .. n : ~HasFold(k)}
<1>1. HasFold(0)
  <2> DEFINE f == [S \in SUBSET (1 .. 0) |-> <<>>]
  <2>1. \A S \in SUBSET (1 .. 0) : S = {}
    OBVIOUS
  <2>2. \A S \in SUBSET (1 .. 0) : FoundAt(reasons, S, f) = <<>>
    BY <2>1 DEF FoundAt
  <2>3. f = [S \in SUBSET (1 .. 0) |-> FoundAt(reasons, S, f)]
    BY <2>2
  <2> QED
    BY <2>3
<1>2. ASSUME NEW k \in 1 .. n, HasFold(k - 1) PROVE HasFold(k)
  <2>1. PICK f : f = [S \in SUBSET (1 .. k - 1) |-> FoundAt(reasons, S, f)]
    BY <1>2
  <2>2. \A S \in SUBSET (1 .. k - 1) : f[S] = FoundAt(reasons, S, f)
    BY <2>1
  <2> DEFINE g == [S \in SUBSET (1 .. k) |->
                     IF k \in S THEN Adding(reasons, f[S \ {k}], descriptions[k]) ELSE f[S]]
  <2>3. \A i : i \in 1 .. k - 1 <=> i \in 1 .. k /\ i # k
    OBVIOUS
  <2>4. \A S \in SUBSET (1 .. k - 1) : S \in SUBSET (1 .. k) /\ k \notin S
    BY <2>3
  <2>5. \A S \in SUBSET (1 .. k - 1) : g[S] = f[S]
    BY <2>4
  <2>6. \A S \in SUBSET (1 .. k) : k \in S => g[S] = Adding(reasons, f[S \ {k}], descriptions[k])
    OBVIOUS
  <2> HIDE DEF g
  <2>7. ASSUME NEW S \in SUBSET (1 .. k) PROVE g[S] = FoundAt(reasons, S, g)
    <3>1. CASE k \in S
      <4>1. Largest(S) = k /\ S \ {k} \in SUBSET (1 .. k - 1)
        BY <3>1, LastOfSome
      <4>2. FoundAt(reasons, S, g) = Adding(reasons, g[S \ {k}], descriptions[k])
        BY <3>1, <4>1 DEF FoundAt
      <4> QED
        BY <2>5, <2>6, <3>1, <4>1, <4>2
    <3>2. CASE S = {}
      BY <2>2, <2>5, <3>2 DEF FoundAt
    <3>3. CASE k \notin S /\ S # {}
      <4>1. S \in SUBSET (1 .. k - 1)
        BY <2>3, <3>3
      <4>2. S \ {Largest(S)} \in SUBSET (1 .. k - 1)
        BY <4>1
      <4>3. FoundAt(reasons, S, g) = FoundAt(reasons, S, f)
        BY <2>5, <3>3, <4>2 DEF FoundAt
      <4> QED
        BY <2>2, <2>5, <4>1, <4>3
    <3> QED
      BY <3>1, <3>2, <3>3
  <2>8. [S \in SUBSET (1 .. k) |-> g[S]] = [S \in SUBSET (1 .. k) |-> FoundAt(reasons, S, g)]
    BY <2>7
  <2>9. g = [S \in SUBSET (1 .. k) |-> g[S]]
    BY DEF g
  <2> QED
    BY <2>8, <2>9
<1> HIDE DEF HasFold
<1>3. Without = {}
  <2>1. SUFFICES ASSUME Without # {} PROVE FALSE
    OBVIOUS
  <2>2. PICK k \in Without : \A l \in Without : k <= l
    <3>1. Without \in SUBSET (0 .. n)
      OBVIOUS
    <3> HIDE DEF Without
    <3> QED
      BY <2>1, <3>1, LeastNumber
  <2>3. k \in 0 .. n /\ ~HasFold(k) /\ k # 0
    BY <1>1
  <2>4. k \in 1 .. n /\ k - 1 \in 0 .. n /\ ~(k <= k - 1)
    BY <2>3
  <2>5. HasFold(k - 1)
    BY <2>2, <2>4
  <2> QED
    BY <1>2, <2>3, <2>4, <2>5
<1>4. n \in 0 .. n
  OBVIOUS
<1>5. HasFold(n)
  BY <1>3, <1>4
<1> QED
  BY <1>5 DEF HasFold

\* What is found are the projections of all descriptions that match, each once.
LEMMA FoundIsAnswer ==
  ASSUME NEW reasons, NEW D, descriptions \in Seq(D)
  PROVE  IsAnswer(Found(reasons), reasons)
<1>1. PICK n \in Nat : n = Len(descriptions)
  OBVIOUS
<1>2. DOMAIN descriptions = 1 .. n
  BY <1>1
<1> DEFINE fold == CHOOSE f : f = [S \in SUBSET (1 .. n) |-> FoundAt(reasons, S, f)]
           P == {descriptions[i].projection : i \in 1 .. n}
           Wanted(k) == {i \in 1 .. k : Matches(descriptions[i], reasons)}
           Right(k, found) == /\ found \in Seq(P)
                              /\ Range(found) = {descriptions[i].projection : i \in Wanted(k)}
                              /\ IsInjective(found)
           Wrong == {k \in 0 .. n : ~Right(k, fold[1 .. k])}
<1>3. Found(reasons) = fold[1 .. n]
  <2>1. Found(reasons)
          = (CHOOSE f : f = [S \in SUBSET DOMAIN descriptions |->
                               FoundAt(reasons, S, f)])[DOMAIN descriptions]
    BY Zenon DEF Found, FoundAt, Adding, FoldLeft, MapThenFoldSet, Max, Largest
  <2> QED
    BY <1>2, <2>1
<1>4. fold = [S \in SUBSET (1 .. n) |-> FoundAt(reasons, S, fold)]
  BY ThereIsAFold
<1> HIDE DEF fold
<1>5. \A S \in SUBSET (1 .. n) : fold[S] = FoundAt(reasons, S, fold)
  BY <1>4
<1>6. Right(0, fold[1 .. 0])
  <2>1. 1 .. 0 = {} /\ {} \in SUBSET (1 .. n)
    OBVIOUS
  <2>2. fold[1 .. 0] = <<>>
    BY <1>5, <2>1 DEF FoundAt
  <2>3. <<>> \in Seq(P) /\ Range(<<>>) = {} /\ IsInjective(<<>>)
    <3>1. <<>> \in Seq(P) /\ DOMAIN <<>> = {}
      OBVIOUS
    <3> QED
      BY <3>1 DEF Range, IsInjective
  <2>4. {descriptions[i].projection : i \in Wanted(0)} = {}
    BY <2>1
  <2> QED
    BY <2>2, <2>3, <2>4
<1>7. ASSUME NEW k \in 1 .. n, Right(k - 1, fold[1 .. k - 1])
      PROVE  Right(k, fold[1 .. k])
  <2> DEFINE found == fold[1 .. k - 1]
             d == descriptions[k]
  <2>1. /\ found \in Seq(P)
        /\ Range(found) = {descriptions[i].projection : i \in Wanted(k - 1)}
        /\ IsInjective(found)
    BY <1>7
  <2>2. fold[1 .. k] = Adding(reasons, found, d)
    <3>1. 1 .. k \in SUBSET (1 .. k) /\ k \in 1 .. k /\ k # 0 /\ k \in Nat
      OBVIOUS
    <3>2. Largest(1 .. k) = k
      BY <3>1, LastOfSome
    <3>3. (1 .. k) \ {k} = 1 .. k - 1 /\ 1 .. k \in SUBSET (1 .. n) /\ 1 .. k # {}
      <4>1. \A i : i \in 1 .. k /\ i # k <=> i \in 1 .. k - 1
        OBVIOUS
      <4>2. (1 .. k) \ {k} = 1 .. k - 1
        BY <4>1
      <4>3. \A i \in 1 .. k : i \in 1 .. n
        OBVIOUS
      <4> QED
        BY <3>1, <4>2, <4>3
    <3> QED
      BY <1>5, <3>2, <3>3 DEF FoundAt
  <2>3. \A i : i \in 1 .. k <=> i \in 1 .. k - 1 \/ i = k
    OBVIOUS
  <2>4. Wanted(k) = IF Matches(d, reasons) THEN Wanted(k - 1) \cup {k} ELSE Wanted(k - 1)
    BY <2>3
  <2>5. d.projection \in P
    OBVIOUS
  <2>6. /\ Contains(found, d.projection) <=> d.projection \in Range(found)
        /\ ~Contains(found, d.projection) =>
              /\ Append(found, d.projection) \in Seq(P)
              /\ Range(Append(found, d.projection)) = Range(found) \cup {d.projection}
              /\ IsInjective(Append(found, d.projection))
    <3> HIDE DEF found, P, d
    <3> QED
      BY <2>1, <2>5, AppendedOnce
  <2> DEFINE All(W) == {descriptions[i].projection : i \in W}
  <2>7. Matches(d, reasons) => All(Wanted(k)) = All(Wanted(k - 1)) \cup {d.projection}
    <3> HIDE DEF Wanted
    <3> QED
      BY <2>4
  <2>8. ~Matches(d, reasons) => All(Wanted(k)) = All(Wanted(k - 1))
    BY <2>4
  <2> HIDE DEF found, P, d, Wanted
  <2>9. CASE ~Matches(d, reasons)
    BY <2>1, <2>2, <2>8, <2>9 DEF Adding
  <2>10. CASE Matches(d, reasons) /\ Contains(found, d.projection)
    <3>1. fold[1 .. k] = found
      BY <2>2, <2>10 DEF Adding
    <3>2. All(Wanted(k)) = All(Wanted(k - 1))
      BY <2>1, <2>6, <2>7, <2>10
    <3> QED
      BY <2>1, <3>1, <3>2
  <2>11. CASE Matches(d, reasons) /\ ~Contains(found, d.projection)
    <3>1. fold[1 .. k] = Append(found, d.projection)
      BY <2>2, <2>11 DEF Adding
    <3> QED
      BY <2>1, <2>6, <2>7, <2>11, <3>1
  <2> QED
    BY <2>9, <2>10, <2>11
<1> HIDE DEF Right
<1>8. Wrong = {}
  <2>1. SUFFICES ASSUME Wrong # {} PROVE FALSE
    OBVIOUS
  <2>2. PICK k \in Wrong : \A l \in Wrong : k <= l
    <3>1. Wrong \in SUBSET (0 .. n)
      OBVIOUS
    <3> HIDE DEF Wrong
    <3> QED
      BY <2>1, <3>1, LeastNumber
  <2>3. k \in 0 .. n /\ ~Right(k, fold[1 .. k]) /\ k # 0
    BY <1>6
  <2>4. k \in 1 .. n /\ k - 1 \in 0 .. n /\ ~(k <= k - 1)
    BY <2>3
  <2>5. Right(k - 1, fold[1 .. k - 1])
    BY <2>2, <2>4
  <2> QED
    BY <1>7, <2>3, <2>4, <2>5
<1>9. Right(n, Found(reasons))
  <2>1. n \in 0 .. n
    OBVIOUS
  <2> QED
    BY <1>3, <1>8, <2>1
<1>10. {d.projection : d \in {d \in Range(descriptions) : Matches(d, reasons)}}
         = {descriptions[i].projection : i \in Wanted(n)}
  BY <1>2 DEF Range
<1> QED
  BY <1>9, <1>10 DEF Right, IsAnswer


----------------------------------------------------------------------------
(* The registry *)

RegistryTypeOK ==
  /\ descriptions \in Seq(Registrable)
  /\ answer.reasons \in {<<>>} \cup (Reasons \X Reasons) \cup {<<reason>> : reason \in Reasons}

\* What is kept for a reason is what would be found for it now.
CacheIsCurrent ==
  \A reason \in DOMAIN exactMatchCache : IsAnswer(exactMatchCache[reason], <<reason>>)

RegistryInv == RegistryTypeOK /\ CacheIsCurrent

LEMMA RegistryInitially == RegistryInit => RegistryInv
<1> SUFFICES ASSUME RegistryInit PROVE RegistryInv
  OBVIOUS
<1>1. DOMAIN <<>> = {}
  OBVIOUS
<1> QED
  BY <1>1 DEF RegistryInit, RegistryInv, RegistryTypeOK, CacheIsCurrent

\* A match leaves what is registered, and keeps only what it found.
LEMMA MatchKeepsInv ==
  ASSUME RegistryInv, NEW reasons,
         reasons \in {<<>>} \cup (Reasons \X Reasons) \cup {<<reason>> : reason \in Reasons},
         Match(reasons)
  PROVE  RegistryInv'
<1>1. descriptions' = descriptions /\ answer'.reasons = reasons
  BY DEF Match, Answer
<1>2. RegistryTypeOK'
  BY <1>1 DEF RegistryInv, RegistryTypeOK
<1>3. CASE exactMatchCache' = exactMatchCache
  <2>1. CacheIsCurrent'
    BY <1>1, <1>3 DEF RegistryInv, CacheIsCurrent, IsAnswer
  <2> QED
    BY <1>2, <2>1 DEF RegistryInv
<1>4. CASE exactMatchCache' # exactMatchCache
  <2>1. /\ Len(reasons) = 1
        /\ exactMatchCache' =
             [r \in DOMAIN exactMatchCache \cup {reasons[1]} |->
                IF r = reasons[1] THEN Found(reasons) ELSE exactMatchCache[r]]
    BY <1>4 DEF Match
  <2>2. reasons = <<reasons[1]>>
    <3>1. \A a, b \in Reasons : Len(<<a, b>>) = 2
      OBVIOUS
    <3>2. Len(<<>>) = 0
      OBVIOUS
    <3>3. PICK reason \in Reasons : reasons = <<reason>>
      BY <2>1, <3>1, <3>2
    <3> QED
      BY <3>3
  <2>3. IsAnswer(Found(reasons), <<reasons[1]>>)
    BY <2>2, FoundIsAnswer DEF RegistryInv, RegistryTypeOK
  <2>4. \A r \in DOMAIN exactMatchCache' : IsAnswer(exactMatchCache'[r], <<r>>)
    BY <2>1, <2>3 DEF RegistryInv, CacheIsCurrent
  <2>5. CacheIsCurrent'
    BY <1>1, <2>4 DEF CacheIsCurrent, IsAnswer
  <2> QED
    BY <1>2, <2>5 DEF RegistryInv
<1> QED
  BY <1>3, <1>4

LEMMA RegistryStep == RegistryInv /\ [RegistryNext]_registryVars => RegistryInv'
<1> SUFFICES ASSUME RegistryInv, [RegistryNext]_registryVars PROVE RegistryInv'
  OBVIOUS
<1>1. CASE UNCHANGED registryVars
  BY <1>1 DEF registryVars, RegistryInv, RegistryTypeOK, CacheIsCurrent, IsAnswer
<1>2. ASSUME NEW d \in Registrable, Register(d) PROVE RegistryInv'
  <2>1. descriptions' \in Seq(Registrable) /\ DOMAIN exactMatchCache' = {}
    BY <1>2 DEF Register, RegistryInv, RegistryTypeOK
  <2> QED
    BY <1>2, <2>1 DEF Register, RegistryInv, RegistryTypeOK, CacheIsCurrent
<1>3. ASSUME NEW reasons \in {<<>>} \cup (Reasons \X Reasons) \cup {<<reason>> : reason \in Reasons},
             Match(reasons)
      PROVE  RegistryInv'
  BY <1>3, MatchKeepsInv
<1>4. CASE Clear
  <2>1. descriptions' \in Seq(Registrable) /\ DOMAIN exactMatchCache' = {}
    BY <1>4 DEF Clear
  <2> QED
    BY <1>4, <2>1 DEF Clear, RegistryInv, RegistryTypeOK, CacheIsCurrent
<1> QED
  BY <1>1, <1>2, <1>3, <1>4 DEF RegistryNext

\* What is registered and what is kept stay as the matching needs them: descriptions
\* in a line, and for each reason in the cache the projections that are registered
\* for it now (register, match and clear of MatchableProjections.ts).
THEOREM RegistryInvariant == RegistrySpec => []RegistryInv
  BY RegistryInitially, RegistryStep, PTL DEF RegistrySpec

\* A registered pattern of a documented form matches what its wildcards stand for,
\* however long pattern and name are (matchesPattern of ProjectToDescription.ts).
THEOREM FormsMatch == RegistrySpec => []FormsMatchWhatTheyStandFor
<1>1. RegistryInv => FormsMatchWhatTheyStandFor
  <2> SUFFICES ASSUME RegistryInv, NEW i \in DOMAIN descriptions,
                      NEW pattern \in descriptions[i].becauseOf, DocumentedForm(pattern),
                      NEW reason \in Names
               PROVE  MatchesPattern(pattern, reason) <=> StandsFor(pattern, reason)
    BY DEF FormsMatchWhatTheyStandFor
  <2>1. descriptions[i] \in Registrable
    BY DEF RegistryInv, RegistryTypeOK
  <2>2. pattern \in Seq(Characters) /\ reason \in Seq(Characters)
    BY <2>1, DescriptionsAssumption, NamesAssumption
  <2> QED
    BY <2>2, CasesAreTheRule
<1> QED
  BY <1>1, RegistryInvariant, PTL

\* Whoever asks is answered from what is registered at that moment, whether the
\* answer is kept from before or looked for now (match of MatchableProjections.ts).
THEOREM AnswersStayCurrent == RegistrySpec => AnswersAreCurrent
<1> DEFINE Current == Match(answer'.reasons) =>
                        LET wanted == {d \in Range(descriptions) : Matches(d, answer'.reasons)}
                        IN  /\ Range(answer'.projections) = {d.projection : d \in wanted}
                            /\ IsInjective(answer'.projections)
<1>1. RegistryInv /\ RegistryInv' /\ [RegistryNext]_registryVars => [Current]_registryVars
  <2> SUFFICES ASSUME RegistryInv, RegistryInv', Match(answer'.reasons)
               PROVE  Current
    OBVIOUS
  <2>1. PICK reasons : reasons = answer'.reasons
    OBVIOUS
  <2>2. PICK projections : projections = answer'.projections
    OBVIOUS
  <2>3. reasons \in {<<>>} \cup (Reasons \X Reasons) \cup {<<reason>> : reason \in Reasons}
    BY <2>1 DEF RegistryInv, RegistryTypeOK
  <2>4. Match(reasons)
    BY <2>1
  <2>5. IsAnswer(projections, reasons)
    <3>1. CASE reasons = <<>>
      <4>1. projections = <<>> /\ DOMAIN <<>> = {} /\ Len(reasons) = 0
        BY <2>2, <2>4, <3>1 DEF Match, Answer
      <4>2. Range(projections) = {} /\ IsInjective(projections)
        BY <4>1 DEF Range, IsInjective
      <4>3. \A d : ~Matches(d, reasons)
        BY <3>1, <4>1 DEF Matches, Range
      <4> QED
        BY <4>2, <4>3 DEF IsAnswer
    <3>2. CASE reasons # <<>> /\ projections = Found(reasons)
      BY <3>2, FoundIsAnswer DEF RegistryInv, RegistryTypeOK
    <3>3. CASE reasons # <<>> /\ projections # Found(reasons)
      <4>1. /\ Len(reasons) = 1
            /\ reasons[1] \in DOMAIN exactMatchCache
            /\ projections = exactMatchCache[reasons[1]]
        BY <2>2, <2>4, <3>3 DEF Match, Answer
      <4>2. reasons = <<reasons[1]>>
        <5>1. \A a, b \in Reasons : Len(<<a, b>>) = 2
          OBVIOUS
        <5>2. PICK reason \in Reasons : reasons = <<reason>>
          BY <2>3, <3>3, <4>1, <5>1
        <5> QED
          BY <5>2
      <4>3. IsAnswer(exactMatchCache[reasons[1]], <<reasons[1]>>)
        BY <4>1 DEF RegistryInv, CacheIsCurrent
      <4> QED
        BY <4>1, <4>2, <4>3
    <3> QED
      BY <3>1, <3>2, <3>3
  <2> QED
    BY <2>1, <2>2, <2>5 DEF IsAnswer
<1> QED
  BY <1>1, RegistryInvariant, PTL DEF AnswersAreCurrent, RegistrySpec

----------------------------------------------------------------------------
(* The adapters of states *)

WriterIsKept ==
  \A type \in DocTypes :
    raws[type] # NoDocument
      => LET inForce == storesOwn[raws[type].type]
         IN  inForce = raws[type].by \/ inForce > raws[type].at

StatesInv == StatesTypeOK /\ WriterIsKept

\* A raw state has the parts the invariant speaks of.
LEMMA RawStateType ==
  ASSUME StatesTypeOK, NEW class \in TypeNames
  PROVE  /\ AsRawState(class) \in [type : TypeNames, by : Adapters, at : Adapters]
         /\ AsRawState(class).type = class
         /\ AsRawState(class).by = storesOwn[class]
  BY DEF AsRawState, StatesTypeOK, Adapters, Default

LEMMA InitiallyKept == StatesInit => StatesInv
  BY DEF StatesInit, StatesInv, StatesTypeOK, WriterIsKept, NoAdapters, Adapters, Default

\* An adapter that is registered is later than all that was written.
LEMMA RegistrationKeeps ==
  ASSUME StatesInv, NEW name \in TypeNames, RegisterStateAdapter(name)
  PROVE  StatesInv'
<1>1. /\ registered \in Nat /\ registered' = registered + 1
      /\ shared' = shared /\ raws' = raws
      /\ current' = [current EXCEPT ![name] = registered + 1]
      /\ storesOwn' = IF shared THEN [storesOwn EXCEPT ![name] = registered + 1] ELSE storesOwn
  BY DEF RegisterStateAdapter, AdaptersWith, StatesInv, StatesTypeOK
<1>2. Adapters \subseteq Adapters' /\ registered + 1 \in Adapters'
  BY <1>1 DEF Adapters, Default
<1>3. StatesTypeOK'
  <2>1. current' \in [TypeNames -> Adapters'] /\ storesOwn' \in [TypeNames -> Adapters']
    BY <1>1, <1>2 DEF StatesInv, StatesTypeOK
  <2>2. shared' \in BOOLEAN /\ (shared' => current' = storesOwn')
    BY <1>1 DEF StatesInv, StatesTypeOK
  <2>3. raws' \in [DocTypes -> {NoDocument} \cup [type : TypeNames, by : Adapters', at : Adapters']]
    BY <1>1, <1>2 DEF StatesInv, StatesTypeOK
  <2> QED
    BY <1>1, <2>1, <2>2, <2>3 DEF StatesTypeOK
<1>4. ASSUME NEW type \in DocTypes, raws[type] # NoDocument
      PROVE  LET inForce == storesOwn'[raws[type].type]
             IN  inForce = raws[type].by \/ inForce > raws[type].at
  <2>1. raws[type].type \in TypeNames /\ raws[type].at \in 0 .. registered
    BY <1>4 DEF StatesInv, StatesTypeOK, Adapters, Default
  <2>2. \/ storesOwn'[raws[type].type] = storesOwn[raws[type].type]
        \/ storesOwn'[raws[type].type] = registered + 1
    BY <1>1, <2>1 DEF StatesInv, StatesTypeOK
  <2>3. registered + 1 > raws[type].at
    BY <1>1, <2>1
  <2>4. \/ storesOwn[raws[type].type] = raws[type].by
        \/ storesOwn[raws[type].type] > raws[type].at
    BY <1>4 DEF StatesInv, WriterIsKept
  <2> QED
    BY <2>2, <2>3, <2>4
<1> QED
  BY <1>1, <1>3, <1>4 DEF StatesInv, WriterIsKept

\* No operation takes an adapter back to an earlier one, and a write uses the one
\* in force.
LEMMA StepKeeps == StatesInv /\ [StatesNext]_stateVars => StatesInv'
<1> SUFFICES ASSUME StatesInv, [StatesNext]_stateVars PROVE StatesInv'
  OBVIOUS
<1>1. CASE UNCHANGED stateVars
  BY <1>1 DEF stateVars, StatesInv, StatesTypeOK, WriterIsKept, Adapters
<1>2. ASSUME NEW name \in TypeNames, RegisterStateAdapter(name) PROVE StatesInv'
  BY <1>2, RegistrationKeeps
<1>3. CASE ResetStateProvider
  <2>1. NoAdapters \in [TypeNames -> Adapters]
    BY DEF NoAdapters, Adapters, Default, StatesInv, StatesTypeOK
  <2> QED
    BY <1>3, <2>1 DEF ResetStateProvider, StatesInv, StatesTypeOK, WriterIsKept, Adapters
<1>4. ASSUME NEW type \in DocTypes, NEW class \in TypeNames, WriteState(type, class)
      PROVE  StatesInv'
  <2>1. /\ raws' = [raws EXCEPT ![type] = AsRawState(class)]
        /\ UNCHANGED <<current, storesOwn, shared, registered>> /\ Adapters' = Adapters
    BY <1>4 DEF WriteState, Adapters
  <2>2. StatesTypeOK'
    BY <2>1, RawStateType DEF StatesInv, StatesTypeOK
  <2>3. ASSUME NEW t \in DocTypes, raws'[t] # NoDocument
        PROVE  \/ storesOwn[raws'[t].type] = raws'[t].by
               \/ storesOwn[raws'[t].type] > raws'[t].at
    <3>1. CASE t = type
      BY <2>1, <3>1, RawStateType DEF StatesInv, StatesTypeOK
    <3>2. CASE t # type
      BY <2>1, <2>3, <3>2 DEF StatesInv, StatesTypeOK, WriterIsKept
    <3> QED BY <3>1, <3>2
  <2> QED BY <2>1, <2>2, <2>3 DEF StatesInv, WriterIsKept
<1> QED BY <1>1, <1>2, <1>3, <1>4 DEF StatesNext

\* The inductive invariant holds in every reachable state.
THEOREM StatesInvariance == StatesSpec => []StatesInv
  BY InitiallyKept, StepKeeps, PTL DEF StatesSpec

\* The providers and raw states have their types, and what is shared agrees
\* (StateAdapterProvider.instance and reset).
THEOREM StatesTypeCorrect == StatesSpec => []StatesTypeOK
<1>1. StatesInv => StatesTypeOK
  BY DEF StatesInv
<1> QED BY <1>1, StatesInvariance, PTL

\* What the store wrote with an adapter it reads with that adapter, or with one
\* that replaced it since (asRawState, fromRawState and registerAdapter), for every
\* naming of document types.
THEOREM WriterOrLaterReads == StatesSpec => []ReadByItsWriterOrALater
<1>1. StatesInv => ReadByItsWriterOrALater
  BY DEF StatesInv, WriterIsKept, ReadByItsWriterOrALater, Reader
<1> QED BY <1>1, StatesInvariance, PTL
=============================================================================
