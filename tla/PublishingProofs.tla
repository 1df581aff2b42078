--------------------------- MODULE PublishingProofs ----------------------------
(***************************************************************************)
(* Proofs about publishing, for any files, any number of requests and any  *)
(* reading speed.                                                          *)
(***************************************************************************)
EXTENDS Publishing, FiniteSetTheorems, WellFoundedInduction, TLAPS

--------------------------------------------------------------------------------
(* Recursion over the places of a text                                      *)

\* Induction, as a fact about sets of numbers.
LEMMA SetInduction ==
  ASSUME NEW S \in SUBSET Nat, 0 \in S, \A n \in S : n + 1 \in S
  PROVE  S = Nat
<1> DEFINE T == Nat \ S
<1>1. SUFFICES ASSUME T # {} PROVE FALSE
  OBVIOUS
<1>2. PICK x \in T : \A y \in T : <<y, x>> \notin OpToRel(<, Nat)
  <2>1. T \subseteq Nat
    OBVIOUS
  <2> HIDE DEF T
  <2> QED
    BY <1>1, <2>1, NatLessThanWellFounded, WFMin
<1>3. \A y \in T : ~(y < x)
  BY <1>2 DEF OpToRel
<1>4. x \in Nat /\ x \notin S /\ x # 0
  BY <1>2
<1>5. x - 1 \in Nat /\ x - 1 < x /\ (x - 1) + 1 = x
  BY <1>4
<1>6. x - 1 \in S
  BY <1>3, <1>5
<1>7. (x - 1) + 1 \in S
  BY <1>6
<1> QED
  BY <1>4, <1>5, <1>7

Follows(f, base, m, step) == f[0] = base /\ \A n \in 1 .. m : f[n] = step[n][f[n - 1]]

\* A recursion over the places of a text has a solution.
LEMMA Iterates ==
  ASSUME NEW S, NEW base \in S, NEW m \in Nat, NEW step \in [1 .. m -> [S -> S]]
  PROVE  \E f \in [0 .. m -> S] : Follows(f, base, m, step)
<1> DEFINE Solves(f, k) == /\ f \in [0 .. k -> S] /\ f[0] = base
                           /\ \A n \in 1 .. k : f[n] = step[n][f[n - 1]]
           Solved == {k \in Nat : k <= m => \E f : Solves(f, k)}
<1>1. \E f : Solves(f, 0)
  <2>1. Solves([n \in 0 .. 0 |-> base], 0)
    OBVIOUS
  <2> QED
    BY <2>1
<1>2. ASSUME NEW k \in Nat, k + 1 <= m, NEW f, Solves(f, k) PROVE \E g : Solves(g, k + 1)
  <2> DEFINE g == [n \in 0 .. k + 1 |-> IF n = k + 1 THEN step[n][f[k]] ELSE f[n]]
  <2>1. f \in [0 .. k -> S] /\ f[k] \in S /\ step[k + 1][f[k]] \in S
    BY <1>2
  <2>2. g \in [0 .. k + 1 -> S]
    BY <2>1
  <2>3. g[0] = base
    BY <1>2
  <2>4. ASSUME NEW n \in 1 .. k + 1 PROVE g[n] = step[n][g[n - 1]]
    <3>1. n - 1 \in 0 .. k /\ g[n - 1] = f[n - 1]
      BY <1>2
    <3>2. CASE n = k + 1
      BY <3>1, <3>2
    <3>3. CASE n # k + 1
      <4>1. n \in 1 .. k /\ g[n] = f[n]
        BY <3>3
      <4> QED
        BY <1>2, <3>1, <4>1
    <3> QED
      BY <3>2, <3>3
  <2> HIDE DEF g
  <2>5. Solves(g, k + 1)
    BY <2>2, <2>3, <2>4
  <2> QED
    BY <2>5
<1>3. 0 \in Solved /\ Solved \in SUBSET Nat
  <2> HIDE DEF Solves
  <2> QED
    BY <1>1
<1>4. ASSUME NEW k \in Solved PROVE k + 1 \in Solved
  <2> HIDE DEF Solves
  <2> QED
    BY <1>2
<1>5. Solved = Nat
  <2> HIDE DEF Solved
  <2> QED
    BY <1>3, <1>4, SetInduction
<1>6. \E f : Solves(f, m)
  <2> HIDE DEF Solves
  <2> QED
    <3>1. m \in Solved
      BY <1>5
    <3> QED
      BY <3>1
<1> QED
  BY <1>6 DEF Follows

\* A function that follows the recursion as long as it is of the type is of it.
LEMMA Unfolds ==
  ASSUME NEW S, NEW base \in S, NEW m \in Nat, NEW step \in [1 .. m -> [S -> S]],
         NEW h, h[0] = base, DOMAIN h = 0 .. m, h = [n \in 0 .. m |-> h[n]],
         \A n \in 1 .. m : h[n - 1] \in S => h[n] = step[n][h[n - 1]]
  PROVE  h \in [0 .. m -> S]
<1> DEFINE Good == {n \in Nat : n <= m => h[n] \in S}
<1>1. 0 \in Good /\ Good \in SUBSET Nat
  OBVIOUS
<1>2. ASSUME NEW n \in Good PROVE n + 1 \in Good
  <2>1. SUFFICES ASSUME n + 1 <= m PROVE h[n + 1] \in S
    OBVIOUS
  <2>2. h[n] \in S /\ (n + 1) - 1 = n /\ n + 1 \in 1 .. m
    BY <2>1
  <2>3. step[n + 1][h[n]] \in S /\ h[n + 1] = step[n + 1][h[n]]
    BY <2>2
  <2> QED
    BY <2>3
<1>3. Good = Nat
  <2> HIDE DEF Good
  <2> QED
    BY <1>1, <1>2, SetInduction
<1>4. \A n \in 0 .. m : h[n] \in S
  BY <1>3
<1> QED
  BY <1>4

\* What the recursions of ReadTime define.
LEMMA KeptUnfolds ==
  ASSUME NEW text \in Seq(Kinds)
  PROVE  /\ Kept(text) \in [0 .. Len(text) -> Seq(Kinds)]
         /\ Kept(text)[0] = <<>>
         /\ \A n \in 1 .. Len(text) :
              Kept(text)[n] = IF text[n] = "ideo" THEN Kept(text)[n - 1]
                              ELSE Append(Kept(text)[n - 1], text[n])
<1> DEFINE m == Len(text)
           S == Seq(Kinds)
           empty == << >>
           R(n, s) == IF text[n] = "ideo" THEN s ELSE Append(s, text[n])
           Body(f) == [n \in 0 .. m |-> IF n = 0 THEN empty ELSE R(n, f[n - 1])]
           step == [n \in 1 .. m |-> [s \in S |-> R(n, s)]]
           h == Kept(text)
<1>1. m \in Nat /\ \A n \in 1 .. m : text[n] \in Kinds
  OBVIOUS
<1>2. empty \in S /\ \A n \in 1 .. m : \A s \in S : R(n, s) \in S
  BY <1>1
<1>3. h = CHOOSE f : f = Body(f)
  BY DEF Kept
<1> HIDE DEF R, S, empty, m, h
<1>4. step \in [1 .. m -> [S -> S]]
  BY <1>2
<1>5. PICK f \in [0 .. m -> S] : Follows(f, empty, m, step)
  <2> HIDE DEF step
  <2> QED
    BY <1>1, <1>2, <1>4, Iterates
<1>6. ASSUME NEW n \in 1 .. m PROVE f[n] = R(n, f[n - 1])
  <2>1. n - 1 \in 0 .. m /\ f[n - 1] \in S
    BY <1>1, <1>5
  <2> QED
    BY <1>5, <2>1 DEF Follows
<1>7. f = Body(f)
  BY <1>1, <1>5, <1>6 DEF Follows
<1>8. h = Body(h)
  <2> HIDE DEF Body
  <2> QED
    BY <1>3, <1>7
<1>9. DOMAIN h = 0 .. m /\ h = [n \in 0 .. m |-> h[n]]
  BY <1>8
<1>10. h[0] = empty /\ \A n \in 1 .. m : h[n] = R(n, h[n - 1])
  BY <1>1, <1>8
<1>11. \A n \in 1 .. m : h[n - 1] \in S => h[n] = step[n][h[n - 1]]
  BY <1>10
<1>12. h \in [0 .. m -> S]
  <2> HIDE DEF step, Body
  <2> QED
    BY <1>1, <1>2, <1>4, <1>9, <1>10, <1>11, Unfolds
<1> QED
  BY <1>10, <1>12 DEF R, S, empty, m, h

LEMMA MatchesUnfolds ==
  ASSUME NEW text \in Seq(Kinds)
  PROVE  /\ Matches(text) \in [0 .. Len(text) -> Nat]
         /\ Matches(text)[0] = 0
         /\ \A n \in 1 .. Len(text) :
              Matches(text)[n] = IF text[n] = "word" /\ (n = 1 \/ text[n - 1] # "word")
                                 THEN Matches(text)[n - 1] + 1 ELSE Matches(text)[n - 1]
<1> DEFINE m == Len(text)
           zero == 0
           R(n, c) == IF text[n] = "word" /\ (n = 1 \/ text[n - 1] # "word") THEN c + 1 ELSE c
           Body(f) == [n \in 0 .. m |-> IF n = 0 THEN zero ELSE R(n, f[n - 1])]
           step == [n \in 1 .. m |-> [c \in Nat |-> R(n, c)]]
           h == Matches(text)
<1>1. m \in Nat
  OBVIOUS
<1>2. zero \in Nat /\ \A n \in 1 .. m : \A c \in Nat : R(n, c) \in Nat
  OBVIOUS
<1>3. h = CHOOSE f : f = Body(f)
  BY DEF Matches
<1> HIDE DEF R, zero, m, h
<1>4. step \in [1 .. m -> [Nat -> Nat]]
  BY <1>2
<1>5. PICK f \in [0 .. m -> Nat] : Follows(f, zero, m, step)
  <2> HIDE DEF step
  <2> QED
    BY <1>1, <1>2, <1>4, Iterates
<1>6. ASSUME NEW n \in 1 .. m PROVE f[n] = R(n, f[n - 1])
  <2>1. n - 1 \in 0 .. m /\ f[n - 1] \in Nat
    BY <1>1, <1>5
  <2> QED
    BY <1>5, <2>1 DEF Follows
<1>7. f = Body(f)
  BY <1>1, <1>5, <1>6 DEF Follows
<1>8. h = Body(h)
  <2> HIDE DEF Body
  <2> QED
    BY <1>3, <1>7
<1>9. DOMAIN h = 0 .. m /\ h = [n \in 0 .. m |-> h[n]]
  BY <1>8
<1>10. h[0] = zero /\ \A n \in 1 .. m : h[n] = R(n, h[n - 1])
  BY <1>1, <1>8
<1>11. \A n \in 1 .. m : h[n - 1] \in Nat => h[n] = step[n][h[n - 1]]
  BY <1>10
<1>12. h \in [0 .. m -> Nat]
  <2> DEFINE S == Nat
  <2>1. zero \in S /\ step \in [1 .. m -> [S -> S]]
    BY <1>2, <1>4
  <2>2. \A n \in 1 .. m : h[n - 1] \in S => h[n] = step[n][h[n - 1]]
    BY <1>11
  <2> HIDE DEF step, Body, S
  <2>3. h \in [0 .. m -> S]
    BY <1>1, <1>9, <1>10, <2>1, <2>2, Unfolds
  <2> QED
    BY <2>3 DEF S
<1> QED
  BY <1>10, <1>12 DEF R, zero, m, h

--------------------------------------------------------------------------------
(* Words                                                                    *)

\* Where the matches of a text begin.
Begins(text) ==
  {i \in DOMAIN text : text[i] = "word" /\ (i = 1 \/ text[i - 1] # "word")}

UpToPlace(S, n) == {i \in S : i <= n}

\* One place more, at most one member more.
LEMMA PlaceAdded ==
  ASSUME NEW S, \A i \in S : i \in Nat /\ i # 0, NEW n \in Nat
  PROVE  /\ IsFiniteSet(UpToPlace(S, n)) /\ Cardinality(UpToPlace(S, n)) \in Nat
         /\ Cardinality(UpToPlace(S, n + 1)) =
              IF n + 1 \in S THEN Cardinality(UpToPlace(S, n)) + 1
              ELSE Cardinality(UpToPlace(S, n))
         /\ Cardinality(UpToPlace(S, 0)) = 0
<1>1. IsFiniteSet(UpToPlace(S, n))
  <2>1. UpToPlace(S, n) \in SUBSET Nat /\ \A i \in UpToPlace(S, n) : i <= n
    BY DEF UpToPlace
  <2> QED
    BY <2>1, FS_BoundedSetOfNaturals
<1>2. Cardinality(UpToPlace(S, n)) \in Nat
  BY <1>1, FS_CardinalityType
<1>3. n + 1 \notin UpToPlace(S, n)
  BY DEF UpToPlace
<1>4. \A i : i \in UpToPlace(S, n + 1) <=> i \in UpToPlace(S, n) \/ (i = n + 1 /\ n + 1 \in S)
  BY DEF UpToPlace
<1>5. ASSUME n + 1 \in S
      PROVE  Cardinality(UpToPlace(S, n + 1)) = Cardinality(UpToPlace(S, n)) + 1
  <2>1. UpToPlace(S, n + 1) = UpToPlace(S, n) \cup {n + 1}
    BY <1>4, <1>5
  <2> QED
    BY <1>1, <1>3, <2>1, FS_AddElement
<1>6. ASSUME n + 1 \notin S
      PROVE  Cardinality(UpToPlace(S, n + 1)) = Cardinality(UpToPlace(S, n))
  <2>1. UpToPlace(S, n + 1) = UpToPlace(S, n)
    BY <1>4, <1>6
  <2> QED
    BY <2>1
<1>7. Cardinality(UpToPlace(S, 0)) = 0
  <2>1. \A i : i \notin UpToPlace(S, 0)
    BY DEF UpToPlace
  <2>2. UpToPlace(S, 0) = {}
    BY <2>1
  <2> QED
    BY <2>2, FS_EmptySet
<1> QED
  BY <1>1, <1>2, <1>5, <1>6, <1>7

LEMMA CountIsBegins ==
  ASSUME NEW text \in Seq(Kinds)
  PROVE  totalWordCount(text) = Cardinality(Begins(text)) /\ totalWordCount(text) \in Nat
<1> DEFINE m == Len(text)
           h == Matches(text)
           B == Begins(text)
           Good == {n \in Nat : n <= m => h[n] = Cardinality(UpToPlace(B, n))}
<1>1. m \in Nat /\ DOMAIN text = 1 .. m
  OBVIOUS
<1>2. /\ h \in [0 .. m -> Nat] /\ h[0] = 0
      /\ \A n \in 1 .. m : h[n] = IF n \in B THEN h[n - 1] + 1 ELSE h[n - 1]
  BY <1>1, MatchesUnfolds DEF Begins
<1>3. \A i \in B : i \in 1 .. m /\ i \in Nat /\ i # 0
  BY <1>1 DEF Begins
<1>4. totalWordCount(text) = h[m]
  BY DEF totalWordCount
<1> HIDE DEF h, B, m
<1>5. 0 \in Good /\ Good \in SUBSET Nat
  BY <1>2, <1>3, PlaceAdded
<1>6. ASSUME NEW n \in Good PROVE n + 1 \in Good
  <2>1. SUFFICES ASSUME n + 1 <= m PROVE h[n + 1] = Cardinality(UpToPlace(B, n + 1))
    OBVIOUS
  <2>2. n \in Nat /\ n + 1 \in 1 .. m /\ (n + 1) - 1 = n /\ h[n] = Cardinality(UpToPlace(B, n))
    BY <1>1, <2>1
  <2>3. h[n + 1] = IF n + 1 \in B THEN h[n] + 1 ELSE h[n]
    BY <1>2, <2>2
  <2>4. Cardinality(UpToPlace(B, n + 1)) =
          IF n + 1 \in B THEN Cardinality(UpToPlace(B, n)) + 1
          ELSE Cardinality(UpToPlace(B, n))
    BY <1>3, <2>2, PlaceAdded
  <2> QED
    BY <2>2, <2>3, <2>4
<1>7. Good = Nat
  <2> HIDE DEF Good
  <2> QED
    BY <1>5, <1>6, SetInduction
<1>8. h[m] = Cardinality(UpToPlace(B, m))
  <2>1. m \in Good /\ m <= m
    BY <1>1, <1>7
  <2> QED
    BY <2>1
<1>9. UpToPlace(B, m) = B
  <2>1. \A i : i \in UpToPlace(B, m) <=> i \in B
    BY <1>1, <1>3 DEF UpToPlace
  <2> QED
    BY <2>1
<1>10. h[m] \in Nat
  BY <1>1, <1>2
<1> QED
  BY <1>4, <1>8, <1>9, <1>10 DEF B

\* One more character begins a match, or does not.
EndsInWord(s) == s # <<>> /\ s[Len(s)] = "word"

LEMMA BeginsAppend ==
  ASSUME NEW s \in Seq(Kinds), NEW c \in Kinds
  PROVE  /\ Cardinality(Begins(s)) \in Nat
         /\ Cardinality(Begins(Append(s, c))) =
              IF c = "word" /\ ~EndsInWord(s) THEN Cardinality(Begins(s)) + 1
              ELSE Cardinality(Begins(s))
         /\ EndsInWord(Append(s, c)) <=> c = "word"
<1> DEFINE m == Len(s)
           t == Append(s, c)
<1>1. m \in Nat /\ DOMAIN s = 1 .. m /\ DOMAIN t = 1 .. m + 1
  OBVIOUS
<1>2. t \in Seq(Kinds) /\ Len(t) = m + 1 /\ t[m + 1] = c /\ \A i \in 1 .. m : t[i] = s[i]
  OBVIOUS
<1>3. s # <<>> <=> m # 0
  OBVIOUS
<1>4. EndsInWord(t) <=> c = "word"
  <2>1. t # <<>>
    BY <1>1, <1>2
  <2> QED
    BY <1>2, <2>1 DEF EndsInWord
<1> HIDE DEF t
<1>5. \A i \in Begins(t) : i \in Nat /\ i # 0
  BY <1>1 DEF Begins
<1>6. UpToPlace(Begins(t), m) = Begins(s) /\ UpToPlace(Begins(t), m + 1) = Begins(t)
  <2>1. \A i \in 1 .. m : t[i] = s[i] /\ (i # 1 => t[i - 1] = s[i - 1])
    BY <1>1, <1>2
  <2>2. UpToPlace(Begins(t), m) = Begins(s)
    BY <1>1, <2>1 DEF UpToPlace, Begins
  <2>3. UpToPlace(Begins(t), m + 1) = Begins(t)
    BY <1>1 DEF UpToPlace, Begins
  <2> QED
    BY <2>2, <2>3
<1>7. m + 1 \in Begins(t) <=> c = "word" /\ ~EndsInWord(s)
  <2>1. m # 0 => t[m] = s[m]
    BY <1>1, <1>2
  <2>2. m + 1 \in Begins(t) <=> t[m + 1] = "word" /\ (m + 1 = 1 \/ t[(m + 1) - 1] # "word")
    BY <1>1 DEF Begins
  <2>3. (m + 1) - 1 = m /\ (m + 1 = 1 <=> m = 0)
    BY <1>1
  <2> QED
    BY <1>2, <1>3, <2>1, <2>2, <2>3 DEF EndsInWord
<1>8. /\ Cardinality(UpToPlace(Begins(t), m)) \in Nat
      /\ Cardinality(UpToPlace(Begins(t), m + 1)) =
           IF m + 1 \in Begins(t) THEN Cardinality(UpToPlace(Begins(t), m)) + 1
           ELSE Cardinality(UpToPlace(Begins(t), m))
  BY <1>1, <1>5, PlaceAdded
<1> QED
  BY <1>4, <1>6, <1>7, <1>8 DEF t

(***************************************************************************)
(* Removing the ideographs and matching counts the word starts of a text:  *)
(* by induction on the places of the text, with whether a word is open.    *)
(***************************************************************************)
THEOREM WordCountIsStarts ==
  ASSUME NEW text \in Seq(Kinds)
  PROVE  wordCount(text) = Cardinality(WordStarts(text)) /\ wordCount(text) \in Nat
<1> DEFINE m == Len(text)
           k == Kept(text)
           W == WordStarts(text)
           Open(n) == \E j \in 1 .. n :
                        text[j] = "word" /\ \A l \in j + 1 .. n : text[l] = "ideo"
           Counted(n) == /\ Cardinality(Begins(k[n])) = Cardinality(UpToPlace(W, n))
                         /\ EndsInWord(k[n]) <=> Open(n)
           Good == {n \in Nat : n <= m => Counted(n)}
<1>1. m \in Nat /\ DOMAIN text = 1 .. m /\ \A n \in 1 .. m : text[n] \in Kinds
  OBVIOUS
<1>2. /\ k \in [0 .. m -> Seq(Kinds)] /\ k[0] = <<>>
      /\ \A n \in 1 .. m :
           k[n] = IF text[n] = "ideo" THEN k[n - 1] ELSE Append(k[n - 1], text[n])
  BY KeptUnfolds
<1>3. \A i \in W : i \in 1 .. m /\ i \in Nat /\ i # 0
  BY <1>1 DEF WordStarts
<1>4. \A n \in 0 .. m - 1 : n + 1 \in W <=> text[n + 1] = "word" /\ ~Open(n)
  <2>1. SUFFICES ASSUME NEW n \in 0 .. m - 1
                 PROVE  n + 1 \in W <=> text[n + 1] = "word" /\ ~Open(n)
    OBVIOUS
  <2>2. n + 1 \in 1 .. m /\ (n + 1) - 1 = n
    BY <1>1
  <2> QED
    BY <1>1, <2>2 DEF WordStarts
<1>5. formattedString(text) = k[m]
  BY DEF formattedString
<1> HIDE DEF k, W, m
<1>6. Counted(0)
  <2>1. Begins(k[0]) = {} /\ ~EndsInWord(k[0]) /\ ~Open(0)
    BY <1>2 DEF Begins, EndsInWord
  <2>2. Cardinality(UpToPlace(W, 0)) = 0
    BY <1>3, PlaceAdded
  <2> QED
    BY <2>1, <2>2, FS_EmptySet
<1>7. ASSUME NEW n \in Nat, n + 1 <= m PROVE Open(n + 1) <=>
        \/ text[n + 1] = "word"
        \/ text[n + 1] = "ideo" /\ Open(n)
  <2>1. ASSUME text[n + 1] = "word" PROVE Open(n + 1)
    <3>1. \A l \in (n + 1) + 1 .. n + 1 : text[l] = "ideo"
      OBVIOUS
    <3>2. n + 1 \in 1 .. n + 1
      OBVIOUS
    <3> QED
      BY <2>1, <3>1, <3>2
  <2>2. ASSUME text[n + 1] = "ideo", Open(n) PROVE Open(n + 1)
    <3>1. PICK j \in 1 .. n : text[j] = "word" /\ \A l \in j + 1 .. n : text[l] = "ideo"
      BY <2>2
    <3>2. j \in 1 .. n + 1 /\ \A l \in j + 1 .. n + 1 : text[l] = "ideo"
      BY <2>2, <3>1
    <3> QED
      BY <3>1, <3>2
  <2>3. ASSUME Open(n + 1) PROVE text[n + 1] = "word" \/ (text[n + 1] = "ideo" /\ Open(n))
    <3>1. PICK j \in 1 .. n + 1 : text[j] = "word" /\ \A l \in j + 1 .. n + 1 : text[l] = "ideo"
      BY <2>3
    <3>2. CASE j = n + 1
      BY <3>1, <3>2
    <3>3. CASE j # n + 1
      <4>1. j \in 1 .. n /\ n + 1 \in j + 1 .. n + 1
        BY <3>3
      <4>2. \A l \in j + 1 .. n : text[l] = "ideo"
        BY <3>1, <4>1
      <4> QED
        BY <3>1, <4>1, <4>2
    <3> QED
      BY <3>2, <3>3
  <2> HIDE DEF Open
  <2> QED
    BY <2>1, <2>2, <2>3
<1> HIDE DEF Open
<1>8. ASSUME NEW n \in Nat, n + 1 <= m, Counted(n) PROVE Counted(n + 1)
  <2>1. /\ n \in 0 .. m /\ n \in 0 .. m - 1 /\ n + 1 \in 1 .. m /\ (n + 1) - 1 = n
        /\ k[n] \in Seq(Kinds) /\ text[n + 1] \in Kinds
    BY <1>1, <1>2, <1>8
  <2>2. k[n + 1] = IF text[n + 1] = "ideo" THEN k[n] ELSE Append(k[n], text[n + 1])
    BY <1>2, <2>1
  <2>3. Cardinality(UpToPlace(W, n + 1)) =
          IF n + 1 \in W THEN Cardinality(UpToPlace(W, n)) + 1
          ELSE Cardinality(UpToPlace(W, n))
    BY <1>3, PlaceAdded
  <2>4. n + 1 \in W <=> text[n + 1] = "word" /\ ~Open(n)
    BY <1>4, <2>1
  <2>5. CASE text[n + 1] = "ideo"
    BY <1>7, <1>8, <2>2, <2>3, <2>4, <2>5
  <2>6. CASE text[n + 1] # "ideo"
    <3>1. k[n + 1] = Append(k[n], text[n + 1])
      BY <2>2, <2>6
    <3>2. /\ Cardinality(Begins(k[n + 1])) =
               IF text[n + 1] = "word" /\ ~EndsInWord(k[n])
               THEN Cardinality(Begins(k[n])) + 1 ELSE Cardinality(Begins(k[n]))
          /\ EndsInWord(k[n + 1]) <=> text[n + 1] = "word"
      BY <2>1, <3>1, BeginsAppend
    <3> QED
      BY <1>7, <1>8, <2>3, <2>4, <2>6, <3>2
  <2> QED
    BY <2>5, <2>6
<1>9. Counted(m)
  <2> HIDE DEF Counted
  <2>1. 0 \in Good /\ Good \in SUBSET Nat
    BY <1>6
  <2>2. ASSUME NEW n \in Good PROVE n + 1 \in Good
    <3>1. SUFFICES ASSUME n + 1 <= m PROVE Counted(n + 1)
      OBVIOUS
    <3>2. n <= m
      BY <1>1, <3>1
    <3> QED
      BY <1>8, <3>1, <3>2
  <2>3. Good = Nat
    <3> HIDE DEF Good
    <3> QED
      BY <2>1, <2>2, SetInduction
  <2>4. m \in Good /\ m <= m
    BY <1>1, <2>3
  <2> QED
    BY <2>4
<1>10. UpToPlace(W, m) = W
  <2>1. \A i : i \in UpToPlace(W, m) <=> i \in W
    BY <1>1, <1>3 DEF UpToPlace
  <2> QED
    BY <2>1
<1>11. k[m] \in Seq(Kinds)
  BY <1>1, <1>2
<1> QED
  BY <1>5, <1>9, <1>10, <1>11, CountIsBegins DEF wordCount, W

LEMMA DivBounds ==
  ASSUME NEW a \in Nat, NEW b \in Nat \ {0}
  PROVE  /\ a \div b \in Nat /\ b * (a \div b) <= a /\ a < b * (a \div b) + b
  BY SMT

(***************************************************************************)
(* The seconds that joinRoom stores with the entry are as near to the time *)
(* of the words as whole seconds can be, at any reading speed.             *)
(***************************************************************************)
THEOREM SecondsAreNearest ==
  ASSUME NEW words \in Nat
  PROVE  Seconds(words) \in Nat /\ IsNearest(Seconds(words), words)
<1> DEFINE a == 120 * words + WordsPerMin
           b == 2 * WordsPerMin
           s == a \div b
<1>0. WordsPerMin \in Nat \ {0}
  BY ReadTimeAssumption
<1>1. a \in Nat /\ b \in Nat \ {0}
  BY <1>0
<1>2. s \in Nat /\ b * s <= a /\ a < b * s + b
  <2> HIDE DEF a, b
  <2> QED
    BY <1>1, DivBounds
<1>3. s = Seconds(words)
  BY DEF Seconds
<1> HIDE DEF s
<1>4. /\ 2 * (s * WordsPerMin) <= 120 * words + WordsPerMin
      /\ 120 * words <= 2 * (s * WordsPerMin) + WordsPerMin
  BY <1>0, <1>2
<1> DEFINE z == s * WordsPerMin
<1>5. z \in Nat
  BY <1>0, <1>2
<1>6. 2 * z <= 120 * words + WordsPerMin /\ 120 * words <= 2 * z + WordsPerMin
  BY <1>4
<1> HIDE DEF z
<1>7. 2 * (z - 60 * words) <= WordsPerMin /\ 2 * (60 * words - z) <= WordsPerMin
  BY <1>0, <1>5, <1>6
<1> QED
  BY <1>2, <1>3, <1>7 DEF IsNearest, z

--------------------------------------------------------------------------------
(* The inductive invariant                                                  *)

NewsRow == [cid: Files, words: {wordCount(file) : file \in Files}]
PlainRequest == [step: {"store", "check", "get"}, cid: Files]
ContentRequest == [step: {"decode", "insert"}, cid: Files, content: Files]
RequestType == PlainRequest \cup ContentRequest \cup {Idle}

TypeOK ==
  /\ storage \subseteq Files
  /\ mined \subseteq Files
  /\ news \in Seq(NewsRow)
  /\ request \in [Requests -> RequestType]

\* A request that has the content of a file has that of the file of its cid.
ContentOfCid ==
  \A q \in Requests :
    request[q].step \in {"decode", "insert"} => request[q].content = request[q].cid

\* What was counted for a row is the file its cid names.
WordsOfCid ==
  \A i \in DOMAIN news : news[i].words = wordCount(news[i].cid)

PublishingInv == TypeOK /\ ContentOfCid /\ WordsOfCid

\* A request whose step is known is of the kind that has this step.
LEMMA RequestStepType ==
  ASSUME TypeOK, NEW q \in Requests
  PROVE  /\ request[q].step \in {"store", "check", "get"} => request[q] \in PlainRequest
         /\ request[q].step \in {"decode", "insert"} => request[q] \in ContentRequest
<1>1. request[q] \in PlainRequest \cup ContentRequest \cup {Idle}
  BY DEF TypeOK, RequestType
<1>2. ASSUME request[q] \in PlainRequest PROVE request[q].step \in {"store", "check", "get"}
  BY <1>2 DEF PlainRequest
<1>3. ASSUME request[q] \in ContentRequest PROVE request[q].step \in {"decode", "insert"}
  BY <1>3 DEF ContentRequest
<1>4. ASSUME request[q] = Idle PROVE request[q].step = "idle"
  BY <1>4 DEF Idle
<1> QED
  BY <1>1, <1>2, <1>3, <1>4

\* What a step does to one request.
LEMMA GotoType ==
  ASSUME TypeOK, NEW q \in Requests, NEW r \in RequestType, Goto(q, r)
  PROVE  /\ request' \in [Requests -> RequestType]
         /\ request'[q] = r
         /\ \A p \in Requests : p # q => request'[p] = request[p]
  BY DEF TypeOK, Goto

(***************************************************************************)
(* Every step that does not insert leaves the table as it is, and moves at *)
(* most one request, to a state that keeps ContentOfCid.                   *)
(***************************************************************************)
LEMMA PlainStep ==
  ASSUME TypeOK, ContentOfCid, NEW q \in Requests, NEW r \in RequestType, Goto(q, r),
         r.step \in {"decode", "insert"} => r.content = r.cid
  PROVE  request' \in [Requests -> RequestType] /\ ContentOfCid'
  BY GotoType DEF ContentOfCid

LEMMA InsertStep ==
  ASSUME PublishingInv, NEW q \in Requests, InsertNews(q)
  PROVE  PublishingInv'
<1>0. TypeOK /\ ContentOfCid /\ WordsOfCid
  BY DEF PublishingInv
<1>1. request[q] \in ContentRequest /\ request[q].content = request[q].cid
  BY <1>0, RequestStepType DEF InsertNews, ContentOfCid
<1>2. Row(q) \in NewsRow /\ Row(q).words = wordCount(Row(q).cid) /\ Row(q).cid = request[q].cid
  BY <1>1 DEF Row, ContentRequest, NewsRow
<1> DEFINE n == Len(news)
<1>3. /\ news \in Seq(NewsRow) /\ n \in Nat /\ DOMAIN news = 1 .. n
  BY <1>0 DEF TypeOK
<1>4. /\ news' = Append(news, Row(q)) /\ news' \in Seq(NewsRow)
      /\ DOMAIN news' = 1 .. n + 1
      /\ news'[n + 1] = Row(q) /\ \A i \in 1 .. n : news'[i] = news[i]
  BY <1>2, <1>3 DEF InsertNews
<1>5. request' \in [Requests -> RequestType] /\ ContentOfCid'
  BY <1>0, PlainStep DEF InsertNews, Finish, RequestType, Idle
<1>6. TypeOK'
  BY <1>0, <1>4, <1>5 DEF TypeOK, InsertNews
<1>7. WordsOfCid'
  BY <1>0, <1>2, <1>3, <1>4 DEF WordsOfCid
<1> QED
  BY <1>5, <1>6, <1>7 DEF PublishingInv

LEMMA PublishingStep == PublishingInv /\ [Next]_vars => PublishingInv'
<1> SUFFICES ASSUME PublishingInv, [Next]_vars PROVE PublishingInv'
  OBVIOUS
<1>0. TypeOK /\ ContentOfCid /\ WordsOfCid
  BY DEF PublishingInv
<1>1. ASSUME NEW q \in Requests, InsertNews(q) PROVE PublishingInv'
  BY <1>1, InsertStep
<1>2. ASSUME UNCHANGED news, storage' \subseteq Files, mined' \subseteq Files,
             request' \in [Requests -> RequestType], ContentOfCid'
      PROVE  PublishingInv'
  BY <1>0, <1>2 DEF PublishingInv, TypeOK, WordsOfCid
<1>3. ASSUME NEW cid \in storage, Mine(cid) PROVE PublishingInv'
  BY <1>0, <1>2, <1>3 DEF Mine, TypeOK, ContentOfCid
<1>4. ASSUME NEW q \in Requests, NEW file \in Files, UploadBlogContent(q, file)
      PROVE  PublishingInv'
  <2>1. [step |-> "store", cid |-> file] \in RequestType
    BY DEF RequestType, PlainRequest
  <2> QED
    BY <1>0, <1>2, <1>4, <2>1, PlainStep DEF UploadBlogContent, TypeOK
<1>5. ASSUME NEW q \in Requests, StoreMarkdownFile(q) PROVE PublishingInv'
  <2>1. request[q].cid \in Files
    BY <1>0, <1>5, RequestStepType DEF StoreMarkdownFile, PlainRequest
  <2> QED
    BY <1>0, <1>2, <1>5, <2>1, PlainStep
    DEF StoreMarkdownFile, Finish, TypeOK, RequestType, Idle
<1>6. ASSUME NEW q \in Requests, NEW cid \in storage, CreateNews(q, cid) PROVE PublishingInv'
  <2>1. [step |-> "check", cid |-> cid] \in RequestType
    BY <1>0 DEF RequestType, PlainRequest, TypeOK
  <2> QED
    BY <1>0, <1>2, <1>6, <2>1, PlainStep DEF CreateNews, TypeOK
<1>7. ASSUME NEW q \in Requests, CheckCid(q) PROVE PublishingInv'
  <2> DEFINE r == [request[q] EXCEPT !.step = "get"]
  <2>1. request[q] \in PlainRequest
    BY <1>0, <1>7, RequestStepType DEF CheckCid
  <2>2. r \in PlainRequest /\ r.step = "get"
    BY <2>1 DEF PlainRequest
  <2>3. Goto(q, r)
    BY <1>7 DEF CheckCid
  <2> QED
    BY <1>0, <1>2, <1>7, <2>2, <2>3, PlainStep DEF CheckCid, TypeOK, RequestType
<1>8. ASSUME NEW q \in Requests, GetContent(q) PROVE PublishingInv'
  <2> DEFINE r == [step |-> "decode", cid |-> request[q].cid, content |-> request[q].cid]
  <2>1. request[q].cid \in Files
    BY <1>0, <1>8, RequestStepType DEF GetContent, PlainRequest
  <2>2. r \in RequestType /\ r.content = r.cid
    BY <2>1 DEF RequestType, ContentRequest
  <2>3. Goto(q, r) \/ Goto(q, Idle)
    BY <1>8 DEF GetContent, Decode, Finish
  <2>4. Idle \in RequestType /\ Idle.step = "idle"
    BY DEF RequestType, Idle
  <2>5. request' \in [Requests -> RequestType] /\ ContentOfCid'
    BY <1>0, <2>2, <2>3, <2>4, PlainStep
  <2> QED
    BY <1>0, <1>2, <1>8, <2>5 DEF GetContent, TypeOK
<1>9. ASSUME NEW q \in Requests, DecodeTxHash(q) PROVE PublishingInv'
  <2> DEFINE r == [request[q] EXCEPT !.step = "insert"]
  <2>1. request[q] \in ContentRequest /\ request[q].content = request[q].cid
    BY <1>0, <1>9, RequestStepType DEF DecodeTxHash, ContentOfCid
  <2>2. r \in ContentRequest /\ r.content = r.cid
    BY <2>1 DEF ContentRequest
  <2>3. Goto(q, r) \/ Goto(q, Idle)
    BY <1>9 DEF DecodeTxHash, Finish
  <2>4. Idle \in RequestType /\ Idle.step = "idle" /\ r \in RequestType
    BY <2>2 DEF RequestType, Idle
  <2>5. request' \in [Requests -> RequestType] /\ ContentOfCid'
    BY <1>0, <2>2, <2>3, <2>4, PlainStep
  <2> QED
    BY <1>0, <1>2, <1>9, <2>5 DEF DecodeTxHash, TypeOK
<1>10. ASSUME NEW q \in Requests, InsertRefused(q) \/ RequestFail(q) PROVE PublishingInv'
  <2>1. request' \in [Requests -> RequestType] /\ ContentOfCid'
    BY <1>0, <1>10, PlainStep DEF InsertRefused, RequestFail, Finish, RequestType, Idle
  <2> QED
    BY <1>0, <1>2, <1>10, <2>1 DEF InsertRefused, RequestFail, TypeOK
<1>11. ASSUME Restart PROVE PublishingInv'
  BY <1>0, <1>2, <1>11 DEF Restart, TypeOK, RequestType, ContentOfCid, Idle
<1>12. ASSUME UNCHANGED vars PROVE PublishingInv'
  BY <1>0, <1>2, <1>12 DEF vars, TypeOK, ContentOfCid
<1> QED
  BY <1>1, <1>3, <1>4, <1>5, <1>6, <1>7, <1>8, <1>9, <1>10, <1>11, <1>12
  DEF Next, Working, Failure, RequestStep

LEMMA PublishingInvariant == Spec => []PublishingInv
<1>1. Init => PublishingInv
  BY DEF Init, PublishingInv, TypeOK, RequestType, Idle, ContentOfCid, WordsOfCid
<1> QED
  BY <1>1, PublishingStep, PTL DEF Spec

(***************************************************************************)
(* The reading time of a stored news is that of the file its cid names, to *)
(* the nearest second: for files of any length, and whatever fails on the  *)
(* way from the one to the other.                                          *)
(***************************************************************************)
THEOREM ReadTimeIsOfFile == Spec => []ReadTimeOfFile
<1>1. ASSUME PublishingInv PROVE ReadTimeOfFile
  <2>1. SUFFICES ASSUME NEW i \in DOMAIN news
                 PROVE  /\ news[i].words = Cardinality(WordStarts(news[i].cid))
                        /\ IsNearest(Seconds(news[i].words), news[i].words)
    BY DEF ReadTimeOfFile, ToSet
  <2>2. news[i].cid \in Seq(Kinds)
    <3>1. news[i] \in NewsRow
      BY <1>1 DEF PublishingInv, TypeOK
    <3>2. news[i].cid \in Files
      BY <3>1 DEF NewsRow
    <3> QED
      BY <3>2, PublishingAssumption
  <2>3. news[i].words = wordCount(news[i].cid)
    BY <1>1 DEF PublishingInv, WordsOfCid
  <2> QED
    BY <2>2, <2>3, WordCountIsStarts, SecondsAreNearest
<1> QED
  BY <1>1, PublishingInvariant, PTL
================================================================================
