--------------------------- MODULE PaginationProofs ----------------------------
(***************************************************************************)
(* Proofs about walks through the pages, for any news, any page size, any  *)
(* first page and any number of creations between two statements.          *)
(***************************************************************************)
EXTENDS Pagination, FiniteSetTheorems, FunctionTheorems, TLAPS

--------------------------------------------------------------------------------
(* The place of a news in the listing: t is created_at, L the listed news.  *)

\* The news and all that are not older.
UpTo(t, L, n) == {m \in L : t[m] >= t[n]}

Place(t, L, n) == Cardinality(UpTo(t, L, n))

UntiedIn(t, L) == {n \in L : \A m \in L \ {n} : t[m] # t[n]}

Listing(t, L) ==
  {s \in SetToSeqs(L) : \A i, j \in DOMAIN s : i < j => t[s[i]] >= t[s[j]]}

(***************************************************************************)
(* The inductive invariant.  A news that is to come is past the rows the   *)
(* reader has had.  A news that is to come again is past them too, and is  *)
(* owed to a creation, as is each time one has come again.                 *)
(***************************************************************************)

\* How often each news has come once the request is answered.
ShownAfter ==
  [n \in News |-> IF n \in request.data /\ walk.shown[n] < MaxShown
                  THEN walk.shown[n] + 1 ELSE walk.shown[n]]

\* The news of the start that were not shown.
Unseen(shown) == {n \in walk.before \cap Untied : shown[n] = 0}

AllPast(S, k) == \A n \in S : Place(created_at, Listed, n) > k

Repeats(U, shown) == {r \in U \X (2 .. MaxShown) : r[2] <= shown[r[1]]}

Debt(t, L, shown, k) ==
  Repeats(UntiedIn(t, L), shown)
    \cup ({n \in UntiedIn(t, L) : shown[n] > 0 /\ Place(t, L, n) > k} \X {0})

Owed(shown, k) ==
  Cardinality(Debt(created_at, Listed, shown, k)) <= Cardinality(Listed \ walk.before)

Parameters == Int \cup {Absent}

WalkType ==
  /\ created_at \in [News -> Nat \cup {None}]
  /\ now \in Nat
  /\ walk \in [step: {"ask", "wait", "end"}, start: Parameters, page: Parameters,
               perPage: Nat \cup {Absent}, shown: [News -> Nat],
               before: SUBSET Listed, between: SUBSET Listed]
  /\ request \in [total: Nat \cup {None}, data: {None} \cup SUBSET Listed]
  /\ IsFiniteSet(Stored)
  /\ \A n \in News : walk.shown[n] > 0 => n \in Listed
  /\ walk.step # "wait" => request = Idle

\* The walk is on a page from which every page comes that it asks for later.
OnTheWay == walk.step # "end" /\ OrDefault(walk.start, 1) <= 1

ToCome ==
  OnTheWay =>
    /\ AllPast(Unseen(walk.shown), Skip)
    /\ request.data # None => AllPast(Unseen(ShownAfter), Skip + PerPage)

LastCount ==
  OnTheWay /\ request.total # None =>
    IF request.data = None
    THEN Cardinality(Listed) <= request.total + Cardinality(walk.between)
    ELSE Page > 0 /\ request.total <= PerPage * Page =>
           Cardinality(Unseen(ShownAfter)) <= Cardinality(walk.between)

OwedToCreations ==
  OrDefault(walk.start, 1) = 1 /\ walk.step # "end" =>
    /\ Page > 0
    /\ Owed(walk.shown, Skip)
    /\ request.data # None => Owed(ShownAfter, Skip + PerPage)

PaginationInv ==
  /\ WalkType
  /\ ToCome /\ LastCount /\ MissedByCountOnly
  /\ OwedToCreations /\ RepeatsByCreationOnly

--------------------------------------------------------------------------------
(* Places *)

LEMMA OneMore ==
  ASSUME NEW S, IsFiniteSet(S), NEW x, NEW T \in SUBSET (S \cup {x})
  PROVE  /\ IsFiniteSet(T) /\ Cardinality(T) \in Nat /\ Cardinality(S) \in Nat
         /\ Cardinality(T) <= Cardinality(S) + 1
<1> DEFINE R == S \cup {x}
<1>1. IsFiniteSet(R) /\ Cardinality(R) = IF x \in S THEN Cardinality(S) ELSE Cardinality(S) + 1
  BY FS_AddElement
<1> HIDE DEF R
<1>2. IsFiniteSet(T) /\ Cardinality(T) <= Cardinality(R)
  <2>1. T \in SUBSET R
    BY DEF R
  <2> QED
    BY <1>1, <2>1, FS_Subset
<1>3. Cardinality(S) \in Nat /\ Cardinality(T) \in Nat /\ Cardinality(R) \in Nat
  BY <1>1, <1>2, FS_CardinalityType
<1> QED
  BY <1>1, <1>2, <1>3

LEMMA PlaceType ==
  ASSUME NEW L, IsFiniteSet(L), NEW t, \A m \in L : t[m] \in Nat, NEW n \in L
  PROVE  /\ UpTo(t, L, n) \subseteq L /\ IsFiniteSet(UpTo(t, L, n))
         /\ Cardinality(L) \in Nat
         /\ Place(t, L, n) \in 1 .. Cardinality(L)
<1>1. UpTo(t, L, n) \subseteq L /\ n \in UpTo(t, L, n)
  BY DEF UpTo
<1>2. IsFiniteSet(UpTo(t, L, n)) /\ Cardinality(UpTo(t, L, n)) <= Cardinality(L)
  BY <1>1, FS_Subset
<1>3. Cardinality(UpTo(t, L, n)) \in Nat /\ Cardinality(L) \in Nat
  BY <1>2, FS_CardinalityType
<1>4. Cardinality(UpTo(t, L, n)) # 0
  BY <1>1, <1>2, FS_EmptySet
<1> QED
  BY <1>1, <1>2, <1>3, <1>4 DEF Place

\* No two untied news have one place.
LEMMA PlacesDiffer ==
  ASSUME NEW L, IsFiniteSet(L), NEW t, \A m \in L : t[m] \in Nat,
         NEW n \in UntiedIn(t, L), NEW o \in UntiedIn(t, L), Place(t, L, n) = Place(t, L, o)
  PROVE  n = o
<1>1. ASSUME NEW a \in UntiedIn(t, L), NEW b \in UntiedIn(t, L), t[a] > t[b]
      PROVE  Place(t, L, a) # Place(t, L, b)
  <2>1. a \in L /\ b \in L
    BY DEF UntiedIn
  <2>2. UpTo(t, L, a) \subseteq UpTo(t, L, b) /\ b \in UpTo(t, L, b) /\ b \notin UpTo(t, L, a)
    BY <1>1, <2>1 DEF UpTo
  <2>3. IsFiniteSet(UpTo(t, L, b))
    BY <2>1, PlaceType
  <2> QED
    BY <2>2, <2>3, FS_Subset DEF Place
<1>2. n # o => t[n] > t[o] \/ t[o] > t[n]
  BY DEF UntiedIn
<1> QED
  BY <1>1, <1>2

\* Past the place k there are no more untied news than news.
LEMMA CountPast ==
  ASSUME NEW L, IsFiniteSet(L), NEW t, \A m \in L : t[m] \in Nat,
         NEW k \in Nat, NEW S \in SUBSET UntiedIn(t, L), \A n \in S : Place(t, L, n) > k
  PROVE  /\ IsFiniteSet(S) /\ Cardinality(S) \in Nat /\ Cardinality(L) \in Nat
         /\ Cardinality(L) <= k => S = {}
         /\ Cardinality(L) >= k => Cardinality(S) <= Cardinality(L) - k
<1> DEFINE T == k + 1 .. Cardinality(L)
           f == [n \in S |-> Place(t, L, n)]
<1>1. Cardinality(L) \in Nat
  BY FS_CardinalityType
<1>2. \A n \in S : n \in L /\ Place(t, L, n) \in T
  BY PlaceType, <1>1 DEF UntiedIn
<1>3. f \in [S -> T] /\ \A a, b \in S : f[a] = f[b] => a = b
  BY <1>2, PlacesDiffer
<1>4. /\ IsFiniteSet(T)
      /\ Cardinality(T) = IF k + 1 > Cardinality(L) THEN 0 ELSE Cardinality(L) - (k + 1) + 1
  <2>1. k + 1 \in Int /\ Cardinality(L) \in Int
    BY <1>1
  <2> QED
    BY <2>1, FS_Interval
<1>5. f \in Injection(S, T)
  <2> HIDE DEF f, T
  <2> QED
    BY <1>3, Fun_IsInj
<1>6. IsFiniteSet(S) /\ Cardinality(S) <= Cardinality(T)
  <2> HIDE DEF f, T
  <2> QED
    BY <1>4, <1>5, FS_Injection
<1>7. Cardinality(S) \in Nat
  BY <1>6, FS_CardinalityType
<1>8. Cardinality(L) <= k => S = {}
  BY <1>1, <1>2
<1> QED
  BY <1>1, <1>4, <1>6, <1>7, <1>8

\* Whatever order a query brings the ties in, an untied news is in its place.
LEMMA ListingPlace ==
  ASSUME NEW L, IsFiniteSet(L), NEW t, \A m \in L : t[m] \in Nat,
         NEW s \in Listing(t, L), NEW n \in UntiedIn(t, L)
  PROVE  \A i \in DOMAIN s : s[i] = n <=> i = Place(t, L, n)
<1> DEFINE D == 1 .. Cardinality(L)
<1>1. Cardinality(L) \in Nat
  BY FS_CardinalityType
<1>2. s \in [D -> L] /\ \A i, j \in D : i # j => s[i] # s[j]
  BY DEF Listing, SetToSeqs
<1>3. DOMAIN s = D /\ \A i, j \in D : i < j => t[s[i]] >= t[s[j]]
  BY <1>2 DEF Listing
<1>4. IsFiniteSet(D) /\ Cardinality(D) = Cardinality(L)
  BY <1>1, FS_Interval
<1>5. PICK i \in D : s[i] = n
  <2>1. s \in Injection(D, L)
    BY <1>2, Fun_IsInj
  <2>2. s \in Surjection(D, L)
    BY <1>4, <2>1, FS_Injection
  <2> QED
    BY <2>2 DEF UntiedIn, Surjection
<1> DEFINE T == UpTo(t, L, n)
           g == [j \in 1 .. i |-> s[j]]
<1>6. \A j \in D : j <= i => s[j] \in T
  BY <1>2, <1>3, <1>5 DEF UpTo
<1>7. ASSUME NEW m \in T PROVE \E j \in 1 .. i : s[j] = m
  <2>1. s \in Surjection(D, L)
    BY <1>2, <1>4, Fun_IsInj, FS_Injection
  <2>2. PICK j \in D : s[j] = m
    BY <2>1 DEF Surjection, UpTo
  <2>3. ~(i < j)
    <3>1. SUFFICES ASSUME i < j PROVE FALSE
      OBVIOUS
    <3>2. t[n] >= t[m] /\ t[m] >= t[n] /\ m \in L /\ n \in L
      BY <1>3, <1>5, <2>2, <3>1 DEF UpTo, UntiedIn
    <3>3. m # n
      BY <1>2, <1>5, <2>2, <3>1
    <3> QED
      BY <3>2, <3>3 DEF UntiedIn
  <2> QED
    BY <2>2, <2>3
<1>8. g \in [1 .. i -> T] /\ \A a, b \in 1 .. i : g[a] = g[b] => a = b
  BY <1>1, <1>2, <1>5, <1>6
<1>9. \A m \in T : \E j \in 1 .. i : g[j] = m
  BY <1>7
<1>10. g \in Surjection(1 .. i, T) /\ g \in Injection(1 .. i, T)
  <2> HIDE DEF g, T
  <2> QED
    BY <1>8, <1>9, Fun_IsInj, Fun_IsSurj
<1>11. IsFiniteSet(1 .. i) /\ Cardinality(1 .. i) = i
  BY <1>5, FS_Interval
<1>12. Place(t, L, n) = i
  <2>1. IsFiniteSet(T)
    BY PlaceType DEF UntiedIn
  <2>2. Cardinality(T) = Cardinality(1 .. i)
    <3> HIDE DEF g, T
    <3> QED
      BY <1>10, <1>11, <2>1, FS_Surjection, FS_Injection
  <2> QED
    BY <1>11, <2>2 DEF Place
<1> QED
  BY <1>2, <1>3, <1>5, <1>12

--------------------------------------------------------------------------------
(* Creations.  A step of the table, as a relation of two tables.            *)

Grows(t, L, u, M) ==
  /\ L \subseteq M /\ IsFiniteSet(M)
  /\ \A m \in M : u[m] \in Nat
  /\ \A m \in L : u[m] = t[m]

LEMMA PlacesGrow ==
  ASSUME NEW L, NEW t, NEW M, NEW u, Grows(t, L, u, M), NEW n \in L
  PROVE  /\ n \in UntiedIn(u, M) => n \in UntiedIn(t, L)
         /\ Place(t, L, n) \in Nat /\ Place(u, M, n) \in Nat
         /\ Place(t, L, n) <= Place(u, M, n)
         /\ \A x : M = L \cup {x} => Place(u, M, n) <= Place(t, L, n) + 1
<1>1. n \in UntiedIn(u, M) => n \in UntiedIn(t, L)
  BY DEF UntiedIn, Grows
<1>2. IsFiniteSet(L) /\ IsFiniteSet(M) /\ n \in M
  BY FS_Subset DEF Grows
<1>3. IsFiniteSet(UpTo(t, L, n)) /\ Place(t, L, n) \in Nat
  BY <1>2, PlaceType DEF Grows
<1>4. IsFiniteSet(UpTo(u, M, n)) /\ Place(u, M, n) \in Nat
  BY <1>2, PlaceType DEF Grows
<1>5. UpTo(t, L, n) \subseteq UpTo(u, M, n)
  BY DEF UpTo, Grows
<1>6. Place(t, L, n) <= Place(u, M, n)
  BY <1>4, <1>5, FS_Subset DEF Place
<1>7. ASSUME NEW x, M = L \cup {x} PROVE Place(u, M, n) <= Place(t, L, n) + 1
  <2>1. UpTo(u, M, n) \subseteq UpTo(t, L, n) \cup {x}
    BY <1>7 DEF UpTo, Grows
  <2> QED
    BY <1>3, <2>1, OneMore DEF Place
<1> QED
  BY <1>1, <1>3, <1>4, <1>6, <1>7

LEMMA DebtFinite ==
  ASSUME NEW L, IsFiniteSet(L), NEW t, NEW shown, NEW k
  PROVE  /\ IsFiniteSet(Debt(t, L, shown, k)) /\ Cardinality(Debt(t, L, shown, k)) \in Nat
         /\ IsFiniteSet(Repeats(UntiedIn(t, L), shown))
         /\ Cardinality(Repeats(UntiedIn(t, L), shown)) \in Nat
         /\ Cardinality(Repeats(UntiedIn(t, L), shown)) <= Cardinality(Debt(t, L, shown, k))
<1> DEFINE U == UntiedIn(t, L)
           N == {0} \cup (2 .. MaxShown)
<1>1. IsFiniteSet(U)
  BY FS_Subset DEF UntiedIn
<1>2. IsFiniteSet(2 .. MaxShown) /\ IsFiniteSet({0})
  <2>1. 2 \in Int /\ MaxShown \in Int
    BY PaginationAssumption
  <2> QED
    BY <2>1, FS_Interval, FS_Singleton
<1>3. IsFiniteSet(U \X N)
  BY <1>1, <1>2, FS_Union, FS_Product
<1>4. Debt(t, L, shown, k) \subseteq U \X N
  BY DEF Debt, Repeats
<1>5. Repeats(U, shown) \subseteq Debt(t, L, shown, k)
  BY DEF Debt
<1> QED
  BY <1>3, <1>4, <1>5, FS_Subset, FS_CardinalityType

\* A creation may tie news, and so repeats nothing.
LEMMA RepeatsShrink ==
  ASSUME NEW L, NEW t, NEW M, NEW u, Grows(t, L, u, M), NEW x, M = L \cup {x},
         NEW shown, shown[x] = 0, \A m \in L : shown[m] \in Nat
  PROVE  Repeats(UntiedIn(u, M), shown) \subseteq Repeats(UntiedIn(t, L), shown)
<1> SUFFICES ASSUME NEW r \in Repeats(UntiedIn(u, M), shown)
             PROVE  r \in Repeats(UntiedIn(t, L), shown)
  OBVIOUS
<1>1. PICK n \in UntiedIn(u, M), i \in 2 .. MaxShown : r = <<n, i>> /\ i <= shown[n]
  BY DEF Repeats
<1>2. n \in L
  BY <1>1 DEF UntiedIn
<1>3. n \in UntiedIn(t, L)
  BY <1>2, PlacesGrow
<1> QED
  BY <1>1, <1>3 DEF Repeats

LEMMA DebtSame ==
  ASSUME NEW L, NEW t, NEW u, Grows(t, L, u, L), NEW shown, NEW k
  PROVE  /\ UntiedIn(u, L) = UntiedIn(t, L)
         /\ Debt(u, L, shown, k) = Debt(t, L, shown, k)
<1>1. UntiedIn(u, L) = UntiedIn(t, L)
  BY DEF UntiedIn, Grows
<1>2. \A n \in UntiedIn(t, L) : UpTo(u, L, n) = UpTo(t, L, n)
  BY DEF UpTo, Grows, UntiedIn
<1> QED
  BY <1>1, <1>2 DEF Debt, Place

\* A creation moves at most one news past a place.
LEMMA DebtGrows ==
  ASSUME NEW L, NEW t, NEW M, NEW u, Grows(t, L, u, M), NEW x, M = L \cup {x},
         NEW shown, shown[x] = 0, \A m \in L : shown[m] \in Nat, NEW k \in Nat
  PROVE  Cardinality(Debt(u, M, shown, k)) <= Cardinality(Debt(t, L, shown, k)) + 1
<1> DEFINE U == UntiedIn(t, L)
           moved == {n \in U : Place(t, L, n) = k}
<1>0. IsFiniteSet(L) /\ IsFiniteSet(M) /\ \A m \in L : t[m] \in Nat
  BY FS_Subset DEF Grows
<1>1. ASSUME NEW n \in UntiedIn(u, M), shown[n] # 0
      PROVE  n \in U
  BY <1>1, PlacesGrow DEF UntiedIn
<1>2. Repeats(UntiedIn(u, M), shown) \subseteq Repeats(U, shown)
  BY RepeatsShrink
<1>3. ASSUME NEW n \in UntiedIn(u, M), shown[n] > 0, Place(u, M, n) > k
      PROVE  n \in U /\ (Place(t, L, n) > k \/ n \in moved)
  <2>1. n \in U
    BY <1>1, <1>3
  <2>2. n \in L
    BY <2>1 DEF UntiedIn
  <2>3. /\ Place(t, L, n) \in Nat /\ Place(u, M, n) \in Nat
        /\ Place(u, M, n) <= Place(t, L, n) + 1
    BY <2>2, PlacesGrow
  <2>4. Place(t, L, n) > k \/ Place(t, L, n) = k
    BY <1>3, <2>3
  <2> QED
    BY <2>1, <2>4
<1>4. \E y : moved \subseteq {y}
  <2>1. CASE moved = {}
    BY <2>1
  <2>2. ASSUME NEW y \in moved PROVE moved \subseteq {y}
    BY <1>0, PlacesDiffer
  <2> QED
    BY <2>1, <2>2
<1>5. PICK y : moved \subseteq {y}
  BY <1>4
<1>6. Debt(u, M, shown, k) \subseteq Debt(t, L, shown, k) \cup {<<y, 0>>}
  BY <1>2, <1>3, <1>5 DEF Debt
<1>7. /\ IsFiniteSet(Debt(t, L, shown, k)) /\ Cardinality(Debt(t, L, shown, k)) \in Nat
      /\ Cardinality(Debt(u, M, shown, k)) \in Nat
  BY <1>0, DebtFinite
<1> QED
  BY <1>6, <1>7, OneMore

\* What a page shows again was owed before it.
LEMMA DebtPaid ==
  ASSUME NEW L, IsFiniteSet(L), NEW t, \A m \in L : t[m] \in Nat,
         NEW k \in Nat, NEW w \in Nat, NEW data,
         \A n \in UntiedIn(t, L) :
           n \in data <=> k < Place(t, L, n) /\ Place(t, L, n) <= k + w,
         NEW shown, NEW after, \A n \in L : shown[n] \in Nat,
         \A n \in L :
           after[n] = IF n \in data /\ shown[n] < MaxShown THEN shown[n] + 1 ELSE shown[n]
  PROVE  Cardinality(Debt(t, L, after, k + w)) <= Cardinality(Debt(t, L, shown, k))
<1> DEFINE U == UntiedIn(t, L)
           A == Debt(t, L, after, k + w)
           B == Debt(t, L, shown, k)
           f == [r \in A |-> IF r[2] > shown[r[1]] THEN <<r[1], 0>> ELSE r]
<1>1. \A n \in U : n \in L /\ Place(t, L, n) \in Nat
  BY PlaceType DEF UntiedIn
<1>2. ASSUME NEW r \in A
      PROVE  \/ \E n \in U, i \in 2 .. MaxShown : r = <<n, i>> /\ i <= after[n]
             \/ \E n \in U : r = <<n, 0>> /\ after[n] > 0 /\ Place(t, L, n) > k + w
  BY <1>2 DEF Debt, Repeats
<1>3. ASSUME NEW n \in U, NEW i \in 2 .. MaxShown, <<n, i>> \in A
      PROVE  IF i <= shown[n] THEN f[<<n, i>>] = <<n, i>> /\ <<n, i>> \in B
             ELSE n \in data /\ i = shown[n] + 1 /\ f[<<n, i>>] = <<n, 0>> /\ <<n, 0>> \in B
  <2>1. i <= after[n]
    BY <1>3 DEF Debt, Repeats
  <2>2. CASE i <= shown[n]
    <3>1. <<n, i>> \in B
      BY <2>2 DEF Debt, Repeats
    <3>2. f[<<n, i>>] = <<n, i>>
      BY <1>1, <1>3, <2>2
    <3> QED
      BY <2>2, <3>1, <3>2
  <2>3. CASE ~(i <= shown[n])
    <3>1. n \in data /\ i = shown[n] + 1 /\ shown[n] > 0
      BY <1>1, <2>1, <2>3
    <3>2. Place(t, L, n) > k
      BY <1>1, <3>1
    <3>3. <<n, 0>> \in B
      BY <3>1, <3>2 DEF Debt
    <3>4. f[<<n, i>>] = <<n, 0>>
      BY <1>1, <1>3, <2>3
    <3> QED
      BY <2>3, <3>1, <3>3, <3>4
  <2> QED
    BY <2>2, <2>3
<1>4. ASSUME NEW n \in U, <<n, 0>> \in A
      PROVE  n \notin data /\ f[<<n, 0>>] = <<n, 0>> /\ <<n, 0>> \in B
  <2>1. after[n] > 0 /\ Place(t, L, n) > k + w
    BY <1>4 DEF Debt, Repeats
  <2>2. n \notin data /\ shown[n] > 0 /\ Place(t, L, n) > k
    BY <1>1, <2>1
  <2>3. <<n, 0>> \in B
    BY <2>2 DEF Debt
  <2>4. f[<<n, 0>>] = <<n, 0>>
    BY <1>1, <1>4, <2>2
  <2> QED
    BY <2>2, <2>3, <2>4
<1>5. \A r \in A : f[r] \in B
  BY <1>2, <1>3, <1>4
<1>6. ASSUME NEW r \in A, NEW s \in A, f[r] = f[s] PROVE r = s
  BY <1>2, <1>3, <1>4, <1>6
<1>7. IsFiniteSet(B)
  BY DebtFinite
<1>8. f \in [A -> B]
  BY <1>5
<1> HIDE DEF f, A, B
<1>9. f \in Injection(A, B)
  BY <1>6, <1>8, Fun_IsInj
<1>10. Cardinality(A) <= Cardinality(B)
  BY <1>7, <1>9, FS_Injection
<1> QED
  BY <1>10 DEF A, B

--------------------------------------------------------------------------------
(* The walk *)

LEMMA WalkFields ==
  ASSUME WalkType
  PROVE  /\ walk.step \in {"ask", "wait", "end"}
         /\ walk.start \in Parameters /\ walk.page \in Parameters
         /\ walk.perPage \in Nat \cup {Absent}
         /\ walk.shown \in [News -> Nat]
         /\ walk.before \subseteq Listed /\ walk.between \subseteq Listed
         /\ request.total \in Nat \cup {None}
         /\ request.data # None => request.data \subseteq Listed
         /\ walk.step # "wait" => request.total = None /\ request.data = None
  BY DEF WalkType, Idle

LEMMA TableFields ==
  ASSUME WalkType
  PROVE  /\ IsFiniteSet(Stored) /\ IsFiniteSet(Listed) /\ Listed \subseteq News
         /\ \A m \in Listed : created_at[m] \in Nat
         /\ Untied = UntiedIn(created_at, Listed) /\ Untied \subseteq Listed
         /\ IsFiniteSet(walk.before) /\ IsFiniteSet(walk.between)
         /\ IsFiniteSet(Listed \ walk.before)
         /\ Cardinality(Listed) \in Nat /\ Cardinality(walk.between) \in Nat
         /\ Cardinality(Listed \ walk.before) \in Nat
<1>1. IsFiniteSet(Stored) /\ Listed \subseteq Stored /\ Listed \subseteq News
  BY DEF WalkType, Listed, Stored
<1>2. \A m \in Listed : created_at[m] \in Nat
  BY DEF WalkType, Listed, Stored
<1>3. Untied = UntiedIn(created_at, Listed) /\ Untied \subseteq Listed
  BY DEF Untied, UntiedIn
<1>4. IsFiniteSet(Listed)
  BY <1>1, FS_Subset
<1>5. walk.before \subseteq Listed /\ walk.between \subseteq Listed
  BY WalkFields
<1>6. IsFiniteSet(walk.before) /\ IsFiniteSet(walk.between) /\ IsFiniteSet(Listed \ walk.before)
  BY <1>4, <1>5, FS_Subset
<1> QED
  BY <1>1, <1>2, <1>3, <1>4, <1>6, FS_CardinalityType

LEMMA TimesLess ==
  ASSUME NEW a \in Nat, NEW b \in Nat, NEW c \in Nat, a <= b
  PROVE  c * a <= c * b
  BY SMT

LEMMA DivMore ==
  ASSUME NEW a \in Nat, NEW b \in Nat \ {0}
  PROVE  a \div b \in Nat /\ a < b * (a \div b) + b
  BY SMT

LEMMA FirstRow ==
  ASSUME NEW p \in Int, p <= 1, NEW w \in Nat
  PROVE  (IF p > 0 THEN w * (p - 1) ELSE 0) = 0
<1>1. CASE p = 1
  BY <1>1
<1>2. CASE p < 1
  BY <1>2
<1> QED
  BY <1>1, <1>2

LEMMA PageNumbers ==
  ASSUME WalkType
  PROVE  /\ Page \in Int \ {0} /\ PerPage \in Nat \ {0}
         /\ Skip \in Nat /\ Skip + PerPage \in Nat
         /\ Page > 0 => Skip + PerPage = PerPage * Page
         /\ Page <= 1 => Skip = 0
<1>1. walk.page \in Int \cup {Absent} /\ walk.perPage \in Nat \cup {Absent}
  BY WalkFields DEF Parameters
<1>2. Page \in Int \ {0}
  BY <1>1 DEF Page, OrDefault
<1>3. PerPage \in Nat \ {0}
  BY <1>1, PaginationAssumption DEF PerPage, OrDefault
<1>4. CASE Page > 1
  <2>1. PICK m \in Nat : Page = m + 1
    <3>1. Page - 1 \in Nat /\ Page = (Page - 1) + 1
      BY <1>2, <1>4
    <3> QED
      BY <3>1
  <2>2. Skip = PerPage * m
    BY <1>2, <1>3, <1>4, <2>1 DEF Skip
  <2>3. PerPage * m \in Nat /\ PerPage * m + PerPage = PerPage * (m + 1)
    BY <1>3
  <2> QED
    BY <1>2, <1>3, <1>4, <2>1, <2>2, <2>3
<1>5. CASE Page = 1
  <2>1. Skip = 0
    BY <1>3, <1>5 DEF Skip
  <2> QED
    BY <1>2, <1>3, <1>5, <2>1
<1>6. CASE Page < 0
  BY <1>2, <1>3, <1>6 DEF Skip
<1> QED
  BY <1>2, <1>4, <1>5, <1>6

\* The last page is one up to which all counted news have a place.
LEMMA CountedIsPast ==
  ASSUME WalkType, request.total # None, NextPage = None
  PROVE  Page > 0 /\ request.total <= PerPage * Page
<1> DEFINE total == request.total
           last == (total + PerPage - 1) \div PerPage
<1>1. total \in Nat /\ Page \in Int \ {0} /\ PerPage \in Nat \ {0}
  BY WalkFields, PageNumbers
<1>2. total + PerPage - 1 \in Nat
  BY <1>1
<1>3. last \in Nat /\ total + PerPage - 1 < PerPage * last + PerPage
  <2> HIDE DEF total
  <2> QED
    BY <1>1, <1>2, DivMore
<1>4. last = LastPage
  BY DEF LastPage
<1> HIDE DEF last, total
<1>5. ~(Page < last)
  BY <1>1, <1>4, PaginationAssumption DEF NextPage
<1>6. Page > 0 /\ last <= Page
  BY <1>1, <1>3, <1>5
<1>7. PerPage * last <= PerPage * Page
  BY <1>1, <1>3, <1>6, TimesLess
<1>8. PerPage * last \in Nat /\ PerPage * Page \in Nat
  BY <1>1, <1>3, <1>6
<1> QED
  BY <1>1, <1>3, <1>6, <1>7, <1>8 DEF total

LEMMA AfterFields ==
  ASSUME WalkType
  PROVE  /\ ShownAfter \in [News -> Nat]
         /\ \A n \in News : ShownAfter[n] = 0 <=> walk.shown[n] = 0 /\ n \notin request.data
         /\ request.data # None => \A n \in News : ShownAfter[n] > 0 => n \in Listed
<1>1. walk.shown \in [News -> Nat] /\ MaxShown \in Nat \ {0}
  BY WalkFields, PaginationAssumption
<1>2. \A n \in News : walk.shown[n] > 0 => n \in Listed
  BY DEF WalkType
<1>3. request.data # None => request.data \subseteq Listed
  BY WalkFields
<1>4. /\ ShownAfter \in [News -> Nat]
      /\ \A n \in News : ShownAfter[n] = 0 <=> walk.shown[n] = 0 /\ n \notin request.data
  BY <1>1 DEF ShownAfter
<1> QED
  BY <1>1, <1>2, <1>3, <1>4

LEMMA RepeatsAreOwed ==
  ASSUME WalkType, NEW shown, NEW k, Owed(shown, k)
  PROVE  Cardinality(Repeats(Untied, shown)) <= Cardinality(Listed \ walk.before)
<1> DEFINE d == Cardinality(Debt(created_at, Listed, shown, k))
           r == Cardinality(Repeats(Untied, shown))
<1>1. r \in Nat /\ d \in Nat /\ r <= d
  BY TableFields, DebtFinite
<1>2. Cardinality(Listed \ walk.before) \in Nat
  BY TableFields
<1>3. d <= Cardinality(Listed \ walk.before)
  BY DEF Owed
<1> HIDE DEF d, r
<1> QED
  BY <1>1, <1>2, <1>3 DEF r

--------------------------------------------------------------------------------
(* Steps of the walk: the table stays *)

LEMMA SameTable ==
  ASSUME UNCHANGED created_at
  PROVE  Stored' = Stored /\ Listed' = Listed /\ Untied' = Untied
  BY DEF Stored, Listed, Untied

LEMMA StartStep ==
  ASSUME PaginationInv, NEW v \in Starts, NEW w \in PerPages, Start(v, w)
  PROVE  PaginationInv'
<1>0. WalkType
  BY DEF PaginationInv
<1>1. Stored' = Stored /\ Listed' = Listed /\ Untied' = Untied
  BY SameTable DEF Start
<1>2. /\ walk' = [step |-> "ask", start |-> v, page |-> v, perPage |-> w,
                  shown |-> [n \in News |-> 0], before |-> Listed, between |-> {}]
      /\ request' = request /\ request = Idle /\ created_at' = created_at /\ now' = now
  BY <1>0 DEF Start, WalkType
<1>3. WalkType'
  <2>1. v \in Parameters /\ w \in Nat \cup {Absent}
    BY PaginationAssumption DEF Parameters
  <2> QED
    BY <1>0, <1>1, <1>2, <2>1 DEF WalkType
<1>4. request'.total = None /\ request'.data = None
  BY <1>2 DEF Idle
<1>5. ToCome'
  <2>1. SUFFICES ASSUME OnTheWay' PROVE AllPast(Unseen(walk.shown), Skip)'
    BY <1>4 DEF ToCome
  <2>2. Page' = OrDefault(v, 1) /\ PerPage' = OrDefault(w, 10)
    BY <1>2 DEF Page, PerPage
  <2>3. Page' <= 1
    BY <1>2, <2>1, <2>2 DEF OnTheWay
  <2>4. Skip' = 0
    <3>1. Page' \in Int /\ PerPage' \in Nat
      BY <2>2, PaginationAssumption DEF OrDefault
    <3> QED
      BY <2>3, <3>1, FirstRow DEF Skip
  <2>5. \A n \in Listed : Place(created_at, Listed, n) > 0
    BY <1>0, TableFields, PlaceType
  <2> QED
    BY <1>1, <1>2, <2>4, <2>5 DEF AllPast, Unseen
<1>6. LastCount' /\ MissedByCountOnly'
  BY <1>2, <1>4 DEF LastCount, MissedByCountOnly, WalkedFromStart
<1>7. /\ Cardinality(Debt(created_at', Listed', walk'.shown, Skip')) = 0
      /\ Cardinality(Repeats(Untied', walk'.shown)) = 0
      /\ Cardinality((Listed \ walk.before)') = 0
  <2>1. Listed' \ walk'.before = {}
    BY <1>1, <1>2
  <2>2. \A n \in UntiedIn(created_at, Listed) : walk'.shown[n] = 0
    BY <1>2 DEF UntiedIn, Listed, Stored
  <2>3. Repeats(UntiedIn(created_at, Listed), walk'.shown) = {}
    BY <2>2 DEF Repeats
  <2>4. Debt(created_at, Listed, walk'.shown, Skip') = {}
    BY <2>2, <2>3 DEF Debt
  <2>5. Untied = UntiedIn(created_at, Listed)
    BY <1>0, TableFields
  <2> QED
    BY <1>1, <1>2, <2>1, <2>3, <2>4, <2>5, FS_EmptySet
<1>8. OwedToCreations' /\ RepeatsByCreationOnly'
  <2>1. OrDefault(v, 1) = 1 => Page' > 0
    BY <1>2 DEF Page
  <2> QED
    BY <1>2, <1>4, <1>7, <2>1 DEF OwedToCreations, RepeatsByCreationOnly, Owed, Repeats
<1> QED
  BY <1>3, <1>5, <1>6, <1>8 DEF PaginationInv

\* What the steps keep that neither create a news nor show one.
LEMMA SameWalk ==
  ASSUME WalkType, created_at' = created_at,
         walk'.start = walk.start, walk'.page = walk.page, walk'.perPage = walk.perPage,
         walk'.shown = walk.shown, walk'.before = walk.before
  PROVE  /\ Stored' = Stored /\ Listed' = Listed /\ Untied' = Untied
         /\ Page' = Page /\ PerPage' = PerPage /\ Skip' = Skip
         /\ Unseen(walk.shown)' = Unseen(walk.shown)
         /\ AllPast(Unseen(walk.shown), Skip)' <=> AllPast(Unseen(walk.shown), Skip)
         /\ Owed(walk.shown, Skip)' <=> Owed(walk.shown, Skip)
         /\ RepeatsByCreationOnly' <=> RepeatsByCreationOnly
<1>1. Stored' = Stored /\ Listed' = Listed /\ Untied' = Untied
  BY SameTable
<1>2. Page' = Page /\ PerPage' = PerPage
  BY DEF Page, PerPage
<1>3. Skip' = Skip
  BY <1>2 DEF Skip
<1>4. Unseen(walk.shown)' = Unseen(walk.shown)
  BY <1>1 DEF Unseen
<1>5. AllPast(Unseen(walk.shown), Skip)' <=> AllPast(Unseen(walk.shown), Skip)
  BY <1>1, <1>3, <1>4 DEF AllPast
<1>6. Owed(walk.shown, Skip)' <=> Owed(walk.shown, Skip)
  BY <1>1, <1>3 DEF Owed
<1>7. RepeatsByCreationOnly' <=> RepeatsByCreationOnly
  BY <1>1 DEF RepeatsByCreationOnly
<1> QED
  BY <1>1, <1>2, <1>3, <1>4, <1>5, <1>6, <1>7

\* The request begins, or fails, and has no answer.
LEMMA IdleStep ==
  ASSUME PaginationInv, GetNewsAll \/ Fail
  PROVE  PaginationInv'
<1>0. WalkType /\ ToCome /\ OwedToCreations /\ RepeatsByCreationOnly
  BY DEF PaginationInv
<1>1. /\ walk'.step \in {"ask", "wait"} /\ walk.step \in {"ask", "wait"}
      /\ walk'.start = walk.start /\ walk'.page = walk.page /\ walk'.perPage = walk.perPage
      /\ walk'.shown = walk.shown /\ walk'.before = walk.before
      /\ walk' \in [step: {"ask", "wait", "end"}, start: Parameters, page: Parameters,
                    perPage: Nat \cup {Absent}, shown: [News -> Nat],
                    before: SUBSET Listed, between: SUBSET Listed]
      /\ created_at' = created_at /\ now' = now
  BY <1>0 DEF GetNewsAll, Fail, WalkType
<1>2. request' = Idle
  BY <1>0 DEF GetNewsAll, Fail, WalkType
<1>3. request'.total = None /\ request'.data = None
      /\ request' \in [total: Nat \cup {None}, data: {None} \cup SUBSET Listed]
  BY <1>2 DEF Idle
<1>4. /\ Stored' = Stored /\ Listed' = Listed /\ Page' = Page
      /\ AllPast(Unseen(walk.shown), Skip)' <=> AllPast(Unseen(walk.shown), Skip)
      /\ Owed(walk.shown, Skip)' <=> Owed(walk.shown, Skip)
      /\ RepeatsByCreationOnly' <=> RepeatsByCreationOnly
  BY <1>0, <1>1, SameWalk
<1>5. WalkType'
  BY <1>0, <1>1, <1>2, <1>3, <1>4 DEF WalkType
<1>6. ToCome'
  BY <1>0, <1>1, <1>3, <1>4 DEF ToCome, OnTheWay
<1>7. LastCount' /\ MissedByCountOnly'
  BY <1>1, <1>3 DEF LastCount, MissedByCountOnly, WalkedFromStart
<1>8. OwedToCreations'
  BY <1>0, <1>1, <1>3, <1>4 DEF OwedToCreations
<1> QED
  BY <1>0, <1>4, <1>5, <1>6, <1>7, <1>8 DEF PaginationInv

LEMMA CountStep ==
  ASSUME PaginationInv, Count
  PROVE  PaginationInv'
<1>0. WalkType /\ ToCome /\ LastCount /\ OwedToCreations /\ RepeatsByCreationOnly
  BY DEF PaginationInv
<1>1. /\ request.total = None /\ request' = [request EXCEPT !.total = Cardinality(Listed)]
      /\ walk' = walk /\ created_at' = created_at /\ now' = now /\ walk.step = "wait"
  BY DEF Count
<1>2. Cardinality(Listed) \in Nat /\ Cardinality(walk.between) \in Nat
  BY <1>0, TableFields
<1>3. /\ request'.total = Cardinality(Listed) /\ request'.data = request.data
      /\ request' \in [total: Nat \cup {None}, data: {None} \cup SUBSET Listed]
  BY <1>0, <1>1, <1>2 DEF WalkType
<1>4. /\ Stored' = Stored /\ Listed' = Listed /\ Untied' = Untied
      /\ Page' = Page /\ PerPage' = PerPage /\ Skip' = Skip
      /\ AllPast(Unseen(walk.shown), Skip)' <=> AllPast(Unseen(walk.shown), Skip)
      /\ Owed(walk.shown, Skip)' <=> Owed(walk.shown, Skip)
      /\ RepeatsByCreationOnly' <=> RepeatsByCreationOnly
  BY <1>0, <1>1, SameWalk
<1>5. ShownAfter' = ShownAfter
  BY <1>1, <1>3 DEF ShownAfter
<1>6. Unseen(ShownAfter)' = Unseen(ShownAfter)
  BY <1>1, <1>4, <1>5 DEF Unseen
<1>7. WalkType'
  BY <1>0, <1>1, <1>3, <1>4 DEF WalkType
<1>8. ToCome'
  <2>1. AllPast(Unseen(ShownAfter), Skip + PerPage)' <=> AllPast(Unseen(ShownAfter), Skip + PerPage)
    BY <1>1, <1>4, <1>6 DEF AllPast
  <2> QED
    BY <1>0, <1>1, <1>3, <1>4, <2>1 DEF ToCome, OnTheWay
<1>9. LastCount'
  <2>1. CASE request.data = None
    BY <1>1, <1>2, <1>3, <1>4, <2>1 DEF LastCount
  <2>2. CASE request.data # None
    <3>1. SUFFICES ASSUME OnTheWay, Page > 0, Cardinality(Listed) <= PerPage * Page
                   PROVE  Cardinality(Unseen(ShownAfter)) <= Cardinality(walk.between)
      BY <1>1, <1>3, <1>4, <1>6, <2>2 DEF LastCount, OnTheWay
    <3>2. AllPast(Unseen(ShownAfter), PerPage * Page)
      BY <1>0, <2>2, <3>1, PageNumbers DEF ToCome
    <3>3. Unseen(ShownAfter) \subseteq UntiedIn(created_at, Listed)
      BY <1>0, TableFields DEF Unseen
    <3>4. PerPage * Page \in Nat
      BY <1>0, <3>1, PageNumbers
    <3>5. Unseen(ShownAfter) = {}
      BY <1>0, <3>1, <3>2, <3>3, <3>4, TableFields, CountPast DEF AllPast
    <3> QED
      BY <1>2, <3>5, FS_EmptySet
  <2> QED
    BY <2>1, <2>2
<1>10. MissedByCountOnly'
  BY <1>1 DEF MissedByCountOnly, WalkedFromStart
<1>11. OwedToCreations'
  <2>1. Owed(ShownAfter, Skip + PerPage)' <=> Owed(ShownAfter, Skip + PerPage)
    BY <1>1, <1>4, <1>5 DEF Owed
  <2> QED
    BY <1>0, <1>1, <1>3, <1>4, <2>1 DEF OwedToCreations
<1> QED
  BY <1>0, <1>4, <1>7, <1>8, <1>9, <1>10, <1>11 DEF PaginationInv

\* Of the untied news, a page has those whose place is on it.
LEMMA PageOfNews ==
  ASSUME WalkType, NEW s \in Listings
  PROVE  LET data == {s[i] : i \in {j \in DOMAIN s : Skip < j /\ j <= Skip + PerPage}}
         IN  /\ data \subseteq Listed
             /\ \A n \in Untied :
                  n \in data <=> /\ Skip < Place(created_at, Listed, n)
                                 /\ Place(created_at, Listed, n) <= Skip + PerPage
<1> DEFINE D == 1 .. Cardinality(Listed)
           data == {s[i] : i \in {j \in DOMAIN s : Skip < j /\ j <= Skip + PerPage}}
<1>1. /\ IsFiniteSet(Listed) /\ \A m \in Listed : created_at[m] \in Nat
      /\ Untied = UntiedIn(created_at, Listed) /\ Untied \subseteq Listed
  BY TableFields
<1>2. s \in Listing(created_at, Listed)
  BY DEF Listings, Listing
<1>3. s \in [D -> Listed] /\ DOMAIN s = D
  BY <1>2 DEF Listing, SetToSeqs
<1>4. data \subseteq Listed
  BY <1>3
<1>5. ASSUME NEW n \in Untied
      PROVE  n \in data <=> /\ Skip < Place(created_at, Listed, n)
                            /\ Place(created_at, Listed, n) <= Skip + PerPage
  <2>1. \A i \in D : s[i] = n <=> i = Place(created_at, Listed, n)
    <3>1. n \in UntiedIn(created_at, Listed)
      BY <1>1
    <3>2. \A i \in DOMAIN s : s[i] = n <=> i = Place(created_at, Listed, n)
      BY <1>1, <1>2, <3>1, ListingPlace
    <3> QED
      BY <1>3, <3>2
  <2>2. Place(created_at, Listed, n) \in D
    BY <1>1, <1>5, PlaceType
  <2> QED
    BY <1>3, <2>1, <2>2
<1> QED
  BY <1>4, <1>5

LEMMA FindManyStep ==
  ASSUME PaginationInv, FindMany
  PROVE  PaginationInv'
<1>0. WalkType /\ ToCome /\ LastCount /\ OwedToCreations /\ RepeatsByCreationOnly
  BY DEF PaginationInv
<1>1. PICK s \in Listings :
        request' = [request EXCEPT !.data =
          {s[i] : i \in {j \in DOMAIN s : Skip < j /\ j <= Skip + PerPage}}]
  BY DEF FindMany
<1> DEFINE data == {s[i] : i \in {j \in DOMAIN s : Skip < j /\ j <= Skip + PerPage}}
<1>2. /\ walk' = walk /\ created_at' = created_at /\ now' = now /\ walk.step = "wait"
      /\ request.data = None
  BY DEF FindMany
<1>3. /\ data \subseteq Listed
      /\ \A n \in Untied : n \in data <=> /\ Skip < Place(created_at, Listed, n)
                                          /\ Place(created_at, Listed, n) <= Skip + PerPage
  BY <1>0, PageOfNews
<1>4. /\ request'.total = request.total /\ request'.data = data
      /\ request' \in [total: Nat \cup {None}, data: {None} \cup SUBSET Listed]
  <2> HIDE DEF data
  <2>1. request' = [request EXCEPT !.data = data]
    BY <1>1 DEF data
  <2> QED
    BY <1>0, <1>3, <2>1 DEF WalkType
<1> HIDE DEF data
<1>5. data # None
  BY <1>0, <1>3, TableFields, PaginationAssumption
<1>6. /\ Stored' = Stored /\ Listed' = Listed /\ Untied' = Untied
      /\ Page' = Page /\ PerPage' = PerPage /\ Skip' = Skip
      /\ AllPast(Unseen(walk.shown), Skip)' <=> AllPast(Unseen(walk.shown), Skip)
      /\ Owed(walk.shown, Skip)' <=> Owed(walk.shown, Skip)
      /\ RepeatsByCreationOnly' <=> RepeatsByCreationOnly
  BY <1>0, <1>2, SameWalk
<1>7. /\ Untied = UntiedIn(created_at, Listed) /\ IsFiniteSet(Listed) /\ Listed \subseteq News
      /\ Untied \subseteq Listed /\ \A m \in Listed : created_at[m] \in Nat
      /\ walk.shown \in [News -> Nat] /\ MaxShown \in Nat \ {0}
      /\ Skip \in Nat /\ PerPage \in Nat /\ Skip + PerPage \in Nat
  BY <1>0, TableFields, WalkFields, PageNumbers, PaginationAssumption
<1>8. \A n \in News :
        ShownAfter'[n] = IF n \in data /\ walk.shown[n] < MaxShown
                         THEN walk.shown[n] + 1 ELSE walk.shown[n]
  BY <1>2, <1>4 DEF ShownAfter
<1>9. \A n \in News : ShownAfter'[n] = 0 <=> walk.shown[n] = 0 /\ n \notin data
  BY <1>7, <1>8
<1>10. WalkType'
  BY <1>0, <1>2, <1>4, <1>6 DEF WalkType
<1>11. OnTheWay => AllPast(Unseen(ShownAfter), Skip + PerPage)'
  <2>1. SUFFICES ASSUME OnTheWay, NEW n \in Unseen(ShownAfter)'
                 PROVE  Place(created_at, Listed, n) > Skip + PerPage
    BY <1>2, <1>6 DEF AllPast
  <2>2. n \in Unseen(walk.shown) /\ n \notin data /\ n \in Untied
    BY <1>2, <1>6, <1>7, <1>9 DEF Unseen
  <2>3. Place(created_at, Listed, n) > Skip
    BY <1>0, <2>1, <2>2 DEF ToCome, AllPast
  <2>4. Place(created_at, Listed, n) \in Nat
    BY <1>7, <2>2, PlaceType
  <2> QED
    BY <1>3, <1>7, <2>2, <2>3, <2>4
<1>12. ToCome'
  BY <1>0, <1>2, <1>6, <1>11 DEF ToCome, OnTheWay
<1>13. LastCount'
  <2>1. SUFFICES ASSUME OnTheWay, request.total # None, Page > 0,
                        request.total <= PerPage * Page
                 PROVE  Cardinality(Unseen(ShownAfter)') <= Cardinality(walk.between)
    BY <1>2, <1>4, <1>5, <1>6 DEF LastCount, OnTheWay
  <2>2. Skip + PerPage = PerPage * Page
    BY <1>0, <2>1, PageNumbers
  <2>3. \A n \in Unseen(ShownAfter)' : Place(created_at, Listed, n) > PerPage * Page
    BY <1>2, <1>6, <1>11, <2>1, <2>2 DEF AllPast
  <2>4. Unseen(ShownAfter)' \subseteq UntiedIn(created_at, Listed)
    BY <1>6, <1>7 DEF Unseen
  <2> DEFINE c == Cardinality(Listed)
             k == PerPage * Page
             m == Cardinality(Unseen(ShownAfter)')
             b == Cardinality(walk.between)
  <2>5. k \in Nat /\ c \in Nat /\ b \in Nat /\ request.total \in Nat
    BY <1>0, <1>7, <2>1, <2>2, TableFields, WalkFields
  <2>6. c <= request.total + b
    BY <1>0, <1>2, <2>1 DEF LastCount
  <2>7. /\ m \in Nat
        /\ c <= k => Unseen(ShownAfter)' = {}
        /\ c >= k => m <= c - k
    BY <1>7, <2>3, <2>4, <2>5, CountPast
  <2>8. c <= k => m = 0
    BY <2>7, FS_EmptySet
  <2> HIDE DEF c, k, m, b
  <2>9. m <= b
    BY <2>1, <2>5, <2>6, <2>7, <2>8 DEF k
  <2> QED
    BY <2>9 DEF m, b
<1>14. MissedByCountOnly'
  BY <1>2 DEF MissedByCountOnly, WalkedFromStart
<1>15. Owed(walk.shown, Skip) => Owed(ShownAfter, Skip + PerPage)'
  <2> DEFINE d == Cardinality(Debt(created_at, Listed, ShownAfter', Skip + PerPage))
             e == Cardinality(Debt(created_at, Listed, walk.shown, Skip))
             c == Cardinality(Listed \ walk.before)
  <2>1. d <= e
    BY <1>3, <1>7, <1>8, DebtPaid
  <2>2. d \in Nat /\ e \in Nat /\ c \in Nat
    BY <1>0, <1>7, DebtFinite, TableFields
  <2>3. Owed(walk.shown, Skip) <=> e <= c
    BY DEF Owed
  <2>4. Owed(ShownAfter, Skip + PerPage)' <=> d <= c
    BY <1>2, <1>6 DEF Owed
  <2> HIDE DEF d, e, c
  <2> QED
    BY <2>1, <2>2, <2>3, <2>4
<1>16. OwedToCreations'
  BY <1>0, <1>2, <1>6, <1>15 DEF OwedToCreations
<1> QED
  BY <1>0, <1>6, <1>10, <1>12, <1>13, <1>14, <1>16 DEF PaginationInv

\* Where the next page begins.
LEMMA NextSkip ==
  ASSUME WalkType, NextPage # None, walk'.page = NextPage, walk'.perPage = walk.perPage
  PROVE  /\ Skip' \in Nat /\ Skip' <= Skip + PerPage
         /\ Page > 0 => Page' > 0 /\ Skip' = Skip + PerPage
<1>1. /\ Page \in Int \ {0} /\ PerPage \in Nat \ {0} /\ Skip \in Nat
      /\ Page > 0 => Skip + PerPage = PerPage * Page
  BY PageNumbers
<1>2. walk'.page = Page + 1
  BY DEF NextPage
<1>3. Page' = IF Page = -1 THEN 1 ELSE Page + 1
  BY <1>1, <1>2 DEF Page, OrDefault
<1>4. PerPage' = PerPage
  BY DEF PerPage
<1>5. CASE Page > 0
  <2>1. Page' = Page + 1 /\ Page' > 0 /\ Page' - 1 = Page
    BY <1>1, <1>3, <1>5
  <2>2. Skip' = PerPage * Page
    BY <1>4, <2>1 DEF Skip
  <2>3. PerPage * Page \in Nat
    BY <1>1, <1>5
  <2> QED
    BY <1>1, <1>5, <2>1, <2>2, <2>3
<1>6. CASE Page < 0
  <2>1. Page' \in Int /\ Page' <= 1
    BY <1>1, <1>3, <1>6
  <2>2. Skip' = 0
    BY <1>1, <1>4, <2>1, FirstRow DEF Skip
  <2> QED
    BY <1>1, <1>6, <2>2
<1> QED
  BY <1>1, <1>5, <1>6

LEMMA AnswerStep ==
  ASSUME PaginationInv, Answer
  PROVE  PaginationInv'
<1>0. WalkType /\ ToCome /\ LastCount /\ OwedToCreations
  BY DEF PaginationInv
<1>1. /\ request.total # None /\ request.data # None /\ walk.step = "wait"
      /\ created_at' = created_at /\ now' = now /\ request' = Idle
  BY <1>0, WalkFields DEF Answer
<1>2. /\ walk'.step = IF NextPage = None THEN "end" ELSE "ask"
      /\ walk'.page = IF NextPage = None THEN walk.page ELSE NextPage
      /\ walk'.shown = ShownAfter
      /\ walk'.start = walk.start /\ walk'.perPage = walk.perPage
      /\ walk'.before = walk.before /\ walk'.between = walk.between
      /\ walk' \in [step: {"ask", "wait", "end"}, start: Parameters, page: Parameters,
                    perPage: Nat \cup {Absent}, shown: [News -> Nat],
                    before: SUBSET Listed, between: SUBSET Listed]
  <2>1. walk' = [walk EXCEPT !.step = IF NextPage = None THEN "end" ELSE "ask",
                             !.page = IF NextPage = None THEN walk.page ELSE NextPage,
                             !.shown = ShownAfter]
    BY <1>0 DEF Answer, ShownAfter, WalkType
  <2>2. NextPage # None => NextPage \in Parameters
    BY <1>0, PageNumbers DEF NextPage, Parameters
  <2>3. ShownAfter \in [News -> Nat]
    BY <1>0, AfterFields
  <2> HIDE DEF ShownAfter
  <2> QED
    BY <1>0, <2>1, <2>2, <2>3 DEF WalkType
<1>3. Stored' = Stored /\ Listed' = Listed /\ Untied' = Untied
  BY <1>1, SameTable
<1>4. request'.total = None /\ request'.data = None
      /\ request' \in [total: Nat \cup {None}, data: {None} \cup SUBSET Listed]
  BY <1>1 DEF Idle
<1>5. WalkType'
  <2>1. \A n \in News : ShownAfter[n] > 0 => n \in Listed
    BY <1>0, <1>1, AfterFields
  <2> QED
    BY <1>0, <1>1, <1>2, <1>3, <1>4, <2>1 DEF WalkType
<1>6. Unseen(walk.shown)' = Unseen(ShownAfter)
  BY <1>2, <1>3 DEF Unseen
<1>7. /\ Untied \subseteq Listed /\ IsFiniteSet(Listed) /\ Skip \in Nat /\ PerPage \in Nat
      /\ \A m \in Listed : created_at[m] \in Nat
  BY <1>0, TableFields, PageNumbers
<1>8. ToCome'
  <2>1. SUFFICES ASSUME OnTheWay', NEW n \in Unseen(ShownAfter)
                 PROVE  Place(created_at, Listed, n) > Skip'
    BY <1>1, <1>3, <1>4, <1>6 DEF ToCome, AllPast
  <2>2. OnTheWay /\ NextPage # None
    BY <1>1, <1>2, <2>1 DEF OnTheWay
  <2>3. Place(created_at, Listed, n) > Skip + PerPage
    BY <1>0, <1>1, <2>1, <2>2 DEF ToCome, AllPast
  <2>4. Skip' \in Nat /\ Skip' <= Skip + PerPage
    BY <1>0, <1>2, <2>2, NextSkip
  <2>5. Place(created_at, Listed, n) \in Nat
    BY <1>7, <2>1, PlaceType DEF Unseen
  <2> QED
    BY <1>7, <2>3, <2>4, <2>5
<1>9. LastCount'
  BY <1>4 DEF LastCount
<1>10. MissedByCountOnly'
  <2>1. SUFFICES ASSUME WalkedFromStart'
                 PROVE  Cardinality(Unseen(ShownAfter)) <= Cardinality(walk.between)
    BY <1>2, <1>6 DEF MissedByCountOnly, Unseen
  <2>2. NextPage = None /\ OnTheWay
    BY <1>1, <1>2, <2>1 DEF WalkedFromStart, OnTheWay
  <2>3. Page > 0 /\ request.total <= PerPage * Page
    BY <1>0, <1>1, <2>2, CountedIsPast
  <2> QED
    BY <1>0, <1>1, <2>2, <2>3 DEF LastCount
<1>11. OrDefault(walk.start, 1) = 1 =>
         /\ Page > 0 /\ Owed(ShownAfter, Skip + PerPage)
         /\ Cardinality(Repeats(Untied, ShownAfter)) <= Cardinality(Listed \ walk.before)
  <2>1. OrDefault(walk.start, 1) = 1 => Page > 0 /\ Owed(ShownAfter, Skip + PerPage)
    BY <1>0, <1>1 DEF OwedToCreations
  <2> QED
    BY <1>0, <2>1, RepeatsAreOwed
<1>12. RepeatsByCreationOnly'
  BY <1>2, <1>3, <1>11 DEF RepeatsByCreationOnly, Repeats
<1>13. OwedToCreations'
  <2>1. SUFFICES ASSUME OrDefault(walk.start, 1) = 1, NextPage # None
                 PROVE  Page' > 0 /\ Owed(walk.shown, Skip)'
    BY <1>2, <1>4 DEF OwedToCreations
  <2>2. Page' > 0 /\ Skip' = Skip + PerPage
    BY <1>0, <1>2, <1>11, <2>1, NextSkip
  <2> QED
    BY <1>1, <1>2, <1>3, <1>11, <2>1, <2>2 DEF Owed
<1> QED
  BY <1>5, <1>8, <1>9, <1>10, <1>12, <1>13 DEF PaginationInv

LEMMA TickStep ==
  ASSUME PaginationInv, Tick \/ UNCHANGED vars
  PROVE  PaginationInv'
<1>0. /\ WalkType /\ ToCome /\ LastCount /\ MissedByCountOnly
      /\ OwedToCreations /\ RepeatsByCreationOnly
  BY DEF PaginationInv
<1>1. created_at' = created_at /\ walk' = walk /\ request' = request /\ now' \in Nat
  BY <1>0 DEF Tick, vars, WalkType
<1>2. /\ Stored' = Stored /\ Listed' = Listed /\ Untied' = Untied
      /\ Page' = Page /\ PerPage' = PerPage /\ Skip' = Skip
  BY <1>0, <1>1, SameWalk
<1>3. ShownAfter' = ShownAfter
  BY <1>1 DEF ShownAfter
<1>4. WalkType'
  BY <1>0, <1>1, <1>2 DEF WalkType
<1>5. ToCome'
  BY <1>0, <1>1, <1>2, <1>3 DEF ToCome, OnTheWay, AllPast, Unseen
<1>6. LastCount' /\ MissedByCountOnly'
  BY <1>0, <1>1, <1>2, <1>3 DEF LastCount, OnTheWay, Unseen, MissedByCountOnly, WalkedFromStart
<1>7. OwedToCreations' /\ RepeatsByCreationOnly'
  BY <1>0, <1>1, <1>2, <1>3 DEF OwedToCreations, Owed, RepeatsByCreationOnly
<1> QED
  BY <1>4, <1>5, <1>6, <1>7 DEF PaginationInv

--------------------------------------------------------------------------------
(* The step of the table *)

LEMMA CreatedTable ==
  ASSUME WalkType, NEW x \in News, CreateNews(x)
  PROVE  /\ created_at' \in [News -> Nat \cup {None}]
         /\ x \notin Stored /\ x \notin Listed /\ IsFiniteSet(Stored')
         /\ Listed' = Listed \cup ({x} \cap Matching)
         /\ Grows(created_at, Listed, created_at', Listed')
         /\ walk.shown[x] = 0 /\ (request.data # None => ShownAfter[x] = 0)
<1>1. PICK v \in Nat : created_at' = [created_at EXCEPT ![x] = v]
  BY DEF CreateNews
<1>2. created_at[x] = None /\ v # None
  BY PaginationAssumption DEF CreateNews
<1>3. created_at' \in [News -> Nat \cup {None}]
  BY <1>1 DEF WalkType
<1>4. x \notin Stored /\ x \notin Listed
  BY <1>2 DEF Stored, Listed
<1>5. Stored' = Stored \cup {x}
  BY <1>1, <1>2 DEF Stored, WalkType
<1>6. IsFiniteSet(Stored')
  BY <1>5, TableFields, FS_AddElement
<1>7. Listed' = Listed \cup ({x} \cap Matching)
  BY <1>5 DEF Listed
<1>8. Grows(created_at, Listed, created_at', Listed')
  <2>1. Listed' \subseteq Stored'
    BY DEF Listed
  <2>2. \A m \in Listed' : created_at'[m] \in Nat
    BY <1>3, <2>1 DEF Stored
  <2>3. \A m \in Listed : created_at'[m] = created_at[m]
    BY <1>1, <1>4 DEF WalkType, Listed, Stored
  <2>4. IsFiniteSet(Listed')
    BY <1>6, <2>1, FS_Subset
  <2> QED
    BY <1>7, <2>2, <2>3, <2>4 DEF Grows
<1>9. walk.shown[x] = 0
  BY <1>4, WalkFields DEF WalkType
<1>10. request.data # None => ShownAfter[x] = 0
  BY <1>4, AfterFields
<1> QED
  BY <1>3, <1>4, <1>6, <1>7, <1>8, <1>9, <1>10

LEMMA CreatedWalk ==
  ASSUME WalkType, NEW x \in News, CreateNews(x)
  PROVE  /\ now' = now /\ request' = request
         /\ walk'.step = walk.step /\ walk'.start = walk.start /\ walk'.page = walk.page
         /\ walk'.perPage = walk.perPage /\ walk'.shown = walk.shown
         /\ walk'.before = walk.before
         /\ walk'.between = IF request.total # None /\ request.data = None
                            THEN walk.between \cup ({x} \cap Matching) ELSE walk.between
         /\ Page' = Page /\ PerPage' = PerPage /\ Skip' = Skip /\ ShownAfter' = ShownAfter
<1>1. /\ now' = now /\ request' = request
      /\ walk'.step = walk.step /\ walk'.start = walk.start /\ walk'.page = walk.page
      /\ walk'.perPage = walk.perPage /\ walk'.shown = walk.shown
      /\ walk'.before = walk.before
      /\ walk'.between = IF request.total # None /\ request.data = None
                         THEN walk.between \cup ({x} \cap Matching) ELSE walk.between
  BY DEF CreateNews, WalkType
<1>2. Page' = Page /\ PerPage' = PerPage
  BY <1>1 DEF Page, PerPage
<1>3. Skip' = Skip
  BY <1>2 DEF Skip
<1>4. ShownAfter' = ShownAfter
  BY <1>1 DEF ShownAfter
<1> QED
  BY <1>1, <1>2, <1>3, <1>4

\* Nothing comes into the set of the unseen, and nothing moves forward.
LEMMA CreatedUnseen ==
  ASSUME WalkType, NEW x \in News, CreateNews(x), NEW shown, NEW k \in Nat
  PROVE  LET left == {n \in walk.before \cap Untied' : shown[n] = 0}
         IN  /\ left \subseteq Unseen(shown)
             /\ Cardinality(left) <= Cardinality(Unseen(shown))
             /\ AllPast(Unseen(shown), k) =>
                  \A n \in left : Place(created_at', Listed', n) > k
<1> DEFINE left == {n \in walk.before \cap Untied' : shown[n] = 0}
<1>1. /\ Grows(created_at, Listed, created_at', Listed')
      /\ walk.before \subseteq Listed /\ Untied = UntiedIn(created_at, Listed)
      /\ IsFiniteSet(Listed) /\ Untied \subseteq Listed
  BY CreatedTable, WalkFields, TableFields
<1>2. Untied' = UntiedIn(created_at', Listed')
  BY DEF Untied, UntiedIn
<1>3. left \subseteq Unseen(shown)
  BY <1>1, <1>2, PlacesGrow DEF Unseen
<1>4. Unseen(shown) \subseteq Listed
  BY <1>1 DEF Unseen
<1>5. IsFiniteSet(Unseen(shown))
  BY <1>1, <1>4, FS_Subset
<1>6. Cardinality(left) <= Cardinality(Unseen(shown))
  BY <1>3, <1>5, FS_Subset
<1>7. ASSUME AllPast(Unseen(shown), k), NEW n \in left
      PROVE  Place(created_at', Listed', n) > k
  <2>1. Place(created_at, Listed, n) > k /\ n \in Listed
    BY <1>3, <1>4, <1>7 DEF AllPast
  <2> QED
    BY <1>1, <2>1, PlacesGrow
<1> QED
  BY <1>3, <1>6, <1>7

\* What a creation moves on is owed to it.
LEMMA CreatedDebt ==
  ASSUME WalkType, NEW x \in News, CreateNews(x),
         NEW shown \in [News -> Nat], shown[x] = 0, NEW k \in Nat
  PROVE  /\ Owed(shown, k) =>
              Cardinality(Debt(created_at', Listed', shown, k))
                <= Cardinality(Listed' \ walk.before)
         /\ Cardinality(Repeats(Untied, shown)) <= Cardinality(Listed \ walk.before) =>
              Cardinality(Repeats(Untied', shown)) <= Cardinality(Listed' \ walk.before)
<1> DEFINE d == Cardinality(Debt(created_at, Listed, shown, k))
           e == Cardinality(Debt(created_at', Listed', shown, k))
           r == Cardinality(Repeats(Untied, shown))
           q == Cardinality(Repeats(Untied', shown))
           c == Cardinality(Listed \ walk.before)
           m == Cardinality(Listed' \ walk.before)
<1>1. /\ Grows(created_at, Listed, created_at', Listed') /\ IsFiniteSet(Listed')
      /\ Listed' = Listed \cup ({x} \cap Matching) /\ x \notin Listed
  BY CreatedTable DEF Grows
<1>2. /\ Untied = UntiedIn(created_at, Listed) /\ IsFiniteSet(Listed)
      /\ Listed \subseteq News /\ IsFiniteSet(Listed \ walk.before) /\ c \in Nat
      /\ walk.before \subseteq Listed
  BY TableFields, WalkFields
<1>3. Untied' = UntiedIn(created_at', Listed')
  BY DEF Untied, UntiedIn
<1>4. \A n \in Listed : shown[n] \in Nat
  BY <1>2
<1>5. /\ d \in Nat /\ e \in Nat /\ q \in Nat /\ r \in Nat
      /\ IsFiniteSet(Repeats(Untied, shown))
  BY <1>1, <1>2, <1>3, DebtFinite
<1>6. CASE x \in Matching
  <2>1. Listed' = Listed \cup {x}
    BY <1>1, <1>6
  <2>2. e <= d + 1
    BY <1>1, <1>4, <2>1, DebtGrows
  <2>3. Listed' \ walk.before = (Listed \ walk.before) \cup {x} /\ x \notin Listed \ walk.before
    BY <1>1, <1>2, <2>1
  <2>4. m = c + 1
    BY <1>2, <2>3, FS_AddElement
  <2>5. q <= r
    BY <1>1, <1>2, <1>3, <1>4, <1>5, <2>1, RepeatsShrink, FS_Subset
  <2>6. Owed(shown, k) <=> d <= c
    BY DEF Owed
  <2> HIDE DEF d, e, r, q, c, m
  <2>7. (d <= c => e <= m) /\ (r <= c => q <= m)
    BY <1>2, <1>5, <2>2, <2>4, <2>5
  <2> QED
    BY <2>6, <2>7 DEF d, e, r, q, c, m
<1>7. CASE x \notin Matching
  <2>1. Listed' = Listed
    BY <1>1, <1>7
  <2>2. Grows(created_at, Listed, created_at', Listed)
    BY <1>1, <2>1
  <2>3. /\ UntiedIn(created_at', Listed) = UntiedIn(created_at, Listed)
        /\ Debt(created_at', Listed, shown, k) = Debt(created_at, Listed, shown, k)
    BY <2>2, DebtSame
  <2> QED
    BY <1>2, <1>3, <2>1, <2>3 DEF Owed
<1> QED
  BY <1>6, <1>7

LEMMA CreateNewsStep ==
  ASSUME PaginationInv, NEW x \in News, CreateNews(x)
  PROVE  PaginationInv'
<1>0. /\ WalkType /\ ToCome /\ LastCount /\ MissedByCountOnly
      /\ OwedToCreations /\ RepeatsByCreationOnly
  BY DEF PaginationInv
<1>1. /\ now' = now /\ request' = request
      /\ walk'.step = walk.step /\ walk'.start = walk.start /\ walk'.page = walk.page
      /\ walk'.perPage = walk.perPage /\ walk'.shown = walk.shown
      /\ walk'.before = walk.before
      /\ walk'.between = IF request.total # None /\ request.data = None
                         THEN walk.between \cup ({x} \cap Matching) ELSE walk.between
      /\ Page' = Page /\ PerPage' = PerPage /\ Skip' = Skip /\ ShownAfter' = ShownAfter
  BY <1>0, CreatedWalk
<1>2. /\ created_at' \in [News -> Nat \cup {None}]
      /\ x \notin Listed /\ IsFiniteSet(Stored')
      /\ Listed' = Listed \cup ({x} \cap Matching) /\ IsFiniteSet(Listed')
      /\ walk.shown[x] = 0 /\ (request.data # None => ShownAfter[x] = 0)
  BY <1>0, CreatedTable DEF Grows
<1>3. /\ walk.shown \in [News -> Nat] /\ ShownAfter \in [News -> Nat]
      /\ Skip \in Nat /\ Skip + PerPage \in Nat
      /\ walk.between \subseteq Listed /\ walk.before \subseteq Listed
      /\ request.total \in Nat \cup {None}
      /\ IsFiniteSet(walk.between) /\ IsFiniteSet(Listed)
      /\ Cardinality(walk.between) \in Nat /\ Cardinality(Listed) \in Nat
  BY <1>0, AfterFields, WalkFields, TableFields, PageNumbers
<1>4. WalkType'
  <2>1. walk'.between \subseteq Listed'
    BY <1>1, <1>2, <1>3
  <2>2. walk' \in [step: {"ask", "wait", "end"}, start: Parameters, page: Parameters,
                   perPage: Nat \cup {Absent}, shown: [News -> Nat],
                   before: SUBSET Listed', between: SUBSET Listed']
    <3>1. walk' = [walk EXCEPT !.between = walk'.between]
      BY <1>0 DEF CreateNews, WalkType
    <3>2. walk'.between \in SUBSET Listed'
      BY <2>1
    <3>3. walk \in [step: {"ask", "wait", "end"}, start: Parameters, page: Parameters,
                    perPage: Nat \cup {Absent}, shown: [News -> Nat],
                    before: SUBSET Listed', between: SUBSET Listed']
      BY <1>0, <1>2 DEF WalkType
    <3> QED
      BY <3>1, <3>2, <3>3
  <2>3. request' \in [total: Nat \cup {None}, data: {None} \cup SUBSET Listed']
    BY <1>0, <1>1, <1>2 DEF WalkType
  <2> QED
    BY <1>0, <1>1, <1>2, <2>2, <2>3 DEF WalkType
<1>5. ToCome'
  <2>1. SUFFICES ASSUME OnTheWay
                 PROVE  /\ AllPast(Unseen(walk.shown), Skip)'
                        /\ request.data # None => AllPast(Unseen(ShownAfter), Skip + PerPage)'
    BY <1>1 DEF ToCome, OnTheWay
  <2>2. AllPast(Unseen(walk.shown), Skip)'
    BY <1>0, <1>1, <1>3, <2>1, CreatedUnseen DEF ToCome, AllPast, Unseen
  <2>3. ASSUME request.data # None PROVE AllPast(Unseen(ShownAfter), Skip + PerPage)'
    <3>1. AllPast(Unseen(ShownAfter), Skip + PerPage)
      BY <1>0, <2>1, <2>3 DEF ToCome
    <3>2. \A n \in walk.before \cap Untied' :
            ShownAfter[n] = 0 => Place(created_at', Listed', n) > Skip + PerPage
      BY <1>0, <1>3, <3>1, CreatedUnseen
    <3> QED
      BY <1>1, <3>2 DEF AllPast, Unseen
  <2> QED
    BY <2>2, <2>3
<1>6. LastCount'
  <2>1. ASSUME request.total # None, request.data = None,
               Cardinality(Listed) <= request.total + Cardinality(walk.between)
        PROVE  Cardinality(Listed') <= request.total + Cardinality(walk'.between)
    <3>1. CASE x \in Matching
      <4>1. Listed' = Listed \cup {x} /\ walk'.between = walk.between \cup {x}
        BY <1>1, <1>2, <2>1, <3>1
      <4>2. Cardinality(Listed') = Cardinality(Listed) + 1
        BY <1>2, <1>3, <4>1, FS_AddElement
      <4>3. Cardinality(walk'.between) = Cardinality(walk.between) + 1
        <5>1. x \notin walk.between
          BY <1>2, <1>3
        <5>2. Cardinality(walk.between \cup {x}) = Cardinality(walk.between) + 1
          BY <1>3, <5>1, FS_AddElement
        <5> QED
          BY <4>1, <5>2
      <4> QED
        BY <1>3, <2>1, <4>2, <4>3
    <3>2. CASE x \notin Matching
      <4>1. Listed' = Listed /\ walk'.between = walk.between
        BY <1>1, <1>2, <2>1, <3>2
      <4> QED
        BY <2>1, <4>1
    <3> QED
      BY <3>1, <3>2
  <2>2. ASSUME request.data # None,
               Cardinality(Unseen(ShownAfter)) <= Cardinality(walk.between)
        PROVE  Cardinality(Unseen(ShownAfter)') <= Cardinality(walk'.between)
    <3> DEFINE left == {n \in walk.before \cap Untied' : ShownAfter[n] = 0}
    <3>1. Cardinality(left) <= Cardinality(Unseen(ShownAfter)) /\ left \subseteq Unseen(ShownAfter)
      BY <1>0, <1>3, CreatedUnseen
    <3>2. left = Unseen(ShownAfter)' /\ walk'.between = walk.between
      BY <1>1, <2>2 DEF Unseen
    <3>3. IsFiniteSet(Unseen(ShownAfter))
      BY <1>3, FS_Subset DEF Unseen
    <3>4. Cardinality(left) \in Nat /\ Cardinality(Unseen(ShownAfter)) \in Nat
      <4> HIDE DEF left
      <4> QED
        BY <3>1, <3>3, FS_Subset, FS_CardinalityType
    <3> HIDE DEF left
    <3> QED
      BY <1>3, <2>2, <3>1, <3>2, <3>4
  <2> QED
    BY <1>0, <1>1, <2>1, <2>2 DEF LastCount, OnTheWay
<1>7. MissedByCountOnly'
  <2>1. SUFFICES ASSUME WalkedFromStart
                 PROVE  Cardinality({n \in walk.before \cap Untied' : walk.shown[n] = 0})
                          <= Cardinality(walk'.between)
    BY <1>1 DEF MissedByCountOnly, WalkedFromStart
  <2>2. walk'.between = walk.between
    BY <1>0, <1>1, <2>1, WalkFields DEF WalkedFromStart
  <2> DEFINE left == {n \in walk.before \cap Untied' : walk.shown[n] = 0}
  <2>3. /\ Cardinality(left) <= Cardinality(Unseen(walk.shown))
        /\ left \subseteq Unseen(walk.shown)
    BY <1>0, <1>3, CreatedUnseen
  <2>4. Cardinality(Unseen(walk.shown)) <= Cardinality(walk.between)
    BY <1>0, <2>1 DEF MissedByCountOnly, Unseen
  <2>5. IsFiniteSet(Unseen(walk.shown))
    BY <1>3, FS_Subset DEF Unseen
  <2> HIDE DEF left
  <2>6. Cardinality(left) \in Nat /\ Cardinality(Unseen(walk.shown)) \in Nat
    BY <2>3, <2>5, FS_Subset, FS_CardinalityType
  <2>7. Cardinality(left) <= Cardinality(walk'.between)
    BY <1>3, <2>2, <2>3, <2>4, <2>6
  <2> QED
    BY <2>7 DEF left
<1>8. OwedToCreations'
  <2>1. Owed(walk.shown, Skip) => Owed(walk.shown, Skip)'
    BY <1>0, <1>1, <1>2, <1>3, CreatedDebt DEF Owed
  <2>2. request.data # None =>
          (Owed(ShownAfter, Skip + PerPage) => Owed(ShownAfter, Skip + PerPage)')
    <3>1. ASSUME request.data # None, Owed(ShownAfter, Skip + PerPage)
          PROVE  Cardinality(Debt(created_at', Listed', ShownAfter, Skip + PerPage))
                   <= Cardinality(Listed' \ walk.before)
      BY <1>0, <1>2, <1>3, <3>1, CreatedDebt
    <3> QED
      BY <1>1, <3>1 DEF Owed
  <2> QED
    BY <1>0, <1>1, <2>1, <2>2 DEF OwedToCreations
<1>9. RepeatsByCreationOnly'
  <2>1. Cardinality(Repeats(Untied, walk.shown)) <= Cardinality(Listed \ walk.before) =>
          Cardinality(Repeats(Untied', walk.shown)) <= Cardinality(Listed' \ walk.before)
    BY <1>0, <1>2, <1>3, CreatedDebt
  <2> QED
    BY <1>0, <1>1, <2>1 DEF RepeatsByCreationOnly, Repeats
<1> QED
  BY <1>4, <1>5, <1>6, <1>7, <1>8, <1>9 DEF PaginationInv

--------------------------------------------------------------------------------
LEMMA PaginationInit == Init => PaginationInv
<1> SUFFICES ASSUME Init PROVE PaginationInv
  OBVIOUS
<1>1. Stored = {} /\ Listed = {} /\ Untied = {}
  BY DEF Init, Stored, Listed, Untied
<1>2. WalkType
  BY <1>1, FS_EmptySet DEF Init, WalkType, Idle, Parameters
<1>3. ToCome /\ LastCount /\ OwedToCreations
  BY DEF Init, ToCome, LastCount, OwedToCreations, OnTheWay
<1>4. Cardinality({}) = 0
  BY FS_EmptySet
<1>5. MissedByCountOnly
  <2>1. {n \in walk.before \cap Untied : walk.shown[n] = 0} = {} /\ walk.between = {}
    BY <1>1 DEF Init
  <2> QED
    BY <1>4, <2>1 DEF MissedByCountOnly
<1>6. RepeatsByCreationOnly
  <2> DEFINE again == {r \in Untied \X (2 .. MaxShown) : r[2] <= walk.shown[r[1]]}
  <2>1. again = {} /\ Listed \ walk.before = {}
    BY <1>1
  <2>2. Cardinality(again) <= Cardinality(Listed \ walk.before)
    <3> HIDE DEF again
    <3> QED
      BY <1>4, <2>1
  <2> QED
    BY <2>2 DEF RepeatsByCreationOnly
<1> QED
  BY <1>2, <1>3, <1>5, <1>6 DEF PaginationInv

LEMMA PaginationInvariant == Spec => []PaginationInv
<1>1. PaginationInv /\ [Next]_vars => PaginationInv'
  BY StartStep, IdleStep, CountStep, FindManyStep, AnswerStep, TickStep, CreateNewsStep
  DEF Next, Working
<1> QED
  BY <1>1, PaginationInit, PTL DEF Spec

(***************************************************************************)
(* A reader who follows next from the first page to the last misses none   *)
(* of the untied news of the start, but for one per creation between count *)
(* and findMany of the last page: for any table, page size and first page, *)
(* whatever order the ties come in, and whatever fails on the way.         *)
(***************************************************************************)
THEOREM MissedByCount == Spec => []MissedByCountOnly
<1>1. PaginationInv => MissedByCountOnly
  BY DEF PaginationInv
<1> QED
  BY <1>1, PaginationInvariant, PTL

(***************************************************************************)
(* A reader is shown an untied news again only because a creation moved it *)
(* to the next page, one for one, on walks of any length.                  *)
(***************************************************************************)
THEOREM RepeatsByCreation == Spec => []RepeatsByCreationOnly
<1>1. PaginationInv => RepeatsByCreationOnly
  BY DEF PaginationInv
<1> QED
  BY <1>1, PaginationInvariant, PTL
================================================================================
