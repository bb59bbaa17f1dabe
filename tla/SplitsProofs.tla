---------------------------- MODULE SplitsProofs ----------------------------
(***************************************************************************)
(* What the operators of Splits return, for every source manifest, every   *)
(* set of defective events and all arguments: the facts that the theorems  *)
(* about Datasets rest on.                                                 *)
(***************************************************************************)
EXTENDS Splits, FiniteSetTheorems, SequenceTheorems, TLAPS

-----------------------------------------------------------------------------
(* Sorting and filtering. *)

Keyed(S, key) == {<<key[x], x>> : x \in S}

(* How many elements of S come no later than x. *)
Place(S, key, x) == Cardinality({f \in Keyed(S, key) : f[1] <= key[x]})

(* The keys are numbers, a different one for each element. *)
Distinct(S, key) == key \in [S -> Int] /\ \A x, y \in S : key[x] = key[y] => x = y

(* There are as many pairs of a member and its key as members. *)
LEMMA KeyedIsFinite ==
  ASSUME NEW S, IsFiniteSet(S), NEW key
  PROVE  IsFiniteSet(Keyed(S, key)) /\ Cardinality(Keyed(S, key)) = Cardinality(S)
<1> DEFINE f == [x \in S |-> <<key[x], x>>]
<1>1. f \in Bijection(S, Keyed(S, key))
  BY DEF Bijection, Injection, Surjection, IsInjective, Keyed
<1>2. ExistsBijection(S, Keyed(S, key))
  BY <1>1 DEF ExistsBijection
<1> QED
  BY <1>2, FS_Bijection, Zenon

(* Elements have different places, from 1 to as many as there are, and every place is taken. *)
LEMMA PlacesAreTaken ==
  ASSUME NEW S, IsFiniteSet(S), NEW key, Distinct(S, key)
  PROVE  /\ Cardinality(S) \in Nat
         /\ \A x \in S : Place(S, key, x) \in 1..Cardinality(S)
         /\ \A x, y \in S : key[x] < key[y] => Place(S, key, x) < Place(S, key, y)
         /\ \A k \in 1..Cardinality(S) : \E x \in S : Place(S, key, x) = k
<1> DEFINE K == Keyed(S, key)
           n == Cardinality(S)
           Below(x) == {f \in K : f[1] <= key[x]}
<1>0. IsFiniteSet(K) /\ Cardinality(K) = n /\ n \in Nat
  BY KeyedIsFinite, FS_CardinalityType
<1>1. ASSUME NEW x \in S
      PROVE  /\ IsFiniteSet(Below(x)) /\ Place(S, key, x) = Cardinality(Below(x))
             /\ Place(S, key, x) \in 1..n
  <2>1. Below(x) \in SUBSET K
    OBVIOUS
  <2>2. IsFiniteSet(Below(x)) /\ Cardinality(Below(x)) <= n
    BY <1>0, <2>1, FS_Subset
  <2>3. <<key[x], x>> \in Below(x)
    BY DEF Keyed, Distinct
  <2>4. Cardinality(Below(x)) # 0
    BY <2>2, <2>3, FS_EmptySet
  <2>5. Cardinality(Below(x)) \in Nat
    BY <2>2, FS_CardinalityType
  <2> QED
    BY <1>0, <2>2, <2>4, <2>5 DEF Place
<1>11. \A x \in S : Place(S, key, x) \in 1..n
  BY <1>1
<1>12. \A x \in S : Place(S, key, x) \in Int
  <2> HIDE DEF n
  <2> QED
    BY <1>0, <1>11
<1>2. ASSUME NEW x \in S, NEW y \in S, key[x] < key[y]
      PROVE  Place(S, key, x) < Place(S, key, y)
  <2>1. key[x] \in Int /\ key[y] \in Int
    BY DEF Distinct
  <2>2. ASSUME NEW f \in Below(x) PROVE f \in Below(y)
    <3>1. f[1] \in Int
      BY DEF Keyed, Distinct
    <3> QED
      BY <1>2, <2>1, <3>1
  <2>3. Below(x) \in SUBSET Below(y)
    BY <2>2
  <2>4. <<key[y], y>> \in Below(y) /\ <<key[y], y>> \notin Below(x)
    BY <1>2, <2>1 DEF Keyed
  <2>5. /\ Cardinality(Below(x)) <= Cardinality(Below(y))
        /\ Cardinality(Below(y)) = Cardinality(Below(x)) => Below(y) = Below(x)
    BY <1>1, <2>3, FS_Subset
  <2>6. Place(S, key, x) \in Int /\ Place(S, key, y) \in Int
    BY <1>12
  <2> HIDE DEF Below
  <2> QED
    BY <1>1, <2>4, <2>5, <2>6
<1> DEFINE place == [x \in S |-> Place(S, key, x)]
<1>3. place \in Injection(S, 1..n)
  <2>1. place \in [S -> 1..n]
    BY <1>1
  <2>2. ASSUME NEW x \in S, NEW y \in S, place[x] = place[y] PROVE x = y
    <3>1. key[x] \in Int /\ key[y] \in Int /\ Place(S, key, x) \in Int /\ Place(S, key, y) \in Int
      BY <1>12 DEF Distinct
    <3>2. ~(key[x] < key[y]) /\ ~(key[y] < key[x])
      BY <1>2, <2>2, <3>1
    <3> QED
      BY <3>1, <3>2 DEF Distinct
  <2> HIDE DEF place
  <2> QED
    BY <2>1, <2>2 DEF Injection, IsInjective
<1>4. IsFiniteSet(1..n) /\ Cardinality(1..n) = n
  BY <1>0, FS_Interval
<1>5. place \in Surjection(S, 1..n)
  BY <1>3, <1>4, FS_Injection
<1>6. ASSUME NEW k \in 1..n PROVE \E x \in S : Place(S, key, x) = k
  BY <1>5 DEF Surjection
<1> QED
  BY <1>0, <1>1, <1>2, <1>6

(* The element of a place is there, and keys increase. *)
LEMMA OrderedPlaces ==
  ASSUME NEW S, IsFiniteSet(S), NEW key, Distinct(S, key)
  PROVE  /\ Ordered(S, key) \in [1..Cardinality(S) -> S]
         /\ Len(Ordered(S, key)) = Cardinality(S)
         /\ \A x \in S : Ordered(S, key)[Place(S, key, x)] = x
         /\ \A k \in 1..Cardinality(S) : Place(S, key, Ordered(S, key)[k]) = k
<1> DEFINE n == Cardinality(S)
           placed == {<<Cardinality({f \in Keyed(S, key) : f[1] <= e[1]}), e[2]>> : e \in Keyed(S, key)}
           at == [k \in 1..n |-> (CHOOSE e \in placed : e[1] = k)[2]]
<1>0. n \in Nat
  BY PlacesAreTaken
<1>1. placed = {<<Place(S, key, x), x>> : x \in S}
  <2> DEFINE PlaceIn(e) == <<Cardinality({f \in Keyed(S, key) : f[1] <= e[1]}), e[2]>>
  <2>1. ASSUME NEW x \in S PROVE PlaceIn(<<key[x], x>>) = <<Place(S, key, x), x>>
    BY DEF Place
  <2>2. placed = {PlaceIn(e) : e \in Keyed(S, key)}
    OBVIOUS
  <2> HIDE DEF placed, PlaceIn
  <2>3. {PlaceIn(e) : e \in Keyed(S, key)} = {PlaceIn(<<key[x], x>>) : x \in S}
    BY DEF Keyed
  <2> QED
    BY <2>1, <2>2, <2>3
<1>2. ASSUME NEW k \in 1..n PROVE at[k] \in S /\ Place(S, key, at[k]) = k
  <2>1. PICK x \in S : Place(S, key, x) = k
    BY PlacesAreTaken
  <2>2. <<k, x>> \in placed
    BY <1>1, <2>1
  <2> DEFINE e == CHOOSE e \in placed : e[1] = k
  <2> HIDE DEF placed
  <2>3. e \in placed /\ e[1] = k
    <3>1. \E d \in placed : d[1] = k
      BY <2>2
    <3> QED
      BY <3>1, Zenon
  <2> HIDE DEF e
  <2>4. PICK y \in S : e = <<Place(S, key, y), y>>
    BY <1>1, <2>3
  <2>5. at[k] = e[2]
    BY Zenon DEF e
  <2> HIDE DEF at
  <2> QED
    BY <2>3, <2>4, <2>5
<1>3. at \in [1..n -> S]
  BY <1>2
<1> HIDE DEF at
<1>4. at \in Seq(S) /\ Len(at) = n
  BY <1>0, <1>3
<1>5. SubSeq(at, 1, n) = at
  BY <1>0, <1>3, <1>4
<1>6. Ordered(S, key) = at
  BY <1>5, Zenon DEF Ordered, Keyed, at
<1>7. ASSUME NEW x \in S PROVE at[Place(S, key, x)] = x
  <2> DEFINE k == Place(S, key, x)
  <2>1. k \in 1..n
    BY PlacesAreTaken
  <2>2. at[k] \in S /\ Place(S, key, at[k]) = k
    BY <1>2, <2>1
  <2>3. key[at[k]] \in Int /\ key[x] \in Int
    BY <2>2 DEF Distinct
  <2>4. ~(key[at[k]] < key[x]) /\ ~(key[x] < key[at[k]])
    BY <1>0, <2>1, <2>2, PlacesAreTaken
  <2> QED
    BY <2>2, <2>3, <2>4 DEF Distinct
<1> QED
  BY <1>2, <1>3, <1>4, <1>6, <1>7

(* f lists S from the smallest key to the largest. *)
Lists(f, n, S, key) ==
  /\ n \in Nat /\ f \in [1..n -> S]
  /\ \A x \in S : \E k \in 1..n : f[k] = x
  /\ \A j, k \in 1..n : j < k => key[f[j]] < key[f[k]]

(* Ordered lists the members by growing keys, each once. *)
LEMMA OrderedLists ==
  ASSUME NEW S, IsFiniteSet(S), NEW key, Distinct(S, key)
  PROVE  Lists(Ordered(S, key), Cardinality(S), S, key)
<1> DEFINE n == Cardinality(S)
           at == Ordered(S, key)
<1>1. n \in Nat /\ at \in [1..n -> S]
  BY PlacesAreTaken, OrderedPlaces
<1>2. ASSUME NEW x \in S PROVE \E k \in 1..n : at[k] = x
  BY PlacesAreTaken, OrderedPlaces
<1>3. ASSUME NEW j \in 1..n, NEW k \in 1..n, j < k PROVE key[at[j]] < key[at[k]]
  <2>1. at[j] \in S /\ at[k] \in S
    BY <1>1
  <2>2. Place(S, key, at[j]) = j /\ Place(S, key, at[k]) = k
    BY OrderedPlaces
  <2>3. key[at[j]] \in Int /\ key[at[k]] \in Int
    BY <2>1 DEF Distinct
  <2>4. key[at[k]] < key[at[j]] => k < j
    BY <2>1, <2>2, PlacesAreTaken
  <2>5. key[at[k]] = key[at[j]] => k = j
    BY <2>1, <2>2 DEF Distinct
  <2> QED
    BY <1>1, <1>3, <2>3, <2>4, <2>5
<1> QED
  BY <1>1, <1>2, <1>3 DEF Lists

(* A list by growing keys has no two members of one key, and no repetition. *)
LEMMA ListIsDistinct ==
  ASSUME NEW S, NEW key \in [S -> Int], NEW n, NEW f, Lists(f, n, S, key)
  PROVE  /\ Distinct(S, key) /\ IsFiniteSet(S) /\ Cardinality(S) = n
         /\ \A j, k \in 1..n : f[j] = f[k] => j = k
<1>1. ASSUME NEW j \in 1..n, NEW k \in 1..n, key[f[j]] = key[f[k]] PROVE j = k
  <2>1. n \in Nat /\ key[f[j]] \in Int /\ key[f[k]] \in Int
    BY DEF Lists
  <2>2. (j < k => key[f[j]] < key[f[k]]) /\ (k < j => key[f[k]] < key[f[j]])
    BY DEF Lists
  <2> QED
    BY <1>1, <2>1, <2>2
<1>2. Distinct(S, key)
  BY <1>1 DEF Lists, Distinct
<1>3. f \in Bijection(1..n, S)
  BY <1>1 DEF Lists, Bijection, Injection, Surjection, IsInjective
<1>4. IsFiniteSet(1..n) /\ Cardinality(1..n) = n
  BY FS_Interval DEF Lists
<1>5. IsFiniteSet(S) /\ Cardinality(S) = n
  BY <1>3, <1>4, FS_Bijection DEF ExistsBijection
<1> QED
  BY <1>1, <1>2, <1>5

(* The order of the keys is the only one Ordered can return. *)
LEMMA OrderedIs ==
  ASSUME NEW S, NEW key \in [S -> Int], NEW n, NEW f, Lists(f, n, S, key)
  PROVE  Ordered(S, key) = f
<1>0. n \in Nat /\ f \in [1..n -> S]
  BY DEF Lists
<1>1. Distinct(S, key) /\ IsFiniteSet(S) /\ Cardinality(S) = n
  BY ListIsDistinct
<1>2. ASSUME NEW k \in 1..n PROVE Place(S, key, f[k]) = k
  <2> DEFINE B == {e \in Keyed(S, key) : e[1] <= key[f[k]]}
             g == [j \in 1..k |-> <<key[f[j]], f[j]>>]
  <2>1. ASSUME NEW j \in 1..n PROVE f[j] \in S /\ key[f[j]] \in Int
    BY <1>0, <2>1
  <2>2. \A j \in 1..n : key[f[j]] <= key[f[k]] <=> j <= k
    <3> SUFFICES ASSUME NEW j \in 1..n PROVE key[f[j]] <= key[f[k]] <=> j <= k
      OBVIOUS
    <3>1. (j < k => key[f[j]] < key[f[k]]) /\ (k < j => key[f[k]] < key[f[j]])
      BY DEF Lists
    <3> QED
      BY <1>0, <2>1, <3>1
  <2>3. \A j \in 1..k : j \in 1..n
    BY <1>0
  <2>4. \A j \in 1..k : g[j] \in B
    BY <2>1, <2>2, <2>3 DEF Keyed
  <2>5. \A i, j \in 1..k : g[i] = g[j] => i = j
    BY <2>3, ListIsDistinct
  <2>6. ASSUME NEW e \in B PROVE \E j \in 1..k : g[j] = e
    <3>1. PICK x \in S : e = <<key[x], x>>
      BY DEF Keyed
    <3>2. PICK j \in 1..n : f[j] = x
      BY DEF Lists
    <3>3. key[f[j]] <= key[f[k]]
      BY <3>1, <3>2
    <3>4. j \in 1..k
      BY <1>0, <2>2, <3>3
    <3> QED
      BY <3>1, <3>2, <3>4
  <2>7. g \in Bijection(1..k, B)
    <3> HIDE DEF B
    <3> QED
      BY <2>4, <2>5, <2>6 DEF Bijection, Injection, Surjection, IsInjective
  <2>8. Cardinality(B) = k
    BY <1>0, <2>7, FS_CountingElements DEF ExistsBijection
  <2> QED
    BY <2>8 DEF Place
<1>3. ASSUME NEW k \in 1..n PROVE Ordered(S, key)[k] = f[k]
  BY <1>0, <1>1, <1>2, OrderedPlaces
<1>4. Ordered(S, key) \in [1..n -> S]
  BY <1>1, OrderedPlaces
<1> QED
  BY <1>0, <1>3, <1>4

(* f lists the numbers of S from the smallest to the largest. *)
Counts(f, n, S) ==
  /\ n \in Nat /\ f \in [1..n -> S]
  /\ \A x \in S : \E k \in 1..n : f[k] = x
  /\ \A j, k \in 1..n : j < k => f[j] < f[k]

(* Sorted lists a set of numbers in growing order, each once. *)
LEMMA SortedCounts ==
  ASSUME NEW S \in SUBSET Int, IsFiniteSet(S)
  PROVE  /\ Counts(Sorted(S), Cardinality(S), S)
         /\ Sorted(S) \in Seq(S) /\ Len(Sorted(S)) = Cardinality(S)
         /\ DOMAIN Sorted(S) = 1..Cardinality(S) /\ ToSet(Sorted(S)) = S
<1> DEFINE key == [x \in S |-> x]
           n == Cardinality(S)
<1>1. Distinct(S, key)
  BY DEF Distinct
<1>2. Lists(Sorted(S), n, S, key)
  BY <1>1, OrderedLists DEF Sorted
<1>3. Counts(Sorted(S), n, S)
  <2>1. n \in Nat /\ Sorted(S) \in [1..n -> S] /\ \A x \in S : \E k \in 1..n : Sorted(S)[k] = x
    BY <1>2 DEF Lists
  <2>2. \A j, k \in 1..n : j < k => key[Sorted(S)[j]] < key[Sorted(S)[k]]
    BY <1>2 DEF Lists
  <2> QED
    BY <2>1, <2>2 DEF Counts
<1>4. Sorted(S) \in Seq(S) /\ Len(Sorted(S)) = n /\ DOMAIN Sorted(S) = 1..n
  BY <1>3 DEF Counts
<1>5. ToSet(Sorted(S)) = S
  BY <1>3, <1>4 DEF Counts, ToSet
<1> QED
  BY <1>3, <1>4, <1>5

(* A listing of a set of numbers in growing order is Sorted of it. *)
LEMMA SortedIs ==
  ASSUME NEW S \in SUBSET Int, NEW n, NEW f, Counts(f, n, S)
  PROVE  Sorted(S) = f /\ IsFiniteSet(S) /\ Cardinality(S) = n
<1> DEFINE key == [x \in S |-> x]
<1>1. key \in [S -> Int]
  OBVIOUS
<1>2. Lists(f, n, S, key)
  BY DEF Counts, Lists
<1> HIDE DEF key
<1>3. Ordered(S, key) = f
  BY <1>1, <1>2, OrderedIs
<1>4. IsFiniteSet(S) /\ Cardinality(S) = n
  BY <1>1, <1>2, ListIsDistinct
<1> QED
  BY <1>3, <1>4 DEF Sorted, key

(* Some of the places of a list: finitely many, at most its length. *)
LEMMA PlacesAreFinite ==
  ASSUME NEW R, NEW rows \in Seq(R), NEW kept \in SUBSET DOMAIN rows
  PROVE  /\ kept \in SUBSET Int /\ IsFiniteSet(kept) /\ Cardinality(kept) \in Nat
         /\ Cardinality(kept) <= Len(rows) /\ DOMAIN rows = 1..Len(rows) /\ Len(rows) \in Nat
<1>1. DOMAIN rows = 1..Len(rows) /\ Len(rows) \in Nat
  OBVIOUS
<1>2. IsFiniteSet(1..Len(rows)) /\ Cardinality(1..Len(rows)) = Len(rows)
  <2> DEFINE m == Len(rows)
  <2>1. m \in Nat
    OBVIOUS
  <2> HIDE DEF m
  <2>2. IsFiniteSet(1..m) /\ Cardinality(1..m) = m
    BY <2>1, FS_Interval
  <2> QED
    BY <2>2 DEF m
<1> QED
  BY <1>1, <1>2, FS_Subset, FS_CardinalityType

(* Keep returns the rows at the kept places, in the order of the list. *)
LEMMA KeepPlaces ==
  ASSUME NEW R, NEW rows \in Seq(R), NEW kept \in SUBSET DOMAIN rows
  PROVE  /\ Keep(rows, kept) \in Seq(R) /\ Len(Keep(rows, kept)) = Cardinality(kept)
         /\ DOMAIN Keep(rows, kept) = 1..Cardinality(kept)
         /\ \A k \in 1..Cardinality(kept) :
              Sorted(kept)[k] \in kept /\ Keep(rows, kept)[k] = rows[Sorted(kept)[k]]
         /\ ToSet(Keep(rows, kept)) = {rows[i] : i \in kept}
<1> DEFINE n == Cardinality(kept)
           at == Sorted(kept)
           out == [i \in DOMAIN at |-> rows[at[i]]]
<1>1. kept \in SUBSET Int /\ IsFiniteSet(kept) /\ n \in Nat
  BY PlacesAreFinite
<1>2. Counts(at, n, kept) /\ at \in Seq(kept) /\ Len(at) = n /\ DOMAIN at = 1..n
  BY <1>1, SortedCounts
<1>3. \A k \in 1..n : at[k] \in kept
  BY <1>2 DEF Counts
<1>4. \A i \in kept : rows[i] \in R
  BY ElementOfSeq
<1> HIDE DEF at, n
<1>5. out \in Seq(R) /\ Len(out) = n /\ DOMAIN out = 1..n
  BY <1>1, <1>2, <1>3, <1>4
<1>6. SubSeq(out, 1, n) = out
  <2> HIDE DEF out
  <2> QED
    BY <1>1, <1>5
<1>7. Keep(rows, kept) = out
  BY <1>2, <1>6, Zenon DEF Keep, at
<1>8. \A k \in 1..n : out[k] = rows[at[k]]
  BY <1>2
<1>9. ToSet(out) = {rows[i] : i \in kept}
  <2>1. \A i \in kept : \E k \in 1..n : at[k] = i
    BY <1>2 DEF Counts
  <2> HIDE DEF out
  <2>2. ToSet(out) = {out[k] : k \in 1..n}
    BY <1>5, Zenon DEF ToSet
  <2>3. {out[k] : k \in 1..n} = {rows[at[k]] : k \in 1..n}
    BY <1>8
  <2>4. {rows[at[k]] : k \in 1..n} = {rows[i] : i \in kept}
    BY <1>3, <2>1
  <2> QED
    BY <2>2, <2>3, <2>4, Zenon
<1> QED
  BY <1>3, <1>5, <1>7, <1>8, <1>9 DEF at, n

(* What a filter leaves, when the places it keeps can be listed. *)
LEMMA KeepIs ==
  ASSUME NEW R, NEW rows \in Seq(R), NEW kept \in SUBSET DOMAIN rows,
         NEW n, NEW f, Counts(f, n, kept)
  PROVE  Keep(rows, kept) = [k \in 1..n |-> rows[f[k]]]
<1>1. Sorted(kept) = f /\ Cardinality(kept) = n
  BY PlacesAreFinite, SortedIs
<1>2. /\ Keep(rows, kept) \in Seq(R) /\ Len(Keep(rows, kept)) = n
      /\ \A k \in 1..n : Keep(rows, kept)[k] = rows[f[k]]
  BY <1>1, KeepPlaces
<1> QED
  BY <1>2

(* The members of a list, and its places. *)
LEMMA RowsOfSeq ==
  ASSUME NEW R, NEW rows \in Seq(R)
  PROVE  ToSet(rows) \in SUBSET R /\ DOMAIN rows = 1..Len(rows) /\ Len(rows) \in Nat
BY DEF ToSet

(* First returns the first n rows, or all of a shorter list. *)
LEMMA FirstIs ==
  ASSUME NEW R, NEW rows \in Seq(R), NEW n \in Nat
  PROVE  /\ First(rows, n) \in Seq(R) /\ Len(First(rows, n)) = Smaller(n, Len(rows))
         /\ Smaller(n, Len(rows)) \in Nat
         /\ DOMAIN First(rows, n) = 1..Smaller(n, Len(rows))
         /\ \A i \in 1..Smaller(n, Len(rows)) : i \in 1..Len(rows) /\ First(rows, n)[i] = rows[i]
         /\ ToSet(First(rows, n)) \in SUBSET ToSet(rows)
<1> DEFINE m == Smaller(n, Len(rows))
<1>1. m \in Nat /\ m <= Len(rows) /\ Len(rows) \in Nat
  BY DEF Smaller
<1> HIDE DEF m
<1>2. /\ SubSeq(rows, 1, m) \in Seq(R) /\ Len(SubSeq(rows, 1, m)) = m
      /\ \A i \in 1..m : i \in 1..Len(rows) /\ SubSeq(rows, 1, m)[i] = rows[i]
  BY <1>1
<1>3. DOMAIN SubSeq(rows, 1, m) = 1..m
  BY <1>2
<1>4. ToSet(SubSeq(rows, 1, m)) \in SUBSET ToSet(rows)
  BY <1>2, <1>3 DEF ToSet
<1> QED
  BY <1>1, <1>2, <1>3, <1>4 DEF First, m

(* Between returns the rows from place a to place b, cut at the end of the list. *)
LEMMA BetweenIs ==
  ASSUME NEW R, NEW rows \in Seq(R), NEW a \in Nat \ {0}, NEW b \in Nat,
         NEW m, m = Smaller(b, Len(rows))
  PROVE  /\ Between(rows, a, b) \in Seq(R)
         /\ Len(Between(rows, a, b)) = (IF a <= m THEN m - a + 1 ELSE 0)
         /\ \A i \in 1..Len(Between(rows, a, b)) :
              i + a - 1 \in a..m /\ i + a - 1 \in 1..Len(rows)
              /\ Between(rows, a, b)[i] = rows[i + a - 1]
<1>1. m \in Nat /\ m <= Len(rows) /\ Len(rows) \in Nat
  BY DEF Smaller
<1>2. /\ SubSeq(rows, a, m) \in Seq(R)
      /\ Len(SubSeq(rows, a, m)) = (IF a <= m THEN m - a + 1 ELSE 0)
  BY <1>1
<1>3. \A i \in 1..Len(SubSeq(rows, a, m)) :
        i + a - 1 \in a..m /\ i + a - 1 \in 1..Len(rows)
        /\ SubSeq(rows, a, m)[i] = rows[i + a - 1]
  BY <1>1, <1>2
<1> QED
  BY <1>2, <1>3 DEF Between

(* Division with a remainder, as the provers need it. *)
LEMMA Division ==
  ASSUME NEW a \in Nat, NEW b \in Nat \ {0}
  PROVE  a \div b \in Nat /\ a % b \in 0..(b - 1) /\ a = b * (a \div b) + (a % b)
OBVIOUS

(* Python's round is off by at most one half. *)
LEMMA RoundNear ==
  ASSUME NEW a \in Nat, NEW b \in Nat \ {0}
  PROVE  /\ Round(a, b) \in Nat
         /\ 2 * (b * Round(a, b)) <= 2 * a + b /\ 2 * a - b <= 2 * (b * Round(a, b))
<1> DEFINE q == a \div b
           r == a % b
<1>1. q \in Nat /\ r \in 0..(b - 1) /\ a = b * q + r
  BY Division
<1> HIDE DEF q, r
<1>2. b * q \in Nat /\ b * (q + 1) = b * q + b
  BY <1>1
<1>3. CASE 2 * r < b \/ (2 * r = b /\ q % 2 = 0)
  <2>1. Round(a, b) = q
    BY <1>3 DEF Round, q, r
  <2> QED
    BY <1>1, <1>2, <1>3, <2>1
<1>4. CASE ~(2 * r < b \/ (2 * r = b /\ q % 2 = 0))
  <2>1. Round(a, b) = q + 1 /\ 2 * r >= b
    BY <1>1, <1>4 DEF Round, q, r
  <2> QED
    BY <1>1, <1>2, <2>1
<1> QED
  BY <1>3, <1>4

(* Rounding leaves a multiple as it is. *)
LEMMA RoundExact ==
  ASSUME NEW m \in Nat, NEW b \in Nat \ {0}
  PROVE  Round(m * b, b) = m
<1>1. m * b \in Nat
  OBVIOUS
<1> DEFINE R == Round(m * b, b)
<1>2. R \in Nat /\ 2 * (b * R) <= 2 * (m * b) + b /\ 2 * (m * b) - b <= 2 * (b * R)
  BY <1>1, RoundNear
<1> HIDE DEF R
<1>3. R > m => b * R >= b * m + b
  <2> SUFFICES ASSUME R > m PROVE b * R >= b * m + b
    OBVIOUS
  <2>1. R >= m + 1 /\ b * (m + 1) = b * m + b
    BY <1>2
  <2> QED
    BY <1>2, <2>1
<1>4. R < m => b * m >= b * R + b
  <2> SUFFICES ASSUME R < m PROVE b * m >= b * R + b
    OBVIOUS
  <2>1. m >= R + 1 /\ b * (R + 1) = b * R + b
    BY <1>2
  <2> QED
    BY <1>2, <2>1
<1>5. m * b = b * m /\ b * m \in Nat /\ b * R \in Nat
  BY <1>2
<1>6. R = m
  BY <1>2, <1>3, <1>4, <1>5
<1> QED
  BY <1>6 DEF R

(* Two quotients more than one apart round to different numbers. *)
LEMMA RoundIncreases ==
  ASSUME NEW a \in Nat, NEW c \in Nat, NEW b \in Nat \ {0}, c > a + b
  PROVE  Round(a, b) < Round(c, b)
<1> DEFINE R == Round(a, b)
           T == Round(c, b)
<1>1. R \in Nat /\ 2 * (b * R) <= 2 * a + b
  BY RoundNear
<1>2. T \in Nat /\ 2 * c - b <= 2 * (b * T)
  BY RoundNear
<1> HIDE DEF R, T
<1>3. b * R \in Nat /\ b * T \in Nat /\ b * R < b * T
  BY <1>1, <1>2
<1>4. T <= R => b * T <= b * R
  BY <1>1, <1>2
<1>5. R < T
  BY <1>1, <1>2, <1>3, <1>4
<1> QED
  BY <1>5 DEF R, T

(* A selection of m of n places, in their order, with the two ends when it has more than one. *)
Selects(pos, m, n) ==
  /\ m \in Nat /\ n \in Nat /\ pos \in [1..m -> 1..n]
  /\ \A j, k \in 1..m : j < k => pos[j] < pos[k]
  /\ m > 1 => pos[1] = 1 /\ pos[m] = n

(* The rounded positions are spread over n rows: none is taken twice. *)
LEMMA SpreadPositions ==
  ASSUME NEW n \in Nat, NEW target \in Nat, target < n, target > 1
  PROVE  Selects([i \in 1..target |-> Round((i - 1) * (n - 1), target - 1) + 1], target, n)
<1> DEFINE b == target - 1
           P(i) == Round((i - 1) * (n - 1), b)
<1>1. b \in Nat \ {0} /\ n - 1 \in Nat /\ n - 1 > b
  OBVIOUS
<1>2. \A i \in 1..target : (i - 1) * (n - 1) \in Nat
  OBVIOUS
<1>3. \A i \in 1..target : P(i) \in Nat
  BY <1>1, <1>2, RoundNear
<1>4. ASSUME NEW i \in 1..target, NEW j \in 1..target, i < j PROVE P(i) < P(j)
  <2> DEFINE d == j - i - 1
  <2>1. d \in Nat /\ d * (n - 1) \in Nat
    BY <1>4
  <2>2. (j - 1) * (n - 1) = (i - 1) * (n - 1) + d * (n - 1) + (n - 1)
    OBVIOUS
  <2> HIDE DEF d
  <2>3. (j - 1) * (n - 1) > (i - 1) * (n - 1) + b
    BY <1>1, <1>2, <2>1, <2>2
  <2> HIDE DEF b
  <2> QED
    BY <1>1, <1>2, <2>3, RoundIncreases
<1>5. P(1) = 0
  <2>1. (1 - 1) * (n - 1) = 0 * b
    OBVIOUS
  <2> HIDE DEF b
  <2> QED
    BY <1>1, <2>1, RoundExact
<1>6. P(target) = n - 1
  <2>1. (target - 1) * (n - 1) = (n - 1) * b
    OBVIOUS
  <2> HIDE DEF b
  <2> QED
    BY <1>1, <2>1, RoundExact
<1> HIDE DEF P
<1>7. ASSUME NEW i \in 1..target PROVE P(i) + 1 \in 1..n
  <2>1. i = target \/ P(i) < P(target)
    BY <1>4
  <2> QED
    BY <1>3, <1>6, <2>1
<1>8. Selects([i \in 1..target |-> P(i) + 1], target, n)
  BY <1>3, <1>4, <1>5, <1>6, <1>7 DEF Selects
<1> QED
  BY <1>8 DEF P

(* Spread returns rows at growing places, as many as asked for if there are as many. *)
LEMMA SpreadIs ==
  ASSUME NEW R, NEW rows \in Seq(R), NEW target \in Nat
  PROVE  /\ Spread(rows, target) \in Seq(R)
         /\ Len(Spread(rows, target)) = Smaller(target, Len(rows))
         /\ \E pos : /\ Selects(pos, Len(Spread(rows, target)), Len(rows))
                     /\ \A i \in 1..Len(Spread(rows, target)) : Spread(rows, target)[i] = rows[pos[i]]
<1> DEFINE n == Len(rows)
           s == Spread(rows, target)
           Q == /\ s \in Seq(R) /\ Len(s) = Smaller(target, n)
                /\ \E pos : Selects(pos, Len(s), n) /\ \A i \in 1..Len(s) : s[i] = rows[pos[i]]
<1>0. n \in Nat
  OBVIOUS
<1> SUFFICES Q
  OBVIOUS
<1>1. CASE target >= n
  <2>1. s = rows /\ Smaller(target, n) = n
    BY <1>0, <1>1 DEF Spread, Smaller
  <2> DEFINE pos == [i \in 1..n |-> i]
  <2>2. Selects(pos, n, n)
    BY <1>0 DEF Selects
  <2>3. \A i \in 1..n : rows[i] = rows[pos[i]]
    OBVIOUS
  <2> HIDE DEF pos, s
  <2> QED
    BY <2>1, <2>2, <2>3
<1>2. CASE target < n /\ target = 0
  <2>1. s = <<>> /\ Smaller(target, n) = 0
    BY <1>0, <1>2 DEF Spread, Smaller
  <2>2. Selects(<<>>, 0, n)
    BY <1>0 DEF Selects
  <2> HIDE DEF s
  <2> QED
    BY <2>1, <2>2
<1>3. CASE target < n /\ target = 1
  <2> DEFINE p == (n \div 2) + 1
             pos == <<p>>
  <2>1. s = <<rows[p]>> /\ Smaller(target, n) = 1
    BY <1>0, <1>3 DEF Spread, Smaller
  <2>2. p \in 1..n
    BY <1>0, <1>3
  <2> HIDE DEF p
  <2>3. Selects(pos, 1, n)
    BY <1>0, <2>2 DEF Selects
  <2>4. rows[p] \in R
    BY <2>2
  <2>5. s \in Seq(R) /\ Len(s) = 1 /\ s[1] = rows[pos[1]]
    BY <2>1, <2>4
  <2> HIDE DEF pos, s
  <2> QED
    BY <2>1, <2>3, <2>5
<1>4. CASE target < n /\ target > 1
  <2> DEFINE pos == [i \in 1..target |-> Round((i - 1) * (n - 1), target - 1) + 1]
  <2>1. s = [i \in 1..target |-> rows[pos[i]]] /\ Smaller(target, n) = target
    <3>1. s = [i \in 1..target |-> rows[Round((i - 1) * (n - 1), target - 1) + 1]]
      BY <1>0, <1>4 DEF Spread
    <3> HIDE DEF s
    <3> QED
      BY <1>4, <3>1 DEF Smaller
  <2>2. Selects(pos, target, n)
    BY <1>0, <1>4, SpreadPositions
  <2> HIDE DEF pos
  <2>3. \A i \in 1..target : rows[pos[i]] \in R
    BY <1>0, <2>2 DEF Selects
  <2> HIDE DEF s
  <2>4. s \in Seq(R) /\ Len(s) = target /\ \A i \in 1..target : s[i] = rows[pos[i]]
    BY <2>1, <2>3
  <2> QED
    BY <2>1, <2>2, <2>4
<1> QED
  BY <1>0, <1>1, <1>2, <1>3, <1>4

-----------------------------------------------------------------------------
(* Rows, and the pieces they are of. *)

(* The pieces are the numbers from one to how many there are. *)
LEMMA PiecesAreNumbers ==
  /\ IsFiniteSet(Pieces) /\ Cardinality(Pieces) \in Nat /\ Pieces = 1..Cardinality(Pieces)
  /\ Pieces \in SUBSET Nat
BY SplitsAssumption, FS_CardinalityType

(* A set of pieces is a finite set of numbers. *)
LEMMA SomePiecesAreFinite ==
  ASSUME NEW S \in SUBSET Pieces
  PROVE  S \in SUBSET Int /\ S \in SUBSET Nat /\ IsFiniteSet(S) /\ Cardinality(S) \in Nat
<1>1. S \in SUBSET Nat
  BY PiecesAreNumbers
<1>2. IsFiniteSet(S)
  BY PiecesAreNumbers, FS_Subset
<1> QED
  BY <1>1, <1>2, FS_CardinalityType

(* A row is a piece and a view; there are finitely many. *)
LEMMA RowsAreFinite ==
  /\ IsFiniteSet(Rows)
  /\ \A r \in Rows : /\ Piece(r) \in Pieces /\ Piece(r) \in Nat /\ View(r) \in 0..3
                    /\ r = <<Piece(r), View(r)>>
<1>1. IsFiniteSet(0..3)
  <2>1. 0 \in Int /\ 3 \in Int
    OBVIOUS
  <2> QED
    BY <2>1, FS_Interval
<1>2. IsFiniteSet(Rows)
  BY <1>1, PiecesAreNumbers, FS_Product DEF Rows
<1> QED
  BY <1>2, PiecesAreNumbers DEF Rows, Piece, View

(* A set of rows put in order is the same set. *)
LEMMA InOrderKeepsRows ==
  ASSUME NEW S \in SUBSET Rows
  PROVE  InOrder(S) \in Seq(S) /\ ToSet(InOrder(S)) = S /\ Len(InOrder(S)) = Cardinality(S)
<1> DEFINE key == [row \in S |-> 4 * Piece(row) + View(row)]
<1>1. IsFiniteSet(S)
  BY RowsAreFinite, FS_Subset
<1>2. Distinct(S, key)
  <2>1. \A r \in S : Piece(r) \in Nat /\ View(r) \in 0..3 /\ r = <<Piece(r), View(r)>>
    BY RowsAreFinite
  <2>2. key \in [S -> Int]
    BY <2>1
  <2>3. ASSUME NEW r \in S, NEW s \in S, key[r] = key[s] PROVE r = s
    <3>1. 4 * Piece(r) + View(r) = 4 * Piece(s) + View(s)
      BY <2>3
    <3>2. Piece(r) = Piece(s) /\ View(r) = View(s)
      BY <2>1, <3>1
    <3> QED
      BY <2>1, <3>2
  <2> QED
    BY <2>2, <2>3 DEF Distinct
<1> HIDE DEF key
<1>3. Lists(Ordered(S, key), Cardinality(S), S, key)
  BY <1>1, <1>2, OrderedLists
<1>4. InOrder(S) = Ordered(S, key)
  BY DEF InOrder, key
<1> DEFINE n == Cardinality(S)
           at == InOrder(S)
<1>5. n \in Nat /\ at \in [1..n -> S] /\ \A x \in S : \E k \in 1..n : at[k] = x
  BY <1>3, <1>4 DEF Lists
<1> HIDE DEF n, at
<1>6. at \in Seq(S) /\ Len(at) = n /\ ToSet(at) = S
  BY <1>5 DEF ToSet
<1> QED
  BY <1>6 DEF n, at

(* One row for each of some pieces, in their order. *)
LEMMA PieceRowsAre ==
  ASSUME NEW S \in SUBSET Pieces
  PROVE  /\ PieceRows(S) \in Seq(Rows) /\ Len(PieceRows(S)) = Cardinality(S)
         /\ \A k \in 1..Cardinality(S) : Sorted(S)[k] \in S /\ PieceRows(S)[k] = <<Sorted(S)[k], 0>>
         /\ Ids(PieceRows(S)) = S
<1> DEFINE n == Cardinality(S)
           at == Sorted(S)
           rows == PieceRows(S)
<1>1. n \in Nat /\ at \in Seq(S) /\ Len(at) = n /\ DOMAIN at = 1..n /\ ToSet(at) = S
  BY SomePiecesAreFinite, SortedCounts
<1>2. rows = [i \in DOMAIN at |-> <<at[i], 0>>]
  BY DEF PieceRows
<1> HIDE DEF n, at, rows
<1>3. \A i \in 1..n : at[i] \in S /\ <<at[i], 0>> \in Rows
  BY <1>1 DEF Rows
<1>4. rows \in Seq(Rows) /\ Len(rows) = n /\ DOMAIN rows = 1..n /\ \A i \in 1..n : rows[i] = <<at[i], 0>>
  BY <1>1, <1>2, <1>3
<1>5. S = {at[i] : i \in 1..n}
  BY <1>1 DEF ToSet
<1>6. Ids(rows) = {Piece(rows[i]) : i \in 1..n}
  BY <1>4 DEF ToSet, Ids
<1>7. Ids(rows) = {at[i] : i \in 1..n}
  <2>1. \A i \in 1..n : Piece(rows[i]) = at[i]
    BY <1>4 DEF Piece
  <2> QED
    BY <1>6, <2>1
<1> QED
  BY <1>3, <1>4, <1>5, <1>7 DEF n, at, rows

(* The events of a list of rows. *)
LEMMA IdsArePieces ==
  ASSUME NEW rows \in Seq(Rows)
  PROVE  Ids(rows) \in SUBSET Pieces /\ ToSet(rows) \in SUBSET Rows
         /\ Ids(rows) = {Piece(rows[i]) : i \in DOMAIN rows}
         /\ \A i \in DOMAIN rows : rows[i] \in Rows
BY RowsOfSeq, RowsAreFinite DEF Ids, ToSet

(* Some pieces in their order, each once. *)
LEMMA SortedPieces ==
  ASSUME NEW S \in SUBSET Pieces
  PROVE  /\ Cardinality(S) \in Nat /\ Sorted(S) \in [1..Cardinality(S) -> S]
         /\ Sorted(S) \in [1..Cardinality(S) -> Pieces] /\ Len(Sorted(S)) = Cardinality(S)
         /\ Counts(Sorted(S), Cardinality(S), S)
         /\ \A j, k \in 1..Cardinality(S) :
              Sorted(S)[j] \in Nat /\ (Sorted(S)[j] = Sorted(S)[k] => j = k)
<1> DEFINE n == Cardinality(S)
           g == Sorted(S)
<1>1. S \in SUBSET Nat /\ IsFiniteSet(S) /\ n \in Nat
  BY SomePiecesAreFinite
<1>2. Counts(g, n, S) /\ Len(g) = n
  BY <1>1, SortedCounts
<1> HIDE DEF n, g
<1>3. g \in [1..n -> S] /\ \A j, k \in 1..n : j < k => g[j] < g[k]
  BY <1>2 DEF Counts
<1>4. \A j \in 1..n : g[j] \in Nat
  BY <1>1, <1>3
<1>5. ASSUME NEW j \in 1..n, NEW k \in 1..n, g[j] = g[k] PROVE j = k
  <2>1. ~(j < k) /\ ~(k < j)
    BY <1>3, <1>4, <1>5
  <2> QED
    BY <1>1, <2>1
<1>6. g \in [1..n -> Pieces]
  BY <1>3
<1> QED
  BY <1>1, <1>2, <1>3, <1>4, <1>5, <1>6 DEF n, g

Different(rows) == \A i, j \in DOMAIN rows : rows[i] = rows[j] => i = j

(* Keeping some of the rows of a list without repetitions makes none. *)
LEMMA KeepStaysDifferent ==
  ASSUME NEW R, NEW rows \in Seq(R), Different(rows), NEW no \in SUBSET DOMAIN rows
  PROVE  Different(Keep(rows, no))
<1> DEFINE n == Cardinality(no)
<1> HIDE DEF n
<1>2. n \in Nat /\ no \in SUBSET Int /\ IsFiniteSet(no)
  BY PlacesAreFinite DEF n
<1>3. /\ DOMAIN Keep(rows, no) = 1..n
      /\ \A k \in 1..n : Sorted(no)[k] \in no /\ Keep(rows, no)[k] = rows[Sorted(no)[k]]
  BY KeepPlaces DEF n
<1>4. \A i, j \in 1..n : i < j => Sorted(no)[i] < Sorted(no)[j]
  BY <1>2, SortedCounts DEF Counts, n
<1>5. ASSUME NEW i \in 1..n, NEW j \in 1..n, Keep(rows, no)[i] = Keep(rows, no)[j] PROVE i = j
  <2>1. Sorted(no)[i] = Sorted(no)[j] /\ Sorted(no)[i] \in Int
    BY <1>2, <1>3, <1>5 DEF Different
  <2>2. ~(i < j) /\ ~(j < i)
    BY <1>4, <2>1
  <2> QED
    BY <1>2, <2>2
<1> QED
  BY <1>3, <1>5 DEF Different

(* One row for each of some pieces: no row comes twice. *)
LEMMA PieceRowsDiffer ==
  ASSUME NEW S \in SUBSET Pieces
  PROVE  Different(PieceRows(S))
<1> DEFINE n == Cardinality(S)
           at == Sorted(S)
<1>1. \A i, j \in 1..n : at[i] = at[j] => i = j
  BY SortedPieces
<1>2. PieceRows(S) \in Seq(Rows) /\ Len(PieceRows(S)) = n
      /\ \A i \in 1..n : PieceRows(S)[i] = <<at[i], 0>>
  BY PieceRowsAre
<1> HIDE DEF n, at
<1>3. DOMAIN PieceRows(S) = 1..n
  BY <1>2, LenProperties
<1> QED
  BY <1>1, <1>2, <1>3 DEF Different

(* A list without repetitions has as many members as places. *)
LEMMA ListedOnce ==
  ASSUME NEW rows, NEW n \in Nat, DOMAIN rows = 1..n, Different(rows),
         NEW S, S = {rows[i] : i \in 1..n}
  PROVE  IsFiniteSet(S) /\ Cardinality(S) = n
<1> DEFINE f == [i \in 1..n |-> rows[i]]
<1>1. f \in Bijection(1..n, S)
  BY DEF Different, Bijection, Injection, Surjection, IsInjective
<1>2. ExistsBijection(1..n, S)
  BY <1>1 DEF ExistsBijection
<1>3. IsFiniteSet(1..n) /\ Cardinality(1..n) = n
  BY FS_Interval
<1> QED
  BY <1>2, <1>3, FS_Bijection

-----------------------------------------------------------------------------
(* Counting by classes: a sum over the classes is the size of a stack. *)

Stack(D, f) == UNION {{c} \X (1..f[c]) : c \in D}

(* Every set of numbers that is not empty has a least member. *)
LEMMA LeastIs ==
  ASSUME NEW S \in SUBSET Nat, S # {}
  PROVE  \E x \in S : \A y \in S : x <= y
<1> DEFINE R == OpToRel(<, Nat)
<1>1. PICK x \in S : \A y \in S : <<y, x>> \notin R
  <2>1. IsWellFoundedOn(R, Nat)
    BY NatLessThanWellFounded
  <2> HIDE DEF R
  <2>2. \E x \in S : \A y \in S : ~(<<y, x>> \in R)
    BY <2>1, WFMin
  <2> QED
    BY <2>2
<1>2. \A y \in S : ~(y < x)
  BY <1>1, Zenon DEF OpToRel
<1>3. \A y \in S : y \in Nat /\ x \in Nat
  OBVIOUS
<1> QED
  BY <1>2, <1>3

(* Induction over a finite set, for a property given as the set of the subsets that have it. *)
LEMMA GrowsToAll ==
  ASSUME NEW S, IsFiniteSet(S), NEW Q, {} \in Q,
         \A D \in SUBSET S : \A x \in S \ D : D \in Q => D \cup {x} \in Q
  PROVE  S \in Q
<1> SUFFICES ASSUME S \notin Q PROVE FALSE
  OBVIOUS
<1> DEFINE T == {D \in SUBSET S : D \notin Q}
           N == {Cardinality(D) : D \in T}
<1>1. \A D \in SUBSET S : IsFiniteSet(D) /\ Cardinality(D) \in Nat
  BY FS_Subset, FS_CardinalityType
<1>2. N \in SUBSET Nat /\ N # {}
  BY <1>1
<1>3. PICK n \in N : \A y \in N : n <= y
  <2> HIDE DEF N
  <2> QED
    BY <1>2, LeastIs
<1>4. PICK D \in T : n = Cardinality(D)
  BY <1>3
<1>5. PICK x \in D : TRUE
  BY <1>4
<1>6. IsFiniteSet(D) /\ x \in D
  BY <1>1, <1>4, <1>5
<1>7. Cardinality(D \ {x}) = n - 1
  BY <1>4, <1>6, FS_RemoveElement
<1>8. D \ {x} \notin T
  <2>1. n \in Nat
    BY <1>1, <1>4
  <2> SUFFICES ASSUME D \ {x} \in T PROVE FALSE
    OBVIOUS
  <2>2. Cardinality(D \ {x}) \in N
    OBVIOUS
  <2> QED
    BY <1>3, <1>7, <2>1, <2>2
<1>9. D \ {x} \in SUBSET S /\ D \ {x} \in Q /\ x \in S \ (D \ {x})
  BY <1>4, <1>6, <1>8
<1>10. (D \ {x}) \cup {x} = D
  BY <1>6
<1> QED
  BY <1>4, <1>9, <1>10

(* One more class makes the stack higher by its number. *)
LEMMA StackGrows ==
  ASSUME NEW S, NEW f \in [S -> Nat], NEW D \in SUBSET S, NEW x \in S \ D,
         IsFiniteSet(Stack(D, f))
  PROVE  /\ IsFiniteSet(Stack(D \cup {x}, f))
         /\ Cardinality(Stack(D \cup {x}, f)) = Cardinality(Stack(D, f)) + f[x]
<1> DEFINE T == Stack(D, f)
           n == f[x]
           U == {x} \X (1..n)
<1>1. Stack(D \cup {x}, f) = T \cup U /\ T \cap U = {}
  BY DEF Stack
<1>2. n \in Nat
  OBVIOUS
<1> HIDE DEF T, n
<1>3. IsFiniteSet(U) /\ Cardinality(U) = n
  <2>1. IsFiniteSet(1..n) /\ Cardinality(1..n) = n
    BY <1>2, FS_Interval
  <2>2. IsFiniteSet({x}) /\ Cardinality({x}) = 1
    BY FS_Singleton
  <2>3. IsFiniteSet(U) /\ Cardinality(U) = Cardinality({x}) * Cardinality(1..n)
    BY <2>1, <2>2, FS_Product
  <2> QED
    BY <1>2, <2>1, <2>2, <2>3
<1>4. IsFiniteSet(T)
  BY DEF T
<1> HIDE DEF U
<1>5. /\ IsFiniteSet(T \cup U) /\ Cardinality(T \cap U) = 0
      /\ Cardinality(T \cup U) = Cardinality(T) + Cardinality(U) - Cardinality(T \cap U)
  BY <1>1, <1>3, <1>4, FS_Union, FS_EmptySet
<1>6. Cardinality(T) \in Nat
  BY <1>4, FS_CardinalityType
<1>7. Cardinality(T \cup U) = Cardinality(T) + n
  BY <1>2, <1>3, <1>5, <1>6
<1> QED
  BY <1>1, <1>5, <1>7 DEF T, n

(* The stack of finitely many numbers is finite. *)
LEMMA StackIsFinite ==
  ASSUME NEW S, IsFiniteSet(S), NEW f \in [S -> Nat]
  PROVE  IsFiniteSet(Stack(S, f)) /\ Cardinality(Stack(S, f)) \in Nat
<1> DEFINE Q == {D \in SUBSET S : IsFiniteSet(Stack(D, f))}
<1>1. {} \in Q
  <2>1. Stack({}, f) = {}
    BY DEF Stack
  <2> QED
    BY <2>1, FS_EmptySet
<1>2. ASSUME NEW D \in SUBSET S, NEW x \in S \ D, D \in Q PROVE D \cup {x} \in Q
  BY <1>2, StackGrows
<1> HIDE DEF Q
<1>3. S \in Q
  BY <1>1, <1>2, GrowsToAll
<1> QED
  BY <1>3, FS_CardinalityType DEF Q

(* Of each class: a times f is b times g and h more. *)
Divides(S, a, f, b, g, h) == \A c \in S : a * f[c] = b * g[c] + h[c]

(* What holds of each class, a times f is b times g and h more, holds of the sums. *)
LEMMA StacksAdd ==
  ASSUME NEW S, IsFiniteSet(S), NEW f \in [S -> Nat], NEW g \in [S -> Nat], NEW h \in [S -> Nat],
         NEW a \in Nat, NEW b \in Nat, Divides(S, a, f, b, g, h)
  PROVE  a * Cardinality(Stack(S, f)) = b * Cardinality(Stack(S, g)) + Cardinality(Stack(S, h))
<1> DEFINE F(D) == Cardinality(Stack(D, f))
           G(D) == Cardinality(Stack(D, g))
           H(D) == Cardinality(Stack(D, h))
           Fin(D) == IsFiniteSet(Stack(D, f)) /\ IsFiniteSet(Stack(D, g)) /\ IsFiniteSet(Stack(D, h))
           Q == {D \in SUBSET S : Fin(D) /\ a * F(D) = b * G(D) + H(D)}
<1>1. {} \in Q
  <2>1. Stack({}, f) = {} /\ Stack({}, g) = {} /\ Stack({}, h) = {}
    BY DEF Stack
  <2>2. Fin({}) /\ F({}) = 0 /\ G({}) = 0 /\ H({}) = 0
    BY <2>1, FS_EmptySet
  <2>3. a * 0 = 0 /\ b * 0 + 0 = 0
    OBVIOUS
  <2>4. a * F({}) = b * G({}) + H({})
    <3> HIDE DEF F, G, H, Fin
    <3> QED
      BY <2>2, <2>3
  <2> HIDE DEF F, G, H, Fin
  <2> QED
    BY <2>2, <2>4
<1>2. ASSUME NEW D \in SUBSET S, NEW x \in S \ D, D \in Q PROVE D \cup {x} \in Q
  <2>1. Fin(D) /\ a * F(D) = b * G(D) + H(D)
    BY <1>2
  <2>2. /\ F(D \cup {x}) = F(D) + f[x] /\ G(D \cup {x}) = G(D) + g[x] /\ H(D \cup {x}) = H(D) + h[x]
        /\ Fin(D \cup {x})
    BY <2>1, StackGrows
  <2>3. F(D) \in Nat /\ G(D) \in Nat /\ H(D) \in Nat
    BY <2>1, FS_CardinalityType
  <2>4. f[x] \in Nat /\ g[x] \in Nat /\ h[x] \in Nat /\ a * f[x] = b * g[x] + h[x]
    BY DEF Divides
  <2> HIDE DEF F, G, H, Fin
  <2>5. a * (F(D) + f[x]) = b * (G(D) + g[x]) + (H(D) + h[x])
    <3> DEFINE u == F(D)  v == G(D)  w == H(D)  p == f[x]  q == g[x]  r == h[x]
    <3>1. u \in Nat /\ v \in Nat /\ w \in Nat /\ p \in Nat /\ q \in Nat /\ r \in Nat
      BY <2>3, <2>4
    <3>2. a * u = b * v + w /\ a * p = b * q + r
      BY <2>1, <2>4
    <3> HIDE DEF u, v, w, p, q, r
    <3>3. a * (u + p) = a * u + a * p /\ b * (v + q) = b * v + b * q
      BY <3>1
    <3>4. a * u \in Nat /\ a * p \in Nat /\ b * v \in Nat /\ b * q \in Nat
      BY <3>1
    <3>5. a * (u + p) = b * (v + q) + (w + r)
      BY <3>1, <3>2, <3>3, <3>4
    <3> QED
      BY <3>5, Zenon DEF u, v, w, p, q, r
  <2> QED
    BY <2>2, <2>5
<1> HIDE DEF Q
<1>3. S \in Q
  BY <1>1, <1>2, GrowsToAll
<1> QED
  BY <1>3 DEF Q

(* StacksAdd for a plain sum: f = g + h at every class. *)
LEMMA StacksSum ==
  ASSUME NEW S, IsFiniteSet(S), NEW f \in [S -> Nat], NEW g \in [S -> Nat], NEW h \in [S -> Nat],
         Divides(S, 1, f, 1, g, h)
  PROVE  Cardinality(Stack(S, f)) = Cardinality(Stack(S, g)) + Cardinality(Stack(S, h))
<1> DEFINE one == 1
           F == Cardinality(Stack(S, f))
           G == Cardinality(Stack(S, g))
<1>1. one \in Nat /\ Divides(S, one, f, one, g, h)
  OBVIOUS
<1>2. F \in Nat /\ G \in Nat
  BY StackIsFinite
<1>3. 1 * F = F /\ 1 * G = G
  <2> HIDE DEF F, G
  <2> QED
    BY <1>2
<1> HIDE DEF one
<1>4. one * F = one * G + Cardinality(Stack(S, h))
  BY <1>1, StacksAdd
<1> QED
  BY <1>3, <1>4 DEF one

(* The parts are finite, of sizes f, and have nothing in common. *)
Separates(S, f, part) ==
  /\ \A c \in S : IsFiniteSet(part[c]) /\ Cardinality(part[c]) = f[c]
  /\ \A c, d \in S : c # d => part[c] \cap part[d] = {}

(* A set cut into parts, one for each class, has as many elements as the parts together. *)
LEMMA PartsAreCounted ==
  ASSUME NEW S, IsFiniteSet(S), NEW f \in [S -> Nat], NEW part,
         Separates(S, f, part), NEW all, all = UNION {part[c] : c \in S}
  PROVE  IsFiniteSet(all) /\ Cardinality(all) = Cardinality(Stack(S, f))
<1> DEFINE U(D) == UNION {part[c] : c \in D}
           Q == {D \in SUBSET S : /\ IsFiniteSet(Stack(D, f)) /\ IsFiniteSet(U(D))
                                  /\ Cardinality(U(D)) = Cardinality(Stack(D, f))}
<1>1. {} \in Q
  <2>1. Stack({}, f) = {} /\ U({}) = {}
    BY DEF Stack
  <2> QED
    BY <2>1, FS_EmptySet
<1>2. ASSUME NEW D \in SUBSET S, NEW x \in S \ D, D \in Q PROVE D \cup {x} \in Q
  <2>1. IsFiniteSet(Stack(D, f)) /\ IsFiniteSet(U(D)) /\ Cardinality(U(D)) = Cardinality(Stack(D, f))
    BY <1>2
  <2>2. U(D \cup {x}) = U(D) \cup part[x] /\ U(D) \cap part[x] = {}
    <3>1. \A c \in D : part[c] \cap part[x] = {}
      BY DEF Separates
    <3> QED
      BY <3>1
  <2>3. IsFiniteSet(part[x]) /\ Cardinality(part[x]) = f[x] /\ f[x] \in Nat
    BY DEF Separates
  <2>4. /\ IsFiniteSet(Stack(D \cup {x}, f))
        /\ Cardinality(Stack(D \cup {x}, f)) = Cardinality(Stack(D, f)) + f[x]
    BY <2>1, StackGrows
  <2> HIDE DEF U
  <2>5. /\ IsFiniteSet(U(D) \cup part[x]) /\ Cardinality(U(D) \cap part[x]) = 0
        /\ Cardinality(U(D) \cup part[x])
             = Cardinality(U(D)) + Cardinality(part[x]) - Cardinality(U(D) \cap part[x])
    BY <2>1, <2>2, <2>3, FS_Union, FS_EmptySet
  <2>6. Cardinality(U(D)) \in Nat
    BY <2>1, FS_CardinalityType
  <2>7. Cardinality(U(D) \cup part[x]) = Cardinality(Stack(D, f)) + f[x]
    BY <2>1, <2>3, <2>5, <2>6
  <2> QED
    BY <2>2, <2>4, <2>5, <2>7
<1> HIDE DEF Q
<1>3. S \in Q
  BY <1>1, <1>2, GrowsToAll
<1> QED
  BY <1>3 DEF Q

-----------------------------------------------------------------------------
(* The shares of the classes, and the rows left over. *)

(* The places a count or a filter is about. *)
ClassPlaces(rows, c, bd) == {i \in DOMAIN rows : ClassOf[Piece(rows[i])] = c /\ Piece(rows[i]) \notin bd}
GoodPlaces(rows, bd) == {i \in DOMAIN rows : Piece(rows[i]) \notin bd}

(* The counts of good rows, overall and of a class, are sizes of finite sets of places. *)
LEMMA CountsOfRows ==
  ASSUME NEW R, NEW rows \in Seq(R), NEW bd
  PROVE  /\ GoodTotal(rows, bd) \in Nat /\ GoodTotal(rows, bd) = Cardinality(GoodPlaces(rows, bd))
         /\ IsFiniteSet(GoodPlaces(rows, bd))
         /\ \A c : /\ GoodCount(rows, c, bd) \in Nat /\ GoodCount(rows, c, bd) <= GoodTotal(rows, bd)
                   /\ GoodCount(rows, c, bd) = Cardinality(ClassPlaces(rows, c, bd))
                   /\ IsFiniteSet(ClassPlaces(rows, c, bd))
<1>1. /\ IsFiniteSet(GoodPlaces(rows, bd)) /\ GoodTotal(rows, bd) \in Nat
      /\ GoodTotal(rows, bd) = Cardinality(GoodPlaces(rows, bd))
  <2>1. GoodPlaces(rows, bd) \in SUBSET DOMAIN rows
    BY DEF GoodPlaces
  <2>2. IsFiniteSet(GoodPlaces(rows, bd)) /\ Cardinality(GoodPlaces(rows, bd)) \in Nat
    BY <2>1, PlacesAreFinite
  <2> QED
    BY <2>2 DEF GoodTotal, GoodPlaces
<1>2. ASSUME NEW c
      PROVE  /\ GoodCount(rows, c, bd) \in Nat /\ GoodCount(rows, c, bd) <= GoodTotal(rows, bd)
             /\ GoodCount(rows, c, bd) = Cardinality(ClassPlaces(rows, c, bd))
             /\ IsFiniteSet(ClassPlaces(rows, c, bd))
  <2>1. ClassPlaces(rows, c, bd) \in SUBSET GoodPlaces(rows, bd)
    BY DEF GoodPlaces, ClassPlaces
  <2>2. /\ IsFiniteSet(ClassPlaces(rows, c, bd))
        /\ Cardinality(ClassPlaces(rows, c, bd)) <= Cardinality(GoodPlaces(rows, bd))
    BY <1>1, <2>1, FS_Subset
  <2>3. Cardinality(ClassPlaces(rows, c, bd)) \in Nat
    BY <2>2, FS_CardinalityType
  <2>4. GoodCount(rows, c, bd) = Cardinality(ClassPlaces(rows, c, bd))
    BY DEF GoodCount, ClassPlaces
  <2> QED
    BY <1>1, <2>2, <2>3, <2>4
<1> QED
  BY <1>1, <1>2

(* The classes that have a good row, their whole shares and what the division leaves. *)
Sampled(rows, bd) == {c \in Classes : GoodCount(rows, c, bd) > 0}
Share(rows, c, bd, total) == (total * GoodCount(rows, c, bd)) \div GoodTotal(rows, bd)
Remainder(rows, c, bd, total) == (total * GoodCount(rows, c, bd)) % GoodTotal(rows, bd)

(* The share of a class and its remainder: division with a remainder by the good rows. *)
LEMMA SharesAre ==
  ASSUME NEW R, NEW rows \in Seq(R), NEW bd, NEW total \in Nat, NEW c \in Sampled(rows, bd)
  PROVE  /\ GoodTotal(rows, bd) \in Nat \ {0} /\ GoodCount(rows, c, bd) \in Nat \ {0}
         /\ Share(rows, c, bd, total) \in Nat
         /\ Remainder(rows, c, bd, total) \in 0..(GoodTotal(rows, bd) - 1)
         /\ total * GoodCount(rows, c, bd)
              = GoodTotal(rows, bd) * Share(rows, c, bd, total) + Remainder(rows, c, bd, total)
<1> DEFINE o == GoodTotal(rows, bd)
           g == GoodCount(rows, c, bd)
<1>1. o \in Nat /\ g \in Nat /\ g <= o
  BY CountsOfRows
<1>2. g > 0
  BY DEF Sampled
<1> HIDE DEF o, g
<1>3. o \in Nat \ {0} /\ g \in Nat \ {0} /\ total * g \in Nat
  BY <1>1, <1>2
<1>4. /\ (total * g) \div o \in Nat /\ (total * g) % o \in 0..(o - 1)
      /\ total * g = o * ((total * g) \div o) + ((total * g) % o)
  BY <1>3, Division
<1> QED
  BY <1>3, <1>4 DEF o, g, Share, Remainder

LeftOver(rows, bd, total) ==
  total - Cardinality(UNION {{c} \X (1..Share(rows, c, bd, total)) : c \in Sampled(rows, bd)})

(* The classes that get one more row before c does. *)
Ahead(rows, c, bd, total) ==
  {d \in Sampled(rows, bd) :
     \/ Remainder(rows, d, bd, total) > Remainder(rows, c, bd, total)
     \/ /\ Remainder(rows, d, bd, total) = Remainder(rows, c, bd, total)
        /\ Seen(rows, d, bd) < Seen(rows, c, bd)}

(* The target of a class is its share, and one more if few enough classes are ahead of it. *)
LEMMA TargetIs ==
  ASSUME NEW rows, NEW bd, NEW total, NEW c \in Sampled(rows, bd)
  PROVE  Targets(rows, bd, total)[c]
           = Share(rows, c, bd, total)
             + (IF Cardinality(Ahead(rows, c, bd, total)) < LeftOver(rows, bd, total) THEN 1 ELSE 0)
BY Zenon DEF Targets, Sampled, Share, Remainder, Ahead, LeftOver

(* The targets are numbers, one for each class with good rows. *)
LEMMA TargetsAreCounts ==
  ASSUME NEW R, NEW rows \in Seq(R), NEW bd, NEW total \in Nat
  PROVE  /\ DOMAIN Targets(rows, bd, total) = Sampled(rows, bd)
         /\ \A c \in Sampled(rows, bd) : Targets(rows, bd, total)[c] \in Nat
<1>1. DOMAIN Targets(rows, bd, total) = Sampled(rows, bd)
  BY DEF Targets, Sampled
<1>2. ASSUME NEW c \in Sampled(rows, bd)
      PROVE  Targets(rows, bd, total)[c] \in Nat
  <2> DEFINE w == Share(rows, c, bd, total)
             extra == IF Cardinality(Ahead(rows, c, bd, total)) < LeftOver(rows, bd, total) THEN 1 ELSE 0
  <2>1. Targets(rows, bd, total)[c] = w + extra
    BY TargetIs
  <2>2. w \in Nat
    BY SharesAre
  <2>3. extra \in {0, 1}
    OBVIOUS
  <2> HIDE DEF w, extra
  <2> QED
    BY <2>1, <2>2, <2>3
<1> QED
  BY <1>1, <1>2

(* There are finitely many classes. *)
LEMMA ClassesAreFinite == IsFiniteSet(Classes)
<1> DEFINE f == [p \in Pieces |-> ClassOf[p]]
<1>1. f \in Surjection(Pieces, Classes)
  BY DEF Surjection, Classes
<1> HIDE DEF f
<1> QED
  BY <1>1, PiecesAreNumbers, FS_Surjection

(* So are those with good rows. *)
LEMMA SampledAreFinite ==
  ASSUME NEW rows, NEW bd
  PROVE  IsFiniteSet(Sampled(rows, bd))
<1>1. Sampled(rows, bd) \in SUBSET Classes
  BY DEF Sampled
<1> QED
  BY <1>1, ClassesAreFinite, FS_Subset

(* The good rows are the good rows of the classes, put together. *)
LEMMA GoodsByClass ==
  ASSUME NEW rows \in Seq(Rows), NEW bd, NEW g,
         g = [c \in Sampled(rows, bd) |-> GoodCount(rows, c, bd)]
  PROVE  /\ g \in [Sampled(rows, bd) -> Nat]
         /\ GoodTotal(rows, bd) = Cardinality(Stack(Sampled(rows, bd), g))
<1> DEFINE S == Sampled(rows, bd)
           part == [c \in S |-> ClassPlaces(rows, c, bd)]
<1>1. /\ \A c : /\ GoodCount(rows, c, bd) \in Nat
                /\ GoodCount(rows, c, bd) = Cardinality(ClassPlaces(rows, c, bd))
                /\ IsFiniteSet(ClassPlaces(rows, c, bd))
      /\ GoodTotal(rows, bd) = Cardinality(GoodPlaces(rows, bd))
  BY CountsOfRows
<1>2. IsFiniteSet(S)
  BY SampledAreFinite
<1>3. g \in [S -> Nat] /\ \A c \in S : IsFiniteSet(part[c]) /\ Cardinality(part[c]) = g[c]
  <2> HIDE DEF S
  <2>1. \A c \in S : g[c] = GoodCount(rows, c, bd) /\ part[c] = ClassPlaces(rows, c, bd)
    BY DEF S
  <2>2. g = [c \in S |-> g[c]]
    BY DEF S
  <2> QED
    BY <1>1, <2>1, <2>2
<1>4. \A c, d \in S : c # d => part[c] \cap part[d] = {}
  BY DEF ClassPlaces
<1>5. UNION {part[c] : c \in S} = GoodPlaces(rows, bd)
  <2>1. ASSUME NEW i \in GoodPlaces(rows, bd)
        PROVE  \E c \in S : i \in part[c]
    <3> DEFINE c == ClassOf[Piece(rows[i])]
    <3>1. i \in DOMAIN rows /\ rows[i] \in Rows /\ Piece(rows[i]) \in Pieces
      BY RowsAreFinite DEF GoodPlaces
    <3>2. c \in Classes
      BY <3>1 DEF Classes
    <3>3. i \in ClassPlaces(rows, c, bd)
      BY DEF ClassPlaces, GoodPlaces
    <3> HIDE DEF c
    <3>4. Cardinality(ClassPlaces(rows, c, bd)) # 0
      BY <1>1, <3>3, FS_EmptySet, Zenon
    <3>5. GoodCount(rows, c, bd) > 0
      <4>1. /\ GoodCount(rows, c, bd) \in Nat
            /\ GoodCount(rows, c, bd) = Cardinality(ClassPlaces(rows, c, bd))
        BY <1>1
      <4> QED
        BY <3>4, <4>1
    <3>6. c \in S
      BY <3>2, <3>5 DEF Sampled
    <3> QED
      BY <3>3, <3>6
  <2>2. ASSUME NEW c \in S, NEW i \in part[c] PROVE i \in GoodPlaces(rows, bd)
    BY DEF ClassPlaces, GoodPlaces
  <2> HIDE DEF S, part
  <2> QED
    BY <2>1, <2>2
<1> HIDE DEF S, part
<1>6. Cardinality(GoodPlaces(rows, bd)) = Cardinality(Stack(S, g))
  <2>1. Separates(S, g, part)
    BY <1>3, <1>4, Zenon DEF Separates
  <2> QED
    BY <1>2, <1>3, <1>5, <2>1, PartsAreCounted
<1> QED
  BY <1>1, <1>3, <1>6 DEF S

(* The arithmetic of the rows left over: no more of them than of classes with a remainder. *)
LEMMA LeftByArithmetic ==
  ASSUME NEW total \in Nat, NEW o \in Nat \ {0}, NEW W \in Nat, NEW X \in Nat, NEW p \in Nat,
         total * o = o * W + X, X <= p * o
  PROVE  total - W \in Nat /\ total - W <= p
<1> DEFINE left == total - W
<1>1. left \in Int /\ total = W + left
  OBVIOUS
<1> HIDE DEF left
<1>2. o * left = X
  <2>1. total * o = o * W + o * left
    BY <1>1
  <2>2. o * W \in Int /\ o * left \in Int
    BY <1>1
  <2> QED
    BY <2>1, <2>2
<1>3. left >= 0
  <2> SUFFICES ASSUME left < 0 PROVE FALSE
    BY <1>1
  <2>1. o * left < 0
    BY <1>1
  <2> QED
    BY <1>2, <2>1
<1>4. left <= p
  <2> SUFFICES ASSUME left > p PROVE FALSE
    BY <1>1
  <2> DEFINE d == left - p - 1
  <2>1. d \in Nat /\ left = p + 1 + d
    BY <1>1
  <2> HIDE DEF d
  <2>2. o * left = p * o + o + o * d /\ o * d \in Nat /\ p * o \in Nat
    BY <2>1
  <2> QED
    BY <1>2, <2>2
<1> QED
  BY <1>1, <1>3, <1>4 DEF left

(* The rows left over are fewer than the classes whose share is not a whole number. *)
LEMMA LeftAreRemainders ==
  ASSUME NEW S, IsFiniteSet(S), NEW g \in [S -> Nat], NEW w \in [S -> Nat], NEW r \in [S -> Nat],
         NEW total \in Nat, NEW o \in Nat \ {0}, NEW P, P = {c \in S : r[c] > 0},
         Divides(S, total, g, o, w, r), \A c \in S : r[c] < o,
         Cardinality(Stack(S, g)) = o
  PROVE  /\ total - Cardinality(Stack(S, w)) \in Nat
         /\ IsFiniteSet(P) /\ total - Cardinality(Stack(S, w)) <= Cardinality(P)
         /\ Cardinality(Stack(S, w)) \in Nat
<1>1. IsFiniteSet(P) /\ Cardinality(P) \in Nat
  <2>1. P \in SUBSET S
    OBVIOUS
  <2>2. IsFiniteSet(P)
    BY <2>1, FS_Subset
  <2> QED
    BY <2>2, FS_CardinalityType
<1>2. Cardinality(Stack(S, w)) \in Nat /\ IsFiniteSet(Stack(S, r)) /\ Cardinality(Stack(S, r)) \in Nat
  BY StackIsFinite
<1>3. Cardinality(Stack(S, r)) <= Cardinality(P) * o
  <2>1. Stack(S, r) \in SUBSET (P \X (1..o))
    <3>1. ASSUME NEW c \in S, NEW k \in 1..r[c] PROVE c \in P /\ k \in 1..o
      <4>1. r[c] \in Nat /\ r[c] < o /\ k \in Nat /\ k >= 1 /\ k <= r[c]
        OBVIOUS
      <4> QED
        BY <4>1
    <3> QED
      BY <3>1 DEF Stack
  <2>2. IsFiniteSet(1..o) /\ Cardinality(1..o) = o
    BY FS_Interval
  <2>3. IsFiniteSet(P \X (1..o)) /\ Cardinality(P \X (1..o)) = Cardinality(P) * Cardinality(1..o)
    BY <1>1, <2>2, FS_Product
  <2>4. Cardinality(Stack(S, r)) <= Cardinality(P \X (1..o))
    BY <2>1, <2>3, FS_Subset
  <2> QED
    BY <2>2, <2>3, <2>4
<1>4. total * o = o * Cardinality(Stack(S, w)) + Cardinality(Stack(S, r))
  <2>1. o \in Nat
    OBVIOUS
  <2>2. total * Cardinality(Stack(S, g)) = o * Cardinality(Stack(S, w)) + Cardinality(Stack(S, r))
    BY <2>1, StacksAdd
  <2> QED
    BY <2>2
<1> QED
  BY <1>1, <1>2, <1>3, <1>4, LeftByArithmetic

(* The rows left over are a number, at most the classes that have a remainder. *)
LEMMA LeftOverIs ==
  ASSUME NEW rows \in Seq(Rows), NEW bd, NEW total \in Nat, GoodTotal(rows, bd) > 0,
         NEW P, P = {c \in Sampled(rows, bd) : Remainder(rows, c, bd, total) > 0},
         NEW w, w = [c \in Sampled(rows, bd) |-> Share(rows, c, bd, total)]
  PROVE  /\ LeftOver(rows, bd, total) \in Nat /\ IsFiniteSet(P)
         /\ LeftOver(rows, bd, total) <= Cardinality(P)
         /\ w \in [Sampled(rows, bd) -> Nat] /\ Cardinality(Stack(Sampled(rows, bd), w)) \in Nat
         /\ Cardinality(Stack(Sampled(rows, bd), w)) = total - LeftOver(rows, bd, total)
<1> DEFINE S == Sampled(rows, bd)
           o == GoodTotal(rows, bd)
           g == [c \in S |-> GoodCount(rows, c, bd)]
           r == [c \in S |-> Remainder(rows, c, bd, total)]
           left == LeftOver(rows, bd, total)
<1>1. o \in Nat \ {0}
  BY CountsOfRows
<1>2. ASSUME NEW c \in S
      PROVE  /\ w[c] \in Nat /\ r[c] \in Nat /\ r[c] < o
             /\ total * g[c] = o * w[c] + r[c]
  <2>1. /\ Share(rows, c, bd, total) \in Nat /\ Remainder(rows, c, bd, total) \in 0..(o - 1)
        /\ total * GoodCount(rows, c, bd) = o * Share(rows, c, bd, total) + Remainder(rows, c, bd, total)
    BY SharesAre
  <2>2. /\ w[c] = Share(rows, c, bd, total) /\ r[c] = Remainder(rows, c, bd, total)
        /\ g[c] = GoodCount(rows, c, bd)
    OBVIOUS
  <2> HIDE DEF o, g, r
  <2> QED
    BY <1>1, <2>1, <2>2
<1>3. IsFiniteSet(S)
  BY SampledAreFinite
<1>4. w = [c \in S |-> w[c]] /\ r = [c \in S |-> r[c]]
  OBVIOUS
<1>5. g \in [S -> Nat] /\ Cardinality(Stack(S, g)) = o
  BY GoodsByClass
<1>6. left = total - Cardinality(Stack(S, w))
  <2>1. Stack(S, w) = UNION {{c} \X (1..Share(rows, c, bd, total)) : c \in S}
    BY DEF Stack
  <2> QED
    BY <2>1 DEF LeftOver
<1>7. P = {c \in S : r[c] > 0}
  OBVIOUS
<1> HIDE DEF S, g, r, o, left
<1>8. w \in [S -> Nat] /\ r \in [S -> Nat]
  BY <1>2, <1>4, Zenon
<1>9. /\ total - Cardinality(Stack(S, w)) \in Nat
      /\ IsFiniteSet(P) /\ total - Cardinality(Stack(S, w)) <= Cardinality(P)
      /\ Cardinality(Stack(S, w)) \in Nat
  <2>1. Divides(S, total, g, o, w, r) /\ \A c \in S : r[c] < o
    BY <1>2 DEF Divides
  <2> QED
    BY <1>1, <1>3, <1>5, <1>7, <1>8, <2>1, LeftAreRemainders, Zenon
<1>10. left \in Nat /\ left <= Cardinality(P) /\ Cardinality(Stack(S, w)) = total - left
  <2> DEFINE W == Cardinality(Stack(S, w))
             p == Cardinality(P)
  <2>1. total - W \in Nat /\ total - W <= p /\ W \in Nat /\ left = total - W
    BY <1>6, <1>9
  <2> HIDE DEF W, p
  <2>2. left \in Nat /\ left <= p /\ W = total - left
    BY <2>1
  <2> QED
    BY <2>2 DEF W, p
<1> QED
  BY <1>8, <1>9, <1>10, Zenon DEF S, left

(* The elements on the first places. *)
LEMMA LowestAreCounted ==
  ASSUME NEW S, IsFiniteSet(S), NEW key, Distinct(S, key), NEW left \in Nat, left <= Cardinality(S)
  PROVE  Cardinality({x \in S : Place(S, key, x) <= left}) = left
<1> DEFINE at == Ordered(S, key)
           n == Cardinality(S)
           B == {x \in S : Place(S, key, x) <= left}
<1>1. /\ at \in [1..n -> S] /\ n \in Nat
      /\ \A x \in S : at[Place(S, key, x)] = x /\ Place(S, key, x) \in 1..n
      /\ \A k \in 1..n : Place(S, key, at[k]) = k
  BY OrderedPlaces, PlacesAreTaken
<1>2. left <= n
  OBVIOUS
<1> HIDE DEF at, n
<1> DEFINE f == [k \in 1..left |-> at[k]]
<1>3. ASSUME NEW k \in 1..left PROVE f[k] \in B /\ Place(S, key, f[k]) = k
  BY <1>1, <1>2
<1>4. ASSUME NEW x \in B PROVE \E k \in 1..left : f[k] = x
  <2>1. Place(S, key, x) \in 1..left /\ at[Place(S, key, x)] = x
    BY <1>1
  <2> QED
    BY <2>1
<1> HIDE DEF B
<1>5. f \in [1..left -> B]
  BY <1>3
<1> HIDE DEF f
<1>6. f \in Bijection(1..left, B)
  BY <1>3, <1>4, <1>5 DEF Bijection, Injection, Surjection, IsInjective
<1>7. ExistsBijection(1..left, B)
  BY <1>6 DEF ExistsBijection
<1>8. Cardinality(B) = left
  BY <1>7, FS_CountingElements
<1> QED
  BY <1>8 DEF B

(* The place of a member is one more than the number of members of smaller keys. *)
LEMMA PlaceIsAfterOthers ==
  ASSUME NEW S, IsFiniteSet(S), NEW key, Distinct(S, key), NEW c \in S,
         NEW A, A = {d \in S : key[d] < key[c]}
  PROVE  IsFiniteSet(A) /\ Place(S, key, c) = Cardinality(A) + 1
<1> DEFINE D == {d \in S : key[d] <= key[c]}
<1>1. \A d \in S : key[d] \in Int
  BY DEF Distinct
<1>2. {f \in Keyed(S, key) : f[1] <= key[c]} = Keyed(D, key)
  BY DEF Keyed
<1>3. D = A \cup {c} /\ c \notin A
  BY <1>1 DEF Distinct
<1>4. A \in SUBSET S
  OBVIOUS
<1>5. IsFiniteSet(A)
  BY <1>4, FS_Subset
<1>6. IsFiniteSet(D) /\ Cardinality(D) = Cardinality(A) + 1
  BY <1>3, <1>5, FS_AddElement
<1> HIDE DEF D
<1>7. Cardinality(Keyed(D, key)) = Cardinality(D)
  BY <1>6, KeyedIsFinite
<1> QED
  BY <1>2, <1>5, <1>6, <1>7 DEF Place

(* Where a class is first seen is a place of the list, and the row there is of the class. *)
LEMMA SeenIs ==
  ASSUME NEW rows \in Seq(Rows), NEW bd, NEW c \in Sampled(rows, bd)
  PROVE  Seen(rows, c, bd) \in 1..Len(rows) /\ ClassOf[Piece(rows[Seen(rows, c, bd)])] = c
<1> DEFINE I == {i \in 1..Len(rows) : ClassOf[Piece(rows[i])] = c /\ Piece(rows[i]) \notin bd}
<1>1. I # {}
  <2>1. GoodCount(rows, c, bd) = Cardinality(ClassPlaces(rows, c, bd)) /\ GoodCount(rows, c, bd) > 0
    BY CountsOfRows DEF Sampled
  <2>2. ClassPlaces(rows, c, bd) = {} => Cardinality(ClassPlaces(rows, c, bd)) = 0
    BY FS_EmptySet, Zenon
  <2>3. ClassPlaces(rows, c, bd) # {}
    BY <2>1, <2>2
  <2> QED
    BY <2>3 DEF ClassPlaces
<1>2. Seen(rows, c, bd) = CHOOSE x \in I : \A y \in I : x <= y
  BY <1>1, Zenon DEF Seen, SelectInSeq, Min
<1>3. I \in SUBSET Nat
  OBVIOUS
<1>4. \E x \in I : \A y \in I : x <= y
  <2> HIDE DEF I
  <2> QED
    BY <1>1, <1>3, LeastIs
<1>5. Seen(rows, c, bd) \in I
  <2> HIDE DEF I
  <2> QED
    BY <1>2, <1>4, Zenon
<1> QED
  BY <1>5

(* A pair of numbers is ordered as the one number the two are coded in. *)
LEMMA PairsInOrder ==
  ASSUME NEW x \in Nat, NEW y \in Nat, NEW n \in Nat, NEW s \in 1..n, NEW t \in 1..n
  PROVE  x * (n + 1) + s < y * (n + 1) + t <=> (x < y \/ (x = y /\ s < t))
<1> DEFINE m == n + 1
<1>1. m \in Nat /\ s < m /\ t < m /\ s \in Nat /\ t \in Nat /\ s >= 1 /\ t >= 1
  OBVIOUS
<1> HIDE DEF m
<1>2. x * m \in Nat /\ y * m \in Nat
  BY <1>1
<1>3. ASSUME x < y PROVE x * m + m <= y * m
  <2> DEFINE d == y - x - 1
  <2>1. d \in Nat /\ y = x + 1 + d
    BY <1>3
  <2> HIDE DEF d
  <2>2. y * m = x * m + m + d * m /\ d * m \in Nat
    BY <1>1, <2>1
  <2> QED
    BY <1>1, <1>2, <2>2
<1>4. ASSUME y < x PROVE y * m + m <= x * m
  <2> DEFINE d == x - y - 1
  <2>1. d \in Nat /\ x = y + 1 + d
    BY <1>4
  <2> HIDE DEF d
  <2>2. x * m = y * m + m + d * m /\ d * m \in Nat
    BY <1>1, <2>1
  <2> QED
    BY <1>1, <1>2, <2>2
<1>5. x * m + s < y * m + t <=> (x < y \/ (x = y /\ s < t))
  <2>1. CASE x < y
    BY <1>1, <1>2, <1>3, <2>1
  <2>2. CASE x = y
    BY <1>1, <1>2, <2>2
  <2>3. CASE y < x
    BY <1>1, <1>2, <1>4, <2>3
  <2> QED
    BY <2>1, <2>2, <2>3
<1> QED
  BY <1>5 DEF m

(* The order in which classes get one more row, as a number. *)
Turns(rows, bd, total) ==
  [c \in Sampled(rows, bd) |->
     (GoodTotal(rows, bd) - Remainder(rows, c, bd, total)) * (Len(rows) + 1) + Seen(rows, c, bd)]

(* The classes ahead of a class are those of a smaller turn, and no two have the same turn. *)
LEMMA AheadIs ==
  ASSUME NEW rows \in Seq(Rows), NEW bd, NEW total \in Nat,
         NEW c \in Sampled(rows, bd), NEW d \in Sampled(rows, bd)
  PROVE  /\ Turns(rows, bd, total)[c] \in Int
         /\ Turns(rows, bd, total)[c] = Turns(rows, bd, total)[d] => c = d
         /\ Turns(rows, bd, total)[d] < Turns(rows, bd, total)[c] <=> d \in Ahead(rows, c, bd, total)
<1> DEFINE o == GoodTotal(rows, bd)
           n == Len(rows)
           p == Remainder(rows, c, bd, total)
           q == Remainder(rows, d, bd, total)
           s == Seen(rows, c, bd)
           t == Seen(rows, d, bd)
           x == o - p
           y == o - q
           T == Turns(rows, bd, total)
<1>1. o \in Nat /\ n \in Nat /\ p \in 0..(o - 1) /\ q \in 0..(o - 1)
  <2>1. o \in Nat \ {0} /\ p \in 0..(o - 1)
    BY SharesAre
  <2>2. q \in 0..(o - 1)
    BY SharesAre
  <2>3. n \in Nat
    OBVIOUS
  <2> HIDE DEF o, p, q, n
  <2> QED
    BY <2>1, <2>2, <2>3
<1>2. s \in 1..n /\ t \in 1..n /\ (s = t => c = d)
  BY SeenIs
<1>3. T[c] = x * (n + 1) + s /\ T[d] = y * (n + 1) + t
  BY DEF Turns
<1>4. d \in Ahead(rows, c, bd, total) <=> (q > p \/ (q = p /\ t < s))
  BY DEF Ahead
<1> HIDE DEF o, n, p, q, s, t, T
<1>5. x \in Nat /\ y \in Nat /\ (y < x <=> q > p) /\ (x = y <=> p = q)
  BY <1>1
<1> HIDE DEF x, y
<1>6. x * (n + 1) + s < y * (n + 1) + t <=> (x < y \/ (x = y /\ s < t))
  BY <1>1, <1>2, <1>5, PairsInOrder
<1>7. y * (n + 1) + t < x * (n + 1) + s <=> (y < x \/ (y = x /\ t < s))
  BY <1>1, <1>2, <1>5, PairsInOrder
<1>8. x * (n + 1) + s \in Int /\ y * (n + 1) + t \in Int /\ s \in Int /\ t \in Int
  BY <1>1, <1>2, <1>5
<1>9. T[c] \in Int
  BY <1>3, <1>8
<1>10. T[d] < T[c] <=> d \in Ahead(rows, c, bd, total)
  BY <1>3, <1>4, <1>5, <1>7
<1>11. T[c] = T[d] => c = d
  <2> SUFFICES ASSUME T[c] = T[d] PROVE c = d
    OBVIOUS
  <2>1. ~(x < y) /\ ~(y < x) /\ ~(x = y /\ s < t) /\ ~(y = x /\ t < s)
    <3> DEFINE u == x * (n + 1) + s
               v == y * (n + 1) + t
    <3>1. u = v /\ u \in Int /\ v \in Int
      BY <1>3, <1>8
    <3>2. /\ u < v <=> (x < y \/ (x = y /\ s < t))
          /\ v < u <=> (y < x \/ (y = x /\ t < s))
      BY <1>6, <1>7
    <3> HIDE DEF u, v
    <3>3. ~(u < v) /\ ~(v < u)
      BY <3>1
    <3> QED
      BY <3>2, <3>3
  <2>2. x = y
    BY <1>5, <2>1
  <2>3. s = t
    BY <1>8, <2>1, <2>2
  <2> QED
    BY <1>2, <2>3
<1> QED
  BY <1>9, <1>10, <1>11 DEF T

(* As many classes get one more row as rows are left over, each with a share that is not whole. *)
LEMMA ExtraRows ==
  ASSUME NEW rows \in Seq(Rows), NEW bd, NEW total \in Nat, GoodTotal(rows, bd) > 0,
         NEW B, B = {c \in Sampled(rows, bd) :
                       Cardinality(Ahead(rows, c, bd, total)) < LeftOver(rows, bd, total)}
  PROVE  /\ Cardinality(B) = LeftOver(rows, bd, total)
         /\ \A c \in B : Remainder(rows, c, bd, total) > 0
<1> DEFINE S == Sampled(rows, bd)
           left == LeftOver(rows, bd, total)
           key == Turns(rows, bd, total)
           P == {c \in S : Remainder(rows, c, bd, total) > 0}
<1>1. IsFiniteSet(S) /\ Cardinality(S) \in Nat
  BY SampledAreFinite, FS_CardinalityType
<1>2. left \in Nat /\ IsFiniteSet(P) /\ left <= Cardinality(P)
  BY LeftOverIs
<1>3. Distinct(S, key)
  <2>1. key = [c \in S |-> key[c]]
    BY DEF Turns
  <2>2. \A c, d \in S : key[c] \in Int /\ (key[c] = key[d] => c = d)
    BY AheadIs
  <2> HIDE DEF S, key
  <2> QED
    BY <2>1, <2>2 DEF Distinct
<1>4. ASSUME NEW c \in S
      PROVE  /\ IsFiniteSet(Ahead(rows, c, bd, total))
             /\ Place(S, key, c) = Cardinality(Ahead(rows, c, bd, total)) + 1
             /\ Cardinality(Ahead(rows, c, bd, total)) \in Nat
  <2> DEFINE A == Ahead(rows, c, bd, total)
  <2>1. A = {d \in S : key[d] < key[c]}
    <3>1. A \in SUBSET S
      BY DEF Ahead
    <3>2. \A d \in S : key[d] < key[c] <=> d \in A
      BY AheadIs
    <3> HIDE DEF A, S, key
    <3> QED
      BY <3>1, <3>2
  <2> HIDE DEF A, S, key
  <2>2. IsFiniteSet(A) /\ Place(S, key, c) = Cardinality(A) + 1
    BY <1>1, <1>3, <2>1, PlaceIsAfterOthers
  <2>3. Cardinality(A) \in Nat
    BY <2>2, FS_CardinalityType
  <2> QED
    BY <2>2, <2>3 DEF A
<1>5. left <= Cardinality(S)
  <2>1. P \in SUBSET S
    OBVIOUS
  <2> HIDE DEF P, S, left
  <2>2. Cardinality(P) <= Cardinality(S) /\ Cardinality(P) \in Nat
    BY <1>1, <1>2, <2>1, FS_Subset, FS_CardinalityType
  <2> QED
    BY <1>1, <1>2, <2>2
<1>6. B = {c \in S : Place(S, key, c) <= left}
  <2>1. ASSUME NEW c \in S
        PROVE  Cardinality(Ahead(rows, c, bd, total)) < left <=> Place(S, key, c) <= left
    <3> DEFINE a == Cardinality(Ahead(rows, c, bd, total))
    <3>1. a \in Nat /\ Place(S, key, c) = a + 1
      BY <1>4
    <3> HIDE DEF a, left, S, key
    <3>2. a < left <=> Place(S, key, c) <= left
      BY <1>2, <3>1
    <3> QED
      BY <3>2 DEF a
  <2> HIDE DEF key
  <2> QED
    BY <2>1
<1>7. Cardinality(B) = left
  <2> HIDE DEF S, key, left
  <2> QED
    BY <1>1, <1>2, <1>3, <1>5, <1>6, LowestAreCounted
<1>8. ASSUME NEW c \in B PROVE Remainder(rows, c, bd, total) > 0
  <2> DEFINE A == Ahead(rows, c, bd, total)
  <2> SUFFICES ASSUME ~(Remainder(rows, c, bd, total) > 0) PROVE FALSE
    OBVIOUS
  <2>1. c \in S /\ Cardinality(A) < left
    BY <1>8
  <2>2. Remainder(rows, c, bd, total) = 0
    <3>1. GoodTotal(rows, bd) \in Nat /\ Remainder(rows, c, bd, total) \in 0..(GoodTotal(rows, bd) - 1)
      BY <2>1, SharesAre
    <3> QED
      BY <3>1
  <2>3. P \in SUBSET A
    BY <2>2 DEF Ahead
  <2>4. IsFiniteSet(A) /\ Cardinality(A) \in Nat
    BY <1>4, <2>1
  <2> HIDE DEF P, A, left
  <2>5. Cardinality(P) <= Cardinality(A) /\ Cardinality(P) \in Nat
    BY <2>3, <2>4, FS_Subset, FS_CardinalityType
  <2> QED
    BY <1>2, <2>1, <2>4, <2>5
<1> QED
  BY <1>7, <1>8

(* The arithmetic of a target: at most the good rows of its class, within one row of its part. *)
LEMMA TargetsInRange ==
  ASSUME NEW o \in Nat \ {0}, NEW total \in Nat, total <= o, NEW g \in Nat, NEW w \in Nat,
         NEW r \in Nat, r < o, total * g = o * w + r, NEW e \in {0, 1}, e = 1 => r > 0
  PROVE  w + e <= g /\ (w + e) * o - total * g < o /\ -((w + e) * o - total * g) < o
<1>1. (w + e) * o = o * w + e * o /\ o * w \in Nat /\ e * o \in {0, o}
  OBVIOUS
<1>2. (w + e) * o - total * g = e * o - r
  BY <1>1
<1>3. (w + e) * o - total * g < o /\ -((w + e) * o - total * g) < o
  <2>1. CASE e = 0
    <3>1. e * o = 0
      BY <2>1
    <3> QED
      BY <1>2, <3>1
  <2>2. CASE e = 1
    <3>1. e * o = o
      BY <2>2
    <3> QED
      BY <1>2, <2>2, <3>1
  <2> QED
    BY <2>1, <2>2
<1>4. w + e <= g
  <2> SUFFICES ASSUME w + e > g PROVE FALSE
    OBVIOUS
  <2>1. total * g <= o * g
    <3> DEFINE d == o - total
    <3>1. d \in Nat /\ o = total + d
      OBVIOUS
    <3> HIDE DEF d
    <3>2. o * g = total * g + d * g /\ d * g \in Nat
      BY <3>1
    <3>3. total * g \in Nat
      OBVIOUS
    <3> QED
      BY <3>2, <3>3
  <2>2. o * w + r <= o * g
    BY <2>1
  <2>3. CASE w > g
    <3> DEFINE d == w - g - 1
    <3>1. d \in Nat /\ w = g + 1 + d
      BY <2>3
    <3> HIDE DEF d
    <3>2. o * w = o * g + o + o * d /\ o * d \in Nat /\ o * g \in Nat
      BY <3>1
    <3> QED
      BY <2>2, <3>2
  <2>4. CASE w = g
    <3>1. e = 1 /\ r > 0 /\ o * g \in Nat
      BY <2>4
    <3> QED
      BY <2>2, <2>4, <3>1
  <2> QED
    BY <2>3, <2>4
<1> QED
  BY <1>3, <1>4

(* The targets add up to the total, and each is within one row of the exact share. *)
THEOREM TargetsSumUp ==
  ASSUME NEW rows \in Seq(Rows), NEW bd, NEW total \in Nat, NEW o, o = GoodTotal(rows, bd),
         o > 0, total <= o, NEW t, t = Targets(rows, bd, total)
  PROVE  /\ t \in [Sampled(rows, bd) -> Nat]
         /\ Cardinality(Stack(Sampled(rows, bd), t)) = total
         /\ \A c \in Sampled(rows, bd) :
              /\ t[c] <= GoodCount(rows, c, bd)
              /\ t[c] * o - total * GoodCount(rows, c, bd) < o
              /\ -(t[c] * o - total * GoodCount(rows, c, bd)) < o
<1> DEFINE S == Sampled(rows, bd)
           left == LeftOver(rows, bd, total)
           B == {c \in S : Cardinality(Ahead(rows, c, bd, total)) < left}
           w == [c \in S |-> Share(rows, c, bd, total)]
           e == [c \in S |-> IF c \in B THEN 1 ELSE 0]
<1>1. o \in Nat \ {0} /\ IsFiniteSet(S)
  BY CountsOfRows, SampledAreFinite
<1>2. /\ left \in Nat /\ w \in [S -> Nat]
      /\ Cardinality(Stack(S, w)) \in Nat /\ Cardinality(Stack(S, w)) = total - left
  BY LeftOverIs
<1>3. Cardinality(B) = left /\ \A c \in B : Remainder(rows, c, bd, total) > 0
  BY ExtraRows
<1>4. DOMAIN t = S /\ t = [c \in S |-> t[c]]
  <2>1. DOMAIN t = S
    BY TargetsAreCounts
  <2>2. t = [c \in S |-> t[c]]
    BY DEF Targets, Sampled
  <2> QED
    BY <2>1, <2>2
<1>5. ASSUME NEW c \in S
      PROVE  /\ t[c] = w[c] + e[c] /\ w[c] = Share(rows, c, bd, total) /\ e[c] \in {0, 1}
             /\ e[c] = 1 <=> c \in B
  <2>1. t[c] = Share(rows, c, bd, total)
               + (IF Cardinality(Ahead(rows, c, bd, total)) < left THEN 1 ELSE 0)
    BY TargetIs
  <2>2. e[c] = IF c \in B THEN 1 ELSE 0
    OBVIOUS
  <2>3. c \in B <=> Cardinality(Ahead(rows, c, bd, total)) < left
    OBVIOUS
  <2> HIDE DEF e, B, left
  <2>4. t[c] = Share(rows, c, bd, total) + e[c]
    BY <2>1, <2>2, <2>3, Zenon
  <2> QED
    BY <2>2, <2>4
<1>6. e \in [S -> Nat]
  OBVIOUS
<1>7. B \in SUBSET S
  OBVIOUS
<1>8. ASSUME NEW c \in S
      PROVE  /\ t[c] \in Nat /\ t[c] <= GoodCount(rows, c, bd)
             /\ t[c] * o - total * GoodCount(rows, c, bd) < o
             /\ -(t[c] * o - total * GoodCount(rows, c, bd)) < o
  <2> DEFINE g == GoodCount(rows, c, bd)
             r == Remainder(rows, c, bd, total)
             v == w[c]
             x == e[c]
  <2>1. g \in Nat /\ v \in Nat /\ r \in 0..(o - 1) /\ total * g = o * v + r
    BY <1>5, SharesAre
  <2>2. x \in {0, 1} /\ (x = 1 => r > 0) /\ t[c] = v + x
    BY <1>3, <1>5
  <2> HIDE DEF g, r, v, x
  <2>3. r \in Nat /\ r < o
    BY <1>1, <2>1
  <2>4. v + x <= g /\ (v + x) * o - total * g < o /\ -((v + x) * o - total * g) < o
    BY <1>1, <2>1, <2>2, <2>3, TargetsInRange
  <2> QED
    BY <2>1, <2>2, <2>4 DEF g
<1> HIDE DEF S, left, B, w, e
<1>9. t \in [S -> Nat]
  BY <1>4, <1>8, Zenon
<1>10. Cardinality(Stack(S, e)) = left
  <2> DEFINE part == [c \in S |-> IF c \in B THEN {c} ELSE {}]
  <2>1. Separates(S, e, part)
    <3>1. \A c \in S : e[c] = IF c \in B THEN 1 ELSE 0
      BY DEF e
    <3>2. \A c \in S : IsFiniteSet(part[c]) /\ Cardinality(part[c]) = e[c]
      BY <3>1, FS_Singleton, FS_EmptySet
    <3>3. \A c, d \in S : c # d => part[c] \cap part[d] = {}
      OBVIOUS
    <3> QED
      BY <3>2, <3>3 DEF Separates
  <2>2. UNION {part[c] : c \in S} = B
    BY <1>7
  <2> HIDE DEF part
  <2>3. Cardinality(B) = Cardinality(Stack(S, e))
    BY <1>1, <1>6, <2>1, <2>2, PartsAreCounted
  <2> QED
    BY <1>3, <2>3
<1>11. Cardinality(Stack(S, t)) = total
  <2>1. Divides(S, 1, t, 1, w, e)
    <3>1. ASSUME NEW c \in S PROVE 1 * t[c] = 1 * w[c] + e[c]
      <4>1. t[c] = w[c] + e[c] /\ t[c] \in Nat /\ w[c] \in Nat /\ e[c] \in Nat
        BY <1>2, <1>5, <1>6, <1>9
      <4> QED
        BY <4>1
    <3> QED
      BY <3>1 DEF Divides
  <2>2. Cardinality(Stack(S, t)) = Cardinality(Stack(S, w)) + Cardinality(Stack(S, e))
    BY <1>1, <1>2, <1>6, <1>9, <2>1, StacksSum
  <2>3. Cardinality(Stack(S, t)) \in Nat
    BY <1>1, <1>9, StackIsFinite
  <2> QED
    BY <1>2, <1>10, <2>2, <2>3
<1> QED
  BY <1>8, <1>9, <1>11 DEF S

-----------------------------------------------------------------------------
(* What is selected. *)

(* The rows of a class that are, or are not, of defective events. *)
LEMMA OfClassIs ==
  ASSUME NEW rows \in Seq(Rows), NEW c, NEW bd, NEW wanted \in BOOLEAN
  PROVE  /\ OfClass(rows, c, bd, wanted) \in Seq(Rows)
         /\ ToSet(OfClass(rows, c, bd, wanted))
              = {rows[i] : i \in {j \in DOMAIN rows : ClassOf[Piece(rows[j])] = c
                                                      /\ (Piece(rows[j]) \in bd <=> wanted)}}
BY KeepPlaces DEF OfClass

(* The defective rows of a class are of defective events. *)
LEMMA BadsOfClass ==
  ASSUME NEW rows \in Seq(Rows), NEW c, NEW bd
  PROVE  /\ OfClass(rows, c, bd, TRUE) \in Seq(Rows)
         /\ \A r \in ToSet(OfClass(rows, c, bd, TRUE)) : Piece(r) \in bd
<1> DEFINE kept == {i \in DOMAIN rows : ClassOf[Piece(rows[i])] = c /\ (Piece(rows[i]) \in bd <=> TRUE)}
<1>1. OfClass(rows, c, bd, TRUE) = Keep(rows, kept)
  BY Zenon DEF OfClass
<1>2. kept \in SUBSET DOMAIN rows /\ \A i \in kept : Piece(rows[i]) \in bd
  OBVIOUS
<1> HIDE DEF kept
<1>3. Keep(rows, kept) \in Seq(Rows) /\ ToSet(Keep(rows, kept)) = {rows[i] : i \in kept}
  BY <1>2, KeepPlaces
<1> QED
  BY <1>1, <1>2, <1>3

(* The good rows of a class, in their order. *)
LEMMA GoodsOfClass ==
  ASSUME NEW rows \in Seq(Rows), Different(rows), NEW c, NEW bd,
         NEW part, part = OfClass(rows, c, bd, FALSE)
  PROVE  /\ part \in Seq(Rows) /\ Len(part) = GoodCount(rows, c, bd) /\ Different(part)
         /\ DOMAIN part = 1..Len(part)
         /\ \A r \in ToSet(part) : r \in Rows /\ ClassOf[Piece(r)] = c /\ Piece(r) \notin bd
<1> DEFINE kept == ClassPlaces(rows, c, bd)
<1>1. part = Keep(rows, kept) /\ kept \in SUBSET DOMAIN rows
  <2>1. kept = {i \in DOMAIN rows : ClassOf[Piece(rows[i])] = c /\ (Piece(rows[i]) \in bd <=> FALSE)}
    BY DEF ClassPlaces
  <2> QED
    BY <2>1 DEF OfClass
<1>2. \A i \in kept : rows[i] \in Rows /\ ClassOf[Piece(rows[i])] = c /\ Piece(rows[i]) \notin bd
  BY DEF ClassPlaces
<1>3. GoodCount(rows, c, bd) = Cardinality(kept)
  BY CountsOfRows
<1> HIDE DEF kept
<1>4. /\ part \in Seq(Rows) /\ Len(part) = Cardinality(kept) /\ DOMAIN part = 1..Cardinality(kept)
      /\ ToSet(part) = {rows[i] : i \in kept}
  <2>1. /\ Keep(rows, kept) \in Seq(Rows) /\ Len(Keep(rows, kept)) = Cardinality(kept)
        /\ DOMAIN Keep(rows, kept) = 1..Cardinality(kept)
        /\ ToSet(Keep(rows, kept)) = {rows[i] : i \in kept}
    BY <1>1, KeepPlaces
  <2> QED
    BY <1>1, <2>1, Zenon
<1>5. Different(part)
  BY <1>1, KeepStaysDifferent
<1> QED
  BY <1>2, <1>3, <1>4, <1>5

(* Spread invents no row. *)
LEMMA SpreadIsOfRows ==
  ASSUME NEW R, NEW rows \in Seq(R), NEW target \in Nat
  PROVE  ToSet(Spread(rows, target)) \in SUBSET ToSet(rows)
<1> DEFINE s == Spread(rows, target)
           n == Len(rows)
           m == Len(s)
<1>1. s \in Seq(R) /\ DOMAIN rows = 1..n
  BY SpreadIs, LenProperties
<1>2. PICK pos : Selects(pos, m, n) /\ \A i \in 1..m : s[i] = rows[pos[i]]
  BY SpreadIs
<1>3. DOMAIN s = 1..m
  BY <1>1, LenProperties
<1> HIDE DEF s, n, m
<1>4. \A i \in 1..m : pos[i] \in 1..n
  BY <1>2 DEF Selects
<1>5. \A i \in DOMAIN s : s[i] \in ToSet(rows)
  BY <1>1, <1>2, <1>3, <1>4 DEF ToSet
<1>6. ToSet(s) \in SUBSET ToSet(rows)
  BY <1>5 DEF ToSet
<1> QED
  BY <1>6 DEF s

(* A spread has as many rows as asked, or all of them, and reaches from the first to the last. *)
LEMMA SpreadCounts ==
  ASSUME NEW R, NEW rows \in Seq(R), Different(rows), NEW target \in Nat, target <= Len(rows),
         NEW T, T = ToSet(Spread(rows, target))
  PROVE  /\ IsFiniteSet(T) /\ Cardinality(T) = target /\ T \in SUBSET ToSet(rows)
         /\ target > 1 => rows[1] \in T /\ rows[Len(rows)] \in T
<1> DEFINE s == Spread(rows, target)
           n == Len(rows)
<1>1. n \in Nat /\ DOMAIN rows = 1..n
  BY LenProperties
<1>2. s \in Seq(R) /\ Len(s) = target
  <2>1. Smaller(target, n) = target
    BY <1>1 DEF Smaller
  <2> QED
    BY <2>1, SpreadIs
<1>3. PICK pos : Selects(pos, target, n) /\ \A i \in 1..target : s[i] = rows[pos[i]]
  BY <1>2, SpreadIs
<1>4. DOMAIN s = 1..target
  BY <1>2, LenProperties
<1>5. T = {s[i] : i \in 1..target}
  BY <1>4 DEF ToSet
<1> HIDE DEF s, n
<1>6. \A i \in 1..target : pos[i] \in 1..n
  BY <1>3 DEF Selects
<1>7. ASSUME NEW i \in 1..target, NEW j \in 1..target, s[i] = s[j] PROVE i = j
  <2>1. pos[i] = pos[j] /\ pos[i] \in 1..n
    BY <1>1, <1>3, <1>6, <1>7 DEF Different
  <2>2. pos[i] \in Int
    BY <2>1
  <2>3. ~(i < j) /\ ~(j < i)
    BY <1>3, <2>1, <2>2 DEF Selects
  <2> QED
    BY <2>3
<1>8. Different(s)
  BY <1>4, <1>7 DEF Different
<1>9. IsFiniteSet(T) /\ Cardinality(T) = target
  BY <1>4, <1>5, <1>8, ListedOnce
<1>10. T \in SUBSET ToSet(rows)
  <2>1. ASSUME NEW i \in 1..target PROVE s[i] \in ToSet(rows)
    BY <1>1, <1>3, <1>6 DEF ToSet
  <2> QED
    BY <1>5, <2>1
<1>11. target > 1 => rows[1] \in T /\ rows[n] \in T
  <2> SUFFICES ASSUME target > 1 PROVE rows[1] \in T /\ rows[n] \in T
    OBVIOUS
  <2>1. pos[1] = 1 /\ pos[target] = n
    BY <1>3 DEF Selects
  <2>2. 1 \in 1..target /\ target \in 1..target
    OBVIOUS
  <2> QED
    BY <1>3, <1>5, <2>1, <2>2
<1> QED
  BY <1>9, <1>10, <1>11 DEF n

(* Putting a set of rows in order keeps the number of those of any kind. *)
LEMMA CountsInOrder ==
  ASSUME NEW S \in SUBSET Rows, NEW X, NEW rows, rows = InOrder(S),
         NEW I, I = {i \in DOMAIN rows : rows[i] \in X}
  PROVE  Cardinality(I) = Cardinality(S \cap X)
<1> DEFINE n == Cardinality(S)
<1>1. IsFiniteSet(S) /\ n \in Nat
  BY RowsAreFinite, FS_Subset, FS_CardinalityType
<1>2. rows \in Seq(S) /\ ToSet(rows) = S /\ Len(rows) = n
  BY InOrderKeepsRows
<1>3. DOMAIN rows = 1..n /\ rows \in [1..n -> S] /\ S = {rows[i] : i \in 1..n}
  BY <1>2, LenProperties DEF ToSet
<1> HIDE DEF n
<1>4. rows \in Injection(1..n, S)
  <2>1. rows \in Surjection(1..n, S)
    BY <1>3 DEF Surjection
  <2>2. IsFiniteSet(1..n) /\ Cardinality(1..n) = n
    BY <1>1, FS_Interval
  <2>3. Cardinality(1..n) = Cardinality(S)
    BY <2>2 DEF n
  <2> QED
    BY <2>1, <2>2, <2>3, FS_SurjSameCardinalityImpliesInj
<1>5. \A i, j \in 1..n : rows[i] = rows[j] => i = j
  BY <1>4 DEF Injection, IsInjective
<1> DEFINE f == [i \in I |-> rows[i]]
<1>6. f \in Bijection(I, S \cap X)
  <2>1. \A i \in I : i \in 1..n /\ rows[i] \in S \cap X
    BY <1>3
  <2>2. f \in [I -> S \cap X]
    BY <2>1
  <2>3. \A i, j \in I : f[i] = f[j] => i = j
    BY <1>5, <2>1
  <2>4. ASSUME NEW r \in S \cap X PROVE \E i \in I : f[i] = r
    <3>1. PICK i \in 1..n : rows[i] = r
      BY <1>3
    <3>2. i \in I
      BY <1>3, <3>1
    <3> QED
      BY <3>1, <3>2
  <2> HIDE DEF f
  <2> QED
    BY <2>2, <2>3, <2>4 DEF Bijection, Injection, Surjection, IsInjective
<1>7. ExistsBijection(I, S \cap X)
  BY <1>6 DEF ExistsBijection
<1>8. IsFiniteSet(I)
  <2>1. I \in SUBSET (1..n)
    BY <1>3
  <2>2. IsFiniteSet(1..n)
    BY <1>1, FS_Interval
  <2> QED
    BY <2>1, <2>2, FS_Subset
<1> QED
  BY <1>7, <1>8, FS_Bijection

GoodRows(bd) == {r \in Rows : Piece(r) \notin bd}
GoodRowsOf(c, bd) == {r \in Rows : ClassOf[Piece(r)] = c /\ Piece(r) \notin bd}

(* The good rows of a panel, overall and of a class, counted as sets of rows. *)
LEMMA PanelCounts ==
  ASSUME NEW E \in SUBSET Rows, NEW gate, gate = InOrder(E), NEW bd
  PROVE  /\ GoodTotal(gate, bd) = Cardinality(E \cap GoodRows(bd))
         /\ \A c : GoodCount(gate, c, bd) = Cardinality(E \cap GoodRowsOf(c, bd))
<1>1. \A i \in DOMAIN gate : gate[i] \in Rows
  <2>1. gate \in Seq(E)
    BY InOrderKeepsRows
  <2>2. \A i \in DOMAIN gate : gate[i] \in E
    BY <2>1, LenProperties, ElementOfSeq
  <2> QED
    BY <2>2
<1> SUFFICES ASSUME NEW c
             PROVE  /\ GoodTotal(gate, bd) = Cardinality(E \cap GoodRows(bd))
                    /\ GoodCount(gate, c, bd) = Cardinality(E \cap GoodRowsOf(c, bd))
  BY Zenon
<1> DEFINE I == {i \in DOMAIN gate : gate[i] \in GoodRows(bd)}
           J == {i \in DOMAIN gate : gate[i] \in GoodRowsOf(c, bd)}
<1>2. /\ I = {i \in DOMAIN gate : Piece(gate[i]) \notin bd}
      /\ J = {i \in DOMAIN gate : ClassOf[Piece(gate[i])] = c /\ Piece(gate[i]) \notin bd}
  BY <1>1 DEF GoodRows, GoodRowsOf
<1>3. GoodTotal(gate, bd) = Cardinality(I) /\ GoodCount(gate, c, bd) = Cardinality(J)
  BY <1>2, Zenon DEF GoodTotal, GoodCount
<1>4. Cardinality(I) = Cardinality(E \cap GoodRows(bd))
  BY CountsInOrder
<1>5. Cardinality(J) = Cardinality(E \cap GoodRowsOf(c, bd))
  BY CountsInOrder
<1> QED
  BY <1>3, <1>4, <1>5, Zenon

(* The events a script excludes are on none of its panels. *)
LEMMA GateGoodsAreNew ==
  ASSUME NEW replay \in Seq(Rows), NEW bd, NEW excluded, NEW total \in Nat
  PROVE  GateGoods(replay, bd, excluded, total) \in SUBSET (Pieces \ (bd \cup excluded))
<1> DEFINE Some(c, single) ==
             {p \in Pieces \ (bd \cup excluded) : ClassOf[p] = c /\ (ImagesOf[p] = 1) = single}
           Both(c) == Sorted(Some(c, FALSE)) \o Sorted(Some(c, TRUE))
           targets == Targets(replay, bd, total)
<1>1. ASSUME NEW c, NEW n \in Nat
      PROVE  ToSet(First(Both(c), n)) \in SUBSET (Pieces \ (bd \cup excluded))
  <2> DEFINE E == Pieces \ (bd \cup excluded)
             s == Sorted(Some(c, FALSE))
             t == Sorted(Some(c, TRUE))
  <2>1. s \in Seq(Some(c, FALSE)) /\ t \in Seq(Some(c, TRUE))
    <3>1. Some(c, FALSE) \in SUBSET Pieces /\ Some(c, TRUE) \in SUBSET Pieces
      OBVIOUS
    <3> HIDE DEF Some
    <3> QED
      BY <3>1, SomePiecesAreFinite, SortedCounts
  <2>2. Some(c, FALSE) \in SUBSET E /\ Some(c, TRUE) \in SUBSET E
    OBVIOUS
  <2> HIDE DEF Some, s, t, E
  <2>3. s \o t \in Seq(E)
    <3>1. s \in Seq(E) /\ t \in Seq(E)
      BY <2>1, <2>2, SeqMonotonic
    <3> QED
      BY <3>1
  <2>4. ToSet(First(s \o t, n)) \in SUBSET E
    BY <2>3, FirstIs, RowsOfSeq
  <2> QED
    BY <2>4 DEF s, t, E
<1>2. DOMAIN targets = Sampled(replay, bd) /\ \A c \in DOMAIN targets : targets[c] \in Nat
  BY TargetsAreCounts
<1>3. GateGoods(replay, bd, excluded, total)
        = UNION {ToSet(First(Both(c), targets[c])) : c \in DOMAIN targets}
  BY DEF GateGoods
<1> HIDE DEF Both, targets
<1> QED
  BY <1>1, <1>2, <1>3

(* Earliest invents no piece. *)
LEMMA EarliestAreSome ==
  ASSUME NEW S \in SUBSET Pieces, NEW count \in Nat
  PROVE  Earliest(S, count) \in SUBSET S
<1>1. Sorted(S) \in Seq(S)
  BY SomePiecesAreFinite, SortedCounts
<1> QED
  BY <1>1, FirstIs, RowsOfSeq DEF Earliest

-----------------------------------------------------------------------------
(* The baseline of a drift plan, row by row. *)

(* The three views of the events in g, one row each: the first n rows. *)
Views(g, n) == [i \in 1..n |-> <<g[((i - 1) \div 3) + 1], ((i - 1) % 3) + 1>>]

(* The first n of the views of the m events in g. *)
HasViews(g, m, n) == m \in Nat /\ g \in [1..m -> Pieces] /\ n \in Nat /\ n <= 3 * m

(* Where a view of an event is in the list of the views. *)
LEMMA ViewsAre ==
  ASSUME NEW g, NEW m, NEW n, HasViews(g, m, n)
  PROVE  /\ Views(g, n) \in Seq(Rows) /\ Len(Views(g, n)) = n /\ DOMAIN Views(g, n) = 1..n
         /\ \A i \in 1..n : /\ ((i - 1) \div 3) + 1 \in 1..m /\ ((i - 1) % 3) + 1 \in 1..3
                            /\ Piece(Views(g, n)[i]) = g[((i - 1) \div 3) + 1]
                            /\ View(Views(g, n)[i]) = ((i - 1) % 3) + 1
<1>0. m \in Nat /\ g \in [1..m -> Pieces] /\ n \in Nat /\ n <= 3 * m
  BY DEF HasViews
<1>1. ASSUME NEW i \in 1..n
      PROVE  ((i - 1) \div 3) + 1 \in 1..m /\ ((i - 1) % 3) + 1 \in 1..3 /\ ((i - 1) % 3) + 1 \in 0..3
  BY <1>0
<1>2. \A i \in 1..n : Views(g, n)[i] \in Rows
  BY <1>0, <1>1 DEF Views, Rows
<1>3. DOMAIN Views(g, n) = 1..n /\ Views(g, n) = [i \in 1..n |-> Views(g, n)[i]]
  BY DEF Views
<1>4. Views(g, n) \in Seq(Rows) /\ Len(Views(g, n)) = n
  <2>1. n \in Nat
    BY <1>0
  <2>2. Views(g, n) \in [1..n -> Rows]
    BY <1>2, <1>3, Zenon
  <2> QED
    BY <2>1, <2>2
<1>5. \A i \in 1..n : Views(g, n)[i] = <<g[((i - 1) \div 3) + 1], ((i - 1) % 3) + 1>>
  BY DEF Views
<1>6. \A x, y : Piece(<<x, y>>) = x /\ View(<<x, y>>) = y
  BY DEF Piece, View
<1>7. \A i \in 1..n : /\ Piece(Views(g, n)[i]) = g[((i - 1) \div 3) + 1]
                      /\ View(Views(g, n)[i]) = ((i - 1) % 3) + 1
  BY <1>5, <1>6, Zenon
<1> QED
  BY <1>1, <1>3, <1>4, <1>7, Zenon

(* The full replay is the three views of every piece_b event, in order. *)
LEMMA FullReplayIs ==
  /\ FullReplay = Views(Sorted(PieceB), 3 * Cardinality(PieceB))
  /\ FullReplay \in Seq(Rows) /\ Ids(FullReplay) = PieceB
<1> DEFINE m == Cardinality(PieceB)
           g == Sorted(PieceB)
<1>1. PieceB \in SUBSET Pieces
  BY DEF PieceB
<1>2. m \in Nat /\ g \in [1..m -> PieceB] /\ g \in [1..m -> Pieces] /\ Len(g) = m /\ Counts(g, m, PieceB)
  BY <1>1, SortedPieces
<1>3. FullReplay = Views(g, 3 * m)
  BY <1>2 DEF FullReplay, Views
<1> HIDE DEF m, g
<1> DEFINE rows == Views(g, 3 * m)
<1>4. /\ rows \in Seq(Rows) /\ DOMAIN rows = 1..(3 * m)
      /\ \A i \in 1..(3 * m) : ((i - 1) \div 3) + 1 \in 1..m /\ Piece(rows[i]) = g[((i - 1) \div 3) + 1]
  <2> DEFINE n == 3 * m
  <2>1. n \in Nat /\ n <= 3 * m
    BY <1>2
  <2> HIDE DEF n
  <2>3. HasViews(g, m, n)
    BY <1>2, <2>1, Zenon DEF HasViews
  <2>2. /\ Views(g, n) \in Seq(Rows) /\ DOMAIN Views(g, n) = 1..n
        /\ \A i \in 1..n : /\ ((i - 1) \div 3) + 1 \in 1..m
                           /\ Piece(Views(g, n)[i]) = g[((i - 1) \div 3) + 1]
    BY <2>3, ViewsAre, Zenon
  <2> QED
    BY <2>2, Zenon DEF n
<1> HIDE DEF rows
<1>5. ASSUME NEW p \in PieceB PROVE \E i \in 1..(3 * m) : Piece(rows[i]) = p
  <2>1. PICK k \in 1..m : g[k] = p
    BY <1>2 DEF Counts
  <2>2. 3 * k - 2 \in 1..(3 * m) /\ ((3 * k - 2) - 1) \div 3 + 1 = k
    BY <1>2
  <2> QED
    BY <1>4, <2>1, <2>2
<1>6. Ids(rows) = {Piece(rows[i]) : i \in 1..(3 * m)}
  BY <1>4, IdsArePieces
<1>7. Ids(rows) = PieceB
  BY <1>2, <1>4, <1>5, <1>6
<1> QED
  BY <1>3, <1>4, <1>7 DEF rows, m, g

(* Leaving out the defective events leaves the views of the others, in the same order. *)
LEMMA GoodViews ==
  ASSUME NEW bd
  PROVE  Goods(FullReplay, bd) = Views(Sorted(PieceB \ bd), 3 * Cardinality(PieceB \ bd))
<1> DEFINE m == Cardinality(PieceB)
           g == Sorted(PieceB)
           k == Cardinality(PieceB \ bd)
           h == Sorted(PieceB \ bd)
           rows == Views(g, 3 * m)
           kept == {i \in DOMAIN rows : Piece(rows[i]) \notin bd}
<1>1. PieceB \in SUBSET Pieces /\ (PieceB \ bd) \in SUBSET Pieces
  BY DEF PieceB
<1>2. m \in Nat /\ g \in [1..m -> PieceB] /\ g \in [1..m -> Pieces] /\ Counts(g, m, PieceB)
  BY <1>1, SortedPieces
<1>3. k \in Nat /\ h \in [1..k -> PieceB \ bd] /\ Counts(h, k, PieceB \ bd)
  BY <1>1, SortedPieces
<1>4. \A i, j \in 1..m : g[i] \in Nat /\ g[j] \in Nat /\ (g[i] = g[j] => i = j)
  BY <1>1, SortedPieces
<1>5. \A i, j \in 1..k : h[i] \in Nat /\ h[j] \in Nat
  BY <1>1, SortedPieces
<1>6. FullReplay = rows
  BY FullReplayIs
<1> HIDE DEF m, g, k, h
<1>7. /\ rows \in Seq(Rows) /\ DOMAIN rows = 1..(3 * m)
      /\ \A i \in 1..(3 * m) : ((i - 1) \div 3) + 1 \in 1..m /\ Piece(rows[i]) = g[((i - 1) \div 3) + 1]
  <2> DEFINE n == 3 * m
  <2>1. n \in Nat /\ n <= 3 * m
    BY <1>2
  <2> HIDE DEF n
  <2>3. HasViews(g, m, n)
    BY <1>2, <2>1, Zenon DEF HasViews
  <2>2. /\ Views(g, n) \in Seq(Rows) /\ DOMAIN Views(g, n) = 1..n
        /\ \A i \in 1..n : /\ ((i - 1) \div 3) + 1 \in 1..m
                           /\ Piece(Views(g, n)[i]) = g[((i - 1) \div 3) + 1]
    BY <2>3, ViewsAre, Zenon
  <2> QED
    BY <2>2, Zenon DEF n
<1> DEFINE at == [q \in 1..k |-> CHOOSE j \in 1..m : g[j] = h[q]]
<1>8. ASSUME NEW q \in 1..k PROVE at[q] \in 1..m /\ g[at[q]] = h[q]
  <2>1. \E j \in 1..m : g[j] = h[q]
    BY <1>2, <1>3 DEF Counts
  <2> QED
    BY <2>1, Zenon
<1> HIDE DEF at
<1>9. ASSUME NEW q \in 1..k, NEW r \in 1..k, q < r PROVE at[q] < at[r]
  <2>1. h[q] < h[r]
    BY <1>9, <1>3 DEF Counts
  <2>2. at[q] \in 1..m /\ at[r] \in 1..m /\ g[at[q]] = h[q] /\ g[at[r]] = h[r]
    BY <1>8
  <2>3. at[r] < at[q] => g[at[r]] < g[at[q]]
    BY <1>2, <2>2 DEF Counts
  <2>4. h[q] \in Nat /\ h[r] \in Nat
    BY <1>5
  <2> QED
    BY <1>2, <2>1, <2>2, <2>3, <2>4
<1> DEFINE Q(i) == ((i - 1) \div 3) + 1
           f == [i \in 1..(3 * k) |-> 3 * at[Q(i)] - 2 + ((i - 1) % 3)]
<1>10. ASSUME NEW i \in 1..(3 * k)
       PROVE  /\ Q(i) \in 1..k /\ f[i] \in 1..(3 * m) /\ Q(f[i]) = at[Q(i)]
              /\ (f[i] - 1) % 3 = (i - 1) % 3 /\ f[i] \in kept
  <2>1. Q(i) \in 1..k /\ (i - 1) % 3 \in 0..2
    BY <1>3
  <2> DEFINE a == at[Q(i)]
  <2>2. a \in 1..m /\ g[a] = h[Q(i)]
    BY <1>8, <2>1
  <2>3. f[i] = 3 * a - 2 + ((i - 1) % 3)
    OBVIOUS
  <2> HIDE DEF a, f
  <2>4. f[i] \in 1..(3 * m) /\ ((f[i] - 1) \div 3) + 1 = a /\ (f[i] - 1) % 3 = (i - 1) % 3
    BY <1>2, <2>1, <2>2, <2>3
  <2>5. Piece(rows[f[i]]) = h[Q(i)]
    BY <1>7, <2>2, <2>4
  <2>6. h[Q(i)] \notin bd
    BY <1>3, <2>1
  <2>7. f[i] \in kept
    BY <1>7, <2>4, <2>5, <2>6
  <2> QED
    BY <2>1, <2>4, <2>7 DEF a
<1>11. ASSUME NEW i \in 1..(3 * k), NEW j \in 1..(3 * k), i < j PROVE f[i] < f[j]
  <2>1. Q(i) \in 1..k /\ Q(j) \in 1..k /\ at[Q(i)] \in 1..m /\ at[Q(j)] \in 1..m
    BY <1>8, <1>10
  <2>2. Q(i) < Q(j) \/ (Q(i) = Q(j) /\ (i - 1) % 3 < (j - 1) % 3)
    BY <1>3, <1>11
  <2>3. Q(i) < Q(j) => at[Q(i)] < at[Q(j)]
    BY <1>9, <2>1
  <2>4. f[i] = 3 * at[Q(i)] - 2 + ((i - 1) % 3) /\ f[j] = 3 * at[Q(j)] - 2 + ((j - 1) % 3)
    OBVIOUS
  <2>5. (i - 1) % 3 \in 0..2 /\ (j - 1) % 3 \in 0..2
    BY <1>3
  <2> HIDE DEF f
  <2>6. CASE Q(i) < Q(j)
    <3> DEFINE a == at[Q(i)]
               b == at[Q(j)]
    <3>1. a < b /\ a \in Int /\ b \in Int
      BY <1>2, <2>1, <2>3, <2>6
    <3>2. f[i] = 3 * a - 2 + ((i - 1) % 3) /\ f[j] = 3 * b - 2 + ((j - 1) % 3)
      BY <2>4
    <3> HIDE DEF a, b
    <3> QED
      BY <2>5, <3>1, <3>2
  <2>7. CASE Q(i) = Q(j) /\ (i - 1) % 3 < (j - 1) % 3
    <3> DEFINE a == at[Q(i)]
    <3>1. a \in Int
      BY <1>2, <2>1
    <3>2. f[i] = 3 * a - 2 + ((i - 1) % 3) /\ f[j] = 3 * a - 2 + ((j - 1) % 3)
      BY <2>4, <2>7
    <3> HIDE DEF a
    <3> QED
      BY <2>5, <2>7, <3>1, <3>2
  <2> QED
    BY <2>2, <2>6, <2>7
<1>12. ASSUME NEW x \in kept PROVE \E i \in 1..(3 * k) : f[i] = x
  <2>1. x \in 1..(3 * m) /\ Q(x) \in 1..m /\ Piece(rows[x]) = g[Q(x)] /\ g[Q(x)] \notin bd
    BY <1>7
  <2>2. PICK q \in 1..k : h[q] = g[Q(x)]
    BY <1>2, <1>3, <2>1 DEF Counts
  <2>3. at[q] = Q(x)
    BY <1>4, <1>8, <2>1, <2>2
  <2> DEFINE i == 3 * q - 2 + ((x - 1) % 3)
  <2>4. i \in 1..(3 * k) /\ Q(i) = q /\ (i - 1) % 3 = (x - 1) % 3 /\ x = 3 * Q(x) - 2 + ((x - 1) % 3)
    BY <1>2, <1>3, <2>1
  <2> HIDE DEF i
  <2>5. f[i] = x
    BY <2>3, <2>4
  <2> QED
    BY <2>4, <2>5
<1>13. Counts(f, 3 * k, kept)
  <2> HIDE DEF f, kept
  <2>1. 3 * k \in Nat
    BY <1>3
  <2>2. f \in [1..(3 * k) -> kept]
    <3>1. DOMAIN f = 1..(3 * k) /\ f = [i \in 1..(3 * k) |-> f[i]]
      BY DEF f
    <3> QED
      BY <1>10, <3>1
  <2> QED
    BY <1>11, <1>12, <2>1, <2>2 DEF Counts
<1>14. Keep(rows, kept) = [i \in 1..(3 * k) |-> rows[f[i]]]
  <2>1. kept \in SUBSET DOMAIN rows
    OBVIOUS
  <2> HIDE DEF f, kept, rows
  <2> QED
    BY <1>7, <1>13, <2>1, KeepIs
<1>15. ASSUME NEW i \in 1..(3 * k) PROVE rows[f[i]] = <<h[Q(i)], ((i - 1) % 3) + 1>>
  <2>1. rows[f[i]] = <<g[Q(f[i])], ((f[i] - 1) % 3) + 1>>
    BY <1>10 DEF Views
  <2>2. Q(i) \in 1..k /\ g[at[Q(i)]] = h[Q(i)]
    BY <1>8, <1>10
  <2> HIDE DEF f, rows
  <2> QED
    BY <1>10, <2>1, <2>2
<1>16. Keep(rows, kept) = Views(h, 3 * k)
  <2> HIDE DEF f, kept, rows
  <2> QED
    BY <1>14, <1>15 DEF Views
<1>17. Goods(rows, bd) = Keep(rows, kept)
  BY DEF Goods
<1> QED
  BY <1>6, <1>16, <1>17 DEF h, k

(* Taking a view in turn from each of the good events is the order their views already have, so *)
(* that the baseline is the first whole windows of it.                                          *)
LEMMA BaselineIs ==
  ASSUME NEW bd, NEW w \in Nat \ {0}
  PROVE  \E n \in Nat : /\ n <= 3 * Cardinality(PieceB \ bd) /\ n % w = 0
                        /\ Baseline(FullReplay, bd, w) = Views(Sorted(PieceB \ bd), n)
<1> DEFINE k == Cardinality(PieceB \ bd)
           h == Sorted(PieceB \ bd)
           n == 3 * k
           V == Views(h, n)
           set == ToSet(V)
           Turn(row) == Cardinality({s \in set : View(s) = View(row) /\ Piece(s) <= Piece(row)})
           key == [row \in set |-> 4 * Turn(row) + View(row)]
           Q(i) == ((i - 1) \div 3) + 1
           L == (n \div w) * w
<1>1. (PieceB \ bd) \in SUBSET Pieces
  BY DEF PieceB
<1>2. /\ k \in Nat /\ n \in Nat /\ h \in [1..k -> Pieces] /\ Counts(h, k, PieceB \ bd)
      /\ \A i, j \in 1..k : h[i] \in Nat /\ h[j] \in Nat /\ (h[i] = h[j] => i = j)
  <2>1. /\ k \in Nat /\ h \in [1..k -> Pieces] /\ Counts(h, k, PieceB \ bd)
        /\ \A i, j \in 1..k : h[i] \in Nat /\ (h[i] = h[j] => i = j)
    BY <1>1, SortedPieces
  <2> HIDE DEF k, h
  <2> QED
    BY <2>1
<1>3. Goods(FullReplay, bd) = V
  BY GoodViews
<1> HIDE DEF k, h
<1>4. /\ V \in Seq(Rows) /\ Len(V) = n /\ DOMAIN V = 1..n
      /\ \A i \in 1..n : Q(i) \in 1..k /\ ((i - 1) % 3) + 1 \in 1..3
                         /\ Piece(V[i]) = h[Q(i)] /\ View(V[i]) = ((i - 1) % 3) + 1
                         /\ V[i] = <<h[Q(i)], ((i - 1) % 3) + 1>>
  <2>1. n <= 3 * k
    BY <1>2
  <2>2. \A i \in 1..n : V[i] = <<h[Q(i)], ((i - 1) % 3) + 1>>
    BY DEF Views
  <2>3. n \in Nat
    BY <1>2
  <2> HIDE DEF n
  <2>4. /\ Views(h, n) \in Seq(Rows) /\ Len(Views(h, n)) = n /\ DOMAIN Views(h, n) = 1..n
        /\ \A i \in 1..n : /\ ((i - 1) \div 3) + 1 \in 1..k /\ ((i - 1) % 3) + 1 \in 1..3
                           /\ Piece(Views(h, n)[i]) = h[((i - 1) \div 3) + 1]
                           /\ View(Views(h, n)[i]) = ((i - 1) % 3) + 1
    <3>1. HasViews(h, k, n)
      BY <1>2, <2>1, <2>3, Zenon DEF HasViews
    <3> QED
      BY <3>1, ViewsAre, Zenon
  <2> QED
    BY <2>2, <2>4, Zenon
<1> HIDE DEF V
<1>5. set = {V[i] : i \in 1..n}
  BY <1>4 DEF ToSet
<1>6. ASSUME NEW i \in 1..n PROVE Turn(V[i]) = Q(i)
  <2> DEFINE v == ((i - 1) % 3) + 1
             B == {s \in set : View(s) = v /\ Piece(s) <= h[Q(i)]}
             g == [j \in 1..Q(i) |-> <<h[j], v>>]
  <2>1. Q(i) \in 1..k /\ v \in 1..3 /\ View(V[i]) = v /\ Piece(V[i]) = h[Q(i)]
    BY <1>4
  <2>2. ASSUME NEW j \in 1..Q(i) PROVE g[j] \in B /\ j \in 1..k
    <3>1. j \in 1..k
      BY <1>2, <2>1
    <3> DEFINE x == 3 * j - 3 + v
    <3>2. x \in 1..n /\ Q(x) = j /\ ((x - 1) % 3) + 1 = v
      BY <1>2, <2>1, <3>1
    <3>3. V[x] = <<h[j], v>> /\ View(V[x]) = v /\ Piece(V[x]) = h[j]
      <4> HIDE DEF x
      <4> QED
      BY <1>4, <3>2
    <3>4. h[j] <= h[Q(i)]
      <4>1. j < Q(i) => h[j] < h[Q(i)]
        BY <1>2, <2>1, <3>1 DEF Counts
      <4>2. h[j] \in Nat /\ h[Q(i)] \in Nat
        BY <1>2, <2>1, <3>1
      <4>3. j \in Int /\ Q(i) \in Int /\ j <= Q(i)
        BY <1>2, <2>1
      <4> QED
        BY <4>1, <4>2, <4>3
    <3>5. g[j] = V[x] /\ V[x] \in set
      BY <1>5, <3>2, <3>3
    <3> HIDE DEF g, set
    <3> QED
      BY <3>1, <3>3, <3>4, <3>5
  <2>3. ASSUME NEW s \in B PROVE \E j \in 1..Q(i) : g[j] = s
    <3>1. PICK y \in 1..n : s = V[y]
      BY <1>5
    <3>2. Q(y) \in 1..k /\ s = <<h[Q(y)], v>> /\ h[Q(y)] <= h[Q(i)]
      BY <1>4, <3>1
    <3>3. Q(y) \in 1..Q(i)
      <4>1. Q(i) < Q(y) => h[Q(i)] < h[Q(y)]
        BY <1>2, <2>1, <3>2 DEF Counts
      <4>2. h[Q(y)] \in Nat /\ h[Q(i)] \in Nat
        BY <1>2, <2>1, <3>2
      <4> QED
        BY <1>2, <2>1, <3>2, <4>1, <4>2
    <3> QED
      BY <3>2, <3>3
  <2>4. \A a, b \in 1..Q(i) : g[a] = g[b] => a = b
    BY <1>2, <2>2
  <2>5. g \in Bijection(1..Q(i), B)
    <3>1. g \in [1..Q(i) -> B]
      <4> HIDE DEF B
      <4> QED
      BY <2>2
    <3> HIDE DEF B, g
    <3> QED
      BY <2>3, <2>4, <3>1 DEF Bijection, Injection, Surjection, IsInjective
  <2>6. Q(i) \in Nat
    BY <1>2, <2>1
  <2>7. Cardinality(B) = Q(i)
    <3> HIDE DEF B, g
    <3> DEFINE q == Q(i)
    <3> HIDE DEF q
    <3>1. Cardinality(B) = q
      BY <2>5, <2>6, FS_CountingElements DEF ExistsBijection, q
    <3> QED
      BY <3>1 DEF q
  <2> QED
    BY <2>1, <2>7, Zenon
<1>7. ASSUME NEW i \in 1..n PROVE V[i] \in set /\ key[V[i]] = 4 * Q(i) + (((i - 1) % 3) + 1)
  <2>1. V[i] \in set
    BY <1>5
  <2>2. key[V[i]] = 4 * Turn(V[i]) + View(V[i])
    BY <2>1
  <2> QED
    BY <1>4, <1>6, <2>1, <2>2, Zenon
<1>8. key \in [set -> Int]
  <2>1. \A s \in set : key[s] \in Int
    <3> SUFFICES ASSUME NEW s \in set PROVE key[s] \in Int
      OBVIOUS
    <3>1. PICK i \in 1..n : s = V[i]
      BY <1>5
    <3>2. Q(i) \in Int /\ ((i - 1) % 3) + 1 \in Int
      BY <1>2, <1>4
    <3>3. key[s] = 4 * Q(i) + (((i - 1) % 3) + 1)
      BY <1>7, <3>1, Zenon
    <3> HIDE DEF key
    <3> QED
      BY <3>2, <3>3
  <2>2. key = [s \in set |-> key[s]]
    OBVIOUS
  <2> HIDE DEF key
  <2> QED
    BY <2>1, <2>2
<1>9. ASSUME NEW i \in 1..n, NEW j \in 1..n, i < j PROVE key[V[i]] < key[V[j]]
  <2>1. 4 * Q(i) + (((i - 1) % 3) + 1) < 4 * Q(j) + (((j - 1) % 3) + 1)
    BY <1>2, <1>9
  <2> HIDE DEF key
  <2> QED
    BY <1>7, <2>1
<1>10. Lists(V, n, set, key)
  <2>1. V \in [1..n -> set]
    <3>1. \A i \in 1..n : V[i] \in set
      BY <1>7
    <3> HIDE DEF set
    <3> QED
    BY <1>4, <3>1
  <2>2. \A s \in set : \E i \in 1..n : V[i] = s
    BY <1>5
  <2> HIDE DEF key, set
  <2> QED
    BY <1>2, <1>9, <2>1, <2>2 DEF Lists
<1>11. Ordered(set, key) = V
  <2> HIDE DEF key, set
  <2> QED
    BY <1>8, <1>10, OrderedIs
<1>12. Baseline(FullReplay, bd, w) = First(V, L)
  <2>1. Baseline(FullReplay, bd, w) = First(Ordered(set, key), (Len(Ordered(set, key)) \div w) * w)
    BY <1>3 DEF Baseline
  <2> QED
    BY <1>4, <1>11, <2>1, Zenon
<1>13. L \in Nat /\ L <= n /\ L % w = 0
  <2> DEFINE q == n \div w
  <2> HIDE DEF n
  <2>1. n \in Nat
    BY <1>2
  <2>2. q \in Nat /\ n = w * q + (n % w) /\ n % w \in 0..(w - 1)
    BY <2>1, Division
  <2> HIDE DEF q
  <2>3. q * w = w * q /\ w * q \in Nat /\ q * w <= n
    BY <2>2
  <2>4. (q * w) % w = 0
    BY <2>2, <2>3
  <2> QED
    BY <2>3, <2>4 DEF q
<1>14. First(V, L) = Views(h, L)
  <2> HIDE DEF L, n
  <2>1. Smaller(L, Len(V)) = L
    BY <1>4, <1>13 DEF Smaller
  <2>2. /\ DOMAIN First(V, L) = 1..L /\ First(V, L) \in Seq(Rows)
        /\ \A i \in 1..L : i \in 1..n /\ First(V, L)[i] = V[i]
    <3>1. V \in Seq(Rows) /\ L \in Nat /\ Len(V) = n
      BY <1>4, <1>13
    <3> QED
      BY <2>1, <3>1, FirstIs
  <2>3. \A i \in 1..L : First(V, L)[i] = <<h[Q(i)], ((i - 1) % 3) + 1>>
    BY <1>4, <2>2
  <2>4. First(V, L) = [i \in 1..L |-> First(V, L)[i]]
    BY <2>2
  <2> DEFINE e == First(V, L)
  <2> HIDE DEF e
  <2>5. e = [i \in 1..L |-> <<h[Q(i)], ((i - 1) % 3) + 1>>]
    BY <2>3, <2>4 DEF e
  <2> QED
    BY <2>5 DEF e, Views
<1> QED
  <2> HIDE DEF L
  <2>1. L <= 3 * k
    BY <1>13
  <2> QED
    BY <1>12, <1>13, <1>14, <2>1 DEF h, k

-----------------------------------------------------------------------------
(* The P4 rows of a drift plan. *)

(* Two lists one after the other. *)
LEMMA Joined ==
  ASSUME NEW R, NEW s \in Seq(R), NEW t \in Seq(R), NEW m, NEW l, m = Len(s), l = Len(t)
  PROVE  /\ s \o t \in Seq(R) /\ Len(s \o t) = m + l /\ m \in Nat /\ l \in Nat
         /\ DOMAIN (s \o t) = 1..(m + l) /\ s \o t = [i \in 1..(m + l) |-> (s \o t)[i]]
         /\ \A i \in 1..m : (s \o t)[i] = s[i]
         /\ \A i \in (m + 1)..(m + l) : (s \o t)[i] = t[i - m] /\ i - m \in 1..l
<1>1. s \o t \in Seq(R) /\ Len(s \o t) = Len(s) + Len(t) /\ Len(s) \in Nat /\ Len(t) \in Nat
  BY LenProperties
<1>2. \A i \in 1..(Len(s) + Len(t)) : (s \o t)[i] = IF i <= Len(s) THEN s[i] ELSE t[i - Len(s)]
  OBVIOUS
<1>3. DOMAIN (s \o t) = 1..(m + l)
  BY <1>1
<1>4. s \o t = [i \in 1..(m + l) |-> (s \o t)[i]]
  <2> DEFINE u == s \o t
  <2>1. u \in Seq(R)
    BY <1>1
  <2> HIDE DEF u
  <2>2. u = [i \in DOMAIN u |-> u[i]]
    BY <2>1, LenProperties
  <2> QED
    BY <1>3, <2>2 DEF u
<1> QED
  BY <1>1, <1>2, <1>3, <1>4

(* The P4 rows, place by place: n the good rows, d the defects, k how many defects open a block, *)
(* a how many good rows close the first.                                                         *)
Blocks(good, defects, k, a) ==
  [j \in 1..(2 * k + Len(good)) |->
     IF j <= k THEN defects[((j - 1) % Len(defects)) + 1]
     ELSE IF j <= k + a THEN good[j - k]
     ELSE IF j <= 2 * k + a THEN defects[((j - a - 1) % Len(defects)) + 1]
     ELSE good[j - 2 * k]]

Defective(rows, bd) == Keep(rows, {i \in DOMAIN rows : Piece(rows[i]) \in bd})

(* Splitting a list of rows into those of good and of defective events. *)
LEMMA DefectiveIs ==
  ASSUME NEW R, NEW rows \in Seq(R), NEW bd
  PROVE  /\ Goods(rows, bd) \in Seq(R) /\ Defective(rows, bd) \in Seq(R)
         /\ \A i \in DOMAIN Goods(rows, bd) : Piece(Goods(rows, bd)[i]) \notin bd
         /\ \A i \in DOMAIN Defective(rows, bd) : Piece(Defective(rows, bd)[i]) \in bd
<1> DEFINE yes == {i \in DOMAIN rows : Piece(rows[i]) \in bd}
           no == {i \in DOMAIN rows : Piece(rows[i]) \notin bd}
<1>1. yes \in SUBSET DOMAIN rows /\ no \in SUBSET DOMAIN rows
  OBVIOUS
<1>2. \A i \in yes : Piece(rows[i]) \in bd
  OBVIOUS
<1>3. \A i \in no : Piece(rows[i]) \notin bd
  OBVIOUS
<1>4. Defective(rows, bd) = Keep(rows, yes) /\ Goods(rows, bd) = Keep(rows, no)
  BY DEF Defective, Goods
<1> HIDE DEF yes, no
<1>5. /\ Keep(rows, yes) \in Seq(R) /\ DOMAIN Keep(rows, yes) = 1..Cardinality(yes)
      /\ \A k \in 1..Cardinality(yes) :
           Sorted(yes)[k] \in yes /\ Keep(rows, yes)[k] = rows[Sorted(yes)[k]]
  BY <1>1, KeepPlaces
<1>6. /\ Keep(rows, no) \in Seq(R) /\ DOMAIN Keep(rows, no) = 1..Cardinality(no)
      /\ \A k \in 1..Cardinality(no) :
           Sorted(no)[k] \in no /\ Keep(rows, no)[k] = rows[Sorted(no)[k]]
  BY <1>1, KeepPlaces
<1> QED
  BY <1>2, <1>3, <1>4, <1>5, <1>6

(* With defective rows to repeat, the P4 rows are in blocks. *)
LEMMA OrderedP4Is ==
  ASSUME NEW R, NEW rows \in Seq(R), NEW bd, NEW suspected \in Nat, NEW critical \in Nat,
         Defective(rows, bd) # <<>>
  PROVE  LET goods == IF suspected > critical THEN suspected - critical ELSE 0
             good == Goods(rows, bd)
         IN OrderedP4(rows, bd, suspected, critical)
              = Blocks(good, Defective(rows, bd), critical, Smaller(goods, Len(good)))
<1> DEFINE g == Goods(rows, bd)
           d == Defective(rows, bd)
           n == Len(g)
           k == critical
           goods == IF suspected > critical THEN suspected - critical ELSE 0
           a == Smaller(goods, n)
           Rep(i) == d[((i - 1) % Len(d)) + 1]
           A1 == [i \in 1..k |-> Rep(i)]
           A2 == First(g, goods)
           A3 == [i \in 1..k |-> Rep(k + i)]
           A4 == Between(g, goods + 1, 2 * goods)
           A5 == Between(g, 2 * goods + 1, n)
           p == OrderedP4(rows, bd, suspected, critical)
<1>1. g \in Seq(R) /\ d \in Seq(R)
  BY DefectiveIs
<1>2. p = A1 \o A2 \o A3 \o A4 \o A5
  BY DEF OrderedP4, Defective
<1> SUFFICES p = Blocks(g, d, k, a)
  BY Zenon
<1> HIDE DEF g, d, goods, p
<1>3. n \in Nat /\ goods \in Nat /\ a \in Nat /\ a <= n /\ a <= goods /\ (a < goods => a = n)
  BY <1>1 DEF Smaller, goods
<1>4. Len(d) \in Nat \ {0}
  <2>1. d # <<>>
    BY DEF d
  <2> QED
    BY <1>1, <2>1, EmptySeq
<1>5. ASSUME NEW i \in Nat PROVE Rep(i + 1) \in R
  <2> DEFINE m == Len(d)
  <2>1. m \in Nat \ {0}
    BY <1>4
  <2> HIDE DEF m
  <2>2. (i % m) + 1 \in 1..m
    BY <2>1
  <2>3. (((i + 1) - 1) % Len(d)) + 1 \in 1..Len(d)
    BY <2>2 DEF m
  <2> QED
    BY <1>1, <2>3, ElementOfSeq
<1>6. A1 \in Seq(R) /\ Len(A1) = k /\ A3 \in Seq(R) /\ Len(A3) = k
  <2>1. ASSUME NEW i \in 1..k PROVE Rep(i) \in R /\ Rep(k + i) \in R
    <3>1. i - 1 \in Nat /\ k + i - 1 \in Nat /\ (i - 1) + 1 = i /\ (k + i - 1) + 1 = k + i
      OBVIOUS
    <3> HIDE DEF Rep
    <3> QED
      BY <1>5, <3>1
  <2> HIDE DEF Rep
  <2> QED
    BY <2>1
<1>7. /\ A2 \in Seq(R) /\ Len(A2) = a
      /\ \A i \in 1..a : A2[i] = g[i]
  BY <1>1, <1>3, FirstIs
<1>8. /\ A4 \in Seq(R) /\ Len(A4) = Smaller(2 * goods, n) - a
      /\ \A i \in 1..Len(A4) : A4[i] = g[i + a]
  <2> DEFINE x == goods + 1
             y == 2 * goods
             m == Smaller(y, n)
  <2>1. x \in Nat \ {0} /\ y \in Nat /\ x = goods + 1 /\ y = 2 * goods
    BY <1>3
  <2>2. m \in Nat /\ m <= n /\ m <= y /\ (m < y => m = n)
    BY <1>3, <2>1 DEF Smaller
  <2> HIDE DEF x, y, m
  <2>3. /\ Between(g, x, y) \in Seq(R) /\ Len(Between(g, x, y)) = (IF x <= m THEN m - x + 1 ELSE 0)
        /\ \A i \in 1..Len(Between(g, x, y)) :
             i + x - 1 \in x..m /\ Between(g, x, y)[i] = g[i + x - 1]
    <3> DEFINE M == Smaller(y, Len(g))
    <3>1. M = m /\ M = Smaller(y, Len(g))
      BY DEF m, n
    <3>3. g \in Seq(R) /\ x \in Nat \ {0} /\ y \in Nat
      BY <1>1, <2>1
    <3> HIDE DEF M
    <3>2. /\ Between(g, x, y) \in Seq(R) /\ Len(Between(g, x, y)) = (IF x <= M THEN M - x + 1 ELSE 0)
          /\ \A i \in 1..Len(Between(g, x, y)) :
               i + x - 1 \in x..M /\ i + x - 1 \in 1..Len(g) /\ Between(g, x, y)[i] = g[i + x - 1]
      BY <3>1, <3>3, BetweenIs
    <3> QED
      BY <3>1, <3>2
  <2>4. Len(Between(g, x, y)) = m - a
    BY <1>3, <2>1, <2>2, <2>3
  <2>5. ASSUME NEW i \in 1..Len(Between(g, x, y)) PROVE Between(g, x, y)[i] = g[i + a]
    <3>1. i \in 1..(m - a) /\ x <= m
      BY <1>3, <2>1, <2>2, <2>3, <2>4, <2>5
    <3>2. i + x - 1 = i + a
      BY <1>3, <2>1, <2>2, <3>1
    <3> QED
      BY <2>3, <2>5, <3>2
  <2>6. Between(g, x, y) = A4
    BY Zenon DEF x, y
  <2> HIDE DEF A4
  <2> QED
    BY <2>3, <2>4, <2>5, <2>6 DEF m, y
<1>9. /\ A5 \in Seq(R) /\ Len(A5) = n - Smaller(2 * goods, n)
      /\ \A i \in 1..Len(A5) : A5[i] = g[i + Smaller(2 * goods, n)]
  <2> DEFINE x == 2 * goods + 1
             m == Smaller(2 * goods, n)
  <2>1. x \in Nat \ {0} /\ x = 2 * goods + 1
    BY <1>3
  <2>2. m \in Nat /\ m <= n /\ m <= 2 * goods /\ (m < 2 * goods => m = n) /\ Smaller(n, n) = n
    BY <1>3 DEF Smaller
  <2> HIDE DEF x, m
  <2>3. /\ Between(g, x, n) \in Seq(R) /\ Len(Between(g, x, n)) = (IF x <= n THEN n - x + 1 ELSE 0)
        /\ \A i \in 1..Len(Between(g, x, n)) :
             i + x - 1 \in x..n /\ Between(g, x, n)[i] = g[i + x - 1]
    <3> DEFINE y == n
               M == Smaller(y, Len(g))
    <3>1. M = n /\ y = n /\ M = Smaller(y, Len(g))
      BY <2>2 DEF n
    <3>3. g \in Seq(R) /\ x \in Nat \ {0} /\ y \in Nat
      BY <1>1, <1>3, <2>1
    <3> HIDE DEF M, n, y
    <3>2. /\ Between(g, x, y) \in Seq(R) /\ Len(Between(g, x, y)) = (IF x <= M THEN M - x + 1 ELSE 0)
          /\ \A i \in 1..Len(Between(g, x, y)) :
               i + x - 1 \in x..M /\ i + x - 1 \in 1..Len(g) /\ Between(g, x, y)[i] = g[i + x - 1]
      <4> HIDE DEF A1, A2, A3, A4, A5, Rep, a
      <4>1. M = Smaller(y, Len(g))
        BY <3>1, Zenon
      <4> HIDE DEF g
      <4> QED
        BY <3>3, <4>1, BetweenIs
    <3> QED
      BY <3>1, <3>2, Zenon
  <2>4. Len(Between(g, x, n)) = n - m
    BY <1>3, <2>1, <2>2, <2>3
  <2>5. ASSUME NEW i \in 1..Len(Between(g, x, n)) PROVE Between(g, x, n)[i] = g[i + m]
    <3>1. i + x - 1 = i + m
      BY <1>3, <2>1, <2>2, <2>3, <2>4
    <3> QED
      BY <2>3, <3>1
  <2>6. Between(g, x, n) = A5
    BY Zenon DEF x
  <2> HIDE DEF A5
  <2> QED
    BY <2>3, <2>4, <2>5, <2>6 DEF m
<1>10. /\ \A i \in 1..k : A1[i] = Rep(i)
       /\ \A i \in 1..k : A3[i] = Rep(k + i)
  OBVIOUS
<1> DEFINE b == Smaller(2 * goods, n)
<1>11. b \in Nat /\ a <= b /\ b <= n
  BY <1>3 DEF Smaller
<1> HIDE DEF A1, A2, A3, A4, A5, Rep, a, b, n
<1>12. /\ A1 \o A2 \in Seq(R) /\ Len(A1 \o A2) = k + a
       /\ \A i \in 1..(k + a) : (A1 \o A2)[i] = IF i <= k THEN Rep(i) ELSE g[i - k]
  <2>1. /\ A1 \o A2 \in Seq(R) /\ Len(A1 \o A2) = k + a
        /\ \A i \in 1..k : (A1 \o A2)[i] = A1[i]
        /\ \A i \in (k + 1)..(k + a) : (A1 \o A2)[i] = A2[i - k] /\ i - k \in 1..a
    BY <1>6, <1>7, Joined
  <2>2. ASSUME NEW i \in 1..(k + a), i <= k PROVE (A1 \o A2)[i] = Rep(i)
    BY <1>10, <2>1, <2>2
  <2>3. ASSUME NEW i \in 1..(k + a), k < i PROVE (A1 \o A2)[i] = g[i - k]
    <3>1. i \in (k + 1)..(k + a)
      BY <1>3, <2>3
    <3>2. (A1 \o A2)[i] = A2[i - k] /\ i - k \in 1..a
      BY <2>1, <3>1
    <3> QED
      BY <1>7, <3>2
  <2>4. ASSUME NEW i \in 1..(k + a) PROVE (A1 \o A2)[i] = IF i <= k THEN Rep(i) ELSE g[i - k]
    <3>1. CASE i <= k
      BY <2>2, <3>1, Zenon
    <3>2. CASE ~(i <= k)
      <4>1. k < i
        BY <1>3, <3>2
      <4> QED
        BY <2>3, <3>2, <4>1, Zenon
    <3> QED
      BY <3>1, <3>2
  <2> QED
    BY <2>1, <2>4, Zenon
<1> DEFINE B2 == A1 \o A2
<1> HIDE DEF B2
<1> DEFINE B3 == B2 \o A3
<1> HIDE DEF B3
<1>13. /\ B3 \in Seq(R) /\ Len(B3) = 2 * k + a
       /\ \A i \in 1..(2 * k + a) :
            B3[i] = IF i <= k THEN Rep(i) ELSE IF i <= k + a THEN g[i - k] ELSE Rep(i - a)
  <2>1. B2 \in Seq(R) /\ Len(B2) = k + a
        /\ \A i \in 1..(k + a) : B2[i] = IF i <= k THEN Rep(i) ELSE g[i - k]
    BY <1>12 DEF B2
  <2>2. /\ B3 \in Seq(R) /\ Len(B3) = 2 * k + a
        /\ \A i \in 1..(k + a) : B3[i] = B2[i]
        /\ \A i \in (k + a + 1)..(2 * k + a) : B3[i] = A3[i - (k + a)]
    <3> DEFINE m == k + a
    <3>1. m + k = 2 * k + a
      BY <1>3
    <3> HIDE DEF m
    <3>2. /\ B3 \in Seq(R) /\ Len(B3) = m + k
          /\ \A i \in 1..m : B3[i] = B2[i]
          /\ \A i \in (m + 1)..(m + k) : B3[i] = A3[i - m]
      BY <1>6, <2>1, Joined DEF m, B3
    <3> QED
      BY <3>1, <3>2, Zenon DEF m
  <2>3. ASSUME NEW i \in 1..(2 * k + a), i <= k + a
        PROVE  B3[i] = IF i <= k THEN Rep(i) ELSE g[i - k]
    BY <1>3, <2>1, <2>2, <2>3
  <2>4. ASSUME NEW i \in 1..(2 * k + a), k + a < i PROVE B3[i] = Rep(i - a)
    <3>1. i - k - a \in 1..k /\ k + (i - k - a) = i - a
      BY <1>3, <2>4
    <3>2. B3[i] = A3[i - (k + a)]
      BY <1>3, <2>2, <2>4
    <3>3. i - (k + a) = i - k - a
      BY <1>3
    <3> QED
      BY <1>10, <3>1, <3>2, <3>3
  <2>5. ASSUME NEW i \in 1..(2 * k + a), k < i, i <= k + a PROVE B3[i] = g[i - k]
    BY <1>3, <2>3, <2>5
  <2>6. ASSUME NEW i \in 1..(2 * k + a), i <= k PROVE B3[i] = Rep(i)
    BY <1>3, <2>3, <2>6
  <2>7. ASSUME NEW i \in 1..(2 * k + a)
        PROVE  B3[i] = IF i <= k THEN Rep(i) ELSE IF i <= k + a THEN g[i - k] ELSE Rep(i - a)
    BY <1>3, <2>4, <2>5, <2>6
  <2> QED
    BY <2>2, <2>7
<1>14. /\ B3 \o A4 \in Seq(R) /\ Len(B3 \o A4) = 2 * k + b
       /\ \A i \in 1..(2 * k + a) : (B3 \o A4)[i] = B3[i]
       /\ \A i \in (2 * k + a + 1)..(2 * k + b) : (B3 \o A4)[i] = g[i - 2 * k]
  <2>1. B3 \in Seq(R) /\ Len(B3) = 2 * k + a /\ A4 \in Seq(R) /\ Len(A4) = b - a
    BY <1>8, <1>13 DEF b
  <2>3. /\ B3 \o A4 \in Seq(R) /\ Len(B3 \o A4) = 2 * k + b
        /\ \A i \in 1..(2 * k + a) : (B3 \o A4)[i] = B3[i]
        /\ \A i \in (2 * k + a + 1)..(2 * k + b) : (B3 \o A4)[i] = A4[i - (2 * k + a)]
    <3> DEFINE m == 2 * k + a
               l == b - a
    <3>1. m + l = 2 * k + b
      BY <1>3, <1>11
    <3>2. Len(B3) = m /\ Len(A4) = l
      BY <2>1
    <3> HIDE DEF m, l
    <3>3. /\ B3 \o A4 \in Seq(R) /\ Len(B3 \o A4) = m + l
          /\ \A i \in 1..m : (B3 \o A4)[i] = B3[i]
          /\ \A i \in (m + 1)..(m + l) : (B3 \o A4)[i] = A4[i - m]
      BY <2>1, <3>2, Joined
    <3> QED
      BY <3>1, <3>3, Zenon DEF m
  <2>2. ASSUME NEW i \in (2 * k + a + 1)..(2 * k + b) PROVE (B3 \o A4)[i] = g[i - 2 * k]
    <3> DEFINE j == i - (2 * k + a)
    <3>1. j \in 1..(b - a) /\ j + a = i - 2 * k
      BY <1>3, <1>11, <2>2
    <3>2. (B3 \o A4)[i] = A4[j]
      BY <2>3, Zenon
    <3> QED
      BY <1>8, <2>1, <3>1, <3>2
  <2> QED
    BY <2>2, <2>3
<1> DEFINE B4 == B3 \o A4
<1> HIDE DEF B4
<1>15. /\ B4 \o A5 \in Seq(R) /\ Len(B4 \o A5) = 2 * k + n
       /\ \A i \in 1..(2 * k + b) : (B4 \o A5)[i] = B4[i]
       /\ \A i \in (2 * k + b + 1)..(2 * k + n) : (B4 \o A5)[i] = g[i - 2 * k]
  <2>1. /\ B4 \in Seq(R) /\ Len(B4) = 2 * k + b /\ A5 \in Seq(R) /\ Len(A5) = n - b
        /\ \A i \in 1..Len(A5) : A5[i] = g[i + b]
    BY <1>9, <1>14 DEF B4, b
  <2>3. /\ B4 \o A5 \in Seq(R) /\ Len(B4 \o A5) = 2 * k + n
        /\ \A i \in 1..(2 * k + b) : (B4 \o A5)[i] = B4[i]
        /\ \A i \in (2 * k + b + 1)..(2 * k + n) : (B4 \o A5)[i] = A5[i - (2 * k + b)]
    <3> DEFINE m == 2 * k + b
               l == n - b
    <3>1. m + l = 2 * k + n
      BY <1>3, <1>11
    <3>2. Len(B4) = m /\ Len(A5) = l
      BY <2>1
    <3> HIDE DEF m, l
    <3>3. /\ B4 \o A5 \in Seq(R) /\ Len(B4 \o A5) = m + l
          /\ \A i \in 1..m : (B4 \o A5)[i] = B4[i]
          /\ \A i \in (m + 1)..(m + l) : (B4 \o A5)[i] = A5[i - m]
      BY <2>1, <3>2, Joined
    <3> QED
      BY <3>1, <3>3, Zenon DEF m
  <2>2. ASSUME NEW i \in (2 * k + b + 1)..(2 * k + n) PROVE (B4 \o A5)[i] = g[i - 2 * k]
    <3> DEFINE j == i - (2 * k + b)
    <3>1. j \in 1..(n - b) /\ j + b = i - 2 * k
      BY <1>3, <1>11, <2>2
    <3>2. (B4 \o A5)[i] = A5[j]
      BY <2>3, Zenon
    <3> QED
      BY <2>1, <3>1, <3>2
  <2> QED
    BY <2>2, <2>3
<1>16. p = B4 \o A5
  BY <1>2 DEF B4, B3, B2
<1>17. ASSUME NEW i \in 1..(2 * k + n)
       PROVE  p[i] = IF i <= k THEN Rep(i) ELSE IF i <= k + a THEN g[i - k]
                     ELSE IF i <= 2 * k + a THEN Rep(i - a) ELSE g[i - 2 * k]
  <2>1. CASE i <= 2 * k + a
    <3>1. i \in 1..(2 * k + a) /\ i \in 1..(2 * k + b)
      BY <1>3, <1>11, <2>1
    <3>2. p[i] = B3[i]
      BY <1>14, <1>15, <1>16, <3>1 DEF B4
    <3>3. B3[i] = IF i <= k THEN Rep(i) ELSE IF i <= k + a THEN g[i - k] ELSE Rep(i - a)
      BY <1>13, <3>1
    <3> QED
      BY <2>1, <3>2, <3>3
  <2>2. CASE 2 * k + a < i /\ i <= 2 * k + b
    <3>1. i \in (2 * k + a + 1)..(2 * k + b) /\ i \in 1..(2 * k + b)
      BY <1>3, <1>11, <2>2
    <3>2. p[i] = g[i - 2 * k]
      BY <1>14, <1>15, <1>16, <3>1 DEF B4
    <3>3. ~(i <= k) /\ ~(i <= k + a) /\ ~(i <= 2 * k + a)
      BY <1>3, <2>2
    <3> QED
      BY <3>2, <3>3
  <2>3. CASE 2 * k + b < i
    <3>1. i \in (2 * k + b + 1)..(2 * k + n)
      BY <1>3, <1>11, <2>3
    <3>2. p[i] = g[i - 2 * k]
      BY <1>15, <1>16, <3>1
    <3>3. ~(i <= k) /\ ~(i <= k + a) /\ ~(i <= 2 * k + a)
      BY <1>3, <1>11, <2>3
    <3> QED
      BY <3>2, <3>3
  <2> QED
    BY <1>3, <1>11, <2>1, <2>2, <2>3
<1>18. DOMAIN p = 1..(2 * k + n) /\ p = [i \in 1..(2 * k + n) |-> p[i]]
  <2> DEFINE m == 2 * k + n
  <2> HIDE DEF m
  <2>1. p \in Seq(R) /\ Len(p) = m
    BY <1>15, <1>16 DEF m
  <2>2. DOMAIN p = 1..m /\ p = [i \in DOMAIN p |-> p[i]]
    BY <2>1, LenProperties
  <2> QED
    BY <2>2 DEF m
<1> QED
  BY <1>17, <1>18 DEF Blocks, Rep, n

(* The P4 rows are rows of the P4 source. *)
LEMMA OrderedP4Keeps ==
  ASSUME NEW R, NEW rows \in Seq(R), NEW bd, NEW suspected \in Nat, NEW critical \in Nat
  PROVE  OrderedP4(rows, bd, suspected, critical) \in Seq(R)
<1> DEFINE g == Goods(rows, bd)
           d == Defective(rows, bd)
           k == critical
           goods == IF suspected > critical THEN suspected - critical ELSE 0
           a == Smaller(goods, Len(g))
           p == OrderedP4(rows, bd, suspected, critical)
<1>1. g \in Seq(R) /\ d \in Seq(R)
  BY DefectiveIs
<1>2. CASE d = <<>>
  <2>1. p = rows
    BY <1>2 DEF OrderedP4, Defective
  <2> QED
    BY <2>1
<1>3. CASE d # <<>>
  <2>1. p = Blocks(g, d, k, a)
    BY <1>3, OrderedP4Is, Zenon
  <2> DEFINE n == Len(g)
             m == Len(d)
  <2>2. n \in Nat /\ a \in Nat /\ a <= n /\ m \in Nat \ {0}
    <3>1. m \in Nat \ {0}
      BY <1>1, <1>3, EmptySeq
    <3>2. n \in Nat /\ goods \in Nat
      BY <1>1
    <3> QED
      BY <3>1, <3>2 DEF Smaller
  <2> HIDE DEF a, m
  <2>3. ASSUME NEW x \in Nat PROVE d[(x % m) + 1] \in R
    <3>1. (x % m) + 1 \in 1..m
      BY <2>2
    <3> QED
      BY <1>1, <3>1, ElementOfSeq DEF m
  <2>4. ASSUME NEW x \in 1..n PROVE g[x] \in R
    BY <1>1, <2>4, ElementOfSeq
  <2> HIDE DEF n, g, d
  <2>5. ASSUME NEW j \in 1..(2 * k + n)
        PROVE  (IF j <= k THEN d[((j - 1) % m) + 1]
                ELSE IF j <= k + a THEN g[j - k]
                ELSE IF j <= 2 * k + a THEN d[((j - a - 1) % m) + 1] ELSE g[j - 2 * k]) \in R
    <3>1. CASE j <= k
      <4>1. j - 1 \in Nat
        OBVIOUS
      <4> QED
        BY <2>3, <3>1, <4>1
    <3>2. CASE k < j /\ j <= k + a
      <4>1. j - k \in 1..n
        BY <2>2, <3>2
      <4> QED
        BY <2>4, <3>2, <4>1
    <3>3. CASE k + a < j /\ j <= 2 * k + a
      <4>1. j - a - 1 \in Nat /\ ~(j <= k) /\ ~(j <= k + a)
        BY <2>2, <3>3
      <4> QED
        BY <2>3, <3>3, <4>1
    <3>4. CASE 2 * k + a < j
      <4>1. j - 2 * k \in 1..n /\ ~(j <= k) /\ ~(j <= k + a) /\ ~(j <= 2 * k + a)
        BY <2>2, <3>4
      <4> QED
        BY <2>4, <4>1
    <3> QED
      BY <2>2, <3>1, <3>2, <3>3, <3>4
  <2>6. 2 * k + n \in Nat
    BY <2>2
  <2> DEFINE l == 2 * k + n
             e == [j \in 1..l |->
                     IF j <= k THEN d[((j - 1) % m) + 1]
                     ELSE IF j <= k + a THEN g[j - k]
                     ELSE IF j <= 2 * k + a THEN d[((j - a - 1) % m) + 1] ELSE g[j - 2 * k]]
  <2>7. Blocks(g, d, k, a) = e
    BY Zenon DEF Blocks, m, n
  <2>8. \A j \in 1..l : e[j] \in R
    BY <2>5
  <2>9. DOMAIN e = 1..l /\ e = [j \in 1..l |-> e[j]]
    OBVIOUS
  <2> HIDE DEF l, e
  <2>10. e \in [1..l -> R]
    BY <2>8, <2>9
  <2>11. e \in Seq(R)
    BY <2>6, <2>10 DEF l
  <2> QED
    BY <2>1, <2>7, <2>11
<1> QED
  BY <1>2, <1>3

(* The rows of a plan of the full scenario are the baseline, and then the P4 rows. *)
LEMMA PlanRows ==
  ASSUME NEW R, NEW fullRows, NEW bd, NEW a,
         Baseline(fullRows, bd, a.window) \in Seq(R),
         OrderedP4(P4Source, bd, a.suspected, a.critical) \in Seq(R)
  PROVE  /\ RowsOf(DriftPlan(fullRows, bd, a), {"stable"}) = Baseline(fullRows, bd, a.window)
         /\ RowsOf(DriftPlan(fullRows, bd, a), DriftPhases)
              = OrderedP4(P4Source, bd, a.suspected, a.critical)
<1> DEFINE s == Baseline(fullRows, bd, a.window)
           p == OrderedP4(P4Source, bd, a.suspected, a.critical)
           n == Len(s)
           m == Len(p)
           Phase(i) == DriftPhase(i - 1, m, a.suspected, a.correction)
           A == [i \in 1..n |-> [row |-> s[i], phase |-> "stable"]]
           B == [i \in 1..m |-> [row |-> p[i], phase |-> Phase(i)]]
           plan == DriftPlan(fullRows, bd, a)
           T == [row : R, phase : DriftPhases \cup {"stable"}]
<1>1. plan = A \o B
  BY DEF DriftPlan
<1>2. \A i : Phase(i) \in DriftPhases
  BY DEF DriftPhase, DriftPhases
<1> HIDE DEF s, p, Phase, plan
<1>3. s \in Seq(R) /\ p \in Seq(R) /\ n \in Nat /\ m \in Nat
  BY DEF s, p
<1>4. A \in Seq(T) /\ Len(A) = n /\ B \in Seq(T) /\ Len(B) = m
  <2>1. \A i \in 1..n : s[i] \in R
    BY <1>3
  <2>2. \A i \in 1..m : p[i] \in R
    BY <1>3
  <2> HIDE DEF n, m
  <2> QED
    BY <1>2, <1>3, <2>1, <2>2
<1>5. /\ \A i \in 1..n : A[i] = [row |-> s[i], phase |-> "stable"]
      /\ \A i \in 1..m : B[i] = [row |-> p[i], phase |-> Phase(i)]
  OBVIOUS
<1> HIDE DEF A, B, n, m, T
<1>6. /\ plan \in Seq(T) /\ Len(plan) = n + m /\ DOMAIN plan = 1..(n + m)
      /\ \A i \in 1..n : plan[i] = A[i]
      /\ \A i \in (n + 1)..(n + m) : plan[i] = B[i - n] /\ i - n \in 1..m
  BY <1>1, <1>4, Joined
<1>7. \A i \in 1..n : plan[i].row = s[i] /\ plan[i].phase = "stable"
  <2> SUFFICES ASSUME NEW i \in 1..n PROVE plan[i].row = s[i] /\ plan[i].phase = "stable"
    OBVIOUS
  <2>1. plan[i] = [row |-> s[i], phase |-> "stable"]
    BY <1>5, <1>6, Zenon
  <2> QED
    BY <2>1
<1>8. \A i \in (n + 1)..(n + m) : plan[i].row = p[i - n] /\ plan[i].phase \in DriftPhases
  <2> SUFFICES ASSUME NEW i \in (n + 1)..(n + m)
               PROVE  plan[i].row = p[i - n] /\ plan[i].phase \in DriftPhases
    OBVIOUS
  <2>1. plan[i] = [row |-> p[i - n], phase |-> Phase(i - n)]
    BY <1>5, <1>6, Zenon
  <2>2. Phase(i - n) \in DriftPhases
    BY <1>2
  <2> QED
    BY <2>1, <2>2
<1>9. "stable" \notin DriftPhases
  BY DEF DriftPhases
<1>10. RowsOf(plan, {"stable"}) = s
  <2> DEFINE kept == {i \in DOMAIN plan : plan[i].phase \in {"stable"}}
             f == [i \in 1..n |-> i]
  <2>1. kept = 1..n
    <3>1. \A i \in DOMAIN plan : i \in 1..n \/ i \in (n + 1)..(n + m)
      BY <1>3, <1>6
    <3>2. \A i \in 1..n : i \in DOMAIN plan
      BY <1>3, <1>6
    <3>3. \A x : x \in {"stable"} <=> x = "stable"
      OBVIOUS
    <3> QED
      BY <1>7, <1>8, <1>9, <3>1, <3>2, <3>3, Zenon
  <2>2. Counts(f, n, kept)
    BY <1>3, <2>1 DEF Counts
  <2>3. kept \in SUBSET DOMAIN plan
    OBVIOUS
  <2>4. RowsOf(plan, {"stable"}) = [i \in DOMAIN Keep(plan, kept) |-> Keep(plan, kept)[i].row]
    BY Zenon DEF RowsOf
  <2>5. \A i \in 1..n : f[i] = i
    OBVIOUS
  <2> HIDE DEF kept, f
  <2>6. Keep(plan, kept) = [i \in 1..n |-> plan[f[i]]]
    BY <1>6, <2>2, <2>3, KeepIs
  <2>7. /\ DOMAIN Keep(plan, kept) = 1..n
        /\ \A i \in 1..n : Keep(plan, kept)[i].row = s[i]
    BY <1>7, <2>5, <2>6
  <2>9. RowsOf(plan, {"stable"}) = [i \in 1..n |-> s[i]]
    BY <2>4, <2>7
  <2>8. s = [i \in 1..n |-> s[i]]
    BY <1>3, LenProperties DEF n
  <2> QED
    BY <2>8, <2>9
<1>11. RowsOf(plan, DriftPhases) = p
  <2> DEFINE kept == {i \in DOMAIN plan : plan[i].phase \in DriftPhases}
             f == [i \in 1..m |-> n + i]
  <2>1. kept = (n + 1)..(n + m)
    <3>1. \A i \in DOMAIN plan : i \in 1..n \/ i \in (n + 1)..(n + m)
      BY <1>3, <1>6
    <3>2. \A i \in (n + 1)..(n + m) : i \in DOMAIN plan
      BY <1>3, <1>6
    <3> QED
      BY <1>7, <1>8, <1>9, <3>1, <3>2, Zenon
  <2>2. Counts(f, m, kept)
    <3>4. ASSUME NEW i \in 1..m PROVE f[i] \in kept
      <4>1. n + i \in (n + 1)..(n + m) /\ f[i] = n + i
        BY <1>3
      <4> QED
        BY <2>1, <4>1
    <3>5. f = [i \in 1..m |-> f[i]]
      OBVIOUS
    <3>1. f \in [1..m -> kept]
      <4> HIDE DEF f, kept
      <4> QED
        BY <3>4, <3>5
    <3>2. ASSUME NEW x \in kept PROVE \E i \in 1..m : f[i] = x
      <4>1. x - n \in 1..m /\ n + (x - n) = x
        BY <1>3, <2>1
      <4>2. f[x - n] = x
        BY <4>1
      <4> QED
        BY <4>1, <4>2
    <3>3. \A i, j \in 1..m : i < j => f[i] < f[j]
      BY <1>3
    <3> HIDE DEF f, kept
    <3> QED
      BY <1>3, <3>1, <3>2, <3>3 DEF Counts
  <2>3. kept \in SUBSET DOMAIN plan
    OBVIOUS
  <2>4. RowsOf(plan, DriftPhases) = [i \in DOMAIN Keep(plan, kept) |-> Keep(plan, kept)[i].row]
    BY Zenon DEF RowsOf
  <2>5. \A i \in 1..m : f[i] \in (n + 1)..(n + m) /\ f[i] - n = i
    BY <1>3
  <2> HIDE DEF kept, f
  <2>6. Keep(plan, kept) = [i \in 1..m |-> plan[f[i]]]
    BY <1>6, <2>2, <2>3, KeepIs
  <2>7. \A i \in 1..m : plan[f[i]].row = p[i]
    BY <1>8, <2>5
  <2>10. /\ DOMAIN Keep(plan, kept) = 1..m
         /\ \A i \in 1..m : Keep(plan, kept)[i].row = p[i]
    BY <2>6, <2>7
  <2>8. RowsOf(plan, DriftPhases) = [i \in 1..m |-> p[i]]
    BY <2>4, <2>10
  <2>9. p = [i \in 1..m |-> p[i]]
    BY <1>3, LenProperties DEF m
  <2> QED
    BY <2>8, <2>9
<1> QED
  BY <1>10, <1>11 DEF s, p, plan

(* A list without rows of defective events keeps all its rows. *)
LEMMA NothingToLeaveOut ==
  ASSUME NEW R, NEW rows \in Seq(R), NEW bd, \A i \in DOMAIN rows : Piece(rows[i]) \notin bd
  PROVE  Goods(rows, bd) = rows
<1> DEFINE n == Len(rows)
           kept == {i \in DOMAIN rows : Piece(rows[i]) \notin bd}
           f == [i \in 1..n |-> i]
<1>1. n \in Nat /\ DOMAIN rows = 1..n /\ rows = [i \in DOMAIN rows |-> rows[i]]
  BY LenProperties
<1> HIDE DEF n
<1>2. kept = 1..n
  BY <1>1
<1>7. kept \in SUBSET DOMAIN rows
  OBVIOUS
<1>3. Counts(f, n, kept)
  BY <1>1, <1>2 DEF Counts
<1>4. \A i \in 1..n : f[i] = i
  OBVIOUS
<1>5. Goods(rows, bd) = Keep(rows, kept)
  BY DEF Goods
<1> HIDE DEF kept, f
<1>6. Keep(rows, kept) = [i \in 1..n |-> rows[f[i]]]
  BY <1>3, <1>7, KeepIs
<1> QED
  BY <1>1, <1>4, <1>5, <1>6

PieceP4 == {p \in Pieces : KindOf[p] = "p4"}
RowsOfP4 == {r \in Rows : Piece(r) \in PieceP4}

(* The P4 source and its order are rows of P4 events. *)
LEMMA P4RowsAre ==
  ASSUME NEW bd, NEW suspected \in Nat, NEW critical \in Nat
  PROVE  /\ P4Source \in Seq(RowsOfP4)
         /\ OrderedP4(P4Source, bd, suspected, critical) \in Seq(RowsOfP4)
<1> DEFINE k == Cardinality(PieceP4)
<1>1. PieceP4 \in SUBSET Pieces /\ P4Source = PieceRows(PieceP4)
  BY DEF PieceP4, P4Source
<1>2. /\ PieceRows(PieceP4) \in Seq(Rows) /\ Len(PieceRows(PieceP4)) = k
      /\ \A i \in 1..k : /\ Sorted(PieceP4)[i] \in PieceP4
                         /\ PieceRows(PieceP4)[i] = <<Sorted(PieceP4)[i], 0>>
  BY <1>1, PieceRowsAre
<1> HIDE DEF k
<1>3. \A i \in 1..k : PieceRows(PieceP4)[i] \in RowsOfP4
  BY <1>2 DEF RowsOfP4, Piece
<1>4. P4Source \in Seq(RowsOfP4)
  <2> DEFINE s == PieceRows(PieceP4)
  <2>1. s \in Seq(Rows) /\ Len(s) = k
    BY <1>2
  <2> HIDE DEF s
  <2>2. k \in Nat /\ s = [i \in 1..k |-> s[i]]
    BY <2>1, LenProperties
  <2>3. s \in [1..k -> RowsOfP4]
    BY <1>3, <2>2 DEF s
  <2>4. s \in Seq(RowsOfP4)
    BY <2>2, <2>3
  <2> QED
    BY <1>1, <2>4 DEF s
<1> QED
  BY <1>4, OrderedP4Keeps

(* A list without defective rows is its good rows. *)
LEMMA NoDefects ==
  ASSUME NEW R, NEW rows \in Seq(R), NEW bd, Defective(rows, bd) = <<>>
  PROVE  Goods(rows, bd) = rows
<1> DEFINE yes == {i \in DOMAIN rows : Piece(rows[i]) \in bd}
<1>1. yes \in SUBSET DOMAIN rows /\ Defective(rows, bd) = Keep(rows, yes)
  BY DEF Defective
<1>2. \A i \in DOMAIN rows : Piece(rows[i]) \in bd => i \in yes
  OBVIOUS
<1> HIDE DEF yes
<1>3. Len(Keep(rows, yes)) = 0
  BY <1>1, EmptySeq
<1>4. Cardinality(yes) = 0 /\ IsFiniteSet(yes)
  BY <1>1, <1>3, KeepPlaces, PlacesAreFinite
<1>5. yes = {}
  BY <1>4, FS_EmptySet
<1> QED
  BY <1>2, <1>5, NothingToLeaveOut

(* The good rows of a list without repetitions are without repetitions. *)
LEMMA GoodsStayDifferent ==
  ASSUME NEW R, NEW rows \in Seq(R), NEW bd, Different(rows)
  PROVE  Different(Goods(rows, bd))
<1> DEFINE no == {i \in DOMAIN rows : Piece(rows[i]) \notin bd}
<1>1. no \in SUBSET DOMAIN rows /\ Goods(rows, bd) = Keep(rows, no)
  BY DEF Goods
<1> HIDE DEF no
<1> QED
  BY <1>1, KeepStaysDifferent

(* No row of the P4 source comes twice. *)
LEMMA P4RowsDiffer == Different(P4Source)
<1>1. PieceP4 \in SUBSET Pieces /\ P4Source = PieceRows(PieceP4)
  BY DEF PieceP4, P4Source
<1> QED
  BY <1>1, PieceRowsDiffer

(* The rows p are two blocks that k defects open, and the good rows g in their order: a of them *)
(* close the first block, the others follow the defects of the second.                          *)
InBlocks(p, g, bd, k, a) ==
  /\ DOMAIN p = 1..(2 * k + Len(g)) /\ Len(p) = 2 * k + Len(g) /\ Len(g) \in Nat /\ a \in 0..Len(g)
  /\ \A j \in 1..(2 * k + Len(g)) :
       (j <= k \/ (k + a < j /\ j <= 2 * k + a)) => Piece(p[j]) \in bd
  /\ \A i \in 1..Len(g) : (i <= a => p[k + i] = g[i]) /\ (a < i => p[2 * k + i] = g[i])

(* The order of the P4 rows, place by place: blocks of defective rows, then good rows. *)
LEMMA BlockPlaces ==
  ASSUME NEW R, NEW rows \in Seq(R), NEW bd, NEW suspected \in Nat, NEW critical \in Nat,
         Defective(rows, bd) # <<>>
  PROVE  InBlocks(OrderedP4(rows, bd, suspected, critical), Goods(rows, bd), bd, critical,
                  Smaller(IF suspected > critical THEN suspected - critical ELSE 0,
                          Len(Goods(rows, bd))))
<1> DEFINE p == OrderedP4(rows, bd, suspected, critical)
           g == Goods(rows, bd)
           d == Defective(rows, bd)
           k == critical
           goods == IF suspected > critical THEN suspected - critical ELSE 0
           n == Len(g)
           m == Len(d)
           a == Smaller(goods, n)
<1>1. /\ g \in Seq(R) /\ d \in Seq(R)
      /\ \A i \in DOMAIN d : Piece(d[i]) \in bd
  BY DefectiveIs
<1>2. p = Blocks(g, d, k, a)
  BY OrderedP4Is, Zenon
<1>3. d # <<>> /\ goods \in Nat
  OBVIOUS
<1>4. p \in Seq(R)
  BY OrderedP4Keeps
<1> HIDE DEF d, g, goods
<1>5. n \in Nat /\ a \in 0..n /\ m \in Nat \ {0}
  <2>1. n \in Nat /\ m \in Nat \ {0}
    BY <1>1, <1>3, EmptySeq
  <2> QED
    BY <1>3, <2>1 DEF Smaller
<1> HIDE DEF a, m, p
<1>6. ASSUME NEW x \in Nat PROVE Piece(d[(x % m) + 1]) \in bd
  <2>1. (x % m) + 1 \in 1..m
    BY <1>5
  <2> QED
    BY <1>1, <2>1, LenProperties DEF m
<1>7. p = [j \in 1..(2 * k + n) |->
             IF j <= k THEN d[((j - 1) % m) + 1]
             ELSE IF j <= k + a THEN g[j - k]
             ELSE IF j <= 2 * k + a THEN d[((j - a - 1) % m) + 1] ELSE g[j - 2 * k]]
  BY <1>2, Zenon DEF Blocks, m
<1> HIDE DEF n
<1>8. DOMAIN p = 1..(2 * k + n) /\ Len(p) = 2 * k + n
  <2>1. DOMAIN p = 1..(2 * k + n) /\ 2 * k + n \in Nat
    BY <1>5, <1>7
  <2> QED
    BY <1>4, <2>1
<1>9. ASSUME NEW j \in 1..(2 * k + n), j <= k \/ (k + a < j /\ j <= 2 * k + a)
      PROVE  Piece(p[j]) \in bd
  <2>1. CASE j <= k
    <3>1. j - 1 \in Nat /\ p[j] = d[((j - 1) % m) + 1]
      BY <1>7, <2>1
    <3> QED
      BY <1>6, <3>1
  <2>2. CASE k + a < j /\ j <= 2 * k + a
    <3>1. j - a - 1 \in Nat /\ ~(j <= k) /\ ~(j <= k + a)
      BY <1>5, <2>2
    <3>2. p[j] = d[((j - a - 1) % m) + 1]
      BY <1>7, <2>2, <3>1
    <3> QED
      BY <1>6, <3>1, <3>2
  <2> QED
    BY <1>9, <2>1, <2>2
<1>10. ASSUME NEW i \in 1..n, i <= a PROVE p[k + i] = g[i]
  <2> DEFINE j == k + i
  <2>1. j \in 1..(2 * k + n) /\ ~(j <= k) /\ j <= k + a /\ j - k = i
    BY <1>5, <1>10
  <2> HIDE DEF j
  <2>2. p[j] = g[j - k]
    BY <1>7, <2>1
  <2> QED
    BY <2>1, <2>2 DEF j
<1>11. ASSUME NEW i \in 1..n, a < i PROVE p[2 * k + i] = g[i]
  <2> DEFINE j == 2 * k + i
  <2>1. j \in 1..(2 * k + n) /\ ~(j <= k) /\ ~(j <= k + a) /\ ~(j <= 2 * k + a) /\ j - 2 * k = i
    BY <1>5, <1>11
  <2> HIDE DEF j
  <2>2. p[j] = g[j - 2 * k]
    BY <1>7, <2>1
  <2> QED
    BY <2>1, <2>2 DEF j
<1>12. /\ DOMAIN p = 1..(2 * k + n) /\ Len(p) = 2 * k + n
       /\ n \in Nat /\ a \in 0..n
       /\ \A j \in 1..(2 * k + n) : (j <= k \/ (k + a < j /\ j <= 2 * k + a)) => Piece(p[j]) \in bd
       /\ \A i \in 1..n : (i <= a => p[k + i] = g[i]) /\ (a < i => p[2 * k + i] = g[i])
  BY <1>5, <1>8, <1>9, <1>10, <1>11
<1>13. InBlocks(p, g, bd, k, a)
  BY <1>12, Zenon DEF InBlocks, n
<1> QED
  BY <1>13, Zenon DEF p, g, n, a, goods

Times(rows, row) == Cardinality({j \in DOMAIN rows : rows[j] = row})

(* Every good row comes once, however many defects are repeated around it. *)
LEMMA GoodsComeOnce ==
  ASSUME NEW bd, NEW suspected \in Nat, NEW critical \in Nat, NEW i \in DOMAIN Goods(P4Source, bd),
         NEW p, p = OrderedP4(P4Source, bd, suspected, critical)
  PROVE  Times(p, Goods(P4Source, bd)[i]) = 1
<1> DEFINE g == Goods(P4Source, bd)
           k == critical
           goods == IF suspected > critical THEN suspected - critical ELSE 0
           n == Len(g)
           a == Smaller(goods, n)
           places == {j \in DOMAIN p : p[j] = g[i]}
<1>1. P4Source \in Seq(RowsOfP4)
  BY P4RowsAre
<1>2. /\ \A x, y \in DOMAIN g : g[x] = g[y] => x = y
      /\ g \in Seq(RowsOfP4) /\ \A x \in DOMAIN g : Piece(g[x]) \notin bd
  <2>1. Different(g)
    BY <1>1, P4RowsDiffer, GoodsStayDifferent
  <2>2. g \in Seq(RowsOfP4) /\ \A x \in DOMAIN g : Piece(g[x]) \notin bd
    BY <1>1, DefectiveIs
  <2> QED
    BY <2>1, <2>2 DEF Different
<1>3. DOMAIN g = 1..n /\ n \in Nat /\ i \in 1..n
  BY <1>2, LenProperties
<1>4. \E c : places = {c}
  <2>1. CASE Defective(P4Source, bd) = <<>>
    <3>1. p = P4Source
      BY <2>1 DEF OrderedP4, Defective
    <3>2. p = g
      BY <1>1, <2>1, <3>1, NoDefects
    <3> HIDE DEF g, n
    <3>4. \A j : j \in places <=> j = i
      BY <1>2, <1>3, <3>2
    <3>3. places = {i}
      <4> HIDE DEF places
      <4> QED
        BY <3>4, Zenon
    <3> QED
      BY <3>3
  <2>2. CASE Defective(P4Source, bd) # <<>>
    <3>5. InBlocks(p, g, bd, k, a)
      BY <1>1, <2>2, BlockPlaces, Zenon
    <3>1. /\ DOMAIN p = 1..(2 * k + n) /\ a \in 0..n
          /\ \A j \in 1..(2 * k + n) : (j <= k \/ (k + a < j /\ j <= 2 * k + a)) => Piece(p[j]) \in bd
          /\ \A x \in 1..n : (x <= a => p[k + x] = g[x]) /\ (a < x => p[2 * k + x] = g[x])
      BY <3>5, Zenon DEF InBlocks
    <3> HIDE DEF g, a, n
    <3> DEFINE c == IF i <= a THEN k + i ELSE 2 * k + i
    <3>2. c \in DOMAIN p /\ p[c] = g[i]
      <4>1. c \in 1..(2 * k + n)
        BY <1>3, <3>1
      <4>2. (i <= a => p[k + i] = g[i]) /\ (a < i => p[2 * k + i] = g[i])
        BY <1>3, <3>1
      <4>3. p[c] = g[i]
        BY <1>3, <3>1, <4>2
      <4> QED
        BY <3>1, <4>1, <4>3
    <3>3. ASSUME NEW j \in places PROVE j = c
      <4>1. j \in 1..(2 * k + n) /\ p[j] = g[i] /\ Piece(g[i]) \notin bd
        BY <1>2, <1>3, <3>1
      <4>2. ~(j <= k) /\ ~(k + a < j /\ j <= 2 * k + a)
        BY <3>1, <4>1
      <4>3. CASE k < j /\ j <= k + a
        <5> DEFINE x == j - k
        <5>1. x \in 1..n /\ x <= a /\ k + x = j
          BY <1>3, <3>1, <4>1, <4>3
        <5> HIDE DEF x
        <5>2. p[j] = g[x]
          BY <3>1, <5>1
        <5>3. x = i
          BY <1>2, <1>3, <4>1, <5>1, <5>2
        <5> QED
          BY <5>1, <5>3
      <4>4. CASE 2 * k + a < j
        <5> DEFINE x == j - 2 * k
        <5>1. x \in 1..n /\ a < x /\ 2 * k + x = j
          BY <1>3, <3>1, <4>1, <4>4
        <5> HIDE DEF x
        <5>2. p[j] = g[x]
          BY <3>1, <5>1
        <5>3. x = i
          BY <1>2, <1>3, <4>1, <5>1, <5>2
        <5> QED
          BY <1>3, <3>1, <5>1, <5>3
      <4> QED
        BY <1>3, <3>1, <4>1, <4>2, <4>3, <4>4
    <3> HIDE DEF c
    <3>4. places = {c}
      BY <3>2, <3>3
    <3> QED
      BY <3>4
  <2> QED
    BY <2>1, <2>2
<1>5. PICK c : places = {c}
  BY <1>4
<1> HIDE DEF places
<1>6. Cardinality(places) = 1
  BY <1>5, FS_Singleton
<1> QED
  BY <1>6, Zenon DEF places, Times

-----------------------------------------------------------------------------
(* What an observation judges. *)

(* One view of the first q of the events in g. *)
OneView(g, q, v) == [i \in 1..q |-> <<g[i], v>>]

(* The rows of one view among the baseline rows. *)
LEMMA BucketIs ==
  ASSUME NEW g, NEW m, NEW n, HasViews(g, m, n), NEW v \in 1..3
  PROVE  \E q \in Nat : q <= m /\ Bucket(Views(g, n), v) = OneView(g, q, v)
<1> DEFINE V == Views(g, n)
           q == (n + 3 - v) \div 3
           kept == {i \in DOMAIN V : View(V[i]) = v}
           f == [i \in 1..q |-> 3 * i - 3 + v]
<1>0. m \in Nat /\ g \in [1..m -> Pieces] /\ n \in Nat /\ n <= 3 * m
  BY DEF HasViews
<1>1. /\ V \in Seq(Rows) /\ DOMAIN V = 1..n
      /\ \A i \in 1..n : /\ View(V[i]) = ((i - 1) % 3) + 1
                         /\ V[i] = <<g[((i - 1) \div 3) + 1], ((i - 1) % 3) + 1>>
  <2>1. /\ V \in Seq(Rows) /\ DOMAIN V = 1..n /\ \A i \in 1..n : View(V[i]) = ((i - 1) % 3) + 1
    <3> HIDE DEF q, kept, f
    <3>1. HasViews(g, m, n)
      OBVIOUS
    <3>2. /\ Views(g, n) \in Seq(Rows) /\ Len(Views(g, n)) = n /\ DOMAIN Views(g, n) = 1..n
          /\ \A i \in 1..n : /\ ((i - 1) \div 3) + 1 \in 1..m /\ ((i - 1) % 3) + 1 \in 1..3
                             /\ Piece(Views(g, n)[i]) = g[((i - 1) \div 3) + 1]
                             /\ View(Views(g, n)[i]) = ((i - 1) % 3) + 1
      BY <3>1, ViewsAre, Zenon
    <3> QED
      BY <3>2, Zenon DEF V
  <2>2. \A i \in 1..n : V[i] = <<g[((i - 1) \div 3) + 1], ((i - 1) % 3) + 1>>
    BY DEF Views
  <2> QED
    BY <2>1, <2>2
<1>2. q \in Nat /\ q <= m
  BY <1>0
<1> HIDE DEF V
<1>3. ASSUME NEW i \in 1..q
      PROVE  f[i] \in 1..n /\ ((f[i] - 1) % 3) + 1 = v /\ ((f[i] - 1) \div 3) + 1 = i
  <2>1. f[i] = 3 * i - 3 + v
    OBVIOUS
  <2> HIDE DEF f
  <2> QED
    BY <1>0, <2>1
<1>4. ASSUME NEW x \in kept PROVE \E i \in 1..q : f[i] = x
  <2>1. x \in 1..n /\ ((x - 1) % 3) + 1 = v
    BY <1>1
  <2> DEFINE i == ((x - 1) \div 3) + 1
  <2>2. i \in 1..q /\ 3 * i - 3 + v = x
    BY <1>0, <2>1
  <2>3. f[i] = x
    BY <2>2
  <2> QED
    BY <2>2, <2>3
<1>5. kept \in SUBSET DOMAIN V
  OBVIOUS
<1>6. \A i \in 1..q : f[i] \in kept
  BY <1>1, <1>3
<1>7. \A i, j \in 1..q : i < j => f[i] < f[j]
  BY <1>2
<1>8. f = [i \in 1..q |-> f[i]]
  OBVIOUS
<1>9. Bucket(V, v) = Keep(V, kept)
  BY DEF Bucket
<1> HIDE DEF f, kept, q
<1>10. Counts(f, q, kept)
  <2>1. f \in [1..q -> kept]
    BY <1>6, <1>8
  <2> QED
    BY <1>2, <1>4, <1>7, <2>1 DEF Counts
<1>11. Keep(V, kept) = [i \in 1..q |-> V[f[i]]]
  <2>1. V \in Seq(Rows)
    BY <1>1
  <2> QED
    BY <1>5, <1>10, <2>1, KeepIs
<1>12. \A i \in 1..q : V[f[i]] = <<g[i], v>>
  BY <1>1, <1>3
<1>13. Bucket(V, v) = OneView(g, q, v)
  BY <1>9, <1>11, <1>12 DEF OneView
<1> QED
  BY <1>2, <1>13 DEF V

(* Events that anchor a correction come before those that judge it in the order of good events: *)
(* the panel of a view starts after as many of them as the anchors take from any view.          *)
THEOREM ObservationIsApart ==
  ASSUME NEW bd, NEW a \in [window: Nat \ {0}, suspected: Nat, critical: Nat, correction: Nat],
         NEW seen \in Nat
  PROVE  LET plan == DriftPlan(FullReplay, bd, a)
             panel == First(RowsOf(plan, DriftPhases), seen) \o EvalStable(plan, bd, seen)
         IN {p \in Ids(Anchors(plan, bd, seen)) : KindOf[p] = "piece_b"} \cap Ids(panel) = {}
<1> DEFINE m == Cardinality(PieceB \ bd)
           h == Sorted(PieceB \ bd)
           plan == DriftPlan(FullReplay, bd, a)
           drift == RowsOf(plan, DriftPhases)
           stable == RowsOf(plan, {"stable"})
           context == First(drift, seen)
           c == Len(Goods(context, bd))
           l == Len(context)
<1>1. (PieceB \ bd) \in SUBSET Pieces
  BY DEF PieceB
<1>2. /\ m \in Nat /\ h \in [1..m -> PieceB \ bd] /\ h \in [1..m -> Pieces]
      /\ \A i, j \in 1..m : h[i] = h[j] => i = j
  BY <1>1, SortedPieces
<1>3. PICK n \in Nat : n <= 3 * m /\ Baseline(FullReplay, bd, a.window) = Views(h, n)
  <2>1. a.window \in Nat \ {0}
    OBVIOUS
  <2> QED
    BY <2>1, BaselineIs
<1> HIDE DEF m, h
<1>16. ASSUME NEW v \in 1..3
       PROVE  \E q \in Nat : q <= m /\ Bucket(Views(h, n), v) = OneView(h, q, v)
  <2> HIDE DEF plan, drift, stable, context, c, l
  <2>1. HasViews(h, m, n)
    BY <1>2, <1>3 DEF HasViews
  <2> QED
    BY <2>1, BucketIs, Zenon
<1> DEFINE V == Views(h, n)
<1>4. V \in Seq(Rows) /\ DOMAIN V = 1..n /\ \A i \in 1..n : Piece(V[i]) \in PieceB \ bd
  <2>1. /\ V \in Seq(Rows) /\ DOMAIN V = 1..n
        /\ \A i \in 1..n : ((i - 1) \div 3) + 1 \in 1..m /\ Piece(V[i]) = h[((i - 1) \div 3) + 1]
    <3> HIDE DEF V, plan, drift, stable, context, c, l
    <3>1. HasViews(h, m, n)
      BY <1>2, <1>3 DEF HasViews
    <3>2. /\ Views(h, n) \in Seq(Rows) /\ DOMAIN Views(h, n) = 1..n
          /\ \A i \in 1..n : /\ ((i - 1) \div 3) + 1 \in 1..m
                             /\ Piece(Views(h, n)[i]) = h[((i - 1) \div 3) + 1]
      BY <3>1, ViewsAre, Zenon
    <3> QED
      BY <3>2, Zenon DEF V
  <2> HIDE DEF V
  <2> QED
    BY <1>2, <2>1
<1> HIDE DEF V
<1>5. drift \in Seq(RowsOfP4) /\ stable = V
  <2>1. a.suspected \in Nat /\ a.critical \in Nat /\ Baseline(FullReplay, bd, a.window) = V
    BY <1>3 DEF V
  <2> DEFINE p == OrderedP4(P4Source, bd, a.suspected, a.critical)
             s == Baseline(FullReplay, bd, a.window)
  <2>2. p \in Seq(RowsOfP4)
    BY <2>1, P4RowsAre
  <2>3. RowsOfP4 \subseteq Rows
    BY DEF RowsOfP4
  <2>4. p \in Seq(Rows) /\ s \in Seq(Rows)
    BY <1>4, <2>1, <2>2, <2>3, SeqMonotonic
  <2>5. stable = s /\ drift = p
    <3>1. /\ Baseline(FullReplay, bd, a.window) \in Seq(Rows)
          /\ OrderedP4(P4Source, bd, a.suspected, a.critical) \in Seq(Rows)
      BY <2>4, Zenon
    <3> HIDE DEF s, p
    <3>2. /\ RowsOf(DriftPlan(FullReplay, bd, a), {"stable"}) = Baseline(FullReplay, bd, a.window)
          /\ RowsOf(DriftPlan(FullReplay, bd, a), DriftPhases)
               = OrderedP4(P4Source, bd, a.suspected, a.critical)
      BY <3>1, PlanRows
    <3> QED
      BY <3>2, Zenon DEF s, p
  <2> QED
    BY <2>1, <2>2, <2>5
<1> HIDE DEF drift, stable, plan
<1>6. context \in Seq(RowsOfP4) /\ l \in Nat /\ c \in Nat /\ c <= l
  <2>1. context \in Seq(RowsOfP4)
    BY <1>5, FirstIs
  <2> HIDE DEF context
  <2> DEFINE kept == {i \in DOMAIN context : Piece(context[i]) \notin bd}
  <2>2. kept \in SUBSET DOMAIN context /\ Goods(context, bd) = Keep(context, kept)
    BY DEF Goods
  <2> HIDE DEF kept
  <2>3. Cardinality(kept) \in Nat /\ Cardinality(kept) <= l /\ l \in Nat
    BY <2>1, <2>2, PlacesAreFinite
  <2>4. Len(Keep(context, kept)) = Cardinality(kept)
    BY <2>1, <2>2, KeepPlaces
  <2> QED
    BY <2>1, <2>2, <2>3, <2>4
<1>7. Goods(stable, bd) = stable
  BY <1>4, <1>5, NothingToLeaveOut
<1> DEFINE Used(v) == Len(First(Bucket(stable, v), c))
           Part(v) == Between(Bucket(stable, v), Used(v) + 1, Used(v) + l)
           Anchor(v) == First(Bucket(stable, v), c)
<1>8. EvalStable(plan, bd, seen) = Part(1) \o Part(2) \o Part(3)
  BY <1>7, Zenon DEF EvalStable, stable, drift
<1>9. Anchors(plan, bd, seen) = Anchor(1) \o Anchor(2) \o Anchor(3)
  BY <1>7, Zenon DEF Anchors, stable, drift
<1> HIDE DEF context, c, l
<1> DEFINE Early == {<<h[i], v>> : i \in {j \in 1..m : j <= c}, v \in 1..3}
           Late == {<<h[i], v>> : i \in {j \in 1..m : j > c}, v \in 1..3}
<1>10. ASSUME NEW v \in 1..3 PROVE Anchor(v) \in Seq(Early) /\ Part(v) \in Seq(Late)
  <2> DEFINE b == Bucket(stable, v)
  <2>1. PICK q \in Nat : q <= m /\ b = OneView(h, q, v)
    BY <1>5, <1>16, Zenon DEF V
  <2> DEFINE R == {<<h[i], v>> : i \in 1..m}
  <2>2. \A i \in 1..q : i \in 1..m /\ b[i] = <<h[i], v>>
    BY <1>2, <2>1 DEF OneView
  <2>3. DOMAIN b = 1..q /\ b \in [1..q -> R]
    BY <2>1, <2>2 DEF OneView
  <2>4. b \in Seq(R) /\ Len(b) = q
    <3> HIDE DEF R, b
    <3> QED
      BY <2>1, <2>3
  <2> HIDE DEF b, R
  <2> DEFINE u == Smaller(c, q)
             F == First(b, c)
             x == u + 1
             y == u + l
             z == Smaller(y, q)
             P == Between(b, x, y)
  <2>5. u \in Nat /\ u <= c /\ u <= q /\ (u < c => u = q)
    BY <1>6 DEF Smaller
  <2>6. /\ F \in Seq(R) /\ Len(F) = u
        /\ \A i \in 1..u : F[i] = b[i]
    <3> HIDE DEF F, u
    <3>1. /\ First(b, c) \in Seq(R) /\ Len(First(b, c)) = Smaller(c, Len(b))
          /\ \A i \in 1..Smaller(c, Len(b)) : First(b, c)[i] = b[i]
      <4>1. b \in Seq(R) /\ c \in Nat
        BY <1>6, <2>4
      <4>2. /\ First(b, c) \in Seq(R) /\ Len(First(b, c)) = Smaller(c, Len(b))
            /\ Smaller(c, Len(b)) \in Nat
            /\ DOMAIN First(b, c) = 1..Smaller(c, Len(b))
            /\ \A i \in 1..Smaller(c, Len(b)) : i \in 1..Len(b) /\ First(b, c)[i] = b[i]
            /\ ToSet(First(b, c)) \in SUBSET ToSet(b)
        BY <4>1, FirstIs, ZenonT(30)
      <4> QED
        BY <4>2, Zenon
    <3>2. F = First(b, c) /\ u = Smaller(c, Len(b))
      BY <2>4 DEF F, u
    <3> QED
      BY <3>1, <3>2
  <2>7. x \in Nat \ {0} /\ x = u + 1 /\ y \in Nat /\ z = Smaller(y, Len(b)) /\ z \in Nat /\ z <= q
    <3>1. u + 1 \in Nat \ {0} /\ u + l \in Nat
      BY <1>6, <2>5
    <3> HIDE DEF u
    <3> QED
    BY <2>4, <3>1 DEF Smaller
  <2> HIDE DEF u, F
  <2>8. ASSUME NEW i \in 1..Len(F) PROVE F[i] \in Early
    <3>3. i \in 1..u /\ F[i] = b[i]
      BY <2>6, <2>8
    <3>1. i \in 1..q /\ i \in 1..m /\ i <= c /\ F[i] = b[i]
      <4>1. q \in Nat /\ q <= m
        BY <2>1
      <4> QED
        BY <1>2, <1>6, <2>5, <3>3, <4>1
    <3>2. F[i] = <<h[i], v>>
      BY <2>2, <3>1 
    <3> QED
      BY <3>1, <3>2
  <2> HIDE DEF x, y, z
  <2>9. /\ P \in Seq(R)
        /\ \A i \in 1..Len(P) : i + x - 1 \in x..z /\ P[i] = b[i + x - 1]
    <3>1. x \in Nat \ {0} /\ y \in Nat /\ z = Smaller(y, Len(b)) /\ b \in Seq(R)
      BY <2>4, <2>7
    <3>2. /\ Between(b, x, y) \in Seq(R)
          /\ \A i \in 1..Len(Between(b, x, y)) :
               i + x - 1 \in x..z /\ i + x - 1 \in 1..Len(b)
               /\ Between(b, x, y)[i] = b[i + x - 1]
      BY <3>1, BetweenIs, SMTT(30)
    <3> QED
      BY <3>2, Zenon DEF P
  <2> HIDE DEF P
  <2>10. ASSUME NEW i \in 1..Len(P) PROVE P[i] \in Late
    <3> DEFINE j == i + x - 1
    <3>1. j \in x..z /\ P[i] = b[j]
      BY <2>9
    <3> HIDE DEF j
    <3>2. j \in 1..q /\ j \in 1..m /\ j > c
      <4>1. q \in Nat /\ q <= m /\ c \in Nat /\ m \in Nat
        BY <1>2, <1>6, <2>1
      <4>2. x = u + 1 /\ x \in Nat /\ z \in Nat /\ z <= q
        BY <2>7
      <4>3. j \in Nat /\ j >= x /\ j <= z
        BY <3>1, <4>2
      <4>4. u = c
        <5>1. j \in Nat /\ u < q
          BY <2>5, <4>1, <4>2, <4>3
        <5> QED
          BY <2>5, <4>1, <5>1
      <4> QED
        BY <4>1, <4>2, <4>3, <4>4
    <3>3. P[i] = <<h[j], v>>
      BY <2>2, <3>1, <3>2 
    <3> QED
      BY <3>2, <3>3
  <2>11. F \in Seq(Early)
    <3> HIDE DEF Early
    <3>1. Len(F) \in Nat /\ F = [i \in 1..Len(F) |-> F[i]]
      BY <2>6, LenProperties
    <3> QED
      BY <2>8, <3>1
  <2>12. P \in Seq(Late)
    <3> HIDE DEF Late
    <3>1. Len(P) \in Nat /\ P = [i \in 1..Len(P) |-> P[i]]
      BY <2>9, LenProperties
    <3> QED
      BY <2>10, <3>1
  <2>13. F = Anchor(v)
    BY Zenon DEF F, b
  <2>14. P = Part(v)
    <3>1. u = Used(v)
      BY <2>6, <2>13
    <3> QED
      BY <3>1, Zenon DEF P, x, y, b
  <2> QED
    BY <2>11, <2>12, <2>13, <2>14
<1> HIDE DEF Anchor, Part, Early, Late
<1>11. Anchors(plan, bd, seen) \in Seq(Early) /\ EvalStable(plan, bd, seen) \in Seq(Late)
  BY <1>8, <1>9, <1>10
<1> DEFINE A == Anchors(plan, bd, seen)
           E == EvalStable(plan, bd, seen)
           U == RowsOfP4 \cup Late
<1>12. context \o E \in Seq(U) /\ A \in Seq(Early)
  <2>1. context \in Seq(U) /\ E \in Seq(U)
    BY <1>6, <1>11, SeqMonotonic
  <2> QED
    BY <1>11, <2>1
<1> HIDE DEF A, E
<1>13. Ids(A) \in SUBSET {Piece(r) : r \in Early} /\ Ids(context \o E) \in SUBSET {Piece(r) : r \in U}
  <2> HIDE DEF Early, Late, U, context
  <2>1. ToSet(A) \in SUBSET Early
    BY <1>12, RowsOfSeq
  <2>2. ToSet(context \o E) \in SUBSET U
    BY <1>12, RowsOfSeq
  <2> QED
    BY <2>1, <2>2, Zenon DEF Ids
<1>14. ASSUME NEW r \in Early, NEW s \in U, Piece(r) = Piece(s), KindOf[Piece(r)] = "piece_b"
       PROVE  FALSE
  <2>1. PICK i \in 1..m, v \in 1..3 : i <= c /\ r = <<h[i], v>>
    BY DEF Early
  <2>2. Piece(r) = h[i]
    BY <2>1 DEF Piece
  <2>3. CASE s \in RowsOfP4
    BY <1>14, <2>3 DEF RowsOfP4, PieceP4
  <2>4. CASE s \in Late
    <3>1. PICK j \in 1..m, w \in 1..3 : j > c /\ s = <<h[j], w>>
      BY <2>4 DEF Late
    <3>2. h[i] = h[j]
      BY <1>14, <2>2, <3>1 DEF Piece
    <3>3. i = j
      BY <1>2, <3>2
    <3> QED
      BY <1>2, <1>6, <2>1, <3>1, <3>3
  <2> QED
    BY <2>3, <2>4
<1>15. {p \in Ids(A) : KindOf[p] = "piece_b"} \cap Ids(context \o E) = {}
  BY <1>13, <1>14
<1> QED
  BY <1>15, Zenon DEF A, E, context, drift, plan
=============================================================================
