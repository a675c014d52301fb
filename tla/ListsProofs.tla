----------------------------- MODULE ListsProofs -----------------------------
(* What the list operations return, for lists of any length. *)
EXTENDS Lists, FiniteSetTheorems, TLAPS

-----------------------------------------------------------------------------
(* Places.  In a finite set with a strict total order, given as a set of     *)
(* pairs, every place from the first to the last is that of one element.     *)

Places(S, R) == [i \in S |-> Cardinality({j \in S : <<j, i>> \in R}) + 1]
StrictTotal(S, R) ==
  /\ \A i \in S : <<i, i>> \notin R
  /\ \A i, j, k \in S : <<i, j>> \in R /\ <<j, k>> \in R => <<i, k>> \in R
  /\ \A i, j \in S : i = j \/ <<i, j>> \in R \/ <<j, i>> \in R

LEMMA PlaceGrows ==
  ASSUME NEW S, NEW R, IsFiniteSet(S), StrictTotal(S, R)
  PROVE  /\ \A i \in S : Places(S, R)[i] \in 1..Cardinality(S)
         /\ \A i, j \in S : <<i, j>> \in R <=> Places(S, R)[i] < Places(S, R)[j]
<1> DEFINE Ahead(i) == {j \in S : <<j, i>> \in R}
<1> DEFINE n == Cardinality(S)
<1>1. \A i \in S : IsFiniteSet(Ahead(i)) /\ Cardinality(Ahead(i)) \in Nat
  BY FS_Subset, FS_CardinalityType
<1>2. n \in Nat
  BY FS_CardinalityType
<1>3. \A i \in S : Places(S, R)[i] = Cardinality(Ahead(i)) + 1
  BY DEF Places
<1>4. ASSUME NEW i \in S PROVE Cardinality(Ahead(i)) < n
  <2>1. Ahead(i) \in SUBSET S /\ i \notin Ahead(i)
    BY DEF StrictTotal
  <2>2. Cardinality(Ahead(i)) <= n /\ (n = Cardinality(Ahead(i)) => S = Ahead(i))
    BY <2>1, FS_Subset
  <2> QED BY <1>1, <1>2, <2>1, <2>2
<1>5. ASSUME NEW i \in S, NEW j \in S, <<i, j>> \in R
      PROVE  Cardinality(Ahead(i)) < Cardinality(Ahead(j))
  <2>1. Ahead(i) \in SUBSET Ahead(j) /\ i \in Ahead(j) /\ i \notin Ahead(i)
    BY <1>5 DEF StrictTotal
  <2>2. /\ Cardinality(Ahead(i)) <= Cardinality(Ahead(j))
        /\ Cardinality(Ahead(j)) = Cardinality(Ahead(i)) => Ahead(j) = Ahead(i)
    BY <1>1, <2>1, FS_Subset
  <2> HIDE DEF Ahead
  <2> QED BY <1>1, <2>1, <2>2
<1> HIDE DEF Ahead, n
<1>6. \A i \in S : Places(S, R)[i] \in 1..n
  BY <1>1, <1>2, <1>3, <1>4
<1>7. ASSUME NEW i \in S, NEW j \in S PROVE <<i, j>> \in R <=> Places(S, R)[i] < Places(S, R)[j]
  <2>1. <<i, j>> \in R \/ <<j, i>> \in R \/ i = j
    BY DEF StrictTotal
  <2> QED BY <1>1, <1>3, <1>5, <2>1
<1> QED BY <1>6, <1>7 DEF n

\* Who stands at place k.
Holder(S, R) == [k \in 1..Cardinality(S) |-> CHOOSE i \in S : Places(S, R)[i] = k]

LEMMA PlacesAreTaken ==
  ASSUME NEW S, NEW R, IsFiniteSet(S), StrictTotal(S, R)
  PROVE  /\ Holder(S, R) \in [1..Cardinality(S) -> S]
         /\ \A k \in 1..Cardinality(S) : Places(S, R)[Holder(S, R)[k]] = k
         /\ \A i \in S : Holder(S, R)[Places(S, R)[i]] = i
<1> DEFINE n == Cardinality(S)
<1> DEFINE p == Places(S, R)
<1>1. /\ \A i \in S : p[i] \in 1..n
      /\ \A i, j \in S : <<i, j>> \in R <=> p[i] < p[j]
  BY PlaceGrows
<1>2. n \in Nat
  BY FS_CardinalityType
<1>3. \A i, j \in S : p[i] = p[j] => i = j
  BY <1>1, <1>2 DEF StrictTotal
<1>4. p \in [S -> 1..n]
  BY <1>1 DEF Places
<1> HIDE DEF p, n
<1>5. p \in Injection(S, 1..n)
  BY <1>3, <1>4 DEF Injection, IsInjective
<1>6. IsFiniteSet(1..n) /\ Cardinality(1..n) = n
  BY <1>2, FS_Interval
<1>7. p \in Surjection(S, 1..n)
  BY <1>5, <1>6, FS_Injection DEF n
<1>8. \A k \in 1..n : \E i \in S : p[i] = k
  BY <1>7 DEF Surjection
<1>9. \A k \in 1..n : /\ (CHOOSE i \in S : p[i] = k) \in S
                      /\ p[CHOOSE i \in S : p[i] = k] = k
  BY <1>8
<1> QED BY <1>1, <1>3, <1>9 DEF Holder, p, n

-----------------------------------------------------------------------------
(* Lists. *)

LEMMA DomainIsFinite ==
  ASSUME NEW T, NEW list \in Seq(T)
  PROVE  /\ Len(list) \in Nat /\ DOMAIN list = 1..Len(list)
         /\ IsFiniteSet(DOMAIN list) /\ Cardinality(DOMAIN list) = Len(list)
<1>1. Len(list) \in Nat /\ DOMAIN list = 1..Len(list)
  OBVIOUS
<1>2. IsFiniteSet(1..Len(list)) /\ Cardinality(1..Len(list)) = Len(list)
  BY <1>1, FS_Interval
<1> QED BY <1>1, <1>2

\* The places of S, in their order.
InOrder(p, S) ==
  /\ p \in [1..Cardinality(S) -> S]
  /\ \A i \in S : \E k \in 1..Cardinality(S) : p[k] = i
  /\ \A k, l \in 1..Cardinality(S) : k < l <=> p[k] < p[l]

\* The items at a set of positions keep their order, and each is there.
LEMMA ItemsInOrder ==
  ASSUME NEW T, NEW list \in Seq(T), NEW S \in SUBSET DOMAIN list
  PROVE  /\ Cardinality(S) \in Nat /\ Cardinality(S) <= Len(list)
         /\ ItemsAt(list, S) \in Seq(T)
         /\ Len(ItemsAt(list, S)) = Cardinality(S)
         /\ \E p : /\ InOrder(p, S)
                   /\ \A k \in 1..Cardinality(S) : ItemsAt(list, S)[k] = list[p[k]]
<1> DEFINE R == {pair \in S \X S : pair[1] < pair[2]}
<1> DEFINE n == Cardinality(S)
<1> DEFINE p == Holder(S, R)
<1>1. IsFiniteSet(S) /\ n \in Nat /\ n <= Len(list)
  BY DomainIsFinite, FS_Subset, FS_CardinalityType
<1>2. S \subseteq Int
  BY DomainIsFinite
<1>3. \A i, j \in S : <<i, j>> \in R <=> i < j
  OBVIOUS
<1>4. StrictTotal(S, R)
  BY <1>2, <1>3 DEF StrictTotal
<1>5. \A i \in S : Places(S, R)[i] = Cardinality({j \in S : j < i}) + 1
  <2> SUFFICES ASSUME NEW i \in S PROVE Places(S, R)[i] = Cardinality({j \in S : j < i}) + 1
    OBVIOUS
  <2>1. {j \in S : <<j, i>> \in R} = {j \in S : j < i}
    BY <1>3
  <2> QED BY <2>1 DEF Places
<1>6. /\ p \in [1..n -> S]
      /\ \A k \in 1..n : Places(S, R)[p[k]] = k
      /\ \A i \in S : p[Places(S, R)[i]] = i
  BY <1>1, <1>4, PlacesAreTaken
<1>7. /\ \A i \in S : Places(S, R)[i] \in 1..n
      /\ \A i, j \in S : <<i, j>> \in R <=> Places(S, R)[i] < Places(S, R)[j]
  BY <1>1, <1>4, PlaceGrows
<1>8. \A k \in 1..n : p[k] = CHOOSE i \in S : Cardinality({j \in S : j < i}) + 1 = k
  BY <1>5 DEF Holder
<1> HIDE DEF p, n, R
<1>9. \A k \in 1..n : ItemsAt(list, S)[k] = list[p[k]]
  BY <1>8 DEF ItemsAt, n
<1>10. ItemsAt(list, S) \in [1..n -> T]
  <2>1. \A k \in 1..n : list[p[k]] \in T
    BY <1>6
  <2> QED BY <1>9, <2>1 DEF ItemsAt, n
<1>11. ItemsAt(list, S) \in Seq(T) /\ Len(ItemsAt(list, S)) = n
  BY <1>1, <1>10
<1>12. \A i \in S : \E k \in 1..n : p[k] = i
  BY <1>6, <1>7
<1>13. \A k, l \in 1..n : k < l <=> p[k] < p[l]
  <2> SUFFICES ASSUME NEW k \in 1..n, NEW l \in 1..n PROVE k < l <=> p[k] < p[l]
    OBVIOUS
  <2>1. p[k] \in S /\ p[l] \in S
    BY <1>6
  <2>2. <<p[k], p[l]>> \in R <=> k < l
    BY <1>6, <1>7, <2>1
  <2> QED BY <1>3, <2>1, <2>2
<1>14. InOrder(p, S)
  BY <1>6, <1>12, <1>13, Zenon DEF InOrder, n
<1> QED BY <1>1, <1>9, <1>11, <1>14 DEF n

LEMMA ItemsAtPositions ==
  ASSUME NEW T, NEW list \in Seq(T), NEW S \in SUBSET DOMAIN list
  PROVE  /\ Cardinality(S) \in Nat /\ Cardinality(S) <= Len(list)
         /\ ItemsAt(list, S) \in Seq(T)
         /\ Len(ItemsAt(list, S)) = Cardinality(S)
         /\ \E p \in [1..Cardinality(S) -> S] :
              /\ \A k \in 1..Cardinality(S) : ItemsAt(list, S)[k] = list[p[k]]
              /\ \A i \in S : \E k \in 1..Cardinality(S) : p[k] = i
              /\ \A k, l \in 1..Cardinality(S) : k < l <=> p[k] < p[l]
<1>1. PICK p : /\ InOrder(p, S)
               /\ \A k \in 1..Cardinality(S) : ItemsAt(list, S)[k] = list[p[k]]
  BY ItemsInOrder
<1>2. \E q \in [1..Cardinality(S) -> S] :
              /\ \A k \in 1..Cardinality(S) : ItemsAt(list, S)[k] = list[q[k]]
              /\ \A i \in S : \E k \in 1..Cardinality(S) : q[k] = i
              /\ \A k, l \in 1..Cardinality(S) : k < l <=> q[k] < q[l]
  BY <1>1, Zenon DEF InOrder
<1> QED BY <1>2, ItemsInOrder

LEMMA ItemsAtElements ==
  ASSUME NEW T, NEW list \in Seq(T), NEW S \in SUBSET DOMAIN list
  PROVE  /\ Elements(ItemsAt(list, S)) = {list[i] : i \in S}
         /\ ItemsAt(list, S) = << >> <=> S = {}
<1>1. PICK p \in [1..Cardinality(S) -> S] :
        /\ \A k \in 1..Cardinality(S) : ItemsAt(list, S)[k] = list[p[k]]
        /\ \A i \in S : \E k \in 1..Cardinality(S) : p[k] = i
  BY ItemsAtPositions
<1>2. DOMAIN ItemsAt(list, S) = 1..Cardinality(S)
  BY DEF ItemsAt
<1>3. Cardinality(S) = 0 <=> S = {}
  BY DomainIsFinite, FS_Subset, FS_EmptySet
<1>4. ItemsAt(list, S) = << >> <=> Len(ItemsAt(list, S)) = 0
  BY ItemsAtPositions
<1>5. Len(ItemsAt(list, S)) = Cardinality(S)
  BY ItemsAtPositions
<1>6. Elements(ItemsAt(list, S)) = {list[i] : i \in S}
  BY <1>1, <1>2 DEF Elements
<1> QED BY <1>3, <1>4, <1>5, <1>6

-----------------------------------------------------------------------------
(* Sorting.  Sorted takes an operator, but is the order of a relation: each  *)
(* of its uses is first shown to be that of a key.                           *)

LEMMA OrderedByHolder ==
  ASSUME NEW T, NEW list \in Seq(T), NEW R
  PROVE  Ordered(list, R) = [k \in DOMAIN list |-> list[Holder(DOMAIN list, R)[k]]]
<1> DEFINE D == DOMAIN list
<1>1. D = 1..Cardinality(D)
  BY DomainIsFinite
<1>2. \A i \in D : Places(D, R)[i] = Cardinality({j \in D : <<j, i>> \in R}) + 1
  BY DEF Places
<1>3. Ordered(list, R) = [k \in D |->
        list[CHOOSE i \in D : Cardinality({j \in D : <<j, i>> \in R}) + 1 = k]]
  BY DEF Ordered
<1> HIDE DEF D
<1>4. \A k \in D : Holder(D, R)[k] =
        CHOOSE i \in D : Cardinality({j \in D : <<j, i>> \in R}) + 1 = k
  BY <1>1, <1>2 DEF Holder
<1> QED BY <1>3, <1>4 DEF D

LEMMA OrderedPositions ==
  ASSUME NEW T, NEW list \in Seq(T), NEW R, StrictTotal(DOMAIN list, R)
  PROVE  /\ Ordered(list, R) \in Seq(T)
         /\ Len(Ordered(list, R)) = Len(list)
         /\ Elements(Ordered(list, R)) = Elements(list)
         /\ \E p \in [DOMAIN list -> DOMAIN list] :
              /\ \A k \in DOMAIN list : Ordered(list, R)[k] = list[p[k]]
              /\ \A i \in DOMAIN list : \E k \in DOMAIN list : p[k] = i
              /\ \A k, l \in DOMAIN list : k < l <=> <<p[k], p[l]>> \in R
<1> DEFINE D == DOMAIN list
<1> DEFINE p == Holder(D, R)
<1>1. /\ IsFiniteSet(D) /\ D = 1..Len(list) /\ Cardinality(D) = Len(list) /\ Len(list) \in Nat
  BY DomainIsFinite
<1>2. /\ p \in [D -> D]
      /\ \A k \in D : Places(D, R)[p[k]] = k
      /\ \A i \in D : p[Places(D, R)[i]] = i
  BY <1>1, PlacesAreTaken
<1>3. /\ \A i \in D : Places(D, R)[i] \in D
      /\ \A i, j \in D : <<i, j>> \in R <=> Places(D, R)[i] < Places(D, R)[j]
  BY <1>1, PlaceGrows
<1> HIDE DEF p
<1>4. \A k \in D : Ordered(list, R)[k] = list[p[k]]
  BY OrderedByHolder DEF p
<1>5. Ordered(list, R) \in [1..Len(list) -> T]
  BY <1>1, <1>2, OrderedByHolder DEF p
<1>6. Ordered(list, R) \in Seq(T) /\ Len(Ordered(list, R)) = Len(list)
  BY <1>1, <1>5
<1>7. \A i \in D : \E k \in D : p[k] = i
  BY <1>2, <1>3
<1>8. \A k, l \in D : k < l <=> <<p[k], p[l]>> \in R
  <2> SUFFICES ASSUME NEW k \in D, NEW l \in D PROVE k < l <=> <<p[k], p[l]>> \in R
    OBVIOUS
  <2>1. p[k] \in D /\ p[l] \in D
    BY <1>2
  <2>2. Places(D, R)[p[k]] = k /\ Places(D, R)[p[l]] = l
    BY <1>2
  <2>3. <<p[k], p[l]>> \in R <=> Places(D, R)[p[k]] < Places(D, R)[p[l]]
    BY <1>3, <2>1
  <2> QED BY <2>2, <2>3
<1>9. DOMAIN Ordered(list, R) = D
  BY DEF Ordered
<1>10. Elements(Ordered(list, R)) = Elements(list)
  BY <1>2, <1>4, <1>7, <1>9 DEF Elements
<1> QED BY <1>2, <1>4, <1>6, <1>7, <1>8, <1>10

\* The positions D in the order of a key, and in their own where it is equal.
KeyOrder(D, key) == {pair \in D \X D :
  \/ key[pair[1]] < key[pair[2]]
  \/ ~(key[pair[2]] < key[pair[1]]) /\ pair[1] < pair[2]}

LEMMA InKeyOrder ==
  ASSUME NEW D, NEW key, NEW i \in D, NEW j \in D
  PROVE  <<i, j>> \in KeyOrder(D, key) <=>
           \/ key[i] < key[j]
           \/ ~(key[j] < key[i]) /\ i < j
  BY DEF KeyOrder

LEMMA KeyOrderIsTotal ==
  ASSUME NEW D \in SUBSET Int, NEW key \in [D -> Int]
  PROVE  StrictTotal(D, KeyOrder(D, key))
<1> DEFINE R == KeyOrder(D, key)
<1> DEFINE Ahead(i, j) == \/ key[i] < key[j]
                          \/ ~(key[j] < key[i]) /\ i < j
<1>1. \A i, j \in D : <<i, j>> \in R <=> Ahead(i, j)
  BY InKeyOrder
<1>2. \A i \in D : key[i] \in Int /\ i \in Int
  OBVIOUS
<1> HIDE DEF R
<1>3. ASSUME NEW i \in D PROVE <<i, i>> \notin R
  BY <1>1, <1>2
<1>4. ASSUME NEW i \in D, NEW j \in D, NEW k \in D, <<i, j>> \in R, <<j, k>> \in R
      PROVE  <<i, k>> \in R
  <2>1. Ahead(i, j) /\ Ahead(j, k)
    BY <1>1, <1>4
  <2>2. Ahead(i, k)
    BY <1>2, <2>1
  <2> QED BY <1>1, <2>2
<1>5. ASSUME NEW i \in D, NEW j \in D PROVE i = j \/ <<i, j>> \in R \/ <<j, i>> \in R
  <2>1. i = j \/ Ahead(i, j) \/ Ahead(j, i)
    BY <1>2
  <2> QED BY <1>1, <2>1
<1> QED BY <1>3, <1>4, <1>5 DEF StrictTotal, R

\* Sorting by a key: S is the list with its items at p[1], p[2], ..., by the key.
Arranges(S, p, list, key) ==
  /\ p \in [DOMAIN list -> DOMAIN list]
  /\ \A k \in DOMAIN list : S[k] = list[p[k]]
  /\ \A i \in DOMAIN list : \E k \in DOMAIN list : p[k] = i
  /\ \A k, l \in DOMAIN list : k < l =>
       \/ key[p[k]] < key[p[l]]
       \/ key[p[k]] = key[p[l]] /\ p[k] < p[l]

LEMMA SortedByKey ==
  ASSUME NEW T, NEW list \in Seq(T), NEW key \in [DOMAIN list -> Int],
         NEW S, S = Ordered(list, KeyOrder(DOMAIN list, key))
  PROVE  /\ S \in Seq(T) /\ Len(S) = Len(list) /\ DOMAIN S = DOMAIN list
         /\ Elements(S) = Elements(list)
         /\ \E p : Arranges(S, p, list, key)
<1> DEFINE D == DOMAIN list
<1> DEFINE R == KeyOrder(D, key)
<1>1. D = 1..Len(list) /\ Len(list) \in Nat
  BY DomainIsFinite
<1>2. StrictTotal(D, R)
  BY <1>1, KeyOrderIsTotal
<1>3. \A i, j \in D : <<i, j>> \in R => key[i] < key[j] \/ (~(key[j] < key[i]) /\ i < j)
  BY InKeyOrder
<1> HIDE DEF R
<1>4. /\ Ordered(list, R) \in Seq(T)
      /\ Len(Ordered(list, R)) = Len(list)
      /\ Elements(Ordered(list, R)) = Elements(list)
      /\ \E p \in [D -> D] :
           /\ \A k \in D : Ordered(list, R)[k] = list[p[k]]
           /\ \A i \in D : \E k \in D : p[k] = i
           /\ \A k, l \in D : k < l <=> <<p[k], p[l]>> \in R
  BY <1>2, OrderedPositions
<1>5. S = Ordered(list, R)
  BY DEF R
<1>6. PICK p \in [D -> D] :
           /\ \A k \in D : S[k] = list[p[k]]
           /\ \A i \in D : \E k \in D : p[k] = i
           /\ \A k, l \in D : k < l <=> <<p[k], p[l]>> \in R
  BY <1>4, <1>5
<1>7. ASSUME NEW k \in D, NEW l \in D, k < l
      PROVE  \/ key[p[k]] < key[p[l]]
             \/ key[p[k]] = key[p[l]] /\ p[k] < p[l]
  <2>1. p[k] \in D /\ p[l] \in D /\ <<p[k], p[l]>> \in R
    BY <1>6, <1>7
  <2>2. key[p[k]] \in Int /\ key[p[l]] \in Int
    BY <2>1
  <2> QED BY <1>3, <2>1, <2>2
<1>8. Arranges(S, p, list, key)
  BY <1>6, <1>7 DEF Arranges
<1> QED BY <1>1, <1>4, <1>5, <1>8

LEMMA UptoPrefix ==
  ASSUME NEW T, NEW list \in Seq(T), NEW k \in Nat
  PROVE  /\ Upto(list, k) \in Seq(T)
         /\ Len(Upto(list, k)) = IF k < Len(list) THEN k ELSE Len(list)
         /\ \A i \in DOMAIN Upto(list, k) : i \in DOMAIN list /\ Upto(list, k)[i] = list[i]
         /\ Elements(Upto(list, k)) \subseteq Elements(list)
<1>1. Upto(list, k) = SubSeq(list, 1, IF k < Len(list) THEN k ELSE Len(list))
  BY DEF Upto
<1>2. /\ Upto(list, k) \in Seq(T)
      /\ Len(Upto(list, k)) = IF k < Len(list) THEN k ELSE Len(list)
      /\ \A i \in 1..Len(Upto(list, k)) : Upto(list, k)[i] = list[i]
  BY <1>1
<1> QED BY <1>2 DEF Elements
\* The list first holds the items at places q[1], q[2], ... of S, and a place of S
\* that q leaves out comes after all of them.
Leads(first, q, list, S, k) ==
  /\ q \in [DOMAIN first -> S]
  /\ \A m \in DOMAIN first : first[m] = list[q[m]]
  /\ \A m, n \in DOMAIN first : m < n <=> q[m] < q[n]
  /\ \A i \in S : \/ \E m \in DOMAIN first : q[m] = i
                  \/ Len(first) = k /\ (\A m \in DOMAIN first : q[m] < i)

LEMMA FirstItemsAt ==
  ASSUME NEW T, NEW list \in Seq(T), NEW S \in SUBSET DOMAIN list, NEW k \in Nat,
         NEW first, first = Upto(ItemsAt(list, S), k)
  PROVE  /\ first \in Seq(T)
         /\ Len(first) = IF k < Cardinality(S) THEN k ELSE Cardinality(S)
         /\ \E q : Leads(first, q, list, S, k)
<1> DEFINE n == Cardinality(S)
<1> DEFINE all == ItemsAt(list, S)
<1>1. /\ n \in Nat /\ all \in Seq(T) /\ Len(all) = n
      /\ \E p \in [1..n -> S] :
           /\ \A m \in 1..n : all[m] = list[p[m]]
           /\ \A i \in S : \E m \in 1..n : p[m] = i
           /\ \A m, l \in 1..n : m < l <=> p[m] < p[l]
  BY ItemsAtPositions
<1> HIDE DEF n, all
<1>2. PICK p \in [1..n -> S] :
        /\ \A m \in 1..n : all[m] = list[p[m]]
        /\ \A i \in S : \E m \in 1..n : p[m] = i
        /\ \A m, l \in 1..n : m < l <=> p[m] < p[l]
  BY <1>1
<1>2a. all \in Seq(T) /\ Len(all) = n /\ n \in Nat
  BY <1>1
<1>3. /\ first \in Seq(T) /\ Len(first) = IF k < n THEN k ELSE n
      /\ \A m \in DOMAIN first : m \in DOMAIN all /\ first[m] = all[m]
  <2>1. first = Upto(all, k)
    BY DEF all
  <2>2. /\ Upto(all, k) \in Seq(T)
        /\ Len(Upto(all, k)) = IF k < Len(all) THEN k ELSE Len(all)
        /\ \A i \in DOMAIN Upto(all, k) : i \in DOMAIN all /\ Upto(all, k)[i] = all[i]
    BY <1>2a, UptoPrefix
  <2> QED BY <1>2a, <2>1, <2>2
<1>4. DOMAIN first = 1..Len(first) /\ Len(first) \in Nat /\ Len(first) <= n
  BY <1>1, <1>3
<1> DEFINE q == [m \in DOMAIN first |-> p[m]]
<1>5. \A m \in DOMAIN first : m \in 1..n /\ q[m] = p[m] /\ p[m] \in S
  BY <1>1, <1>3
<1>6. q \in [DOMAIN first -> S]
  BY <1>5
<1>7. \A m \in DOMAIN first : first[m] = list[q[m]]
  BY <1>2, <1>3, <1>5
<1>8. \A m, l \in DOMAIN first : m < l <=> q[m] < q[l]
  BY <1>2, <1>5
<1>9. ASSUME NEW i \in S, \A m \in DOMAIN first : q[m] # i
      PROVE  Len(first) = k /\ \A m \in DOMAIN first : q[m] < i
  <2>1. PICK l \in 1..n : p[l] = i
    BY <1>2
  <2>2. l \notin DOMAIN first
    BY <1>5, <1>9, <2>1
  <2>3. Len(first) < l /\ Len(first) = k
    BY <1>1, <1>3, <1>4, <2>2
  <2>4. \A m \in DOMAIN first : m < l
    BY <1>4, <2>3
  <2> QED BY <1>2, <1>5, <2>1, <2>3, <2>4
<1> HIDE DEF q
<1>10. \A i \in S : \/ \E m \in DOMAIN first : q[m] = i
                    \/ Len(first) = k /\ (\A m \in DOMAIN first : q[m] < i)
  BY <1>9
<1>11. Leads(first, q, list, S, k)
  BY <1>6, <1>7, <1>8, <1>10, Zenon DEF Leads
<1> QED BY <1>3, <1>11 DEF n

\* The first item at S is the one at its least position.
LEMMA FirstItem ==
  ASSUME NEW T, NEW list \in Seq(T), NEW S \in SUBSET DOMAIN list, S # {}
  PROVE  \E i \in S : ItemsAt(list, S)[1] = list[i] /\ \A j \in S : i <= j
<1> DEFINE n == Cardinality(S)
<1>1. /\ n \in Nat
      /\ \E p \in [1..n -> S] :
           /\ \A m \in 1..n : ItemsAt(list, S)[m] = list[p[m]]
           /\ \A i \in S : \E m \in 1..n : p[m] = i
           /\ \A m, l \in 1..n : m < l <=> p[m] < p[l]
  BY ItemsAtPositions
<1> HIDE DEF n
<1>2. PICK p \in [1..n -> S] :
        /\ \A m \in 1..n : ItemsAt(list, S)[m] = list[p[m]]
        /\ \A i \in S : \E m \in 1..n : p[m] = i
        /\ \A m, l \in 1..n : m < l <=> p[m] < p[l]
  BY <1>1
<1>3. 1 \in 1..n /\ S \subseteq Int
  <2>1. S \subseteq Int
    BY DomainIsFinite
  <2>2. PICK i \in S : TRUE
    OBVIOUS
  <2>3. PICK m \in 1..n : p[m] = i
    BY <1>2
  <2> QED BY <1>1, <2>1, <2>3
<1>4. ASSUME NEW j \in S PROVE p[1] <= j
  <2>1. PICK m \in 1..n : p[m] = j
    BY <1>2
  <2>2. ~(m < 1)
    BY <1>1
  <2>3. p[1] \in Int /\ j \in Int /\ ~(j < p[1])
    BY <1>2, <1>3, <2>1, <2>2
  <2> QED BY <2>3
<1> QED BY <1>2, <1>3, <1>4

LEMMA LeastAndMost ==
  ASSUME NEW S \in SUBSET Int, IsFiniteSet(S), S # {}
  PROVE  /\ Least(S) \in S /\ \A y \in S : Least(S) <= y
         /\ Most(S) \in S /\ \A y \in S : Most(S) >= y
<1> DEFINE R == {pair \in S \X S : pair[1] < pair[2]}
<1> DEFINE n == Cardinality(S)
<1> DEFINE h == Holder(S, R)
<1>1. \A i, j \in S : <<i, j>> \in R <=> i < j
  OBVIOUS
<1>2. StrictTotal(S, R)
  BY <1>1 DEF StrictTotal
<1>3. n \in Nat /\ n # 0
  BY FS_CardinalityType, FS_EmptySet
<1> HIDE DEF R, n
<1>4. /\ h \in [1..n -> S]
      /\ \A k \in 1..n : Places(S, R)[h[k]] = k
  BY <1>2, PlacesAreTaken DEF n
<1>5. /\ \A i \in S : Places(S, R)[i] \in 1..n
      /\ \A i, j \in S : <<i, j>> \in R <=> Places(S, R)[i] < Places(S, R)[j]
  BY <1>2, PlaceGrows DEF n
<1> HIDE DEF h
<1>6. \E x \in S : \A y \in S : x <= y
  <2>1. PICK x \in S : Places(S, R)[x] = 1
    <3>1. 1 \in 1..n
      BY <1>3
    <3> QED BY <1>4, <3>1
  <2>2. ASSUME NEW y \in S PROVE x <= y
    <3>1. <<y, x>> \in R <=> Places(S, R)[y] < Places(S, R)[x]
      BY <1>5
    <3>2. Places(S, R)[y] \in 1..n
      BY <1>5
    <3>3. ~(y < x)
      BY <1>1, <1>3, <2>1, <3>1, <3>2
    <3> QED BY <3>3
  <2> QED BY <2>2
<1>7. \E x \in S : \A y \in S : x >= y
  <2>1. PICK x \in S : Places(S, R)[x] = n
    <3>1. n \in 1..n
      BY <1>3
    <3> QED BY <1>4, <3>1
  <2>2. ASSUME NEW y \in S PROVE x >= y
    <3>1. <<x, y>> \in R <=> Places(S, R)[x] < Places(S, R)[y]
      BY <1>5
    <3>2. Places(S, R)[y] \in 1..n
      BY <1>5
    <3>3. ~(x < y)
      BY <1>1, <1>3, <2>1, <3>1, <3>2
    <3> QED BY <3>3
  <2> QED BY <2>2
<1>8. Least(S) \in S /\ \A y \in S : Least(S) <= y
  BY <1>6 DEF Least
<1>9. Most(S) \in S /\ \A y \in S : Most(S) >= y
  BY <1>7 DEF Most
<1> QED BY <1>8, <1>9


\* Different items at different places are as many as the places.
At(rows, S) == {rows[i] : i \in S}
Apart(rows, S) == \A i, j \in S : rows[i] = rows[j] => i = j

LEMMA ApartAreAsMany ==
  ASSUME NEW S, IsFiniteSet(S), NEW rows, Apart(rows, S)
  PROVE  IsFiniteSet(At(rows, S)) /\ Cardinality(At(rows, S)) = Cardinality(S)
<1> DEFINE f == [i \in S |-> rows[i]]
<1>1. /\ f \in [S -> At(rows, S)]
      /\ \A i, j \in S : f[i] = f[j] => i = j
      /\ \A r \in At(rows, S) : \E i \in S : f[i] = r
  BY DEF Apart, At
<1> HIDE DEF f
<1>2. f \in Bijection(S, At(rows, S))
  BY <1>1 DEF Bijection, Injection, Surjection, IsInjective
<1> QED BY <1>2, FS_Bijection DEF ExistsBijection

\* The items wanted, each once.
LEMMA OnceGives ==
  ASSUME NEW T, NEW list \in Seq(T), NEW W
  PROVE  /\ Once(list, W) \in Seq(T) /\ IsSet(Once(list, W))
         /\ Elements(Once(list, W)) = Elements(list) \cap W
<1> DEFINE S == {i \in DOMAIN list : list[i] \in W /\ \A j \in 1..(i - 1) : list[j] # list[i]}
<1> DEFINE items == ItemsAt(list, S)
<1>1. Once(list, W) = items
  BY DEF Once
<1>2. S \in SUBSET DOMAIN list
  OBVIOUS
<1>3. DOMAIN list = 1..Len(list) /\ Len(list) \in Nat /\ IsFiniteSet(DOMAIN list)
  BY DomainIsFinite
<1>4. \A i \in S : list[i] \in W /\ \A j \in 1..(i - 1) : list[j] # list[i]
  OBVIOUS
<1>5. Elements(list) \cap W \subseteq {list[i] : i \in S}
  <2> SUFFICES ASSUME NEW x \in Elements(list), x \in W PROVE \E i \in S : list[i] = x
    OBVIOUS
  <2> DEFINE X == {i \in DOMAIN list : list[i] = x}
  <2>1. X \in SUBSET Int /\ IsFiniteSet(X) /\ X # {}
    BY <1>3, FS_Subset DEF Elements
  <2>2. Least(X) \in X /\ \A y \in X : Least(X) <= y
    BY <2>1, LeastAndMost
  <2> DEFINE least == Least(X)
  <2>3. least \in 1..Len(list) /\ list[least] = x
    BY <1>3, <2>2
  <2>4. ASSUME NEW j \in 1..(least - 1) PROVE list[j] # x
    <3>1. j \in DOMAIN list /\ j \in Int /\ least \in Int /\ ~(least <= j)
      BY <1>3, <2>3
    <3>2. j \notin X
      BY <2>2, <3>1
    <3> QED BY <3>1, <3>2
  <2> HIDE DEF least
  <2> QED BY <1>3, <2>3, <2>4
<1> HIDE DEF S
<1>6. Elements(items) = {list[i] : i \in S}
  BY <1>2, ItemsAtElements
<1>7. Elements(items) = Elements(list) \cap W
  BY <1>2, <1>4, <1>5, <1>6 DEF Elements
<1>8. PICK p \in [1..Cardinality(S) -> S] :
        /\ \A k \in 1..Cardinality(S) : items[k] = list[p[k]]
        /\ \A k, l \in 1..Cardinality(S) : k < l <=> p[k] < p[l]
  BY <1>2, ItemsAtPositions
<1>9. /\ items \in Seq(T) /\ Cardinality(S) \in Nat /\ DOMAIN items = 1..Cardinality(S)
  BY <1>2, ItemsAtPositions
<1>10. ASSUME NEW k \in 1..Cardinality(S), NEW l \in 1..Cardinality(S), k < l
       PROVE  items[k] # items[l]
  <2>1. p[k] \in S /\ p[l] \in S /\ p[k] < p[l]
    BY <1>8, <1>10
  <2>2. p[k] \in 1..(p[l] - 1)
    BY <1>2, <1>3, <2>1
  <2> QED BY <1>4, <1>8, <2>1, <2>2
<1>11. IsSet(items)
  <2> SUFFICES ASSUME NEW k \in DOMAIN items, NEW l \in DOMAIN items, items[k] = items[l]
               PROVE  k = l
    BY DEF IsSet
  <2>1. ~(k < l) /\ ~(l < k)
    BY <1>9, <1>10
  <2> QED BY <1>9, <2>1
<1> QED BY <1>1, <1>7, <1>9, <1>11

\* Fewer than k have a smaller key than one that a list sorted by it has among its
\* first k; more than k have no greater key than one that it has not.
LEMMA Leaders ==
  ASSUME NEW T, NEW list \in Seq(T), NEW key \in [DOMAIN list -> Int],
         NEW S, NEW p, Arranges(S, p, list, key), NEW m \in DOMAIN list, NEW k \in Nat
  PROVE  /\ m <= k => Cardinality({j \in DOMAIN list : key[j] < key[p[m]]}) < k
         /\ m > k => Cardinality({j \in DOMAIN list : key[j] <= key[p[m]]}) > k
<1> DEFINE D == DOMAIN list
<1>1. D = 1..Len(list) /\ Len(list) \in Nat /\ IsFiniteSet(D)
  BY DomainIsFinite
<1>2. \A i \in D : p[i] \in D /\ key[p[i]] \in Int /\ i \in Int
  <2>1. p \in [D -> D]
    BY DEF Arranges
  <2> HIDE DEF D
  <2>2. \A i \in D : p[i] \in D /\ i \in Int
    BY <1>1, <2>1
  <2>3. \A i \in D : key[i] \in Int
    BY DEF D
  <2> QED BY <2>2, <2>3
<1>3. \A i, j \in D : i < j => key[p[i]] <= key[p[j]] /\ p[i] # p[j]
  <2> SUFFICES ASSUME NEW i \in D, NEW j \in D, i < j
               PROVE  key[p[i]] <= key[p[j]] /\ p[i] # p[j]
    OBVIOUS
  <2>1. key[p[i]] < key[p[j]] \/ (key[p[i]] = key[p[j]] /\ p[i] < p[j])
    BY DEF Arranges
  <2>2. key[p[i]] \in Int /\ key[p[j]] \in Int /\ p[i] \in Int /\ p[j] \in Int
    BY <1>1, <1>2
  <2> QED BY <2>1, <2>2
<1>4. \A n \in 0..Len(list) : IsFiniteSet(At(p, 1..n)) /\ Cardinality(At(p, 1..n)) = n
  <2> SUFFICES ASSUME NEW n \in 0..Len(list)
               PROVE  IsFiniteSet(At(p, 1..n)) /\ Cardinality(At(p, 1..n)) = n
    OBVIOUS
  <2>1. n \in Nat /\ \A i \in 1..n : i \in D
    BY <1>1
  <2>2. IsFiniteSet(1..n) /\ Cardinality(1..n) = n
    BY <2>1, FS_Interval
  <2>3. Apart(p, 1..n)
    <3> SUFFICES ASSUME NEW i \in 1..n, NEW j \in 1..n, p[i] = p[j] PROVE i = j
      BY DEF Apart
    <3>1. ~(i < j) /\ ~(j < i)
      BY <1>3, <2>1
    <3> QED BY <2>1, <3>1
  <2> QED BY <2>2, <2>3, ApartAreAsMany
<1>5. ASSUME m <= k PROVE Cardinality({j \in D : key[j] < key[p[m]]}) < k
  <2> DEFINE A == {j \in D : key[j] < key[p[m]]}
  <2>1. A \subseteq At(p, 1..(m - 1))
    <3> SUFFICES ASSUME NEW j \in D, key[j] < key[p[m]] PROVE j \in At(p, 1..(m - 1))
      OBVIOUS
    <3>1. PICK l \in D : p[l] = j
      BY DEF Arranges
    <3>2. key[p[m]] \in Int /\ key[p[l]] \in Int /\ key[p[l]] < key[p[m]] /\ l \in Int /\ m \in Int
      BY <1>2, <3>1
    <3>2a. ~(m < l) /\ l # m
      BY <1>3, <3>2
    <3>3. l \in 1..(m - 1)
      BY <1>1, <3>2a
    <3> QED BY <3>1, <3>3 DEF At
  <2>2. m - 1 \in 0..Len(list)
    BY <1>1
  <2>3. IsFiniteSet(At(p, 1..(m - 1))) /\ Cardinality(At(p, 1..(m - 1))) = m - 1
    BY <1>4, <2>2
  <2> HIDE DEF A
  <2>4. Cardinality(A) <= m - 1 /\ Cardinality(A) \in Nat
    BY <2>1, <2>3, FS_Subset, FS_CardinalityType
  <2> QED BY <1>2, <1>5, <2>4 DEF A
<1>6. ASSUME m > k PROVE Cardinality({j \in D : key[j] <= key[p[m]]}) > k
  <2> DEFINE A == {j \in D : key[j] <= key[p[m]]}
  <2>1. At(p, 1..m) \subseteq A
    <3> SUFFICES ASSUME NEW l \in 1..m PROVE p[l] \in A
      BY DEF At
    <3>1. l \in D /\ (l < m \/ l = m)
      BY <1>1
    <3>2. p[l] \in D /\ key[p[l]] \in Int /\ key[p[m]] \in Int
      BY <1>2, <3>1
    <3>3. key[p[l]] <= key[p[m]]
      BY <1>3, <3>1, <3>2
    <3> QED BY <3>2, <3>3
  <2>2. m \in 0..Len(list)
    BY <1>1
  <2>3. Cardinality(At(p, 1..m)) = m
    BY <1>4, <2>2
  <2>4. IsFiniteSet(A)
    BY <1>1, FS_Subset
  <2> HIDE DEF A
  <2>5. m <= Cardinality(A) /\ Cardinality(A) \in Nat
    BY <2>1, <2>3, <2>4, FS_Subset, FS_CardinalityType
  <2> QED BY <1>2, <1>6, <2>5 DEF A
<1> QED BY <1>5, <1>6
=============================================================================
