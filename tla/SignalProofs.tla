---------------------------- MODULE SignalProofs -----------------------------
(***************************************************************************)
(* Theorems of Retrieval about the signals: what the summaries of traces,   *)
(* calls, logs and metrics keep of the fixtures they are made of.           *)
(***************************************************************************)
EXTENDS RetrievalProofs

-----------------------------------------------------------------------------
(* Traces. *)

\* Sorting by duration, descending, is sorting by its opposite.
Haste(rows) == [i \in DOMAIN rows |-> -rows[i].duration_ms]

LEMMA SortedByHaste ==
  ASSUME NEW T, NEW rows \in Seq(T), \A r \in T : r.duration_ms \in Int
  PROVE  /\ Haste(rows) \in [DOMAIN rows -> Int]
         /\ Sorted(rows, Slower) = Ordered(rows, KeyOrder(DOMAIN rows, Haste(rows)))
<1> DEFINE D == DOMAIN rows
<1>1. \A i \in D : rows[i].duration_ms \in Int /\ Haste(rows)[i] = -rows[i].duration_ms
  BY DEF Haste
<1>2. Haste(rows) \in [D -> Int]
  BY <1>1 DEF Haste
<1>3. \A i, j \in D : Slower(rows[i], rows[j]) <=> Haste(rows)[i] < Haste(rows)[j]
  BY <1>1 DEF Slower
<1>4. KeyOrder(D, Haste(rows)) =
        {pair \in D \X D : \/ Slower(rows[pair[1]], rows[pair[2]])
                           \/ ~Slower(rows[pair[2]], rows[pair[1]]) /\ pair[1] < pair[2]}
  BY <1>3 DEF KeyOrder
<1>5. Sorted(rows, Slower) = Ordered(rows,
        {pair \in D \X D : \/ Slower(rows[pair[1]], rows[pair[2]])
                           \/ ~Slower(rows[pair[2]], rows[pair[1]]) /\ pair[1] < pair[2]})
  BY DEF Sorted
<1> QED BY <1>2, <1>4, <1>5

\* The first k of a list sorted by duration, when no two of its rows are alike.
Faster(rows, s) == {r \in Elements(rows) : r.duration_ms > s.duration_ms}
NoSlower(rows, s) == {r \in Elements(rows) : r.duration_ms >= s.duration_ms}

LEMMA SlowestFirst ==
  ASSUME NEW T, NEW rows \in Seq(T), \A r \in T : r.duration_ms \in Int,
         Apart(rows, DOMAIN rows), NEW k \in Nat,
         NEW top, top = Upto(Sorted(rows, Slower), k)
  PROVE  /\ Elements(top) \subseteq Elements(rows)
         /\ \A s \in Elements(rows) : s \in Elements(top) => Cardinality(Faster(rows, s)) < k
         /\ \A s \in Elements(rows) : s \notin Elements(top) => Cardinality(NoSlower(rows, s)) > k
<1> DEFINE D == DOMAIN rows
<1> DEFINE key == Haste(rows)
<1> DEFINE S == Sorted(rows, Slower)
<1>1. /\ key \in [D -> Int] /\ S = Ordered(rows, KeyOrder(D, key))
      /\ \A i \in D : key[i] = -rows[i].duration_ms
  BY SortedByHaste DEF Haste
<1> HIDE DEF key, S
<1>2. /\ S \in Seq(T) /\ Len(S) = Len(rows) /\ DOMAIN S = DOMAIN rows
      /\ Elements(S) = Elements(rows)
      /\ \E p : Arranges(S, p, rows, key)
  BY <1>1, SortedByKey
<1>3. PICK p : Arranges(S, p, rows, key)
  BY <1>2
<1>4. /\ top \in Seq(T)
      /\ Len(top) = IF k < Len(S) THEN k ELSE Len(S)
      /\ \A i \in DOMAIN top : i \in DOMAIN S /\ top[i] = S[i]
      /\ Elements(top) \subseteq Elements(S)
  <2>1. top = Upto(S, k)
    BY DEF S
  <2> QED BY <1>2, <2>1, UptoPrefix
<1>5. D = 1..Len(rows) /\ Len(rows) \in Nat /\ IsFiniteSet(D)
  BY DomainIsFinite
<1>6. \A m \in D : S[m] = rows[p[m]] /\ p[m] \in D
  BY <1>3 DEF Arranges
<1>7. ASSUME NEW m \in D, NEW s, s = S[m]
      PROVE  /\ Faster(rows, s) = At(rows, {j \in D : key[j] < key[p[m]]})
             /\ NoSlower(rows, s) = At(rows, {j \in D : key[j] <= key[p[m]]})
  <2>1. s = rows[p[m]] /\ p[m] \in D
    BY <1>6, <1>7
  <2>2. \A j \in D : rows[j].duration_ms \in Int /\ key[j] = -rows[j].duration_ms
    BY <1>1
  <2>3. \A j \in D : /\ rows[j].duration_ms > s.duration_ms <=> key[j] < key[p[m]]
                     /\ rows[j].duration_ms >= s.duration_ms <=> key[j] <= key[p[m]]
    BY <2>1, <2>2
  <2> QED BY <2>3 DEF Faster, NoSlower, At, Elements
<1>8. ASSUME NEW m \in D, NEW s, s = S[m]
      PROVE  /\ m <= k => Cardinality(Faster(rows, s)) < k
             /\ m > k => Cardinality(NoSlower(rows, s)) > k
  <2> DEFINE A == {j \in D : key[j] < key[p[m]]}
  <2> DEFINE B == {j \in D : key[j] <= key[p[m]]}
  <2>1. (m <= k => Cardinality(A) < k) /\ (m > k => Cardinality(B) > k)
    <3>1. key \in [DOMAIN rows -> Int]
      BY <1>1
    <3> QED BY <1>3, <3>1, Leaders
  <2>2. Faster(rows, s) = At(rows, A) /\ NoSlower(rows, s) = At(rows, B)
    BY <1>7, <1>8
  <2>3. IsFiniteSet(A) /\ Apart(rows, A) /\ IsFiniteSet(B) /\ Apart(rows, B)
    <3>1. A \subseteq D /\ B \subseteq D
      OBVIOUS
    <3> HIDE DEF A, B
    <3> QED BY <1>5, <3>1, FS_Subset DEF Apart
  <2> HIDE DEF A, B
  <2>4. /\ Cardinality(At(rows, A)) = Cardinality(A)
        /\ Cardinality(At(rows, B)) = Cardinality(B)
    BY <2>3, ApartAreAsMany
  <2> QED BY <2>1, <2>2, <2>4
<1>9. ASSUME NEW s \in Elements(top) PROVE Cardinality(Faster(rows, s)) < k
  <2>1. PICK m \in DOMAIN top : s = top[m]
    BY DEF Elements
  <2>2. m \in D /\ s = S[m]
    BY <1>2, <1>4, <2>1
  <2>3. m <= k
    BY <1>2, <1>4, <1>5, <2>1
  <2> QED BY <1>8, <2>2, <2>3
<1>10. ASSUME NEW s \in Elements(rows), s \notin Elements(top)
       PROVE  Cardinality(NoSlower(rows, s)) > k
  <2>1. PICK m \in D : s = S[m]
    BY <1>2 DEF Elements
  <2>2. m \notin DOMAIN top
    BY <1>4, <1>10, <2>1 DEF Elements
  <2>3. m > k
    BY <1>2, <1>4, <1>5, <2>2
  <2> QED BY <1>8, <2>1, <2>3
<1> QED BY <1>2, <1>4, <1>9, <1>10

\* The elements of three lists joined.
LEMMA ElementsOfThree ==
  ASSUME NEW T, NEW a \in Seq(T), NEW b \in Seq(T), NEW c \in Seq(T)
  PROVE  Elements(a \o b \o c) = (Elements(a) \union Elements(b)) \union Elements(c)
<1>1. \A x, y \in Seq(T) : x \o y \in Seq(T) /\ Elements(x \o y) = Elements(x) \union Elements(y)
  <2> SUFFICES ASSUME NEW x \in Seq(T), NEW y \in Seq(T)
               PROVE  x \o y \in Seq(T) /\ Elements(x \o y) = Elements(x) \union Elements(y)
    OBVIOUS
  <2>1. /\ x \o y \in Seq(T)
        /\ DOMAIN (x \o y) = 1..(Len(x) + Len(y)) /\ DOMAIN x = 1..Len(x) /\ DOMAIN y = 1..Len(y)
        /\ Len(x) \in Nat /\ Len(y) \in Nat
        /\ \A i \in 1..(Len(x) + Len(y)) : (x \o y)[i] =
             IF i <= Len(x) THEN x[i] ELSE y[i - Len(x)]
    OBVIOUS
  <2>2. \A i \in DOMAIN x : i \in DOMAIN (x \o y) /\ (x \o y)[i] = x[i]
    BY <2>1
  <2>3. \A i \in DOMAIN y : i + Len(x) \in DOMAIN (x \o y) /\ (x \o y)[i + Len(x)] = y[i]
    BY <2>1
  <2>4. \A i \in DOMAIN (x \o y) : (x \o y)[i] \in Elements(x) \union Elements(y)
    BY <2>1 DEF Elements
  <2> DEFINE z == x \o y
  <2>5. z \in Seq(T) /\ \A i \in DOMAIN x : i \in DOMAIN z /\ z[i] = x[i]
    BY <2>1, <2>2
  <2>6. \A i \in DOMAIN y : i + Len(x) \in DOMAIN z /\ z[i + Len(x)] = y[i]
    BY <2>3
  <2>7. \A i \in DOMAIN z : z[i] \in Elements(x) \union Elements(y)
    BY <2>4
  <2> HIDE DEF z
  <2>8. Elements(x) \subseteq Elements(z) /\ Elements(y) \subseteq Elements(z)
    BY <2>5, <2>6 DEF Elements
  <2>9. Elements(z) \subseteq Elements(x) \union Elements(y)
    BY <2>7 DEF Elements
  <2> QED BY <2>5, <2>8, <2>9 DEF z
<1>2. a \o b \in Seq(T) /\ Elements(a \o b) = Elements(a) \union Elements(b)
  BY <1>1
<1>3. Elements((a \o b) \o c) = Elements(a \o b) \union Elements(c)
  BY <1>1, <1>2
<1> QED BY <1>2, <1>3

\* A skeleton keeps the failing spans and the root, the slowest, and no other.
Told(sk, t, slowest) ==
  /\ Elements(sk.spans) \subseteq Elements(t.spans)
  /\ \A j \in DOMAIN sk.spans : \A l \in 1..(j - 1) :
       sk.spans[l].span_id[2] < sk.spans[j].span_id[2]
  /\ sk.error_count = Cardinality({s \in Elements(sk.spans) : s.status = "error"})
  /\ \A s \in Elements(t.spans) :
       IF s \in Elements(sk.spans)
       THEN \/ s.status = "error" \/ "parent" \notin DOMAIN s
            \/ Cardinality(Faster(t.spans, s)) < slowest
       ELSE /\ s.status # "error" /\ "parent" \in DOMAIN s
            /\ Cardinality(NoSlower(t.spans, s)) > slowest

LEMMA SkeletonKeeps ==
  ASSUME NEW sc \in Scenarios, NEW t \in TracesOf(sc), NEW slowest \in Nat,
         NEW sk, sk = BuildTraceSkeleton(t, slowest)
  PROVE  /\ sk.head.trace_id = t.trace_id /\ sk.head.duration_ms = t.duration_ms
         /\ Told(sk, t, slowest)
<1> DEFINE list == t.spans
<1> DEFINE T == SpansOf(sc)
<1> DEFINE keep == KeptSpans(list, slowest)
<1> DEFINE P == {i \in DOMAIN list : list[i].span_id \in keep}
<1>1. list \in Seq(T) /\ list # << >> /\ Rooted(list) /\ Growing(list, "span_id")
  <2>1. list \in SpanLists(sc)
    BY DEF TracesOf
  <2> QED BY <2>1, TraceParts DEF SpanLists
<1>2. /\ sk.head.trace_id = t.trace_id /\ sk.head.duration_ms = t.duration_ms
      /\ sk.error_count = Len(Failing(list)) /\ sk.spans = ItemsAt(list, P)
  BY <1>1 DEF BuildTraceSkeleton
<1> HIDE DEF list, T
<1>3. \A s \in T : /\ s.span_id[2] \in Nat /\ s.duration_ms \in Int
                   /\ Get(s, "status", None) = s.status
  <2>1. \A s \in T : s.span_id[2] \in Nat
    BY IdsAreNumbered DEF T
  <2>2. sc.durations \subseteq Int
    BY ScenarioAssumption
  <2> QED BY <2>1, <2>2 DEF T, SpansOf, Get
<1>4. Unique(list, "span_id") /\ Apart(list, DOMAIN list)
  <2>1. Unique(list, "span_id")
    BY <1>1, <1>3, CountedIsUnique
  <2> QED BY <2>1 DEF Unique, Apart
<1> DEFINE failing == Failing(list)
<1> DEFINE F == {i \in DOMAIN list : Get(list[i], "status", None) = "error"}
<1> DEFINE top == Upto(Sorted(list, Slower), slowest)
<1> DEFINE root == RootSpan(list)
<1>5. failing = ItemsAt(list, F) /\ F \in SUBSET DOMAIN list
  BY DEF Failing, With
<1>6. /\ failing \in Seq(T) /\ Len(failing) = Cardinality(F)
      /\ Elements(failing) = {s \in Elements(list) : s.status = "error"}
      /\ At(list, F) = {s \in Elements(list) : s.status = "error"}
  <2>1. At(list, F) = {s \in Elements(list) : s.status = "error"}
    BY <1>1, <1>3 DEF At, Elements
  <2>2. At(list, F) = {list[i] : i \in F}
    BY DEF At
  <2> HIDE DEF F, failing
  <2>3. /\ ItemsAt(list, F) \in Seq(T) /\ Len(ItemsAt(list, F)) = Cardinality(F)
    BY <1>1, <1>5, ItemsAtPositions
  <2>4. Elements(ItemsAt(list, F)) = {list[i] : i \in F}
    BY <1>1, <1>5, ItemsAtElements
  <2> QED BY <1>5, <2>1, <2>2, <2>3, <2>4
<1>7. /\ root \in Elements(list) /\ root \in T /\ "parent" \notin DOMAIN root
      /\ \A s \in Elements(list) : "parent" \notin DOMAIN s => s = root
  <2> DEFINE R == {j \in DOMAIN list : Get(list[j], "parent", None) = None}
  <2>1. 1 \in DOMAIN list /\ DOMAIN list = 1..Len(list)
    BY <1>1
  <2>2. 1 \in R /\ R \in SUBSET DOMAIN list /\ "parent" \notin DOMAIN list[1]
    BY <1>1, <2>1 DEF Rooted, Get
  <2>3. With(list, "parent", None) = ItemsAt(list, R)
    BY DEF With
  <2> HIDE DEF R
  <2>4. R # {} /\ ItemsAt(list, R) # << >>
    BY <1>1, <2>2, ItemsAtElements
  <2>5. \E j \in R : ItemsAt(list, R)[1] = list[j] /\ \A l \in R : j <= l
    BY <1>1, <2>2, <2>4, FirstItem
  <2>6. ItemsAt(list, R)[1] = list[1]
    BY <2>1, <2>2, <2>5
  <2>7. root = list[1]
    BY <2>3, <2>4, <2>6 DEF RootSpan
  <2>8. \A i \in DOMAIN list : "parent" \notin DOMAIN list[i] => i = 1
    BY <1>1, <2>1 DEF Rooted
  <2> QED BY <1>1, <2>1, <2>2, <2>7, <2>8 DEF Elements
<1>8. /\ Elements(top) \subseteq Elements(list)
      /\ \A s \in Elements(list) : s \in Elements(top) => Cardinality(Faster(list, s)) < slowest
      /\ \A s \in Elements(list) :
           s \notin Elements(top) => Cardinality(NoSlower(list, s)) > slowest
  <2>1. \A r \in T : r.duration_ms \in Int
    BY <1>3
  <2> QED BY <1>1, <1>4, <2>1, SlowestFirst
<1>9. top \in Seq(T)
  <2>1. /\ Haste(list) \in [DOMAIN list -> Int]
        /\ Sorted(list, Slower) = Ordered(list, KeyOrder(DOMAIN list, Haste(list)))
    BY <1>1, <1>3, SortedByHaste
  <2>2. Ordered(list, KeyOrder(DOMAIN list, Haste(list))) \in Seq(T)
    BY <1>1, <2>1, SortedByKey
  <2> QED BY <2>1, <2>2, UptoPrefix
<1> HIDE DEF failing, top, root
<1>10. keep = {s.span_id : s \in UNION {{root}, Elements(failing), Elements(top)}}
  <2> DEFINE first == <<root>>
  <2>1. first \in Seq(T) /\ Elements(first) = {root}
    BY <1>7 DEF Elements
  <2>2. keep = {s.span_id : s \in Elements(first \o failing \o top)}
    BY DEF KeptSpans, Elements, root, failing, top
  <2> HIDE DEF first
  <2>3. failing \in Seq(T) /\ top \in Seq(T)
    BY <1>6, <1>9
  <2>4. Elements(first \o failing \o top) =
          (Elements(first) \union Elements(failing)) \union Elements(top)
    BY <2>1, <2>3, ElementsOfThree
  <2> QED BY <2>1, <2>2, <2>4
<1> HIDE DEF keep
<1>11. ASSUME NEW s \in Elements(list)
       PROVE  s.span_id \in keep <=> s = root \/ s \in Elements(failing) \/ s \in Elements(top)
  <2>1. \A r \in Elements(list) : r.span_id = s.span_id => r = s
    BY <1>4 DEF Unique, Elements
  <2>2. Elements(failing) \subseteq Elements(list)
    BY <1>6
  <2> QED BY <1>7, <1>8, <1>10, <2>1, <2>2
<1>12. P \in SUBSET DOMAIN list /\ At(list, P) = {s \in Elements(list) : s.span_id \in keep}
  BY DEF At, Elements
<1>12a. At(list, P) = {list[i] : i \in P}
  BY DEF At
<1> HIDE DEF P
<1>13. Elements(sk.spans) = {s \in Elements(list) : s.span_id \in keep}
  <2>1. Elements(ItemsAt(list, P)) = {list[i] : i \in P}
    BY <1>1, <1>12, ItemsAtElements
  <2> QED BY <1>2, <1>12, <1>12a, <2>1
<1>14. \A j \in DOMAIN sk.spans : \A l \in 1..(j - 1) :
         sk.spans[l].span_id[2] < sk.spans[j].span_id[2]
  <2> DEFINE n == Cardinality(P)
  <2>1. n \in Nat /\ ItemsAt(list, P) \in Seq(T) /\ Len(ItemsAt(list, P)) = n
    BY <1>1, <1>12, ItemsInOrder
  <2>2. PICK p : InOrder(p, P) /\ (\A m \in 1..n : ItemsAt(list, P)[m] = list[p[m]])
    BY <1>1, <1>12, ItemsInOrder
  <2>2a. p \in [1..n -> P] /\ (\A m, l \in 1..n : m < l <=> p[m] < p[l])
    BY <2>2, Zenon DEF InOrder
  <2> HIDE DEF n
  <2>3. DOMAIN sk.spans = 1..n
    BY <1>2, <2>1
  <2> SUFFICES ASSUME NEW j \in 1..n, NEW l \in 1..(j - 1)
               PROVE  sk.spans[l].span_id[2] < sk.spans[j].span_id[2]
    BY <2>3
  <2>4. l \in 1..n /\ l < j
    BY <2>1
  <2>5. p[l] < p[j] /\ p[l] \in DOMAIN list /\ p[j] \in DOMAIN list
    BY <1>12, <2>2a, <2>4
  <2>6. sk.spans[l] = list[p[l]] /\ sk.spans[j] = list[p[j]]
    BY <1>2, <2>2, <2>4 DEF n
  <2> QED BY <1>1, <2>5, <2>6 DEF Growing
<1>15. sk.error_count = Cardinality({s \in Elements(sk.spans) : s.status = "error"})
  <2>1. {s \in Elements(sk.spans) : s.status = "error"} = At(list, F)
    BY <1>6, <1>11, <1>13
  <2>2. IsFiniteSet(F) /\ Apart(list, F)
    <3>1. IsFiniteSet(DOMAIN list)
      BY <1>1, DomainIsFinite
    <3> QED BY <1>4, <1>5, <3>1, FS_Subset DEF Apart
  <2> HIDE DEF F
  <2>3. Cardinality(At(list, F)) = Cardinality(F)
    BY <2>2, ApartAreAsMany
  <2> QED BY <1>2, <1>6, <2>1, <2>3 DEF failing
<1>16. ASSUME NEW s \in Elements(list)
       PROVE  IF s \in Elements(sk.spans)
              THEN \/ s.status = "error" \/ "parent" \notin DOMAIN s
                   \/ Cardinality(Faster(list, s)) < slowest
              ELSE /\ s.status # "error" /\ "parent" \in DOMAIN s
                   /\ Cardinality(NoSlower(list, s)) > slowest
  <2>1. s \in Elements(sk.spans) <=> s = root \/ s.status = "error" \/ s \in Elements(top)
    BY <1>6, <1>11, <1>13
  <2>2. CASE s \in Elements(sk.spans)
    BY <1>7, <1>8, <2>1, <2>2
  <2>3. CASE s \notin Elements(sk.spans)
    BY <1>7, <1>8, <2>1, <2>3
  <2> QED BY <2>2, <2>3
<1> QED BY <1>2, <1>13, <1>14, <1>15, <1>16 DEF Told, list

LEMMA SignalIsKept == FixtureInv => TracesKeepSignal
<1> DEFINE rows == files.traces
<1> DEFINE Sk(k, slowest) == SummarizeTraces(rows, k, slowest).skeletons
<1> SUFFICES ASSUME FixtureInv, NEW k \in Limits, NEW slowest \in Limits
    PROVE
      /\ Len(Sk(k, slowest)) = Fewer(k, Len(rows))
      /\ \A i \in DOMAIN Sk(k, slowest) :
          /\ \A t \in Elements(rows) : t.trace_id \in {Sk(k, slowest)[j].head.trace_id : j \in 1..(i - 1)}
               \/ t.duration_ms <= Sk(k, slowest)[i].head.duration_ms
          /\ Elements(Sk(k, slowest)[i].spans) \subseteq
               Elements(GetTrace(files, Sk(k, slowest)[i].head.trace_id).spans)
          /\ \A j \in DOMAIN Sk(k, slowest)[i].spans : \A l \in 1..(j - 1) :
               Sk(k, slowest)[i].spans[l].span_id[2] < Sk(k, slowest)[i].spans[j].span_id[2]
          /\ Sk(k, slowest)[i].error_count =
               Cardinality({s \in Elements(Sk(k, slowest)[i].spans) : s.status = "error"})
          /\ \A s \in Elements(GetTrace(files, Sk(k, slowest)[i].head.trace_id).spans) :
               IF s \in Elements(Sk(k, slowest)[i].spans)
               THEN \/ s.status = "error" \/ "parent" \notin DOMAIN s
                    \/ Cardinality(Faster(GetTrace(files, Sk(k, slowest)[i].head.trace_id).spans, s)) < slowest
               ELSE /\ s.status # "error" /\ "parent" \in DOMAIN s
                    /\ Cardinality(NoSlower(GetTrace(files, Sk(k, slowest)[i].head.trace_id).spans, s)) > slowest
  BY Zenon DEF TracesKeepSignal, Faster, NoSlower
<1> DEFINE told == Sk(k, slowest)
<1> DEFINE D == DOMAIN rows
<1> DEFINE key == Haste(rows)
<1> DEFINE S == Sorted(rows, Slower)
<1> DEFINE top == Upto(S, k)
<1> DEFINE T == TracesOf(scenario)
<1>1. scenario \in Scenarios /\ rows \in Seq(T) /\ k \in Nat /\ slowest \in Nat
  BY RowsOnDisk, LimitAssumption
<1>2. \A t \in T : t.duration_ms \in Int
  BY <1>1, ScenarioAssumption DEF TracesOf
<1>3. told = [i \in DOMAIN top |-> BuildTraceSkeleton(top[i], slowest)]
  BY DEF SummarizeTraces
<1> HIDE DEF told
<1> HIDE DEF rows, T
<1>4. /\ key \in [D -> Int] /\ S = Ordered(rows, KeyOrder(D, key))
      /\ \A i \in D : key[i] = -rows[i].duration_ms
  BY <1>1, <1>2, SortedByHaste DEF Haste
<1> HIDE DEF key, S
<1>5. /\ S \in Seq(T) /\ Len(S) = Len(rows) /\ DOMAIN S = D
      /\ \E p : Arranges(S, p, rows, key)
  BY <1>1, <1>4, SortedByKey
<1>6. PICK p : Arranges(S, p, rows, key)
  BY <1>5
<1>7. /\ top \in Seq(T)
      /\ Len(top) = IF k < Len(S) THEN k ELSE Len(S)
      /\ \A i \in DOMAIN top : i \in DOMAIN S /\ top[i] = S[i]
  BY <1>1, <1>5, UptoPrefix
<1> HIDE DEF top
<1>8. Len(told) = Fewer(k, Len(rows))
  <2>1. DOMAIN top = 1..Len(top) /\ Len(top) \in Nat
    BY <1>7
  <2>2. Len(told) = Len(top)
    BY <1>3, <2>1
  <2> QED BY <1>5, <1>7, <2>2 DEF Fewer
<1>9. DOMAIN told = DOMAIN top /\ DOMAIN top \subseteq D /\ D \subseteq Int /\ DOMAIN top = 1..Len(top)
  BY <1>1, <1>3, <1>5, <1>7
<1>10. ASSUME NEW i \in DOMAIN told
       PROVE  /\ p[i] \in D /\ top[i] = rows[p[i]] /\ top[i] \in T /\ top[i] \in Elements(rows)
              /\ told[i].head.trace_id = top[i].trace_id
              /\ told[i].head.duration_ms = top[i].duration_ms
              /\ Told(told[i], top[i], slowest)
  <2>1. p[i] \in D /\ top[i] = rows[p[i]]
    BY <1>6, <1>7, <1>9 DEF Arranges
  <2>2. top[i] \in T /\ top[i] \in Elements(rows)
    BY <1>1, <2>1 DEF Elements
  <2>3. told[i] = BuildTraceSkeleton(top[i], slowest)
    BY <1>3, <1>9
  <2>4. /\ told[i].head.trace_id = top[i].trace_id
        /\ told[i].head.duration_ms = top[i].duration_ms
        /\ Told(told[i], top[i], slowest)
    BY <1>1, <2>2, <2>3, SkeletonKeeps DEF T
  <2> QED BY <2>1, <2>2, <2>4
<1>11. ASSUME NEW i \in DOMAIN told
       PROVE  Told(told[i], GetTrace(files, told[i].head.trace_id), slowest)
  <2>1. GetTrace(files, top[i].trace_id) = top[i]
    BY <1>10, TraceFound DEF rows
  <2> QED BY <1>10, <2>1
<1>12. ASSUME NEW i \in DOMAIN told, NEW t \in Elements(rows)
       PROVE  t.trace_id \in {told[j].head.trace_id : j \in 1..(i - 1)}
                \/ t.duration_ms <= told[i].head.duration_ms
  <2>1. PICK m \in D : t = rows[p[m]] /\ p[m] \in D
    BY <1>6 DEF Arranges, Elements
  <2>2. CASE m < i
    <3>1. m \in DOMAIN told /\ m \in 1..(i - 1)
      BY <1>1, <1>9, <2>2
    <3>2. t.trace_id = told[m].head.trace_id
      BY <1>10, <2>1, <3>1
    <3> QED BY <3>1, <3>2
  <2>3. CASE ~(m < i)
    <3>1. i \in D /\ i \in Int /\ m \in Int
      BY <1>9
    <3>2. key[p[i]] < key[p[m]] \/ key[p[i]] = key[p[m]]
      <4>1. CASE i = m
        BY <4>1
      <4>2. CASE i < m
        BY <1>6, <3>1, <4>2 DEF Arranges
      <4> QED BY <2>3, <3>1, <4>1, <4>2
    <3>3. /\ key[p[i]] = -told[i].head.duration_ms /\ told[i].head.duration_ms \in Int
          /\ key[p[m]] = -t.duration_ms /\ t.duration_ms \in Int
      <4>1. /\ p[i] \in D /\ top[i] = rows[p[i]] /\ top[i] \in T
            /\ told[i].head.duration_ms = top[i].duration_ms
        BY <1>10
      <4>2. /\ key[p[i]] = -rows[p[i]].duration_ms
            /\ key[p[m]] = -rows[p[m]].duration_ms
        BY <1>4, <2>1, <4>1
      <4>3. t \in T
        BY <1>1, <2>1
      <4> QED BY <1>2, <2>1, <4>1, <4>2, <4>3
    <3> QED BY <3>2, <3>3
  <2> QED BY <2>2, <2>3
<1> QED BY <1>8, <1>11, <1>12 DEF Told, told

\* The slowest traces are told, each by its failing spans, its root and its slowest
\* (retrieval/signals.py:124-165).
THEOREM SlowAndFailingAreShown == Spec => []TracesKeepSignal
  BY SignalIsKept, FixturesAreSound, PTL

-----------------------------------------------------------------------------
(* The call graph. *)

\* The graph has an arrow from s to t when a span of s is the parent of one of t.
CallMade(traces, s, t) == \E i \in DOMAIN traces :
  \E p, c \in Elements(traces[i].spans) :
    /\ p.span_id = Get(c, "parent", None) /\ p.service # c.service
    /\ p.service = s /\ c.service = t

LEMMA GraphIsOfCalls ==
  ASSUME NEW traces, NEW graph, graph = BuildDependencyGraph(traces)
  PROVE  \A s, t : s \in DOMAIN graph /\ t \in graph[s] <=> CallMade(traces, s, t)
<1> DEFINE calls == UNION {CallsOf(traces[i]) : i \in DOMAIN traces}
<1>1. graph = [s \in {c[1] : c \in calls} |-> {c[2] : c \in {d \in calls : d[1] = s}}]
  BY DEF BuildDependencyGraph
<1>2. ASSUME NEW i \in DOMAIN traces, NEW s, NEW t
      PROVE  <<s, t>> \in CallsOf(traces[i]) <=>
               \E p, c \in Elements(traces[i].spans) :
                 /\ p.span_id = Get(c, "parent", None) /\ p.service # c.service
                 /\ p.service = s /\ c.service = t
  <2> DEFINE spans_i == Elements(traces[i].spans)
  <2> DEFINE made == {pair \in spans_i \X spans_i :
                        /\ pair[1].span_id = Get(pair[2], "parent", None)
                        /\ pair[1].service # pair[2].service}
  <2>1. CallsOf(traces[i]) = {<<pair[1].service, pair[2].service>> : pair \in made}
    BY DEF CallsOf
  <2> HIDE DEF spans_i
  <2>2. ASSUME <<s, t>> \in CallsOf(traces[i])
        PROVE  \E p, c \in spans_i :
                 /\ p.span_id = Get(c, "parent", None) /\ p.service # c.service
                 /\ p.service = s /\ c.service = t
    BY <2>1, <2>2
  <2>3. ASSUME NEW p \in spans_i, NEW c \in spans_i, p.span_id = Get(c, "parent", None),
               p.service # c.service
        PROVE  <<p.service, c.service>> \in CallsOf(traces[i])
    <3>1. <<p, c>> \in made /\ <<p, c>>[1] = p /\ <<p, c>>[2] = c
      BY <2>3
    <3> HIDE DEF made
    <3> QED BY <2>1, <3>1
  <2> QED BY <2>2, <2>3 DEF spans_i
<1>3. \A s, t : <<s, t>> \in calls <=> CallMade(traces, s, t)
  <2> SUFFICES ASSUME NEW s, NEW t PROVE <<s, t>> \in calls <=> CallMade(traces, s, t)
    OBVIOUS
  <2>1. <<s, t>> \in calls <=> \E i \in DOMAIN traces : <<s, t>> \in CallsOf(traces[i])
    OBVIOUS
  <2>2. \A i \in DOMAIN traces : <<s, t>> \in CallsOf(traces[i]) <=>
          \E p, c \in Elements(traces[i].spans) :
            /\ p.span_id = Get(c, "parent", None) /\ p.service # c.service
            /\ p.service = s /\ c.service = t
    BY <1>2
  <2> QED BY <2>1, <2>2 DEF CallMade
<1>4. \A c \in calls : c = <<c[1], c[2]>>
  BY DEF CallsOf
<1> HIDE DEF calls
<1>5. ASSUME NEW s, NEW t PROVE s \in DOMAIN graph /\ t \in graph[s] <=> <<s, t>> \in calls
  BY <1>1, <1>4
<1> QED BY <1>3, <1>5

\* The root service of a trace is that of its first span.
LEMMA RootOfOne ==
  ASSUME NEW sc \in Scenarios, NEW t \in TracesOf(sc)
  PROVE  /\ FindRootService(<<t>>) = t.spans[1].service
         /\ 1 \in DOMAIN t.spans /\ t.spans[1] \in SpansOf(sc)
<1> DEFINE list == t.spans
<1> DEFINE R == {j \in DOMAIN list : Get(list[j], "parent", None) = None}
<1> DEFINE one == <<t>>
<1> DEFINE P == {i \in DOMAIN one : With(one[i].spans, "parent", None) # << >>}
<1>1. list \in Seq(SpansOf(sc)) /\ list # << >> /\ Rooted(list)
  BY TraceParts
<1>2. one \in Seq(TracesOf(sc)) /\ DOMAIN one = {1} /\ one[1] = t
  OBVIOUS
<1>3. With(list, "parent", None) = ItemsAt(list, R)
  BY DEF With
<1>4. FindRootService(one) =
        IF ItemsAt(one, P) = << >> THEN None
        ELSE With(ItemsAt(one, P)[1].spans, "parent", None)[1].service
  BY DEF FindRootService
<1> HIDE DEF one
<1>5. 1 \in DOMAIN list /\ DOMAIN list = 1..Len(list) /\ list[1] \in SpansOf(sc)
  BY <1>1
<1> HIDE DEF list
<1>6. 1 \in R /\ R \in SUBSET DOMAIN list
  BY <1>1, <1>5 DEF Rooted, Get
<1> HIDE DEF R
<1>7. R # {} /\ ItemsAt(list, R) # << >>
  BY <1>1, <1>6, ItemsAtElements
<1>8. \E j \in R : ItemsAt(list, R)[1] = list[j] /\ \A l \in R : j <= l
  BY <1>1, <1>6, <1>7, FirstItem
<1>9. ItemsAt(list, R)[1] = list[1]
  BY <1>5, <1>6, <1>8
<1>10. P = {1} /\ P \in SUBSET DOMAIN one /\ P # {}
  BY <1>2, <1>3, <1>7 DEF list
<1> HIDE DEF P
<1>11. ItemsAt(one, P) # << >>
  BY <1>2, <1>10, ItemsAtElements
<1>12. \E j \in P : ItemsAt(one, P)[1] = one[j] /\ \A l \in P : j <= l
  BY <1>2, <1>10, FirstItem
<1>13. ItemsAt(one, P)[1] = t
  BY <1>2, <1>10, <1>12
<1>14. FindRootService(one) = With(list, "parent", None)[1].service
  BY <1>4, <1>11, <1>13 DEF list
<1> QED BY <1>3, <1>5, <1>9, <1>14 DEF list, one

LEMMA CallsAreComplete == FixtureInv => CallsReachAll
<1> DEFINE graph == BuildDependencyGraph(files.traces)
<1> DEFINE roots == {FindRootService(<<t>>) : t \in Elements(files.traces)}
<1> DEFINE services == ExtractServices(files.traces)
<1> DEFINE Closed(S) == roots \subseteq S /\ \A s \in S \cap DOMAIN graph : graph[s] \subseteq S
<1> SUFFICES ASSUME FixtureInv
    PROVE  /\ Closed(services)
           /\ \A S \in SUBSET services : Closed(S) => S = services
           /\ \A s \in DOMAIN graph : \A t \in graph[s] :
                /\ s # t
                /\ \E trace \in Elements(files.traces) : \E c \in Elements(trace.spans) :
                     /\ c.service = t
                     /\ \E p \in Elements(trace.spans) :
                          p.service = s /\ Get(c, "parent", None) = p.span_id
  BY Zenon DEF CallsReachAll
<1>1. scenario \in Scenarios /\ files.traces \in Seq(TracesOf(scenario))
  BY RowsOnDisk
<1>2. \A s, t : s \in DOMAIN graph /\ t \in graph[s] <=> CallMade(files.traces, s, t)
  BY GraphIsOfCalls
<1>3. ASSUME NEW i \in DOMAIN files.traces
      PROVE  /\ files.traces[i] \in TracesOf(scenario)
             /\ Services(files.traces[i]) = {s.service : s \in Elements(files.traces[i].spans)}
             /\ files.traces[i].spans \in SpanLists(scenario)
             /\ FindRootService(<<files.traces[i]>>) = files.traces[i].spans[1].service
             /\ 1 \in DOMAIN files.traces[i].spans
  <2>1. files.traces[i] \in TracesOf(scenario)
    BY <1>1
  <2>2. files.traces[i].spans \in SpanLists(scenario)
    BY <2>1 DEF TracesOf
  <2> QED BY <1>1, <2>1, <2>2, TraceParts, RootOfOne
<1>4. \A i \in DOMAIN files.traces : \A s \in Elements(files.traces[i].spans) :
        s.service \in services
  BY <1>3 DEF ExtractServices
<1> HIDE DEF graph
<1>5. roots \subseteq services
  <2> SUFFICES ASSUME NEW i \in DOMAIN files.traces
               PROVE  FindRootService(<<files.traces[i]>>) \in services
    BY DEF Elements
  <2>1. files.traces[i].spans[1] \in Elements(files.traces[i].spans)
    BY <1>3 DEF Elements
  <2> QED BY <1>3, <1>4, <2>1
<1>6. ASSUME NEW s \in DOMAIN graph, NEW t \in graph[s] PROVE t \in services
  BY <1>2, <1>4 DEF CallMade
<1>7. ASSUME NEW S \in SUBSET services, Closed(S) PROVE services \subseteq S
  <2> SUFFICES ASSUME NEW i \in DOMAIN files.traces, NEW s \in Services(files.traces[i])
               PROVE  s \in S
    BY DEF ExtractServices
  <2> DEFINE list == files.traces[i].spans
  <2> DEFINE bad == {j \in DOMAIN list : list[j].service \notin S}
  <2>1. /\ list \in Seq(SpansOf(scenario)) /\ Rooted(list) /\ Nested(list)
        /\ DOMAIN list = 1..Len(list) /\ Len(list) \in Nat /\ IsFiniteSet(DOMAIN list)
    <3>1. list \in Seq(SpansOf(scenario)) /\ Rooted(list) /\ Nested(list)
      BY <1>3 DEF SpanLists
    <3> HIDE DEF list
    <3> QED BY <3>1, DomainIsFinite
  <2>2. list[1].service \in S
    <3>1. FindRootService(<<files.traces[i]>>) \in roots
      BY DEF Elements
    <3> QED BY <1>3, <1>7, <3>1
  <2>3. PICK k \in DOMAIN list : s = list[k].service
    <3>1. Services(files.traces[i]) = {r.service : r \in Elements(list)}
      BY <1>3
    <3>2. PICK r \in Elements(list) : s = r.service
      BY <3>1
    <3> QED BY <3>2 DEF Elements
  <2>4. ASSUME bad # {} PROVE FALSE
    <3>1. bad \in SUBSET Int /\ IsFiniteSet(bad) /\ bad \subseteq DOMAIN list
      BY <2>1, FS_Subset
    <3> DEFINE j == Least(bad)
    <3> HIDE DEF bad
    <3>2. j \in bad /\ \A y \in bad : j <= y
      BY <2>4, <3>1, LeastAndMost
    <3> HIDE DEF j
    <3>3. j \in 1..Len(list) /\ list[j].service \notin S
      BY <2>1, <3>1, <3>2 DEF bad
    <3>4. j > 1
      BY <2>1, <2>2, <3>3
    <3>5. PICK l \in 1..(j - 1) : list[j].parent = list[l].span_id
      BY <2>1, <3>3, <3>4 DEF Nested
    <3>6. l \in DOMAIN list /\ l < j
      BY <2>1, <3>3
    <3>7. list[l].service \in S
      <4>1. l \in Int /\ j \in Int
        BY <3>3
      <4>2. l \notin bad
        BY <3>2, <3>6, <4>1
      <4> QED BY <3>6, <4>2 DEF bad
    <3>8. Get(list[j], "parent", None) = list[l].span_id
      BY <2>1, <3>3, <3>4, <3>5 DEF Rooted, Get
    <3>9. list[l] \in Elements(list) /\ list[j] \in Elements(list)
      BY <2>1, <3>3, <3>6 DEF Elements
    <3>10. CallMade(files.traces, list[l].service, list[j].service)
      BY <3>3, <3>7, <3>8, <3>9 DEF CallMade
    <3>11. list[l].service \in S \cap DOMAIN graph /\ list[j].service \in graph[list[l].service]
      BY <1>2, <3>7, <3>10
    <3> QED BY <1>7, <3>3, <3>11
  <2> QED BY <2>3, <2>4
<1>8. ASSUME NEW s \in DOMAIN graph, NEW t \in graph[s]
      PROVE  /\ s # t
             /\ \E trace \in Elements(files.traces) : \E c \in Elements(trace.spans) :
                  /\ c.service = t
                  /\ \E p \in Elements(trace.spans) :
                       p.service = s /\ Get(c, "parent", None) = p.span_id
  BY <1>2 DEF CallMade, Elements
<1> HIDE DEF services, roots
<1> QED BY <1>5, <1>6, <1>7, <1>8

\* Whatever traces are on disk, the call graph leads from their roots to every service
\* they touch, along calls they made (retrieval/signals.py:174-195).
THEOREM CallGraphIsComplete == Spec => []CallsReachAll
  BY CallsAreComplete, FixturesAreSound, PTL

-----------------------------------------------------------------------------
(* Logs. *)

\* The places of the rows that carry a message.
Carrying(rows, m) == {i \in DOMAIN rows : rows[i].message = m}

EntriesOf(rows) == [i \in DOMAIN rows |-> LogEntry(rows[i])]

\* An entry of a log on disk lacks nothing.
LEMMA EntriesAreRows ==
  ASSUME NEW sc \in Scenarios, NEW rows \in Seq(LogsOf(sc))
  PROVE  /\ DOMAIN EntriesOf(rows) = DOMAIN rows
         /\ EntriesOf(rows) \in Seq({EntriesOf(rows)[i] : i \in DOMAIN rows})
         /\ \A i \in DOMAIN rows :
              /\ EntriesOf(rows)[i].id = rows[i].id
              /\ EntriesOf(rows)[i].timestamp = rows[i].timestamp
              /\ EntriesOf(rows)[i].level = rows[i].level
              /\ EntriesOf(rows)[i].message = rows[i].message
              /\ "message" \in DOMAIN EntriesOf(rows)[i]
<1> DEFINE entries == EntriesOf(rows)
<1>1. DOMAIN entries = DOMAIN rows /\ \A i \in DOMAIN rows : entries[i] = LogEntry(rows[i])
  BY DEF EntriesOf
<1>2. \A i \in DOMAIN rows : rows[i] \in LogsOf(sc)
  OBVIOUS
<1>3. \A r \in LogsOf(sc) :
        /\ LogEntry(r).id = r.id /\ LogEntry(r).timestamp = r.timestamp
        /\ LogEntry(r).level = r.level /\ LogEntry(r).message = r.message
        /\ "message" \in DOMAIN LogEntry(r)
  BY DEF LogsOf, LogEntry, Get
<1> DEFINE T == {entries[i] : i \in DOMAIN rows}
<1>4. entries \in [1..Len(rows) -> T] /\ Len(rows) \in Nat
  BY <1>1 DEF EntriesOf
<1> HIDE DEF entries, T
<1>5. entries \in Seq(T)
  BY <1>4
<1> QED BY <1>1, <1>2, <1>3, <1>5 DEF entries, T

\* What a cluster tells of the rows that carry its message.
TellsOf(c, rows, m) ==
  /\ c.message = m
  /\ c.count = Cardinality(Carrying(rows, m))
  /\ c.level = Normalize(rows[Least(Carrying(rows, m))].level)
  /\ \E j \in Carrying(rows, m) : rows[j].id = c.sample_id
  /\ \A j \in Carrying(rows, m) : rows[j].timestamp \in c.first_seen..c.last_seen

LEMMA ClusterTells ==
  ASSUME NEW sc \in Scenarios, NEW rows \in Seq(LogsOf(sc)), NEW m, Carrying(rows, m) # {}
  PROVE  TellsOf(Cluster(With(EntriesOf(rows), "message", m)), rows, m)
<1> DEFINE entries == EntriesOf(rows)
<1> DEFINE T == {entries[i] : i \in DOMAIN rows}
<1> DEFINE P == Carrying(rows, m)
<1> DEFINE n == Cardinality(P)
<1> DEFINE group == With(entries, "message", m)
<1> DEFINE c == Cluster(group)
<1> DEFINE times == {group[i].timestamp : i \in DOMAIN group}
<1>1. /\ DOMAIN entries = DOMAIN rows /\ entries \in Seq(T)
      /\ \A i \in DOMAIN rows :
           /\ entries[i].id = rows[i].id /\ entries[i].timestamp = rows[i].timestamp
           /\ entries[i].level = rows[i].level /\ entries[i].message = rows[i].message
           /\ "message" \in DOMAIN entries[i]
  BY EntriesAreRows
<1>2. DOMAIN rows = 1..Len(rows) /\ Len(rows) \in Nat /\ IsFiniteSet(DOMAIN rows)
  BY DomainIsFinite
<1> HIDE DEF entries, T
<1>3. group = ItemsAt(entries, P)
  <2>1. P = {i \in DOMAIN entries : Get(entries[i], "message", None) = m}
    BY <1>1 DEF Carrying, Get
  <2> QED BY <2>1 DEF With
<1>4. P \in SUBSET DOMAIN entries /\ P # {} /\ P \in SUBSET DOMAIN rows
      /\ (\A i \in P : rows[i].message = m)
  BY <1>1 DEF Carrying
<1>5. /\ c.message = group[1].message /\ c.count = Len(group)
      /\ c.level = Normalize(group[1].level) /\ c.sample_id = group[1].id
      /\ c.first_seen = Least(times) /\ c.last_seen = Most(times)
  BY DEF Cluster
<1> HIDE DEF P, group, c
<1>6. n \in Nat /\ ItemsAt(entries, P) \in Seq(T) /\ Len(ItemsAt(entries, P)) = n
  BY <1>1, <1>4, ItemsAtPositions
<1>7. Elements(ItemsAt(entries, P)) = {entries[i] : i \in P}
  BY <1>1, <1>4, ItemsAtElements
<1>8. \E j \in P : ItemsAt(entries, P)[1] = entries[j] /\ \A l \in P : j <= l
  BY <1>1, <1>4, FirstItem
<1>9. PICK j \in P : group[1] = entries[j] /\ \A l \in P : j <= l
  BY <1>3, <1>8
<1>10. IsFiniteSet(P) /\ P \in SUBSET Int
  BY <1>2, <1>4, FS_Subset
<1>11. Least(P) = j
  <2>1. Least(P) \in P /\ \A y \in P : Least(P) <= y
    BY <1>4, <1>10, LeastAndMost
  <2>2. Least(P) <= j /\ j <= Least(P) /\ j \in Int /\ Least(P) \in Int
    BY <1>9, <1>10, <2>1
  <2> QED BY <2>2
<1>12. times = {rows[i].timestamp : i \in P}
  <2>1. times = {g.timestamp : g \in Elements(group)}
    BY DEF Elements
  <2>2. Elements(group) = {entries[i] : i \in P}
    BY <1>3, <1>7
  <2> HIDE DEF times
  <2> QED BY <1>1, <1>4, <2>1, <2>2
<1> HIDE DEF times
<1>13. times \in SUBSET Int /\ times # {} /\ IsFiniteSet(times)
  <2>1. \A i \in P : rows[i].timestamp \in Int
    <3>1. \A l \in LogsOf(sc) : l.timestamp \in Int
      BY IdsAreNumbered
    <3> QED BY <1>4, <3>1
  <2> DEFINE f == [i \in P |-> rows[i].timestamp]
  <2>2. f \in Surjection(P, times)
    BY <1>12 DEF Surjection
  <2>3. IsFiniteSet(times)
    BY <1>10, <2>2, FS_Surjection
  <2> QED BY <1>4, <1>12, <2>1, <2>3
<1>14. \A i \in P : rows[i].timestamp \in Least(times)..Most(times)
  <2>1. /\ Least(times) \in times /\ \A y \in times : Least(times) <= y
        /\ Most(times) \in times /\ \A y \in times : Most(times) >= y
    BY <1>13, LeastAndMost
  <2> SUFFICES ASSUME NEW i \in P PROVE rows[i].timestamp \in Least(times)..Most(times)
    OBVIOUS
  <2>2. rows[i].timestamp \in times /\ Least(times) \in Int /\ Most(times) \in Int
        /\ rows[i].timestamp \in Int
    BY <1>12, <1>13, <2>1
  <2> QED BY <2>1, <2>2
<1>15. /\ c.message = m /\ c.level = Normalize(rows[Least(P)].level)
       /\ \E i \in P : rows[i].id = c.sample_id
  BY <1>1, <1>4, <1>5, <1>9, <1>11
<1>16. /\ c.message = m /\ c.count = Cardinality(P)
       /\ c.level = Normalize(rows[Least(P)].level)
       /\ \E i \in P : rows[i].id = c.sample_id
       /\ \A i \in P : rows[i].timestamp \in c.first_seen..c.last_seen
  BY <1>3, <1>5, <1>6, <1>14, <1>15
<1>17. TellsOf(c, rows, m)
  BY <1>16 DEF TellsOf, P
<1> QED BY <1>17 DEF c, group, entries

\* The messages of a list, each once, in the order they first appear.
EachOnce(messages, sc, rows) ==
  /\ messages \in Seq(sc.messages) /\ Apart(messages, DOMAIN messages)
  /\ Elements(messages) = {rows[i].message : i \in DOMAIN rows}

LEMMA DistinctMessages ==
  ASSUME NEW sc \in Scenarios, NEW rows \in Seq(LogsOf(sc))
  PROVE  EachOnce(Distinct(EntriesOf(rows), "message"), sc, rows)
<1> DEFINE messages == Distinct(EntriesOf(rows), "message")
<1> DEFINE entries == EntriesOf(rows)
<1> DEFINE T == {entries[i] : i \in DOMAIN rows}
<1> DEFINE F == {i \in DOMAIN entries :
                   \A j \in 1..(i - 1) : entries[j].message # entries[i].message}
<1> DEFINE firsts == ItemsAt(entries, F)
<1>1. /\ DOMAIN entries = DOMAIN rows /\ entries \in Seq(T)
      /\ \A i \in DOMAIN rows : entries[i].message = rows[i].message
  BY EntriesAreRows
<1>2. DOMAIN rows = 1..Len(rows) /\ Len(rows) \in Nat /\ IsFiniteSet(DOMAIN rows)
  BY DomainIsFinite
<1>3. messages = [k \in DOMAIN firsts |-> firsts[k].message]
  BY DEF Distinct
<1> HIDE DEF messages
<1>4. \A i \in DOMAIN rows : rows[i].message \in sc.messages
  <2>1. \A l \in LogsOf(sc) : l.message \in sc.messages
    BY DEF LogsOf
  <2> QED BY <2>1
<1> HIDE DEF entries, T
<1>5. F \in SUBSET DOMAIN entries
  OBVIOUS
<1> HIDE DEF F, firsts, messages
<1> DEFINE n == Cardinality(F)
<1>6. /\ n \in Nat /\ ItemsAt(entries, F) \in Seq(T) /\ Len(ItemsAt(entries, F)) = n
      /\ \E p \in [1..n -> F] :
           /\ \A m \in 1..n : ItemsAt(entries, F)[m] = entries[p[m]]
           /\ \A i \in F : \E m \in 1..n : p[m] = i
           /\ \A m, l \in 1..n : m < l <=> p[m] < p[l]
  <2>1. entries \in Seq(T)
    BY <1>1
  <2>2. n \in Nat /\ ItemsAt(entries, F) \in Seq(T) /\ Len(ItemsAt(entries, F)) = n
    BY <1>5, <2>1, ItemsAtPositions
  <2>3. PICK p : InOrder(p, F) /\ (\A k \in 1..Cardinality(F) : ItemsAt(entries, F)[k] = entries[p[k]])
    BY <1>5, <2>1, ItemsInOrder
  <2> QED BY <2>2, <2>3 DEF InOrder
<1> HIDE DEF n
<1> USE DEF firsts
<1>7. PICK p \in [1..n -> F] :
           /\ \A m \in 1..n : firsts[m] = entries[p[m]]
           /\ \A i \in F : \E m \in 1..n : p[m] = i
           /\ \A m, l \in 1..n : m < l <=> p[m] < p[l]
  BY <1>6
<1>8. DOMAIN firsts = 1..n
  BY <1>6
<1> HIDE DEF firsts
<1>9. DOMAIN messages = 1..n /\ \A k \in 1..n : /\ p[k] \in F /\ p[k] \in DOMAIN rows
                                                /\ messages[k] = rows[p[k]].message
  <2>1. \A k \in 1..n : p[k] \in F /\ p[k] \in DOMAIN rows
    BY <1>1, <1>5, <1>7
  <2>2. \A k \in 1..n : messages[k] = firsts[k].message
    BY <1>3, <1>8
  <2> QED BY <1>1, <1>3, <1>7, <1>8, <2>1, <2>2
<1>10. messages \in Seq(sc.messages)
  <2>1. messages \in [1..n -> sc.messages]
    <3>1. \A k \in 1..n : messages[k] \in sc.messages
      BY <1>4, <1>9
    <3>2. messages = [k \in 1..n |-> messages[k]]
      BY <1>3, <1>8
    <3> QED BY <3>1, <3>2
  <2> QED BY <1>6, <2>1
<1>11. ASSUME NEW k \in 1..n, NEW l \in 1..n, k < l PROVE messages[k] # messages[l]
  <2>1. p[k] < p[l] /\ p[k] \in DOMAIN rows /\ p[l] \in F /\ p[l] \in DOMAIN rows
    BY <1>7, <1>9, <1>11
  <2>2. p[k] \in 1..(p[l] - 1)
    BY <1>2, <2>1
  <2>3. entries[p[k]].message # entries[p[l]].message
    BY <2>1, <2>2 DEF F
  <2> QED BY <1>1, <1>9, <2>1, <2>3
<1>12. Apart(messages, DOMAIN messages)
  <2> SUFFICES ASSUME NEW k \in 1..n, NEW l \in 1..n, messages[k] = messages[l] PROVE k = l
    BY <1>9 DEF Apart
  <2>1. ~(k < l) /\ ~(l < k)
    BY <1>11
  <2> QED BY <1>6, <2>1
<1>13. ASSUME NEW i \in DOMAIN rows PROVE \E k \in 1..n : messages[k] = rows[i].message
  <2> DEFINE P == Carrying(rows, rows[i].message)
  <2>1. P \in SUBSET Int /\ IsFiniteSet(P) /\ P # {}
    <3>1. P \subseteq DOMAIN rows /\ i \in P
      BY DEF Carrying
    <3> QED BY <1>2, <3>1, FS_Subset
  <2> DEFINE j == Least(P)
  <2> HIDE DEF P
  <2>2. j \in P /\ \A y \in P : j <= y
    BY <2>1, LeastAndMost
  <2> HIDE DEF j
  <2>3. j \in DOMAIN rows /\ rows[j].message = rows[i].message
    BY <2>2 DEF P, Carrying
  <2>4. ASSUME NEW l \in 1..(j - 1) PROVE rows[l].message # rows[j].message
    <3>1. l \in DOMAIN rows /\ l < j /\ l \in Int /\ j \in Int
      BY <1>2, <2>3
    <3>2. l \notin P
      BY <2>2, <3>1
    <3> QED BY <2>3, <3>1, <3>2 DEF P, Carrying
  <2>5. \A l \in 1..(j - 1) : l \in DOMAIN rows
    BY <1>2, <2>3
  <2>6. j \in F
    BY <1>1, <2>3, <2>4, <2>5 DEF F
  <2>7. PICK k \in 1..n : p[k] = j
    BY <1>7, <2>6
  <2> QED BY <1>9, <2>3, <2>7
<1>14. Elements(messages) = {rows[i].message : i \in DOMAIN rows}
  <2>1. \A k \in DOMAIN messages : \E i \in DOMAIN rows : messages[k] = rows[i].message
    BY <1>9
  <2>2. \A i \in DOMAIN rows : \E k \in DOMAIN messages : rows[i].message = messages[k]
    BY <1>9, <1>13
  <2> QED BY <2>1, <2>2 DEF Elements
<1> QED BY <1>10, <1>12, <1>14 DEF EachOnce, messages

\* Sorting by severity and then size is sorting by a hundred of the one and the other,
\* while no cluster has more than a hundred rows.
Standing(clusters) ==
  [i \in DOMAIN clusters |-> -(100 * Get(Severity, clusters[i].level, 0) + clusters[i].count)]

LEMMA SeverityIsSmall == \A level : Get(Severity, level, 0) \in 0..4
<1>1. \A level \in DOMAIN Severity : Severity[level] \in 0..4
  BY DEF Severity
<1> QED BY <1>1 DEF Get

Between(n) == n \in Int /\ 1 <= n /\ n <= 100

LEMMA SortedByStanding ==
  ASSUME NEW T, NEW clusters \in Seq(T), \A i \in DOMAIN clusters : Between(clusters[i].count)
  PROVE  /\ Standing(clusters) \in [DOMAIN clusters -> Int]
         /\ Sorted(clusters, Outranks) =
              Ordered(clusters, KeyOrder(DOMAIN clusters, Standing(clusters)))
<1> DEFINE D == DOMAIN clusters
<1> DEFINE sev == [i \in D |-> Get(Severity, clusters[i].level, 0)]
<1>1. \A i \in D : sev[i] \in 0..4
  BY SeverityIsSmall
<1>2. \A i \in D : Standing(clusters)[i] = -(100 * sev[i] + clusters[i].count)
  BY DEF Standing
<1>3. \A i, j \in D : Outranks(clusters[i], clusters[j]) <=>
        \/ sev[i] > sev[j]
        \/ sev[i] = sev[j] /\ clusters[i].count > clusters[j].count
  BY DEF Outranks
<1> HIDE DEF sev
<1>4. Standing(clusters) \in [D -> Int]
  <2>1. \A i \in D : sev[i] \in Int /\ clusters[i].count \in Int
    BY <1>1 DEF Between
  <2>2. \A i \in D : Standing(clusters)[i] \in Int
    BY <1>2, <2>1
  <2>3. Standing(clusters) = [i \in D |-> Standing(clusters)[i]]
    BY DEF Standing
  <2> QED BY <2>2, <2>3
<1>5. \A i, j \in D : Outranks(clusters[i], clusters[j]) <=>
        Standing(clusters)[i] < Standing(clusters)[j]
  <2> SUFFICES ASSUME NEW i \in D, NEW j \in D
               PROVE  Outranks(clusters[i], clusters[j]) <=>
                        Standing(clusters)[i] < Standing(clusters)[j]
    OBVIOUS
  <2>1. /\ sev[i] \in 0..4 /\ sev[j] \in 0..4
        /\ Between(clusters[i].count) /\ Between(clusters[j].count)
    BY <1>1
  <2>2. \A s, t \in 0..4, m, n \in Int : Between(m) /\ Between(n) =>
          (s > t \/ (s = t /\ m > n) <=> -(100 * s + m) < -(100 * t + n))
    BY DEF Between
  <2>3. /\ Standing(clusters)[i] = -(100 * sev[i] + clusters[i].count)
        /\ Standing(clusters)[j] = -(100 * sev[j] + clusters[j].count)
    BY <1>2
  <2>4. Outranks(clusters[i], clusters[j]) <=>
          sev[i] > sev[j] \/ (sev[i] = sev[j] /\ clusters[i].count > clusters[j].count)
    BY <1>3
  <2> DEFINE s == sev[i]
  <2> DEFINE t == sev[j]
  <2> DEFINE m == clusters[i].count
  <2> DEFINE n == clusters[j].count
  <2>5. m \in Int /\ n \in Int
    BY <2>1 DEF Between
  <2>6. s \in 0..4 /\ t \in 0..4 /\ Between(m) /\ Between(n)
    BY <2>1
  <2> HIDE DEF s, t, m, n
  <2>7. s > t \/ (s = t /\ m > n) <=> -(100 * s + m) < -(100 * t + n)
    BY <2>2, <2>5, <2>6
  <2> QED BY <2>3, <2>4, <2>7 DEF s, t, m, n
<1>6. KeyOrder(D, Standing(clusters)) =
        {pair \in D \X D : \/ Outranks(clusters[pair[1]], clusters[pair[2]])
                           \/ ~Outranks(clusters[pair[2]], clusters[pair[1]]) /\ pair[1] < pair[2]}
  BY <1>5 DEF KeyOrder
<1>7. Sorted(clusters, Outranks) = Ordered(clusters,
        {pair \in D \X D : \/ Outranks(clusters[pair[1]], clusters[pair[2]])
                           \/ ~Outranks(clusters[pair[2]], clusters[pair[1]]) /\ pair[1] < pair[2]})
  BY DEF Sorted
<1> QED BY <1>4, <1>6, <1>7

\* What the rows that carry a message weigh.
WeightOf(rows, m) ==
  100 * Get(Severity, Normalize(rows[Least(Carrying(rows, m))].level), 0)
    + Cardinality(Carrying(rows, m))

\* The clusters of a summary: first those that weigh most, of all there are.
Heaviest(top, rows, k) ==
  /\ Len(top) = Fewer(k, Cardinality({rows[i].message : i \in DOMAIN rows}))
  /\ \A i \in DOMAIN top :
       /\ TellsOf(top[i], rows, top[i].message)
       /\ \A m \in {rows[j].message : j \in DOMAIN rows} \ {top[j].message : j \in 1..i} :
            WeightOf(rows, m) <= WeightOf(rows, top[i].message)

LEMMA ClustersWeigh ==
  ASSUME NEW sc \in Scenarios, NEW rows \in Seq(LogsOf(sc)), Len(rows) <= 100, NEW k \in Nat
  PROVE  Heaviest(SummarizeLogs(rows, k).top_clusters, rows, k)
<1> DEFINE all == {rows[i].message : i \in DOMAIN rows}
<1> DEFINE messages == Distinct(EntriesOf(rows), "message")
<1> DEFINE clusters == [q \in DOMAIN messages |->
                          Cluster(With(EntriesOf(rows), "message", messages[q]))]
<1> DEFINE D == DOMAIN messages
<1> DEFINE key == Standing(clusters)
<1> DEFINE S == Sorted(clusters, Outranks)
<1> DEFINE top == Upto(S, k)
<1>1. SummarizeLogs(rows, k).top_clusters = top
  BY DEF SummarizeLogs, EntriesOf
<1>2. EachOnce(messages, sc, rows)
  BY DistinctMessages
<1> HIDE DEF messages
<1>3. /\ messages \in Seq(sc.messages) /\ Apart(messages, D) /\ Elements(messages) = all
      /\ D = 1..Len(messages) /\ Len(messages) \in Nat /\ IsFiniteSet(D)
      /\ Cardinality(D) = Len(messages)
  <2>1. messages \in Seq(sc.messages) /\ Apart(messages, D) /\ Elements(messages) = all
    BY <1>2 DEF EachOnce
  <2> QED BY <2>1, DomainIsFinite
<1>4. IsFiniteSet(all) /\ Len(messages) = Cardinality(all)
  <2>1. At(messages, D) = all
    BY <1>3 DEF At, Elements
  <2>2. IsFiniteSet(At(messages, D)) /\ Cardinality(At(messages, D)) = Cardinality(D)
    BY <1>3, ApartAreAsMany
  <2> HIDE DEF all
  <2> QED BY <1>3, <2>1, <2>2
<1>5. ASSUME NEW m \in all
      PROVE  /\ Carrying(rows, m) # {} /\ Between(Cardinality(Carrying(rows, m)))
  <2> DEFINE P == Carrying(rows, m)
  <2>1. P # {} /\ P \in SUBSET DOMAIN rows
    BY DEF Carrying
  <2>2. IsFiniteSet(DOMAIN rows) /\ Cardinality(DOMAIN rows) = Len(rows) /\ Len(rows) \in Nat
    BY DomainIsFinite
  <2> HIDE DEF P
  <2>3. IsFiniteSet(P) /\ Cardinality(P) <= Len(rows)
    BY <2>1, <2>2, FS_Subset
  <2>4. Cardinality(P) \in Nat /\ Cardinality(P) # 0
    BY <2>1, <2>3, FS_CardinalityType, FS_EmptySet
  <2>5. Len(rows) <= 100 /\ Len(rows) \in Nat
    BY <2>2
  <2>6. Between(Cardinality(P))
    BY <2>3, <2>4, <2>5 DEF Between
  <2> QED BY <2>1, <2>6 DEF P
<1>6. \A q \in D : messages[q] \in all
  BY <1>3 DEF Elements
<1>7. ASSUME NEW q \in D
      PROVE  TellsOf(clusters[q], rows, messages[q]) /\ Between(clusters[q].count)
  <2>1. Carrying(rows, messages[q]) # {} /\ Between(Cardinality(Carrying(rows, messages[q])))
    BY <1>5, <1>6
  <2>2. TellsOf(Cluster(With(EntriesOf(rows), "message", messages[q])), rows, messages[q])
    BY <2>1, ClusterTells
  <2>3. clusters[q] = Cluster(With(EntriesOf(rows), "message", messages[q]))
    OBVIOUS
  <2> HIDE DEF clusters
  <2>4. TellsOf(clusters[q], rows, messages[q])
    BY <2>2, <2>3
  <2> QED BY <2>1, <2>4 DEF TellsOf
<1> DEFINE T == {clusters[q] : q \in D}
<1>8. DOMAIN clusters = D /\ clusters \in [1..Len(messages) -> T]
  BY <1>3
<1> HIDE DEF clusters, T, all
<1>9. clusters \in Seq(T) /\ Len(clusters) = Len(messages)
  BY <1>3, <1>8
<1>10. key \in [D -> Int] /\ S = Ordered(clusters, KeyOrder(D, key))
  <2>1. \A q \in DOMAIN clusters : Between(clusters[q].count)
    BY <1>7, <1>8
  <2> QED BY <1>8, <1>9, <2>1, SortedByStanding
<1>11. \A q \in D : key[q] = -WeightOf(rows, messages[q])
  <2> SUFFICES ASSUME NEW q \in D PROVE key[q] = -WeightOf(rows, messages[q])
    OBVIOUS
  <2>1. key[q] = -(100 * Get(Severity, clusters[q].level, 0) + clusters[q].count)
    BY <1>8 DEF Standing
  <2> QED BY <1>7, <2>1 DEF TellsOf, WeightOf
<1> HIDE DEF key, S
<1>12. /\ S \in Seq(T) /\ Len(S) = Len(messages) /\ DOMAIN S = D
       /\ \E p : Arranges(S, p, clusters, key)
  <2>1. key \in [DOMAIN clusters -> Int] /\ S = Ordered(clusters, KeyOrder(DOMAIN clusters, key))
    BY <1>8, <1>10
  <2> QED BY <1>8, <1>9, <2>1, SortedByKey
<1>13. PICK p : Arranges(S, p, clusters, key)
  BY <1>12
<1>14. /\ top \in Seq(T)
       /\ Len(top) = IF k < Len(S) THEN k ELSE Len(S)
       /\ \A i \in DOMAIN top : i \in DOMAIN S /\ top[i] = S[i]
  BY <1>12, UptoPrefix
<1> HIDE DEF top
<1>15. DOMAIN top = 1..Len(top) /\ Len(top) \in Nat
  BY <1>14
<1>16. ASSUME NEW i \in DOMAIN top
       PROVE  /\ i \in D /\ p[i] \in D /\ top[i] = clusters[p[i]]
              /\ top[i].message = messages[p[i]] /\ TellsOf(top[i], rows, top[i].message)
  <2>1. i \in D /\ p[i] \in D /\ top[i] = clusters[p[i]]
    BY <1>8, <1>12, <1>13, <1>14 DEF Arranges
  <2>2. TellsOf(top[i], rows, messages[p[i]])
    BY <1>7, <2>1
  <2>3. top[i].message = messages[p[i]]
    BY <2>2 DEF TellsOf
  <2> QED BY <2>1, <2>2, <2>3
<1>17. \A m \in all : WeightOf(rows, m) \in Int
  <2> SUFFICES ASSUME NEW m \in all PROVE WeightOf(rows, m) \in Int
    OBVIOUS
  <2> DEFINE s == Get(Severity, Normalize(rows[Least(Carrying(rows, m))].level), 0)
  <2> DEFINE n == Cardinality(Carrying(rows, m))
  <2>1. s \in 0..4 /\ n \in Int
    BY <1>5, SeverityIsSmall DEF Between
  <2>2. WeightOf(rows, m) = 100 * s + n
    BY DEF WeightOf
  <2> HIDE DEF s, n
  <2> QED BY <2>1, <2>2
<1>18. ASSUME NEW i \in DOMAIN top, NEW m \in all \ {top[j].message : j \in 1..i}
       PROVE  WeightOf(rows, m) <= WeightOf(rows, top[i].message)
  <2>1. PICK q \in D : m = messages[q]
    BY <1>3 DEF Elements
  <2>2. PICK l \in D : p[l] = q
    BY <1>8, <1>13 DEF Arranges
  <2>3. i \in D /\ p[i] \in D /\ top[i].message = messages[p[i]]
    BY <1>16
  <2>4. ~(l <= i)
    <3> SUFFICES ASSUME l <= i PROVE FALSE
      OBVIOUS
    <3>1. l \in DOMAIN top /\ l \in 1..i
      BY <1>3, <1>15, <2>3
    <3>2. top[l].message = messages[q]
      BY <1>16, <2>2, <3>1
    <3> QED BY <2>1, <3>1, <3>2
  <2>5. i < l
    BY <1>3, <2>3, <2>4
  <2>6. key[p[i]] < key[q] \/ key[p[i]] = key[q]
    BY <1>8, <1>13, <2>2, <2>3, <2>5 DEF Arranges
  <2>7. /\ key[p[i]] = -WeightOf(rows, top[i].message) /\ key[q] = -WeightOf(rows, m)
        /\ WeightOf(rows, top[i].message) \in Int /\ WeightOf(rows, m) \in Int
    <3>1. messages[p[i]] \in all /\ m \in all
      BY <1>6, <2>3
    <3> QED BY <1>11, <1>17, <2>1, <2>3, <3>1
  <2> QED BY <2>6, <2>7
<1>19. Len(top) = Fewer(k, Cardinality(all))
  BY <1>4, <1>12, <1>14 DEF Fewer
<1>20. \A i \in DOMAIN top :
         /\ TellsOf(top[i], rows, top[i].message)
         /\ \A m \in all \ {top[j].message : j \in 1..i} :
              WeightOf(rows, m) <= WeightOf(rows, top[i].message)
  BY <1>16, <1>18
<1>21. Heaviest(top, rows, k)
  BY <1>19, <1>20, Zenon DEF Heaviest, all
<1> QED BY <1>1, <1>21

LEMMA ClustersOfService ==
  ASSUME FixtureInv, NEW service, NEW k \in Limits
  PROVE  /\ SearchLogs(files, service, "", 100) \in Seq(LogsOf(scenario))
         /\ FieldOf(SearchLogs(files, service, "", 100), "message") =
              {SearchLogs(files, service, "", 100)[i].message :
                 i \in DOMAIN SearchLogs(files, service, "", 100)}
         /\ Heaviest(SummarizeLogs(SearchLogs(files, service, "", 100), k).top_clusters,
                     SearchLogs(files, service, "", 100), k)
<1> DEFINE logs == With(files.logs, "service", service)
<1> DEFINE rows == SearchLogs(files, service, "", 100)
<1>1. scenario \in Scenarios /\ files.logs \in Seq(LogsOf(scenario)) /\ k \in Nat
  BY RowsOnDisk, LimitAssumption
<1>2. logs \in Seq(LogsOf(scenario))
  BY <1>1, WithGives
<1>3. rows = Upto(logs, 100)
  BY DEF SearchLogs
<1> HIDE DEF logs, rows
<1>4. rows \in Seq(LogsOf(scenario)) /\ Len(rows) <= 100
  <2> DEFINE limit == 100
  <2>1. limit \in Nat
    OBVIOUS
  <2> HIDE DEF limit
  <2>2. /\ Upto(logs, limit) \in Seq(LogsOf(scenario))
        /\ Len(Upto(logs, limit)) = IF limit < Len(logs) THEN limit ELSE Len(logs)
    BY <1>2, <2>1, UptoPrefix
  <2>3. Len(logs) \in Nat
    BY <1>2
  <2>4. rows \in Seq(LogsOf(scenario))
    BY <1>3, <2>2 DEF limit
  <2>5. Len(rows) = IF 100 < Len(logs) THEN 100 ELSE Len(logs)
    BY <1>3, <2>2 DEF limit
  <2>6. Len(rows) <= 100
    BY <2>3, <2>5
  <2> QED BY <2>4, <2>6
<1>5. Heaviest(SummarizeLogs(rows, k).top_clusters, rows, k)
  BY <1>1, <1>4, ClustersWeigh
<1>6. FieldOf(rows, "message") = {rows[i].message : i \in DOMAIN rows}
  <2>1. \A l \in LogsOf(scenario) : l.message # None
    BY <1>1, ScenarioAssumption DEF LogsOf
  <2>2. \A i \in DOMAIN rows : rows[i] \in LogsOf(scenario)
    BY <1>4
  <2> QED BY <2>1, <2>2 DEF FieldOf
<1> QED BY <1>4, <1>5, <1>6 DEF rows

\* The levels of a summary, and how many rows have each.
CountedByLevel(dist, rows) ==
  \A l \in DOMAIN dist : \E i \in DOMAIN rows :
    /\ Normalize(rows[i].level) = l
    /\ dist[l] = Cardinality({j \in DOMAIN rows :
         Normalize(rows[j].level) = Normalize(rows[i].level)})

LEMMA LevelsAreCounted ==
  ASSUME NEW sc \in Scenarios, NEW rows \in Seq(LogsOf(sc)), NEW k, NEW dist,
         dist = SummarizeLogs(rows, k).level_distribution
  PROVE  CountedByLevel(dist, rows)
<1> DEFINE entries == EntriesOf(rows)
<1> DEFINE levels == {Normalize(entries[i].level) : i \in DOMAIN entries}
<1>1. dist = [l \in levels |-> Cardinality({i \in DOMAIN entries : Normalize(entries[i].level) = l})]
  BY DEF SummarizeLogs, EntriesOf
<1>2. DOMAIN entries = DOMAIN rows /\ \A i \in DOMAIN rows : entries[i].level = rows[i].level
  BY EntriesAreRows
<1> HIDE DEF entries
<1>3. ASSUME NEW l \in DOMAIN dist
      PROVE  \E i \in DOMAIN rows :
               /\ Normalize(rows[i].level) = l
               /\ dist[l] = Cardinality({j \in DOMAIN rows :
                    Normalize(rows[j].level) = Normalize(rows[i].level)})
  <2>1. PICK i \in DOMAIN rows : Normalize(rows[i].level) = l
    BY <1>1, <1>2
  <2>2. {j \in DOMAIN entries : Normalize(entries[j].level) = l} =
          {j \in DOMAIN rows : Normalize(rows[j].level) = Normalize(rows[i].level)}
    BY <1>2, <2>1
  <2>3. dist[l] = Cardinality({j \in DOMAIN entries : Normalize(entries[j].level) = l})
    BY <1>1
  <2> QED BY <2>1, <2>2, <2>3
<1> QED BY <1>3 DEF CountedByLevel

LEMMA ClustersAreInOrder == FixtureInv => ClustersRank
<1> DEFINE rows(service) == SearchLogs(files, service, "", 100)
<1> DEFINE top(service, k) == SummarizeLogs(rows(service), k).top_clusters
<1> DEFINE dist(service, k) == SummarizeLogs(rows(service), k).level_distribution
<1> SUFFICES ASSUME FixtureInv, NEW service \in Names, NEW k \in Limits
    PROVE
      /\ Len(top(service, k)) = Fewer(k, Cardinality(FieldOf(rows(service), "message")))
      /\ \A i \in DOMAIN top(service, k) :
           /\ top(service, k)[i].count =
                Cardinality(Carrying(rows(service), top(service, k)[i].message))
           /\ \E j \in Carrying(rows(service), top(service, k)[i].message) :
                rows(service)[j].id = top(service, k)[i].sample_id
           /\ \A j \in Carrying(rows(service), top(service, k)[i].message) :
                rows(service)[j].timestamp \in
                  top(service, k)[i].first_seen..top(service, k)[i].last_seen
           /\ \A m \in FieldOf(rows(service), "message")
                        \ {top(service, k)[j].message : j \in 1..i} :
                WeightOf(rows(service), m) <= WeightOf(rows(service), top(service, k)[i].message)
      /\ \A l \in DOMAIN dist(service, k) : \E i \in DOMAIN rows(service) :
           /\ Normalize(rows(service)[i].level) = l
           /\ dist(service, k)[l] = Cardinality({j \in DOMAIN rows(service) :
                Normalize(rows(service)[j].level) = Normalize(rows(service)[i].level)})
  BY Zenon DEF ClustersRank, WeightOf, Carrying
<1> DEFINE R == rows(service)
<1> DEFINE first == top(service, k)
<1> DEFINE levels == dist(service, k)
<1>1. /\ R \in Seq(LogsOf(scenario))
      /\ FieldOf(R, "message") = {R[i].message : i \in DOMAIN R}
      /\ Heaviest(first, R, k)
  BY ClustersOfService
<1>2. scenario \in Scenarios
  BY RowsOnDisk
<1>3. levels = SummarizeLogs(R, k).level_distribution
  OBVIOUS
<1> HIDE DEF R, first, levels
<1>4. CountedByLevel(levels, R)
  BY <1>1, <1>2, <1>3, LevelsAreCounted
<1>5. /\ Len(first) = Fewer(k, Cardinality(FieldOf(R, "message")))
      /\ \A i \in DOMAIN first :
           /\ TellsOf(first[i], R, first[i].message)
           /\ \A m \in FieldOf(R, "message") \ {first[j].message : j \in 1..i} :
                WeightOf(R, m) <= WeightOf(R, first[i].message)
  BY <1>1 DEF Heaviest
<1>6. \A i \in DOMAIN first :
           /\ first[i].count = Cardinality(Carrying(R, first[i].message))
           /\ \E j \in Carrying(R, first[i].message) : R[j].id = first[i].sample_id
           /\ \A j \in Carrying(R, first[i].message) :
                R[j].timestamp \in first[i].first_seen..first[i].last_seen
  BY <1>5 DEF TellsOf
<1>7. \A l \in DOMAIN levels : \E i \in DOMAIN R :
           /\ Normalize(R[i].level) = l
           /\ levels[l] = Cardinality({j \in DOMAIN R :
                Normalize(R[j].level) = Normalize(R[i].level)})
  BY <1>4, Zenon DEF CountedByLevel
<1>8. \A i \in DOMAIN first :
           /\ first[i].count = Cardinality(Carrying(R, first[i].message))
           /\ \E j \in Carrying(R, first[i].message) : R[j].id = first[i].sample_id
           /\ \A j \in Carrying(R, first[i].message) :
                R[j].timestamp \in first[i].first_seen..first[i].last_seen
           /\ \A m \in FieldOf(R, "message") \ {first[j].message : j \in 1..i} :
                WeightOf(R, m) <= WeightOf(R, first[i].message)
  BY <1>5, <1>6, Zenon
<1> QED BY <1>5, <1>7, <1>8, ZenonT(40) DEF R, first, levels

\* The clusters shown are whole, and none is left out for one that is less severe
\* or as severe and rarer (retrieval/signals.py:35-69).
THEOREM ClustersAreRanked == Spec => []ClustersRank
  BY ClustersAreInOrder, FixturesAreSound, PTL

-----------------------------------------------------------------------------
(* Metrics. *)

\* A list is made of all its items.
LEMMA AllItems ==
  ASSUME NEW T, NEW list \in Seq(T)
  PROVE  ItemsAt(list, DOMAIN list) = list
<1> DEFINE D == DOMAIN list
<1> DEFINE Place(i) == Cardinality({j \in D : j < i}) + 1
<1>1. D = 1..Len(list) /\ Len(list) \in Nat /\ Cardinality(D) = Len(list)
  BY DomainIsFinite
<1>2. ASSUME NEW i \in D PROVE Place(i) = i
  <2>1. {j \in D : j < i} = 1..(i - 1) /\ i - 1 \in Nat
    BY <1>1
  <2>2. Cardinality(1..(i - 1)) = i - 1
    BY <2>1, FS_Interval
  <2>3. Place(i) = (i - 1) + 1
    BY <2>1, <2>2
  <2> QED BY <1>1, <2>3
<1>3. ItemsAt(list, D) = [k \in 1..Cardinality(D) |-> list[CHOOSE i \in D : Place(i) = k]]
  BY DEF ItemsAt
<1> HIDE DEF Place
<1>4. \A k \in D : (CHOOSE i \in D : Place(i) = k) = k
  BY <1>2
<1>5. ItemsAt(list, D) = [k \in D |-> list[k]]
  BY <1>1, <1>3, <1>4
<1>6. list = [k \in D |-> list[k]]
  BY <1>1
<1> QED BY <1>5, <1>6

\* The items at places S of a list, in time: w[1], w[2], ... are their places.
Lined(line, w, rows, S) ==
  /\ DOMAIN line = 1..Cardinality(S) /\ w \in [1..Cardinality(S) -> S]
  /\ \A k \in 1..Cardinality(S) : line[k] = rows[w[k]]
  /\ \A i \in S : \E k \in 1..Cardinality(S) : w[k] = i
  /\ \A k, l \in 1..Cardinality(S) : k < l =>
       \/ rows[w[k]].timestamp < rows[w[l]].timestamp
       \/ rows[w[k]].timestamp = rows[w[l]].timestamp /\ w[k] < w[l]

LEMMA SeriesInTime ==
  ASSUME NEW T, Dated(T), NEW rows \in Seq(T), NEW S \in SUBSET DOMAIN rows
  PROVE  /\ Sorted(ItemsAt(rows, S), Earlier) \in Seq(T)
         /\ \E w : Lined(Sorted(ItemsAt(rows, S), Earlier), w, rows, S)
<1> DEFINE series == ItemsAt(rows, S)
<1> DEFINE line == Sorted(series, Earlier)
<1> DEFINE n == Cardinality(S)
<1> DEFINE key == [i \in DOMAIN series |-> series[i].timestamp]
<1>1. n \in Nat /\ series \in Seq(T) /\ Len(series) = n
  BY ItemsInOrder
<1>2. PICK p : InOrder(p, S) /\ (\A k \in 1..n : series[k] = rows[p[k]])
  BY ItemsInOrder
<1>3. /\ p \in [1..n -> S] /\ (\A i \in S : \E k \in 1..n : p[k] = i)
      /\ \A k, l \in 1..n : k < l <=> p[k] < p[l]
  BY <1>2, Zenon DEF InOrder
<1> HIDE DEF series, n
<1>4. DOMAIN series = 1..n /\ \A k \in 1..n : series[k] \in T
  BY <1>1
<1>5. key \in [DOMAIN series -> Int] /\ line = Ordered(series, KeyOrder(DOMAIN series, key))
  <2>1. \A k \in DOMAIN series : series[k].timestamp \in Int
    BY <1>4 DEF Dated
  <2>2. key = Times(series)
    BY DEF Times
  <2>3. line = Ordered(series, KeyOrder(DOMAIN series, Times(series)))
    BY SortedByTime
  <2> QED BY <2>1, <2>2, <2>3
<1> HIDE DEF line
<1>6. line \in Seq(T) /\ Len(line) = n /\ DOMAIN line = 1..n /\ \E q : Arranges(line, q, series, key)
  <2>1. /\ line \in Seq(T) /\ Len(line) = Len(series) /\ DOMAIN line = DOMAIN series
        /\ \E q : Arranges(line, q, series, key)
    BY <1>1, <1>5, SortedByKey
  <2> QED BY <1>1, <1>4, <2>1
<1>7. PICK q : Arranges(line, q, series, key)
  BY <1>6
<1>8. /\ \A k \in 1..n : q[k] \in 1..n /\ line[k] = series[q[k]]
      /\ \A i \in 1..n : \E k \in 1..n : q[k] = i
      /\ \A k, l \in 1..n : k < l => key[q[k]] < key[q[l]] \/ (key[q[k]] = key[q[l]] /\ q[k] < q[l])
  BY <1>4, <1>7 DEF Arranges
<1>9. \A k \in 1..n : key[k] = rows[p[k]].timestamp
  BY <1>2, <1>4 DEF n
<1> DEFINE w == [k \in 1..n |-> p[q[k]]]
<1>10. \A k \in 1..n : w[k] \in S /\ w[k] = p[q[k]] /\ line[k] = rows[w[k]]
                       /\ rows[w[k]].timestamp = key[q[k]]
  BY <1>2, <1>3, <1>8, <1>9 DEF n
<1>11. w \in [1..n -> S]
  BY <1>10
<1>12. ASSUME NEW i \in S PROVE \E k \in 1..n : w[k] = i
  <2>1. PICK l \in 1..n : p[l] = i
    BY <1>3
  <2>2. PICK k \in 1..n : q[k] = l
    BY <1>8
  <2> QED BY <1>10, <2>1, <2>2
<1> HIDE DEF w, key
<1>13. ASSUME NEW k \in 1..n, NEW l \in 1..n, k < l
       PROVE  \/ rows[w[k]].timestamp < rows[w[l]].timestamp
              \/ rows[w[k]].timestamp = rows[w[l]].timestamp /\ w[k] < w[l]
  <2>1. q[k] \in 1..n /\ q[l] \in 1..n
    BY <1>8
  <2>2. q[k] < q[l] => w[k] < w[l]
    BY <1>3, <1>10, <2>1
  <2>3. key[q[k]] < key[q[l]] \/ (key[q[k]] = key[q[l]] /\ q[k] < q[l])
    BY <1>8, <1>13
  <2> QED BY <1>10, <2>2, <2>3
<1>14. Lined(line, w, rows, S)
  BY <1>6, <1>10, <1>11, <1>12, <1>13, Zenon DEF Lined, n
<1> QED BY <1>6, <1>14 DEF line, series

\* The earliest is that of the first of the rows as early as any, the latest that of
\* the last of those as late.
LEMMA EndsOfLine ==
  ASSUME NEW T, Dated(T), NEW rows \in Seq(T), NEW S \in SUBSET DOMAIN rows, S # {},
         NEW line, NEW w, Lined(line, w, rows, S)
  PROVE  /\ Cardinality(S) \in Nat /\ Cardinality(S) > 0
         /\ line[1] = rows[Least({i \in S : \A j \in S : rows[i].timestamp <= rows[j].timestamp})]
         /\ line[Cardinality(S)] =
              rows[Most({i \in S : \A j \in S : rows[i].timestamp >= rows[j].timestamp})]
<1> DEFINE n == Cardinality(S)
<1> DEFINE F == {i \in S : \A j \in S : rows[i].timestamp <= rows[j].timestamp}
<1> DEFINE G == {i \in S : \A j \in S : rows[i].timestamp >= rows[j].timestamp}
<1>1. DOMAIN rows = 1..Len(rows) /\ IsFiniteSet(DOMAIN rows)
  BY DomainIsFinite
<1>2. IsFiniteSet(S) /\ S \in SUBSET Int
  BY <1>1, FS_Subset
<1>3. n \in Nat /\ n > 0
  BY <1>2, FS_CardinalityType, FS_EmptySet
<1>4. \A i \in S : rows[i].timestamp \in Int /\ i \in Int
  <2>1. \A i \in S : rows[i] \in T
    OBVIOUS
  <2> QED BY <1>2, <2>1 DEF Dated
<1>5. /\ \A k \in 1..n : w[k] \in S /\ line[k] = rows[w[k]]
      /\ \A i \in S : \E k \in 1..n : w[k] = i
      /\ \A k, l \in 1..n : k < l =>
           \/ rows[w[k]].timestamp < rows[w[l]].timestamp
           \/ rows[w[k]].timestamp = rows[w[l]].timestamp /\ w[k] < w[l]
  BY DEF Lined
<1> HIDE DEF n
<1>6. 1 \in 1..n /\ n \in 1..n
  BY <1>3
<1>7. ASSUME NEW i \in S
      PROVE  /\ rows[w[1]].timestamp <= rows[i].timestamp
             /\ rows[i].timestamp = rows[w[1]].timestamp => w[1] <= i
             /\ rows[i].timestamp <= rows[w[n]].timestamp
             /\ rows[i].timestamp = rows[w[n]].timestamp => i <= w[n]
  <2>1. PICK k \in 1..n : w[k] = i
    BY <1>5
  <2>2. w[1] \in S /\ w[n] \in S
    BY <1>5, <1>6
  <2>3. /\ rows[w[1]].timestamp \in Int /\ rows[i].timestamp \in Int
        /\ rows[w[n]].timestamp \in Int /\ w[1] \in Int /\ w[n] \in Int /\ i \in Int
    BY <1>4, <2>2
  <2>4. \/ k = 1
        \/ rows[w[1]].timestamp < rows[i].timestamp
        \/ rows[w[1]].timestamp = rows[i].timestamp /\ w[1] < i
    BY <1>3, <1>5, <1>6, <2>1
  <2>5. \/ k = n
        \/ rows[i].timestamp < rows[w[n]].timestamp
        \/ rows[i].timestamp = rows[w[n]].timestamp /\ i < w[n]
    BY <1>3, <1>5, <1>6, <2>1
  <2> QED BY <2>1, <2>3, <2>4, <2>5
<1>8. w[1] \in F /\ (\A i \in F : w[1] <= i) /\ w[n] \in G /\ (\A i \in G : w[n] >= i)
  <2>1. w[1] \in S /\ w[n] \in S
    BY <1>5, <1>6
  <2>2. \A j \in S : rows[w[1]].timestamp <= rows[j].timestamp
    BY <1>7
  <2>3. \A j \in S : rows[w[n]].timestamp >= rows[j].timestamp
    BY <1>4, <1>7, <2>1
  <2>4. ASSUME NEW i \in F PROVE w[1] <= i
    <3>1. i \in S /\ rows[i].timestamp <= rows[w[1]].timestamp
      BY <2>1
    <3> QED BY <1>4, <1>7, <2>1, <3>1
  <2>5. ASSUME NEW i \in G PROVE w[n] >= i
    <3>1. i \in S /\ rows[i].timestamp >= rows[w[n]].timestamp
      BY <2>1
    <3> QED BY <1>4, <1>7, <2>1, <3>1
  <2> QED BY <2>1, <2>2, <2>3, <2>4, <2>5
<1>9. F \in SUBSET S /\ G \in SUBSET S
  OBVIOUS
<1> HIDE DEF F, G
<1>10. F \in SUBSET Int /\ IsFiniteSet(F) /\ F # {} /\ G \in SUBSET Int /\ IsFiniteSet(G) /\ G # {}
  BY <1>2, <1>8, <1>9, FS_Subset
<1>11. Least(F) \in F /\ (\A y \in F : Least(F) <= y)
  BY <1>10, LeastAndMost
<1>12. Most(G) \in G /\ (\A y \in G : Most(G) >= y)
  BY <1>10, LeastAndMost
<1>13. Least(F) = w[1] /\ Most(G) = w[n]
  <2>1. Least(F) <= w[1] /\ w[1] <= Least(F) /\ Most(G) <= w[n] /\ w[n] <= Most(G)
    BY <1>8, <1>10, <1>11, <1>12
  <2>2. Least(F) \in Int /\ w[1] \in Int /\ Most(G) \in Int /\ w[n] \in Int
    BY <1>8, <1>10, <1>11, <1>12
  <2> QED BY <2>1, <2>2
<1>14. line[1] = rows[Least(F)] /\ line[n] = rows[Most(G)]
  BY <1>5, <1>6, <1>13
<1> QED BY <1>3, <1>14 DEF n, F, G

\* How many of the values at S are below v, and how many at or below it.
Below(rows, S, v) == Cardinality({i \in S : rows[i].value < v})
UpTo(rows, S, v) == Cardinality({i \in S : rows[i].value <= v})
Valued(T) == \A r \in T : r.value \in Nat

LEMMA SortedByValue ==
  ASSUME NEW vals
  PROVE  Sorted(vals, Smaller) = Ordered(vals, KeyOrder(DOMAIN vals, vals))
<1> DEFINE D == DOMAIN vals
<1>1. Sorted(vals, Smaller) = Ordered(vals,
        {pair \in D \X D : \/ vals[pair[1]] < vals[pair[2]]
                           \/ ~(vals[pair[2]] < vals[pair[1]]) /\ pair[1] < pair[2]})
  BY DEF Sorted, Smaller
<1> QED BY <1>1 DEF KeyOrder

LEMMA ValuesByRank ==
  ASSUME NEW T, Dated(T), Valued(T), NEW rows \in Seq(T), NEW S \in SUBSET DOMAIN rows,
         NEW line, NEW w, Lined(line, w, rows, S),
         NEW values,
         values = Sorted([i \in 1..Cardinality(S) |-> line[i].value], Smaller)
  PROVE  /\ values \in Seq(Nat) /\ Len(values) = Cardinality(S) /\ Cardinality(S) \in Nat
         /\ \A m \in 1..Cardinality(S) : /\ Below(rows, S, values[m]) < m
                                         /\ UpTo(rows, S, values[m]) >= m
<1> DEFINE n == Cardinality(S)
<1> DEFINE D == 1..n
<1> DEFINE vals == [i \in D |-> line[i].value]
<1>1. IsFiniteSet(S) /\ n \in Nat
  BY DomainIsFinite, FS_Subset, FS_CardinalityType
<1>2. values = Sorted(vals, Smaller)
  OBVIOUS
<1>3. values = Ordered(vals, KeyOrder(DOMAIN vals, vals))
  BY <1>2, SortedByValue
<1> HIDE DEF n
<1>4. /\ w \in [D -> S] /\ (\A k \in D : line[k] = rows[w[k]])
      /\ \A i \in S : \E k \in D : w[k] = i
      /\ \A k, l \in D : k < l => \/ rows[w[k]].timestamp < rows[w[l]].timestamp
                                  \/ rows[w[k]].timestamp = rows[w[l]].timestamp /\ w[k] < w[l]
  BY Zenon DEF Lined, n
<1>5. \A k \in D : w[k] \in S /\ vals[k] = rows[w[k]].value /\ vals[k] \in Nat
  <2>1. \A i \in S : rows[i] \in T
    OBVIOUS
  <2> QED BY <1>4, <2>1 DEF Valued
<1>6. vals \in [1..n -> Nat] /\ DOMAIN vals = D
  BY <1>5
<1> HIDE DEF vals
<1>7. vals \in Seq(Nat) /\ vals \in [DOMAIN vals -> Int] /\ Len(vals) = n
  BY <1>1, <1>6
<1>8. /\ values \in Seq(Nat) /\ Len(values) = Len(vals) /\ DOMAIN values = DOMAIN vals
      /\ \E p : Arranges(values, p, vals, vals)
  <2>1. vals \in Seq(Nat)
    BY <1>7
  <2>2. vals \in [DOMAIN vals -> Int]
    BY <1>7
  <2>3. /\ values \in Seq(Nat) /\ Len(values) = Len(vals) /\ DOMAIN values = DOMAIN vals
        /\ Elements(values) = Elements(vals)
        /\ \E p : Arranges(values, p, vals, vals)
    BY <1>3, <2>1, <2>2, SortedByKey, ZenonT(30)
  <2> QED BY <2>3
<1>9. PICK p : Arranges(values, p, vals, vals)
  BY <1>8
<1>10. Apart(w, D)
  <2> SUFFICES ASSUME NEW k \in D, NEW l \in D, w[k] = w[l] PROVE k = l
    BY DEF Apart
  <2>1. w[k] \in Int
    <3>1. DOMAIN rows \subseteq Int
      BY DomainIsFinite
    <3> QED BY <1>5, <3>1
  <2>2. ~(k < l) /\ ~(l < k)
    <3>1. ASSUME NEW i \in D, NEW j \in D, w[i] = w[j], w[i] \in Int, i < j PROVE FALSE
      <4>1. \/ rows[w[i]].timestamp < rows[w[j]].timestamp
            \/ rows[w[i]].timestamp = rows[w[j]].timestamp /\ w[i] < w[j]
        BY <1>4, <3>1
      <4>2. rows[w[i]] \in T
        BY <1>5
      <4>3. rows[w[i]].timestamp \in Int
        BY <4>2 DEF Dated
      <4> QED BY <3>1, <4>1, <4>3
    <3> QED BY <2>1, <3>1
  <2> QED BY <1>1, <2>2
<1>11. ASSUME NEW A \in SUBSET D, NEW B \in SUBSET S, \A k \in D : k \in A <=> w[k] \in B
       PROVE  Cardinality(B) = Cardinality(A)
  <2>1. B = At(w, A)
    BY <1>4, <1>11 DEF At
  <2>2. IsFiniteSet(A) /\ Apart(w, A)
    <3>1. IsFiniteSet(D)
      BY <1>1, FS_Interval
    <3> QED BY <1>10, <3>1, FS_Subset DEF Apart
  <2> QED BY <2>1, <2>2, ApartAreAsMany
<1>12. ASSUME NEW m \in D
       PROVE  Below(rows, S, values[m]) < m /\ UpTo(rows, S, values[m]) >= m
  <2> DEFINE A == {k \in D : vals[k] < vals[p[m]]}
  <2> DEFINE B == {k \in D : vals[k] <= vals[p[m]]}
  <2>1. m \in Nat /\ m - 1 \in Nat /\ m <= m /\ m > m - 1
    BY <1>1
  <2>1a. vals \in Seq(Nat) /\ vals \in [DOMAIN vals -> Int] /\ m \in DOMAIN vals
    BY <1>6, <1>7
  <2>2. m <= m => Cardinality({j \in DOMAIN vals : vals[j] < vals[p[m]]}) < m
    BY <1>9, <2>1, <2>1a, Leaders
  <2>3. m > m - 1 => Cardinality({j \in DOMAIN vals : vals[j] <= vals[p[m]]}) > m - 1
    BY <1>9, <2>1, <2>1a, Leaders
  <2>4. values[m] = vals[p[m]]
    BY <1>6, <1>9 DEF Arranges
  <2>5. Cardinality({i \in S : rows[i].value < values[m]}) = Cardinality(A)
    <3>1. \A k \in D : k \in A <=> w[k] \in {i \in S : rows[i].value < values[m]}
      BY <1>5, <2>4
    <3>2. A \in SUBSET D /\ {i \in S : rows[i].value < values[m]} \in SUBSET S
      OBVIOUS
    <3> HIDE DEF A
    <3> QED BY <1>11, <3>1, <3>2
  <2>6. Cardinality({i \in S : rows[i].value <= values[m]}) = Cardinality(B)
    <3>1. \A k \in D : k \in B <=> w[k] \in {i \in S : rows[i].value <= values[m]}
      BY <1>5, <2>4
    <3>2. B \in SUBSET D /\ {i \in S : rows[i].value <= values[m]} \in SUBSET S
      OBVIOUS
    <3> HIDE DEF B
    <3> QED BY <1>11, <3>1, <3>2
  <2>7. Cardinality(A) < m /\ Cardinality(B) > m - 1
    BY <1>6, <2>1, <2>2, <2>3
  <2>8. Cardinality(B) \in Nat
    <3>1. IsFiniteSet(D) /\ B \subseteq D
      BY <1>1, FS_Interval
    <3> HIDE DEF B
    <3> QED BY <3>1, FS_Subset, FS_CardinalityType
  <2> HIDE DEF A, B
  <2>9. Cardinality(B) >= m
    BY <2>1, <2>7, <2>8
  <2> QED BY <2>5, <2>6, <2>7, <2>9 DEF Below, UpTo
<1> QED BY <1>1, <1>7, <1>8, <1>12 DEF n

\* A percentile is no more than a rank from what it says.
TellsPct(rows, S, p, v) ==
  /\ 100 * Below(rows, S, v) < p * Cardinality(S)
  /\ p * Cardinality(S) < 100 * (UpTo(rows, S, v) + 1)

LEMMA PctTells ==
  ASSUME NEW S, IsFiniteSet(S), Cardinality(S) > 0, NEW rows,
         NEW values \in Seq(Nat), Len(values) = Cardinality(S),
         \A m \in 1..Cardinality(S) : /\ Below(rows, S, values[m]) < m
                                      /\ UpTo(rows, S, values[m]) >= m,
         NEW p \in {50, 95, 99}
  PROVE  TellsPct(rows, S, p, Pct(values, p))
<1> DEFINE n == Cardinality(S)
<1> DEFINE i == (p * n) \div 100
<1> DEFINE m == IF i < 1 THEN 1 ELSE i
<1>1. n \in Nat /\ n > 0
  BY FS_CardinalityType
<1>2. \A v : Below(rows, S, v) \in Nat /\ UpTo(rows, S, v) \in Nat
  BY FS_Subset, FS_CardinalityType DEF Below, UpTo
<1>3. Pct(values, p) = values[m]
  BY DEF Pct
<1> HIDE DEF n
<1>4. /\ p * n \in Nat /\ p * n > 0 /\ p * n < 100 * n
      /\ i \in Nat /\ 100 * i <= p * n /\ p * n < 100 * i + 100
  BY <1>1
<1>5. m \in 1..n
  BY <1>1, <1>4
<1> DEFINE v == values[m]
<1>6. Below(rows, S, v) < m /\ UpTo(rows, S, v) >= m
  BY <1>5 DEF n
<1> DEFINE b == Below(rows, S, v)
<1> DEFINE u == UpTo(rows, S, v)
<1>7. b \in Nat /\ u \in Nat /\ b < m /\ u >= m
  BY <1>2, <1>6
<1> DEFINE c == p * n
<1>8. c = p * n
  OBVIOUS
<1> HIDE DEF v, b, u, i, c
<1>9. 100 * b < c /\ c < 100 * (u + 1)
  BY <1>4, <1>7, <1>8
<1> QED BY <1>3, <1>8, <1>9 DEF TellsPct, n, b, u, v

\* What the earliest and the latest of the rows at S say.
FirstAt(rows, S) ==
  rows[Least({i \in S : \A j \in S : rows[i].timestamp <= rows[j].timestamp})].value
LastAt(rows, S) ==
  rows[Most({i \in S : \A j \in S : rows[i].timestamp >= rows[j].timestamp})].value

TellsOfMetric(st, rows, S) ==
  /\ TellsPct(rows, S, 50, st.p50) /\ TellsPct(rows, S, 95, st.p95)
  /\ TellsPct(rows, S, 99, st.p99)
  /\ FirstAt(rows, S) \in Nat /\ LastAt(rows, S) \in Nat
  /\ st.count \in Nat /\ st.count > 0
  /\ st.count = 1 => FirstAt(rows, S) = LastAt(rows, S)
  /\ st.change_ratio = IF FirstAt(rows, S) = 0 THEN << >>
                       ELSE <<Hundredths(LastAt(rows, S), FirstAt(rows, S))>>

LEMMA StatsTell ==
  ASSUME NEW T, Dated(T), Valued(T), NEW rows \in Seq(T), NEW S \in SUBSET DOMAIN rows, S # {}
  PROVE  TellsOfMetric(MetricStats(ItemsAt(rows, S)), rows, S)
<1> DEFINE series == ItemsAt(rows, S)
<1> DEFINE st == MetricStats(series)
<1> DEFINE line == Sorted(series, Earlier)
<1> DEFINE n == Cardinality(S)
<1> DEFINE values == Sorted([i \in 1..n |-> line[i].value], Smaller)
<1> DEFINE first == line[1].value
<1> DEFINE last == line[n].value
<1>1. n \in Nat /\ DOMAIN series = 1..n /\ IsFiniteSet(S)
  <2>1. n \in Nat /\ series \in Seq(T) /\ Len(series) = n
    BY ItemsInOrder
  <2>2. IsFiniteSet(S)
    BY DomainIsFinite, FS_Subset
  <2> HIDE DEF series
  <2> QED BY <2>1, <2>2
<1>2. line \in Seq(T) /\ \E w : Lined(line, w, rows, S)
  BY SeriesInTime
<1>3. PICK w : Lined(line, w, rows, S)
  BY <1>2
<1>4. Len(line) = n
  <2>1. DOMAIN line = 1..n
    BY <1>3 DEF Lined
  <2> HIDE DEF line, n
  <2> QED BY <1>1, <1>2, <2>1
<1>5. /\ st.count = Len(values) /\ st.p50 = Pct(values, 50) /\ st.p95 = Pct(values, 95)
      /\ st.p99 = Pct(values, 99)
      /\ st.change_ratio = IF first = 0 THEN << >> ELSE <<Hundredths(last, first)>>
  BY <1>1, <1>4 DEF MetricStats
<1> HIDE DEF st, series
<1>6. values = Sorted([i \in 1..Cardinality(S) |-> line[i].value], Smaller)
  OBVIOUS
<1> HIDE DEF values, line
<1>7. /\ n > 0
      /\ line[1] = rows[Least({i \in S : \A j \in S : rows[i].timestamp <= rows[j].timestamp})]
      /\ line[n] = rows[Most({i \in S : \A j \in S : rows[i].timestamp >= rows[j].timestamp})]
  BY <1>3, EndsOfLine
<1>8. first = FirstAt(rows, S) /\ last = LastAt(rows, S)
  BY <1>7 DEF FirstAt, LastAt
<1>9. /\ values \in Seq(Nat) /\ Len(values) = n
      /\ \A m \in 1..n : /\ Below(rows, S, values[m]) < m
                         /\ UpTo(rows, S, values[m]) >= m
  BY <1>3, <1>6, ValuesByRank
<1>10. \A p \in {50, 95, 99} : TellsPct(rows, S, p, Pct(values, p))
  BY <1>1, <1>7, <1>9, PctTells
<1>11. TellsPct(rows, S, 50, st.p50) /\ TellsPct(rows, S, 95, st.p95) /\ TellsPct(rows, S, 99, st.p99)
  BY <1>5, <1>10
<1>12. first \in Nat /\ last \in Nat
  <2>1. 1 \in DOMAIN line /\ n \in DOMAIN line
    BY <1>1, <1>2, <1>4, <1>7
  <2>2. line[1] \in T /\ line[n] \in T
    BY <1>2, <2>1
  <2> QED BY <2>2 DEF Valued
<1> QED BY <1>1, <1>5, <1>7, <1>8, <1>9, <1>11, <1>12 DEF TellsOfMetric, st, series

-----------------------------------------------------------------------------
(* Ratios, and the flags they raise. *)

LEMMA Quotient ==
  ASSUME NEW a \in Nat, NEW b \in Nat, b > 0
  PROVE  a \div b \in Nat /\ b * (a \div b) <= a /\ a < b * (a \div b) + b
  OBVIOUS

\* What a ratio in hundredths says of the values it was made of.
LEMMA RatioTells ==
  ASSUME NEW first \in Nat, first > 0, NEW last \in Nat, NEW r, r = Hundredths(last, first)
  PROVE  /\ r \in Nat
         /\ r > 300 <=> 200 * last >= 601 * first
         /\ r < 34 <=> 200 * last < 67 * first
         /\ r > 0 <=> 200 * last >= first
<1> DEFINE a == 200 * last + first
<1> DEFINE b == 2 * first
<1>1. a \in Nat /\ b \in Nat /\ b > 0 /\ r = a \div b
  BY DEF Hundredths
<1> HIDE DEF a, b
<1>2. r \in Nat /\ b * r <= a /\ a < b * r + b
  BY <1>1, Quotient
<1>3. \A c \in Nat : r >= c => b * r >= b * c
  BY <1>1, <1>2
<1>4. \A c \in Nat : r + 1 <= c => b * r + b <= b * c
  <2>1. \A c \in Nat : r + 1 <= c => b * (r + 1) <= b * c
    BY <1>1, <1>2
  <2>2. b * (r + 1) = b * r + b
    BY <1>1, <1>2
  <2> QED BY <2>1, <2>2
<1>5. \A c \in Nat : r >= c <=> a >= b * c
  <2> SUFFICES ASSUME NEW c \in Nat PROVE r >= c <=> a >= b * c
    OBVIOUS
  <2>1. b * c \in Int /\ b * r \in Int
    BY <1>1, <1>2
  <2>2. CASE r >= c
    BY <1>1, <1>2, <1>3, <2>1, <2>2
  <2>3. CASE ~(r >= c)
    <3>1. r + 1 <= c
      BY <1>2, <2>3
    <3>2. b * r + b <= b * c
      BY <1>4, <3>1
    <3>3. a < b * c
      BY <1>1, <1>2, <2>1, <3>2
    <3> QED BY <1>1, <2>1, <2>3, <3>3
  <2> QED BY <2>2, <2>3
<1>6. (r >= 301 <=> a >= b * 301) /\ (r >= 34 <=> a >= b * 34) /\ (r >= 1 <=> a >= b * 1)
  BY <1>5
<1>7. (r >= 301 <=> r > 300) /\ (r >= 34 <=> ~(r < 34)) /\ (r >= 1 <=> r > 0)
  BY <1>2
<1>8. /\ a >= b * 301 <=> 200 * last >= 601 * first
      /\ a >= b * 34 <=> ~(200 * last < 67 * first)
      /\ a >= b * 1 <=> 200 * last >= first
  BY DEF a, b
<1> QED BY <1>2, <1>6, <1>7, <1>8

\* A metric is flagged, and how.
FlagsTell(flagged, way, first, last) ==
  /\ flagged /\ way = "spike" => first > 0 /\ last > 3 * first
  /\ first > 0 /\ 100 * last >= 301 * first => flagged /\ way = "spike"
  /\ flagged /\ way = "drop" => 200 * last <= 67 * first
  /\ first < 200 * last /\ 3 * last <= first => flagged /\ way = "drop"
  /\ first = 0 \/ 200 * last < first => ~flagged

LEMMA FlagsAreRight ==
  ASSUME NEW first \in Nat, NEW last \in Nat, NEW count \in Nat, count > 0,
         count = 1 => first = last,
         NEW change, change = IF first = 0 THEN << >> ELSE <<Hundredths(last, first)>>,
         NEW flagged \in BOOLEAN,
         flagged <=> change # << >> /\ count >= 2 /\ Anomalous(change[1], 3),
         NEW way, flagged => way = IF change[1] > 100 THEN "spike" ELSE "drop"
  PROVE  FlagsTell(flagged, way, first, last)
<1>1. CASE first = 0
  <2>1. ~flagged
    BY <1>1
  <2>2. ~(first < 200 * last /\ 3 * last <= first)
    BY <1>1
  <2> QED BY <1>1, <2>1, <2>2 DEF FlagsTell
<1>2. CASE first # 0
  <2> DEFINE r == Hundredths(last, first)
  <2>1. /\ r \in Nat
        /\ r > 300 <=> 200 * last >= 601 * first
        /\ r < 34 <=> 200 * last < 67 * first
        /\ r > 0 <=> 200 * last >= first
    <3>1. first > 0
      BY <1>2
    <3> QED BY <3>1, RatioTells
  <2>2. change = <<r>> /\ change # << >> /\ change[1] = r
    BY <1>2
  <2> HIDE DEF r
  <2>3. flagged <=> count >= 2 /\ (r > 300 \/ (0 < r /\ r * 3 < 100))
    BY <2>1, <2>2 DEF Anomalous
  <2>4. r * 3 < 100 <=> r < 34
    BY <2>1
  <2>5. flagged => way = IF r > 100 THEN "spike" ELSE "drop"
    BY <2>2
  <2>6. flagged /\ way = "spike" => first > 0 /\ last > 3 * first
    BY <1>2, <2>1, <2>3, <2>4, <2>5
  <2>7. flagged /\ way = "drop" => 200 * last <= 67 * first
    BY <1>2, <2>1, <2>3, <2>4, <2>5
  <2>8. 100 * last >= 301 * first => flagged /\ way = "spike"
    BY <1>2, <2>1, <2>3, <2>4, <2>5
  <2>9. first < 200 * last /\ 3 * last <= first => flagged /\ way = "drop"
    BY <1>2, <2>1, <2>3, <2>4, <2>5
  <2>10. 200 * last < first => ~flagged
    BY <1>2, <2>1, <2>3, <2>4
  <2> QED BY <1>2, <2>6, <2>7, <2>8, <2>9, <2>10 DEF FlagsTell
<1> QED BY <1>1, <1>2

\* What a summary says of a metric.
SummaryTells(told, rows, n) ==
  /\ TellsOfMetric(told.summary[n], rows, {i \in DOMAIN rows : rows[i].metric = n})
  /\ FlagsTell(n \in DOMAIN told.anomalies, told.anomalies[n],
               FirstAt(rows, {i \in DOMAIN rows : rows[i].metric = n}),
               LastAt(rows, {i \in DOMAIN rows : rows[i].metric = n}))

LEMMA SummaryOfMetrics ==
  ASSUME NEW sc \in Scenarios, NEW rows \in Seq(MetricsOf(sc)),
         NEW told, told = SummarizeMetrics(rows, 3)
  PROVE  /\ DOMAIN told.summary = FieldOf(rows, "metric")
         /\ DOMAIN told.anomalies \subseteq DOMAIN told.summary
         /\ \A n \in DOMAIN told.summary : SummaryTells(told, rows, n)
<1> DEFINE T == MetricsOf(sc)
<1> DEFINE Of(n) == {i \in DOMAIN rows : rows[i].metric = n}
<1>1. Dated(T) /\ Valued(T)
  <2>1. sc.times \subseteq Int /\ sc.values \subseteq Nat
    BY ScenarioAssumption
  <2> QED BY <2>1 DEF MetricsOf, Dated, Valued
<1>2. \A i \in DOMAIN rows : rows[i] \in T
  OBVIOUS
<1>3. \A r \in T : {"metric", "value"} \subseteq DOMAIN r /\ Get(r, "metric", None) = r.metric
                   /\ r.metric # None
  BY ScenarioAssumption DEF MetricsOf, Get
<1>4. Points(rows) = rows
  <2>1. {i \in DOMAIN rows : {"metric", "value"} \subseteq DOMAIN rows[i]} = DOMAIN rows
    BY <1>2, <1>3
  <2>2. ItemsAt(rows, DOMAIN rows) = rows
    BY AllItems
  <2> QED BY <2>1, <2>2 DEF Points
<1> DEFINE names == {rows[i].metric : i \in DOMAIN rows}
<1> DEFINE stats == [n \in names |-> MetricStats(With(rows, "metric", n))]
<1> DEFINE odd == {n \in names : /\ stats[n].change_ratio # <<>> /\ stats[n].count >= 2
                                 /\ Anomalous(stats[n].change_ratio[1], 3)}
<1>5. /\ told.summary = stats
      /\ told.anomalies = [n \in odd |->
           IF stats[n].change_ratio[1] > 100 THEN "spike" ELSE "drop"]
  BY <1>4 DEF SummarizeMetrics
<1>6. names = FieldOf(rows, "metric")
  BY <1>2, <1>3 DEF FieldOf
<1>7. ASSUME NEW n \in names PROVE With(rows, "metric", n) = ItemsAt(rows, Of(n))
  <2>1. Of(n) = {i \in DOMAIN rows : Get(rows[i], "metric", None) = n}
    BY <1>2, <1>3
  <2> QED BY <2>1 DEF With
<1> HIDE DEF T
<1>8. ASSUME NEW n \in names PROVE TellsOfMetric(stats[n], rows, Of(n))
  <2> DEFINE S == Of(n)
  <2>1. S \in SUBSET DOMAIN rows /\ S # {}
    OBVIOUS
  <2>2. stats[n] = MetricStats(ItemsAt(rows, S))
    BY <1>7
  <2> HIDE DEF S, stats
  <2>3. rows \in Seq(T)
    BY DEF T
  <2>4. TellsOfMetric(MetricStats(ItemsAt(rows, S)), rows, S)
    BY <1>1, <2>1, <2>3, StatsTell
  <2> QED BY <2>2, <2>4 DEF S
<1> HIDE DEF stats
<1>9. ASSUME NEW n \in names
      PROVE  FlagsTell(n \in DOMAIN told.anomalies, told.anomalies[n],
                       FirstAt(rows, Of(n)), LastAt(rows, Of(n)))
  <2> DEFINE first == FirstAt(rows, Of(n))
  <2> DEFINE last == LastAt(rows, Of(n))
  <2> DEFINE count == stats[n].count
  <2> DEFINE change == stats[n].change_ratio
  <2> DEFINE flagged == n \in DOMAIN told.anomalies
  <2> DEFINE way == told.anomalies[n]
  <2>1. /\ first \in Nat /\ last \in Nat /\ count \in Nat /\ count > 0
        /\ count = 1 => first = last
        /\ change = IF first = 0 THEN << >> ELSE <<Hundredths(last, first)>>
    BY <1>8 DEF TellsOfMetric
  <2>2. /\ flagged \in BOOLEAN
        /\ flagged <=> change # << >> /\ count >= 2 /\ Anomalous(change[1], 3)
        /\ flagged => way = IF change[1] > 100 THEN "spike" ELSE "drop"
    BY <1>5
  <2> HIDE DEF first, last, count, change, flagged, way
  <2>3. FlagsTell(flagged, way, first, last)
    BY <2>1, <2>2, FlagsAreRight
  <2> QED BY <2>3 DEF first, last, flagged, way
<1>10. DOMAIN told.summary = names /\ DOMAIN told.anomalies \subseteq names
  BY <1>5 DEF stats
<1>11. \A n \in names : SummaryTells(told, rows, n)
  BY <1>5, <1>8, <1>9 DEF SummaryTells
<1> QED BY <1>6, <1>10, <1>11

LEMMA MetricsAreTold == FixtureInv => MetricsTold
<1> DEFINE rows(service) == GetMetrics(files, service, 100)
<1> DEFINE told(service) == SummarizeMetrics(rows(service), 3)
<1> DEFINE Of(service, n) == {i \in DOMAIN rows(service) : rows(service)[i].metric = n}
<1> DEFINE Pc(service, n, p, v) ==
      /\ 100 * Cardinality({i \in Of(service, n) : rows(service)[i].value < v})
           < p * Cardinality(Of(service, n))
      /\ p * Cardinality(Of(service, n))
           < 100 * (Cardinality({i \in Of(service, n) : rows(service)[i].value <= v}) + 1)
<1> DEFINE First(service, n) == rows(service)[Least({i \in Of(service, n) : \A j \in Of(service, n) :
             rows(service)[i].timestamp <= rows(service)[j].timestamp})].value
<1> DEFINE Last(service, n) == rows(service)[Most({i \in Of(service, n) : \A j \in Of(service, n) :
             rows(service)[i].timestamp >= rows(service)[j].timestamp})].value
<1> DEFINE Flagged(service, n, way) ==
      n \in DOMAIN told(service).anomalies /\ told(service).anomalies[n] = way
<1> SUFFICES ASSUME FixtureInv, NEW service \in Names
    PROVE
      /\ DOMAIN told(service).summary = FieldOf(rows(service), "metric")
      /\ DOMAIN told(service).anomalies \subseteq DOMAIN told(service).summary
      /\ \A n \in DOMAIN told(service).summary :
          /\ Pc(service, n, 50, told(service).summary[n].p50)
          /\ Pc(service, n, 95, told(service).summary[n].p95)
          /\ Pc(service, n, 99, told(service).summary[n].p99)
          /\ Flagged(service, n, "spike") =>
               First(service, n) > 0 /\ Last(service, n) > 3 * First(service, n)
          /\ First(service, n) > 0 /\ 100 * Last(service, n) >= 301 * First(service, n) =>
               Flagged(service, n, "spike")
          /\ Flagged(service, n, "drop") => 200 * Last(service, n) <= 67 * First(service, n)
          /\ First(service, n) < 200 * Last(service, n) /\ 3 * Last(service, n) <= First(service, n)
               => Flagged(service, n, "drop")
          /\ First(service, n) = 0 \/ 200 * Last(service, n) < First(service, n)
               => n \notin DOMAIN told(service).anomalies
  BY Zenon DEF MetricsTold
<1> DEFINE R == rows(service)
<1> DEFINE t == told(service)
<1>1. scenario \in Scenarios /\ R \in Seq(MetricsOf(scenario))
  <2>1. scenario \in Scenarios /\ files.metrics \in Seq(MetricsOf(scenario)) /\ 100 \in Nat
    BY RowsOnDisk
  <2> DEFINE all == With(files.metrics, "service", service)
  <2>2. all \in Seq(MetricsOf(scenario))
    BY <2>1, WithGives
  <2>3. R = Upto(all, 100)
    BY DEF GetMetrics
  <2> HIDE DEF all
  <2>4. Upto(all, 100) \in Seq(MetricsOf(scenario))
    BY <2>1, <2>2, UptoPrefix
  <2> QED BY <2>1, <2>3, <2>4
<1>2. t = SummarizeMetrics(R, 3)
  OBVIOUS
<1> HIDE DEF R, t
<1>3. /\ DOMAIN t.summary = FieldOf(R, "metric") /\ DOMAIN t.anomalies \subseteq DOMAIN t.summary
      /\ \A n \in DOMAIN t.summary : SummaryTells(t, R, n)
  BY <1>1, <1>2, SummaryOfMetrics
<1>4. \A n \in DOMAIN t.summary :
        /\ TellsOfMetric(t.summary[n], R, {i \in DOMAIN R : R[i].metric = n})
        /\ FlagsTell(n \in DOMAIN t.anomalies, t.anomalies[n],
                     FirstAt(R, {i \in DOMAIN R : R[i].metric = n}),
                     LastAt(R, {i \in DOMAIN R : R[i].metric = n}))
  BY <1>3 DEF SummaryTells
<1>5. ASSUME NEW n \in DOMAIN t.summary
      PROVE  /\ Pc(service, n, 50, t.summary[n].p50) /\ Pc(service, n, 95, t.summary[n].p95)
             /\ Pc(service, n, 99, t.summary[n].p99)
  <2>1. /\ TellsPct(R, {i \in DOMAIN R : R[i].metric = n}, 50, t.summary[n].p50)
        /\ TellsPct(R, {i \in DOMAIN R : R[i].metric = n}, 95, t.summary[n].p95)
        /\ TellsPct(R, {i \in DOMAIN R : R[i].metric = n}, 99, t.summary[n].p99)
    BY <1>4 DEF TellsOfMetric
  <2> QED BY <2>1, Zenon DEF TellsPct, Below, UpTo, R
<1>6. ASSUME NEW n \in DOMAIN t.summary
      PROVE  FlagsTell(n \in DOMAIN t.anomalies, t.anomalies[n],
                       First(service, n), Last(service, n))
  BY <1>4, Zenon DEF FirstAt, LastAt, R
<1> DEFINE F(n) == First(service, n)
<1> DEFINE L(n) == Last(service, n)
<1>7. \A n \in DOMAIN t.summary :
          FlagsTell(n \in DOMAIN t.anomalies, t.anomalies[n], F(n), L(n))
  BY <1>6
<1> HIDE DEF F, L
<1>8. ASSUME NEW n \in DOMAIN t.summary
      PROVE  /\ n \in DOMAIN t.anomalies /\ t.anomalies[n] = "spike" => F(n) > 0 /\ L(n) > 3 * F(n)
             /\ F(n) > 0 /\ 100 * L(n) >= 301 * F(n) =>
                  n \in DOMAIN t.anomalies /\ t.anomalies[n] = "spike"
             /\ n \in DOMAIN t.anomalies /\ t.anomalies[n] = "drop" =>
                  200 * L(n) <= 67 * F(n)
             /\ F(n) < 200 * L(n) /\ 3 * L(n) <= F(n) =>
                  n \in DOMAIN t.anomalies /\ t.anomalies[n] = "drop"
             /\ F(n) = 0 \/ 200 * L(n) < F(n) => n \notin DOMAIN t.anomalies
  BY <1>7, Zenon DEF FlagsTell
<1> HIDE DEF Pc, First, Last, Flagged
<1>9. /\ DOMAIN told(service).summary = FieldOf(rows(service), "metric")
      /\ DOMAIN told(service).anomalies \subseteq DOMAIN told(service).summary
  BY <1>3, Zenon DEF R, t
<1>10. \A n \in DOMAIN told(service).summary :
          /\ Pc(service, n, 50, told(service).summary[n].p50)
          /\ Pc(service, n, 95, told(service).summary[n].p95)
          /\ Pc(service, n, 99, told(service).summary[n].p99)
  BY <1>5, Zenon DEF t
<1>11. \A n \in DOMAIN told(service).summary :
          /\ Flagged(service, n, "spike") =>
               First(service, n) > 0 /\ Last(service, n) > 3 * First(service, n)
          /\ First(service, n) > 0 /\ 100 * Last(service, n) >= 301 * First(service, n) =>
               Flagged(service, n, "spike")
          /\ Flagged(service, n, "drop") => 200 * Last(service, n) <= 67 * First(service, n)
          /\ First(service, n) < 200 * Last(service, n) /\ 3 * Last(service, n) <= First(service, n)
               => Flagged(service, n, "drop")
          /\ First(service, n) = 0 \/ 200 * Last(service, n) < First(service, n)
               => n \notin DOMAIN told(service).anomalies
  BY <1>8, Zenon DEF F, L, t, Flagged
<1> HIDE DEF told, rows
<1> QED BY <1>9, <1>10, <1>11, Zenon

\* Of any points: a percentile is at most a rank off; a metric that moved past the
\* threshold is flagged with the way it went, unless it rose from zero, fell to zero
\* or fell more than two hundred times, which is never flagged; and none is flagged
\* within the threshold, but for what rounding its ratio to hundredths lets through
\* (retrieval/signals.py:74-119).
THEOREM MetricsAreTrue == Spec => []MetricsTold
  BY MetricsAreTold, FixturesAreSound, PTL
=============================================================================
