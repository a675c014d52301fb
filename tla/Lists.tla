-------------------------------- MODULE Lists --------------------------------
(***************************************************************************)
(* Python's lists as sequences: the slice, the comprehension that filters, *)
(* the stable sort.  Each is made of the items at some positions of a      *)
(* list, so it is defined by what stands at each place; recursive          *)
(* definitions of them could be evaluated and not reasoned about.          *)
(***************************************************************************)
EXTENDS Integers, Sequences, FiniteSets

\* list[:k], which for a negative k counts from the end.
Upto(list, k) ==
  LET n == Len(list)
      end == IF k < 0 THEN n + k ELSE IF k < n THEN k ELSE n
  IN SubSeq(list, 1, end)

\* [list[i] for i in range(len(list)) if i in S]
ItemsAt(list, S) ==
  LET Place(i) == Cardinality({j \in S : j < i}) + 1
  IN [k \in 1..Cardinality(S) |-> list[CHOOSE i \in S : Place(i) = k]]

\* [x for x in list if x in S]
Only(list, S) == ItemsAt(list, {i \in DOMAIN list : list[i] \in S})

\* The items in the order of R, a set of pairs of positions: each comes after as
\* many as are ahead of it.
Ordered(list, R) ==
  LET Place(i) == Cardinality({j \in DOMAIN list : <<j, i>> \in R}) + 1
  IN [k \in DOMAIN list |-> list[CHOOSE i \in DOMAIN list : Place(i) = k]]

\* sorted: stable, by a strict weak order.
Sorted(list, Before(_, _)) ==
  LET D == DOMAIN list
  IN Ordered(list, {pair \in D \X D :
       \/ Before(list[pair[1]], list[pair[2]])
       \/ ~Before(list[pair[2]], list[pair[1]]) /\ pair[1] < pair[2]})

Elements(list) == {list[i] : i \in DOMAIN list}

IsSet(list) == \A i, j \in DOMAIN list : list[i] = list[j] => i = j

\* [x for x in list if x in S and x not in seen]: each where it first appears.
Once(list, S) ==
  ItemsAt(list, {i \in DOMAIN list :
    list[i] \in S /\ \A j \in 1..(i - 1) : list[j] # list[i]})

Least(S) == CHOOSE x \in S : \A y \in S : x <= y
Most(S) == CHOOSE x \in S : \A y \in S : x >= y
=============================================================================
