-------------------------------- MODULE Lists --------------------------------
(***************************************************************************)
(* Lists, filtered, flattened and sorted, in a form that can be reasoned  *)
(* about: a fold is a function of how far it has come, and an order is a  *)
(* set of pairs.                                                           *)
(***************************************************************************)
EXTENDS Integers, FiniteSets, SequencesExt

IsList(s) == s \in Seq(ToSet(s))

\* The elements of a set in a strict total order of them.
Ranked(S, before) ==
  [k \in 1..Cardinality(S) |->
     CHOOSE x \in S : Cardinality({y \in S : <<y, x>> \in before}) = k - 1]

\* Places of a list, from first to last.
Ascending(places) ==
  [k \in 1..Cardinality(places) |->
     CHOOSE i \in places : Cardinality({j \in places : j < i}) = k - 1]

\* The elements of a list at some places, in the order of the list.
At(list, places) ==
  LET order == Ascending(places)
  IN [k \in 1..Cardinality(places) |-> list[order[k]]]

Where(list, Test(_)) == At(list, {i \in DOMAIN list : Test(list[i])})

Mapped(list, Op(_)) == [i \in DOMAIN list |-> Op(list[i])]

\* The first n elements, of as many as there are.
Shortened(list, n) == SubSeq(list, 1, IF Len(list) > n THEN n ELSE Len(list))

\* The lists of a list, one after the other.
Concat(lists) ==
  LET joined[k \in 0..Len(lists)] == IF k = 0 THEN <<>> ELSE joined[k - 1] \o lists[k]
  IN joined[Len(lists)]
=============================================================================
