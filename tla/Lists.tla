------------------------------- MODULE Lists -------------------------------
(***************************************************************************)
(* What Vec::retain and slice::sort_by of the standard library make of a   *)
(* list, defined by the positions of the elements.                         *)
(***************************************************************************)
EXTENDS Integers, Sequences, FiniteSets

\* The n-th of a set of positions.
nth(positions, n) == CHOOSE i \in positions : Cardinality({j \in positions : j <= i}) = n

\* retain: the elements in S, in the order they have in the list.
retained(list, S) ==
  LET kept == {i \in DOMAIN list : list[i] \in S}
  IN  [n \in 1 .. Cardinality(kept) |-> list[nth(kept, n)]]

\* sort_by, where <<a, b>> \in R says that a goes before b: the sort is stable,
\* so elements that neither go before the other keep their order.
ahead(list, R, i, j) == <<list[i], list[j]>> \in R \/ (i < j /\ <<list[j], list[i]>> \notin R)
place(list, R, i) == Cardinality({j \in DOMAIN list : j = i \/ ahead(list, R, j, i)})
at_place(list, R, n) == CHOOSE i \in DOMAIN list : place(list, R, i) = n
sorted(list, R) == [n \in DOMAIN list |-> list[at_place(list, R, n)]]
=============================================================================
