------------------------------- MODULE Sorting -------------------------------
(* What sort.Slice of Go does to a slice of fewer than twelve elements: an    *)
(* insertion sort, which is stable, and which does what its loop does when    *)
(* the comparison is not an order.  Every list the program sorts this way is  *)
(* sorted by the operators of this module.                                    *)
EXTENDS Integers, Sequences, SequencesExt, FiniteSets, FiniteSetsExt

(* x moves down from the end of s past each element it is less than.          *)
Sink(s, x, Less(_, _)) ==
  LET stay == {k \in DOMAIN s : ~Less(x, s[k])}
      at == IF stay = {} THEN 0 ELSE Max(stay)
  IN  InsertAt(s, at + 1, x)

SortSlice(s, Less(_, _)) == FoldLeft(LAMBDA t, x : Sink(t, x, Less), <<>>, s)

(* The first element of s with property P, or default.                        *)
FirstOr(s, P(_), default) ==
  LET at == {k \in DOMAIN s : P(s[k])} IN IF at = {} THEN default ELSE s[Min(at)]

LastOr(s, P(_), default) ==
  LET at == {k \in DOMAIN s : P(s[k])} IN IF at = {} THEN default ELSE s[Max(at)]

CountIn(s, P(_)) == Cardinality({k \in DOMAIN s : P(s[k])})

SumOver(s, F(_)) == FoldLeft(LAMBDA n, x : n + F(x), 0, s)

Some(s, P(_)) == \E k \in DOMAIN s : P(s[k])

UpdateWhere(s, P(_), F(_)) == [k \in DOMAIN s |-> IF P(s[k]) THEN F(s[k]) ELSE s[k]]

(* The smallest F of the elements with property P, or default.                *)
LeastOr(s, P(_), F(_), default) ==
  LET at == {k \in DOMAIN s : P(s[k])} IN IF at = {} THEN default ELSE Min({F(s[k]) : k \in at})
==============================================================================
