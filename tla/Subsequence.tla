----------------------------- MODULE Subsequence ------------------------------
(***************************************************************************)
(* What std::erase_if and its like leave of a sequence, without recursion.  *)
(***************************************************************************)
EXTENDS Integers, Sequences, FiniteSets

\* How many of a set of places are before i.
Ahead(places, i) == Cardinality({j \in places : j < i})

\* The members of s at the given places, in their order.
Picked(s, places) ==
    [n \in 1..Cardinality(places) |-> s[CHOOSE i \in places : Ahead(places, i) = n - 1]]

\* s without the members of W.
Without(s, W) == Picked(s, {i \in DOMAIN s : s[i] \notin W})
=============================================================================
