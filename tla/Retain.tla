------------------------------- MODULE Retain -------------------------------
(***************************************************************************)
(* Selections from a sequence that keep its order: VecDeque::retain over   *)
(* the queues of MultiQueue, and iter().filter_map(..).collect() over the  *)
(* handle registry of UvLoop.  The operator is defined by ranks, without   *)
(* recursion, so that the proofs about both can say what it returns.       *)
(***************************************************************************)
EXTENDS Naturals, Sequences, FiniteSets

\* s without the members of S, the rest in order: the n-th element kept is the
\* one at the position of rank n.
Kept(s, S) == {i \in DOMAIN s : s[i] \notin S}
Rank(K, i) == Cardinality({k \in K : k <= i})
Without(s, S) ==
  LET K == Kept(s, S)
  IN  [n \in 1..Cardinality(K) |-> s[CHOOSE i \in K : Rank(K, i) = n]]
=============================================================================
