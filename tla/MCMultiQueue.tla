---------------------------- MODULE MCMultiQueue ----------------------------
(***************************************************************************)
(* A root with up to three further owners (a child with a child of its own *)
(* and a sibling fit), and up to three events of two kinds.          *)
(***************************************************************************)
EXTENDS MultiQueue

\* Without is SelectSeq, here for every sequence of up to four of three ids.
ASSUME WithoutIsSelectSeq ==
  \A n \in 0..4 : \A s \in [1..n -> 0..2], S \in SUBSET (0..2) :
    Without(s, S) = SelectSeq(s, LAMBDA id : id \notin S)
=============================================================================
