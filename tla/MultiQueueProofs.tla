-------------------------- MODULE MultiQueueProofs --------------------------
(***************************************************************************)
(* Proofs about MultiQueue, for every set of payloads and every bound:     *)
(* its types, the mirroring of ids along the owner tree, the put order of  *)
(* every queue, and that the queues implement EventBoard.                  *)
(***************************************************************************)
EXTENDS MultiQueue, FiniteSetTheorems, FunctionTheorems, SequenceTheorems, TLAPS

-----------------------------------------------------------------------------
(* retain: what Without returns, for every sequence and every set taken    *)
(* out of it, and what it does to ascending ids.                           *)

\* The ranks of n positions are 1..n, each met once and in order.
LEMMA RankOrder ==
  ASSUME NEW n \in Nat, NEW K \in SUBSET (1..n)
  PROVE  /\ IsFiniteSet(K) /\ Cardinality(K) \in Nat
         /\ \A i \in K : Rank(K, i) \in 1..Cardinality(K)
         /\ \A i, j \in K : i < j => Rank(K, i) < Rank(K, j)
<1>1. IsFiniteSet(K) /\ Cardinality(K) \in Nat
  <2>1. IsFiniteSet(1..n)
    BY FS_Interval, SMT
  <2>2. IsFiniteSet(K)
    BY <2>1, FS_Subset
  <2>. QED  BY <2>2, FS_CardinalityType
<1>2. ASSUME NEW i \in K
      PROVE  /\ Rank(K, i) \in Nat /\ Rank(K, i) <= Cardinality(K) /\ Rank(K, i) # 0
  <2>. DEFINE U == {k \in K : k <= i}
  <2>1. U \in SUBSET K /\ i \in U
    BY SMT
  <2>2. IsFiniteSet(U) /\ Cardinality(U) <= Cardinality(K) /\ Cardinality(U) \in Nat
    BY <1>1, <2>1, FS_Subset, FS_CardinalityType
  <2>3. Cardinality(U) # 0
    BY <2>1, <2>2, FS_EmptySet
  <2>. QED  BY <2>2, <2>3 DEF Rank
<1>3. ASSUME NEW i \in K, NEW j \in K, i < j
      PROVE  Rank(K, i) < Rank(K, j)
  <2>. DEFINE U == {k \in K : k <= i}
              V == {k \in K : k <= j}
  <2>1. U \in SUBSET V /\ U # V
    <3>1. j \in V /\ j \notin U
      BY <1>3, SMT
    <3>2. \A k \in U : k \in V
      BY <1>3, SMT
    <3>. QED  BY <3>1, <3>2
  <2>2. IsFiniteSet(V)
    BY <1>1, FS_Subset
  <2>3. Cardinality(U) <= Cardinality(V) /\ Cardinality(U) # Cardinality(V)
    BY <2>1, <2>2, FS_Subset
  <2>. QED  BY <1>2, <2>3, SMT DEF Rank
<1>. QED  BY <1>1, <1>2, <1>3, SMT

LEMMA RankOnto ==
  ASSUME NEW n \in Nat, NEW K \in SUBSET (1..n), NEW m \in 1..Cardinality(K)
  PROVE  \E i \in K : Rank(K, i) = m
<1>. DEFINE C == Cardinality(K)
            f == [i \in K |-> Rank(K, i)]
<1>1. /\ IsFiniteSet(K) /\ C \in Nat
      /\ \A i \in K : Rank(K, i) \in 1..C
      /\ \A i, j \in K : i < j => Rank(K, i) < Rank(K, j)
  BY RankOrder
<1>2. f \in [K -> 1..C]
  BY <1>1
<1>3. ASSUME NEW i \in K, NEW j \in K, f[i] = f[j]
      PROVE  i = j
  <2>1. Rank(K, i) = Rank(K, j) /\ Rank(K, i) \in Int
    BY <1>1, <1>3
  <2>2. ~(i < j) /\ ~(j < i)
    BY <1>1, <2>1, SMT
  <2>. QED  BY <2>2, SMT
<1>4. f \in Injection(K, 1..C)
  BY <1>2, <1>3, Zenon DEF Injection, IsInjective
<1>5. IsFiniteSet(1..C) /\ Cardinality(1..C) = C
  BY <1>1, FS_Interval, SMT
<1>6. f \in Surjection(K, 1..C)
  BY <1>4, <1>5, FS_Injection
<1>7. \E i \in K : f[i] = m
  BY <1>6 DEF Surjection
<1>. QED  BY <1>7

\* The n-th element kept comes from a position of its own, in order.
LEMMA WithoutElements ==
  ASSUME NEW T, NEW s \in Seq(T), NEW S
  PROVE  LET K == Kept(s, S)
             at(m) == CHOOSE i \in K : Rank(K, i) = m
         IN  /\ Cardinality(K) \in Nat
             /\ DOMAIN Without(s, S) = 1..Cardinality(K)
             /\ \A m \in 1..Cardinality(K) :
                  /\ at(m) \in K /\ Rank(K, at(m)) = m
                  /\ Without(s, S)[m] = s[at(m)]
<1>. DEFINE K == Kept(s, S)
            at(m) == CHOOSE i \in K : Rank(K, i) = m
<1>1. Len(s) \in Nat /\ K \in SUBSET (1..Len(s))
  BY LenProperties DEF Kept
<1>2. Cardinality(K) \in Nat
  BY <1>1, RankOrder
<1>3. ASSUME NEW m \in 1..Cardinality(K)
      PROVE  at(m) \in K /\ Rank(K, at(m)) = m
  <2>1. \E i \in K : Rank(K, i) = m
    BY <1>1, RankOnto
  <2>. QED  BY <2>1
<1>. QED  BY <1>2, <1>3 DEF Without

LEMMA WithoutIsSeq ==
  ASSUME NEW T, NEW s \in Seq(T), NEW S
  PROVE  Without(s, S) \in Seq(T)
<1>. DEFINE K == Kept(s, S)
            w == Without(s, S)
<1>1. Cardinality(K) \in Nat /\ DOMAIN w = 1..Cardinality(K)
  BY WithoutElements
<1>2. \A m \in 1..Cardinality(K) : w[m] \in T
  <2>. SUFFICES ASSUME NEW m \in 1..Cardinality(K)
                PROVE  w[m] \in T
    OBVIOUS
  <2>1. PICK i \in K : w[m] = s[i]
    BY WithoutElements
  <2>. QED  BY <2>1, LenProperties, ElementOfSeq DEF Kept
<1>3. w = [m \in 1..Cardinality(K) |-> w[m]]
  BY DEF Without
<1>. QED  BY <1>1, <1>2, <1>3, SeqDef

\* retain keeps every element that is not in S, and nothing else.
LEMMA WithoutRange ==
  ASSUME NEW T, NEW s \in Seq(T), NEW S
  PROVE  Range(Without(s, S)) = Range(s) \ S
<1>. DEFINE K == Kept(s, S)
            w == Without(s, S)
            at(m) == CHOOSE i \in K : Rank(K, i) = m
<1>1. /\ DOMAIN w = 1..Cardinality(K)
      /\ \A m \in 1..Cardinality(K) : at(m) \in K /\ Rank(K, at(m)) = m /\ w[m] = s[at(m)]
  BY WithoutElements
<1>2. ASSUME NEW e \in Range(w)
      PROVE  e \in Range(s) \ S
  BY <1>1 DEF Range, Kept
<1>3. ASSUME NEW e \in Range(s) \ S
      PROVE  e \in Range(w)
  <2>1. PICK i \in K : s[i] = e
    BY DEF Range, Kept
  <2>2. Len(s) \in Nat /\ K \in SUBSET (1..Len(s))
    BY LenProperties DEF Kept
  <2>. DEFINE m == Rank(K, i)
              j == at(m)
  <2>3. m \in 1..Cardinality(K)
    BY <2>2, RankOrder
  <2>4. j \in K /\ Rank(K, j) = Rank(K, i) /\ w[m] = s[j]
    BY <1>1, <2>3
  <2>5. i = j
    <3>1. \A a, b \in K : a < b => Rank(K, a) < Rank(K, b)
      BY <2>2, RankOrder
    <3>2. \A a \in K : Rank(K, a) \in 1..Cardinality(K)
      BY <2>2, RankOrder
    <3>3. ~(i < j) /\ ~(j < i)
      BY <2>4, <3>1, <3>2, SMT
    <3>. QED  BY <2>2, <2>4, <3>3, SMT
  <2>. QED  BY <1>1, <2>1, <2>3, <2>4, <2>5 DEF Range
<1>. QED  BY <1>2, <1>3

\* retain keeps the order.
LEMMA WithoutAscending ==
  ASSUME NEW s \in Seq(Nat), NEW S, IsAscending(s)
  PROVE  IsAscending(Without(s, S))
<1>. DEFINE K == Kept(s, S)
            at(m) == CHOOSE i \in K : Rank(K, i) = m
<1>1. /\ Cardinality(K) \in Nat /\ DOMAIN Without(s, S) = 1..Cardinality(K)
      /\ \A m \in 1..Cardinality(K) :
           at(m) \in K /\ Rank(K, at(m)) = m /\ Without(s, S)[m] = s[at(m)]
  BY WithoutElements
<1>2. Len(s) \in Nat /\ K \in SUBSET (1..Len(s)) /\ K \in SUBSET DOMAIN s
  BY LenProperties DEF Kept
<1>3. ASSUME NEW m \in 1..Cardinality(K), NEW n \in 1..Cardinality(K), m < n
      PROVE  Without(s, S)[m] < Without(s, S)[n]
  <2>. DEFINE i == at(m)
              j == at(n)
  <2>1. i \in K /\ j \in K /\ Rank(K, i) < Rank(K, j)
    BY <1>1, <1>3
  <2>2. \A a, b \in K : a < b => Rank(K, a) < Rank(K, b)
    BY <1>2, RankOrder
  <2>3. \A a \in K : Rank(K, a) \in Int
    <3>1. \A a \in K : Rank(K, a) \in 1..Cardinality(K)
      BY <1>2, RankOrder
    <3>. QED  BY <1>1, <3>1
  <2>4. i < j
    <3>. HIDE DEF i, j, K
    <3>1. i \in Int /\ j \in Int
      BY <1>2, <2>1, SMT
    <3>2. CASE i = j
      BY <2>1, <2>3, <3>2, SMT
    <3>3. CASE j < i
      BY <2>1, <2>2, <2>3, <3>3, SMT
    <3>. QED  BY <3>1, <3>2, <3>3, SMT
  <2>. QED  BY <1>1, <1>2, <2>1, <2>4 DEF IsAscending
<1>. QED  BY <1>1, <1>3 DEF IsAscending
-----------------------------------------------------------------------------
(* Paths in the owner tree *)

(***************************************************************************)
(* PathToRoot for any set L of owners and any parent map P.                *)
(***************************************************************************)
Closed(P, S) == \A q \in S \ {Root} : P[q] \in S
PathIn(P, L, o) == {q \in L : \A S \in SUBSET L : o \in S /\ Closed(P, S) => q \in S}

LEMMA PathToRootIsPathIn ==
  /\ \A o : PathToRoot(o) = PathIn(parent, Live, o)
  /\ \A o : PathToRoot(o)' = PathIn(parent', Live', o)
BY DEF PathToRoot, PathIn, ParentClosed, Closed

LEMMA PathBasics ==
  ASSUME NEW L, NEW P \in [L \ {Root} -> L], NEW o \in L
  PROVE  /\ PathIn(P, L, o) \in SUBSET L
         /\ o \in PathIn(P, L, o)
         /\ Closed(P, PathIn(P, L, o))
         /\ \A S \in SUBSET L : o \in S /\ Closed(P, S) => PathIn(P, L, o) \subseteq S
BY DEF PathIn, Closed

LEMMA PathTransitive ==
  ASSUME NEW L, NEW P \in [L \ {Root} -> L], NEW o \in L, NEW q \in PathIn(P, L, o)
  PROVE  PathIn(P, L, q) \subseteq PathIn(P, L, o)
<1>1. q \in L
  BY PathBasics
<1>2. PathIn(P, L, o) \in SUBSET L /\ Closed(P, PathIn(P, L, o))
  BY PathBasics
<1>. QED  BY <1>1, <1>2, PathBasics

\* One step up: the path of a child owner is itself and its parent's path.
LEMMA PathOfChild ==
  ASSUME NEW L, NEW P \in [L \ {Root} -> L], NEW o \in L \ {Root}
  PROVE  PathIn(P, L, o) = {o} \union PathIn(P, L, P[o])
<1>. DEFINE up == PathIn(P, L, P[o])
<1>1. P[o] \in L
  OBVIOUS
<1>2. up \in SUBSET L /\ P[o] \in up /\ Closed(P, up)
  BY <1>1, PathBasics
<1>3. {o} \union up \in SUBSET L /\ Closed(P, {o} \union up)
  BY <1>2 DEF Closed
<1>4. PathIn(P, L, o) \subseteq {o} \union up
  BY <1>3, PathBasics
<1>5. o \in PathIn(P, L, o) /\ P[o] \in PathIn(P, L, o)
  BY PathBasics DEF Closed
<1>6. up \subseteq PathIn(P, L, o)
  BY <1>5, PathTransitive
<1>. QED  BY <1>4, <1>5, <1>6

LEMMA PathOfRoot ==
  ASSUME NEW L, NEW P \in [L \ {Root} -> L], Root \in L
  PROVE  PathIn(P, L, Root) = {Root}
<1>1. {Root} \in SUBSET L /\ Closed(P, {Root})
  BY DEF Closed
<1>. QED  BY <1>1, PathBasics

(***************************************************************************)
(* Adding owners below, or removing owners that no remaining owner hangs   *)
(* from, changes no remaining path: child and remove_owner both.           *)
(***************************************************************************)
LEMMA PathStable ==
  ASSUME NEW L, NEW P \in [L \ {Root} -> L],
         NEW M, NEW Q \in [M \ {Root} -> M],
         L \subseteq M, \A q \in L \ {Root} : Q[q] = P[q],
         NEW o \in L
  PROVE  PathIn(Q, M, o) = PathIn(P, L, o)
<1>1. /\ PathIn(P, L, o) \in SUBSET L /\ o \in PathIn(P, L, o)
      /\ Closed(P, PathIn(P, L, o))
  BY PathBasics
<1>2. PathIn(P, L, o) \in SUBSET M /\ Closed(Q, PathIn(P, L, o))
  BY <1>1 DEF Closed
<1>3. PathIn(Q, M, o) \subseteq PathIn(P, L, o)
  BY <1>1, <1>2, PathBasics
<1>4. o \in PathIn(Q, M, o) /\ Closed(Q, PathIn(Q, M, o))
  BY PathBasics
<1>5. PathIn(Q, M, o) \in SUBSET L /\ Closed(P, PathIn(Q, M, o))
  BY <1>1, <1>3, <1>4 DEF Closed
<1>6. PathIn(P, L, o) \subseteq PathIn(Q, M, o)
  BY <1>4, <1>5, PathBasics
<1>. QED  BY <1>3, <1>6

-----------------------------------------------------------------------------
(* push_back *)

LEMMA AppendFacts ==
  ASSUME NEW n \in Nat, NEW s \in Seq(0..(n - 1))
  PROVE  /\ Append(s, n) \in Seq(0..n)
         /\ Range(Append(s, n)) = Range(s) \union {n}
         /\ IsAscending(s) => IsAscending(Append(s, n))
<1>. DEFINE t == Append(s, n)
<1>1. /\ Len(s) \in Nat /\ DOMAIN s = 1..Len(s) /\ DOMAIN t = 1..(Len(s) + 1)
      /\ t[Len(s) + 1] = n /\ \A i \in 1..Len(s) : t[i] = s[i] /\ s[i] \in 0..(n - 1)
  BY SMT
<1>2. t \in Seq(0..n)
  <2>1. s \in Seq(0..n) /\ n \in 0..n
    BY SeqMonotonic, SMT
  <2>. QED  BY <2>1, AppendProperties
<1>3. Range(t) = Range(s) \union {n}
  BY <1>1, SMT DEF Range
<1>4. ASSUME IsAscending(s)
      PROVE  IsAscending(t)
  BY <1>1, <1>4, SMT DEF IsAscending
<1>. QED  BY <1>2, <1>3, <1>4

-----------------------------------------------------------------------------
(* The inductive invariant *)

\* An event id names at most one pending event, every queue on its path lists
\* it in its place, and no other queue does.
IndInv == TypeOK /\ Mirrored /\ InPutOrder

\* What the proofs of the steps read out of TypeOK.
LEMMA TypeFacts ==
  ASSUME TypeOK
  PROVE  /\ nextOwner \in Nat \ {0} /\ nextEvent \in Nat
         /\ Root \in Live /\ parent \in [Live \ {Root} -> Live]
         /\ nextOwner \notin Live /\ nextOwner # Root
         /\ DOMAIN parent = Live \ {Root}
         /\ \A q \in Live : /\ q \in Nat /\ entries[q] \in Seq(0..(nextEvent - 1))
                            /\ entries[q] \in Seq(Nat)
         /\ \A id \in DOMAIN origins : id \in 0..(nextEvent - 1) /\ origins[id] \in Live
         /\ nextEvent \notin DOMAIN origins
<1>1. nextOwner \in Nat \ {0} /\ nextEvent \in Nat
  BY BoundsAssumption, SMT DEF TypeOK
<1>2. \A q \in Live : q \in Nat /\ q < nextOwner
  BY <1>1, SMT DEF TypeOK
<1>3. \A q \in Live : entries[q] \in Seq(0..(nextEvent - 1))
  BY DEF TypeOK
<1>4. 0..(nextEvent - 1) \subseteq Nat
  BY <1>1, SMT
<1>5. \A q \in Live : entries[q] \in Seq(Nat)
  BY <1>3, <1>4, SeqMonotonic
<1>6. \A id \in DOMAIN origins : id \in 0..(nextEvent - 1) /\ origins[id] \in Live
  BY DEF TypeOK
<1>7. nextEvent \notin DOMAIN origins
  BY <1>1, <1>6, SMT
<1>. QED  BY <1>1, <1>2, <1>3, <1>5, <1>6, <1>7, SMT DEF TypeOK, Root

LEMMA InitInv == Init => IndInv
<1>. SUFFICES ASSUME Init PROVE IndInv
  OBVIOUS
<1>1. Live = {Root} /\ entries[Root] = <<>> /\ DOMAIN origins = {} /\ DOMAIN events = {}
  BY DEF Init, Live
<1>2. TypeOK
  <2>1. entries \in [Live -> Seq(0..(nextEvent - 1))]
    BY <1>1 DEF Init, Live
  <2>. QED  BY <1>1, <2>1, BoundsAssumption, SMT DEF Init, TypeOK, Root
<1>3. Mirrored /\ InPutOrder
  BY <1>1, SMT DEF Mirrored, InPutOrder, IsAscending, Range
<1>. QED  BY <1>2, <1>3 DEF IndInv

\* While no owner comes or goes, no path changes.
LEMMA SameTreeSamePaths ==
  ASSUME parent' = parent, Live' = Live
  PROVE  \A o : PathToRoot(o)' = PathToRoot(o)
BY PathToRootIsPathIn

-----------------------------------------------------------------------------
(* child *)

LEMMA ChildPaths ==
  ASSUME TypeOK, NEW p \in Live, Child(p)
  PROVE  /\ Live' = Live \union {nextOwner} /\ nextOwner \notin Live
         /\ parent' \in [Live' \ {Root} -> Live']
         /\ \A q \in Live : PathToRoot(q)' = PathToRoot(q)
         /\ \A n : n = nextOwner => PathToRoot(n)' = {n} \union PathToRoot(p)
<1>1. /\ Live' = Live \union {nextOwner} /\ nextOwner \notin Live /\ nextOwner # Root
      /\ parent \in [Live \ {Root} -> Live] /\ Root \in Live
  BY TypeFacts DEF Child, Live
<1>2. /\ parent' \in [Live' \ {Root} -> Live']
      /\ \A q \in Live \ {Root} : parent'[q] = parent[q]
      /\ parent'[nextOwner] = p
  BY <1>1 DEF Child
<1>3. ASSUME NEW q \in Live
      PROVE  PathIn(parent', Live', q) = PathIn(parent, Live, q)
  <2>1. Live \subseteq Live'
    BY <1>1
  <2>. QED  BY <1>1, <1>2, <2>1, PathStable
<1>4. PathIn(parent', Live', nextOwner) = {nextOwner} \union PathIn(parent', Live', p)
  BY <1>1, <1>2, PathOfChild
<1>5. \A q \in Live : PathToRoot(q)' = PathToRoot(q)
  BY <1>3, PathToRootIsPathIn
<1>6. ASSUME NEW n, n = nextOwner
      PROVE  PathToRoot(n)' = {n} \union PathToRoot(p)
  BY <1>3, <1>4, <1>6, PathToRootIsPathIn
<1>. QED  BY <1>1, <1>2, <1>5, <1>6

LEMMA ChildInv ==
  ASSUME IndInv, NEW p \in Live, Child(p)
  PROVE  IndInv'
<1>. DEFINE n == nextOwner
<1>1. TypeOK /\ Mirrored /\ InPutOrder
  BY DEF IndInv
<1>2. /\ Live' = Live \union {n} /\ n \notin Live /\ parent' \in [Live' \ {Root} -> Live']
      /\ \A q \in Live : PathToRoot(q)' = PathToRoot(q)
  BY <1>1, ChildPaths
<1>3. /\ n \in Nat \ {0} /\ n' = n + 1 /\ n < MaxOwner /\ nextEvent' = nextEvent
      /\ nextEvent \in Nat /\ events' = events /\ origins' = origins /\ drained' = <<>>
      /\ entries'[n] = <<>> /\ \A q \in Live : entries'[q] = entries[q]
      /\ DOMAIN entries' = Live'
  BY <1>1, <1>2, TypeFacts DEF Child, Live
<1>4. TypeOK'
  <2>1. n' \in 1..MaxOwner /\ (nextEvent \in 0..MaxEvent)' /\ (Live \subseteq 0..(n - 1))'
    BY <1>1, <1>2, <1>3, BoundsAssumption, SMT DEF TypeOK
  <2>2. (entries \in [Live -> Seq(0..(nextEvent - 1))])'
    <3>1. \A q \in Live' : entries'[q] \in Seq(0..(nextEvent - 1))
      <4>1. \A q \in Live : entries[q] \in Seq(0..(nextEvent - 1))
        BY <1>1, TypeFacts
      <4>2. <<>> \in Seq(0..(nextEvent - 1))
        BY EmptySeq
      <4>. QED  BY <1>2, <1>3, <4>1, <4>2
    <3>. QED  BY <1>2, <1>3, <3>1 DEF Child
  <2>3. (\A q \in Live \ {Root} : parent[q] < q)'
    BY <1>1, <1>2, <1>3, TypeFacts, SMT DEF Child, TypeOK
  <2>. QED  BY <1>1, <1>2, <1>3, <2>1, <2>2, <2>3 DEF TypeOK
<1>5. Mirrored'
  <2>. SUFFICES ASSUME NEW q \in Live'
                PROVE  Range(entries'[q])
                         = {id \in DOMAIN origins : q \in PathToRoot(origins[id])'}
    BY <1>3 DEF Mirrored
  <2>1. \A id \in DOMAIN origins : PathToRoot(origins[id])' = PathToRoot(origins[id])
    <3>1. \A id \in DOMAIN origins : origins[id] \in Live
      BY <1>1, TypeFacts
    <3>2. \A id, o : o = origins[id] /\ o \in Live => PathToRoot(o)' = PathToRoot(o)
      BY <1>2
    <3>3. \A id, o : o = origins[id] => PathToRoot(o)' = PathToRoot(origins[id])'
      BY <1>3 DEF PathToRoot, ParentClosed, Live
    <3>. QED  BY <3>1, <3>2, <3>3
  <2>2. CASE q \in Live
    BY <1>1, <1>3, <2>1, <2>2 DEF Mirrored
  <2>3. CASE q = n
    <3>1. Range(entries'[q]) = {}
      BY <1>3, <2>3, SMT DEF Range
    <3>2. \A id \in DOMAIN origins : q \notin PathToRoot(origins[id])
      BY <1>2, <2>3 DEF PathToRoot
    <3>. QED  BY <2>1, <3>1, <3>2
  <2>. QED  BY <1>2, <2>2, <2>3
<1>6. InPutOrder'
  <2>1. IsAscending(<<>>)
    BY SMT DEF IsAscending
  <2>. QED  BY <1>1, <1>2, <1>3, <2>1 DEF InPutOrder
<1>. QED  BY <1>4, <1>5, <1>6 DEF IndInv

-----------------------------------------------------------------------------
(* put *)

LEMMA PutInv ==
  ASSUME IndInv, NEW o \in Live, NEW e \in Event, Put(o, e)
  PROVE  IndInv'
<1>. DEFINE n == nextEvent
<1>1. TypeOK /\ Mirrored /\ InPutOrder
  BY DEF IndInv
<1>2. Live' = Live /\ parent' = parent /\ \A q : PathToRoot(q)' = PathToRoot(q)
  <2>1. Live' = Live /\ parent' = parent
    BY DEF Put, Live
  <2>. QED  BY <2>1, SameTreeSamePaths
<1>3. /\ n \in Nat /\ n' = n + 1 /\ n < MaxEvent /\ n \notin DOMAIN origins
      /\ DOMAIN origins' = DOMAIN origins \union {n} /\ origins'[n] = o
      /\ \A id \in DOMAIN origins : origins'[id] = origins[id]
  BY <1>1, TypeFacts DEF Put
<1>4. ASSUME NEW q \in Live
      PROVE  /\ entries'[q] \in Seq(0..n)
             /\ Range(entries'[q]) = IF q \in PathToRoot(o) THEN Range(entries[q]) \union {n}
                                                           ELSE Range(entries[q])
             /\ IsAscending(entries'[q])
  <2>1. entries[q] \in Seq(0..(n - 1)) /\ IsAscending(entries[q])
    BY <1>1, TypeFacts DEF InPutOrder
  <2>2. CASE q \in PathToRoot(o)
    <3>1. entries'[q] = Append(entries[q], n)
      BY <2>2 DEF Put, PushBack
    <3>. QED  BY <1>3, <2>1, <2>2, <3>1, AppendFacts
  <2>3. CASE q \notin PathToRoot(o)
    <3>1. entries'[q] = entries[q]
      BY <2>3 DEF Put
    <3>2. 0..(n - 1) \subseteq 0..n
      BY <1>3, SMT
    <3>3. entries[q] \in Seq(0..n)
      BY <2>1, <3>2, SeqMonotonic
    <3>. QED  BY <2>1, <2>3, <3>1, <3>3
  <2>. QED  BY <2>2, <2>3
<1>5. TypeOK'
  <2>1. n' \in 0..MaxEvent /\ n' - 1 = n
    BY <1>3, BoundsAssumption, SMT
  <2>2. entries' \in [Live -> Seq(0..n)]
    BY <1>4 DEF Put
  <2>3. DOMAIN events' = DOMAIN events \union {n} /\ events' \in [DOMAIN events' -> Event]
    BY <1>1 DEF Put, TypeOK
  <2>4. DOMAIN events' \subseteq 0..n
    <3>1. DOMAIN events \subseteq 0..(n - 1)
      BY <1>1 DEF TypeOK
    <3>. QED  BY <1>3, <2>3, <3>1, SMT
  <2>5. DOMAIN origins' = DOMAIN events' /\ origins' \in [DOMAIN origins' -> Live]
    BY <1>1, <1>3, <2>3 DEF Put, TypeOK
  <2>6. nextOwner' = nextOwner /\ drained' \in Seq(Event)
    BY EmptySeq DEF Put
  <2>. QED  BY <1>1, <1>2, <2>1, <2>2, <2>3, <2>4, <2>5, <2>6 DEF TypeOK
<1>6. Mirrored'
  <2>. SUFFICES ASSUME NEW q \in Live
                PROVE  Range(entries'[q])
                         = {id \in DOMAIN origins' : q \in PathToRoot(origins'[id])}
    BY <1>2 DEF Mirrored
  <2>1. Range(entries[q]) = {id \in DOMAIN origins : q \in PathToRoot(origins[id])}
    BY <1>1 DEF Mirrored
  <2>. QED  BY <1>3, <1>4, <2>1
<1>7. InPutOrder'
  BY <1>2, <1>4 DEF InPutOrder
<1>. QED  BY <1>5, <1>6, <1>7 DEF IndInv

-----------------------------------------------------------------------------
(* process_events *)

\* The queue of o names the pending ids of its subtree and nothing stale.
LEMMA PoppedFacts ==
  ASSUME IndInv, NEW o \in Live
  PROVE  /\ Popped(o) = Range(entries[o])
         /\ Popped(o) = {id \in DOMAIN origins : o \in PathToRoot(origins[id])}
         /\ Delivered(o) \in Seq(Nat) /\ Range(Delivered(o)) = Popped(o)
         /\ IsAscending(Delivered(o))
<1>1. Range(entries[o]) = {id \in DOMAIN origins : o \in PathToRoot(origins[id])}
  BY DEF IndInv, Mirrored
<1>2. entries[o] \in Seq(Nat) /\ IsAscending(entries[o])
  BY TypeFacts DEF IndInv, InPutOrder
<1>3. Delivered(o) \in Seq(Nat) /\ IsAscending(Delivered(o))
  BY <1>2, WithoutIsSeq, WithoutAscending DEF Delivered
<1>4. Range(Delivered(o)) = Range(entries[o])
  BY <1>1, <1>2, WithoutRange DEF Delivered
<1>. QED  BY <1>1, <1>3, <1>4 DEF Popped

LEMMA ProcessInv ==
  ASSUME IndInv, NEW o \in Live, ProcessEvents(o)
  PROVE  IndInv'
<1>. DEFINE gone == Popped(o)
<1>1. TypeOK /\ Mirrored /\ InPutOrder
  BY DEF IndInv
<1>2. Live' = Live /\ parent' = parent /\ \A q : PathToRoot(q)' = PathToRoot(q)
  <2>1. Live' = Live /\ parent' = parent
    BY DEF ProcessEvents, Live
  <2>. QED  BY <2>1, SameTreeSamePaths
<1>3. /\ DOMAIN origins' = DOMAIN origins \ gone /\ DOMAIN events' = DOMAIN events \ gone
      /\ \A id \in DOMAIN origins' : origins'[id] = origins[id]
      /\ \A id \in DOMAIN events' : events'[id] = events[id]
      /\ nextEvent' = nextEvent /\ nextOwner' = nextOwner
  BY DEF ProcessEvents, Forget, Restrict
<1>4. ASSUME NEW q \in Live
      PROVE  /\ entries'[q] \in Seq(0..(nextEvent - 1)) /\ IsAscending(entries'[q])
             /\ Range(entries'[q]) = {id \in DOMAIN origins' : q \in PathToRoot(origins[id])}
  <2>1. /\ entries[q] \in Seq(0..(nextEvent - 1)) /\ entries[q] \in Seq(Nat)
        /\ IsAscending(entries[q])
        /\ Range(entries[q]) = {id \in DOMAIN origins : q \in PathToRoot(origins[id])}
    BY <1>1, TypeFacts DEF InPutOrder, Mirrored
  <2>2. CASE q = o
    <3>1. entries'[q] = <<>>
      BY <2>2 DEF ProcessEvents
    <3>2. {id \in DOMAIN origins' : q \in PathToRoot(origins[id])} = {}
      BY <1>3, <2>2, PoppedFacts
    <3>. QED  BY <3>1, <3>2, EmptySeq, SMT DEF Range, IsAscending
  <2>3. CASE q # o
    <3>1. entries'[q] = Without(entries[q], TakenFrom(o, q))
      BY <2>3 DEF ProcessEvents
    <3>2. Range(entries'[q]) = Range(entries[q]) \ TakenFrom(o, q)
      BY <2>1, <3>1, WithoutRange
    <3>3. Range(entries[q]) \ TakenFrom(o, q)
            = {id \in DOMAIN origins' : q \in PathToRoot(origins[id])}
      BY <1>3, <2>1 DEF TakenFrom
    <3>4. entries'[q] \in Seq(0..(nextEvent - 1)) /\ IsAscending(entries'[q])
      BY <2>1, <3>1, WithoutIsSeq, WithoutAscending
    <3>. QED  BY <3>2, <3>3, <3>4
  <2>. QED  BY <2>2, <2>3
<1>5. drained' \in Seq(Event)
  <2>. DEFINE d == Delivered(o)
  <2>1. Len(d) \in Nat /\ DOMAIN d = 1..Len(d) /\ \A i \in 1..Len(d) : d[i] \in DOMAIN events
    <3>1. Range(d) \subseteq DOMAIN events /\ d \in Seq(Nat)
      BY <1>1, PoppedFacts DEF TypeOK
    <3>. QED  BY <3>1, LenProperties DEF Range
  <2>2. \A i \in 1..Len(d) : events[d[i]] \in Event
    BY <1>1, <2>1 DEF TypeOK
  <2>3. drained' = [i \in 1..Len(d) |-> events[d[i]]]
    BY <2>1 DEF ProcessEvents
  <2>4. drained' \in [1..Len(d) -> Event]
    BY <2>2, <2>3
  <2>. QED  BY <2>1, <2>4, SeqDef
<1>6. TypeOK'
  <2>1. entries' \in [Live -> Seq(0..(nextEvent - 1))]
    BY <1>4 DEF ProcessEvents
  <2>2. events' \in [DOMAIN events' -> Event] /\ origins' \in [DOMAIN origins' -> Live]
    BY <1>1, <1>3 DEF TypeOK, ProcessEvents, Forget, Restrict
  <2>. QED  BY <1>1, <1>2, <1>3, <1>5, <2>1, <2>2 DEF TypeOK
<1>7. Mirrored'
  BY <1>2, <1>3, <1>4 DEF Mirrored
<1>8. InPutOrder'
  BY <1>2, <1>4 DEF InPutOrder
<1>. QED  BY <1>6, <1>7, <1>8 DEF IndInv

-----------------------------------------------------------------------------
(* remove_owner *)

LEMMA RemovePaths ==
  ASSUME TypeOK, NEW o \in Live \ {Root}, RemoveOwner(o)
  PROVE  /\ Live' = Live \ Subtree(o) /\ Root \in Live' /\ o \in Subtree(o)
         /\ parent' \in [Live' \ {Root} -> Live']
         /\ \A q \in Live' \ {Root} : parent'[q] = parent[q]
         /\ \A q \in Live' : PathToRoot(q)' = PathToRoot(q)
<1>1. Live' = Live \ Subtree(o) /\ parent \in [Live \ {Root} -> Live] /\ Root \in Live
  BY TypeFacts DEF RemoveOwner, Live
<1>2. Root \notin Subtree(o) /\ o \in Subtree(o)
  <2>1. PathToRoot(Root) = {Root} /\ o \in PathToRoot(o)
    BY <1>1, PathOfRoot, PathBasics, PathToRootIsPathIn
  <2>. QED  BY <2>1 DEF Subtree
<1>3. \A q \in Live' \ {Root} : parent[q] \in Live'
  <2>. SUFFICES ASSUME NEW q \in Live' \ {Root}, parent[q] \in Subtree(o)
                PROVE  q \in Subtree(o)
    BY <1>1
  <2>1. PathToRoot(q) = {q} \union PathToRoot(parent[q])
    BY <1>1, PathOfChild, PathToRootIsPathIn
  <2>. QED  BY <1>1, <2>1 DEF Subtree
<1>4. DOMAIN parent' = Live' \ {Root} /\ \A q \in Live' \ {Root} : parent'[q] = parent[q]
  BY <1>1 DEF RemoveOwner, Forget, Restrict
<1>5. parent' \in [Live' \ {Root} -> Live']
  BY <1>3, <1>4 DEF RemoveOwner, Forget, Restrict
<1>6. ASSUME NEW q \in Live'
      PROVE  PathIn(parent, Live, q) = PathIn(parent', Live', q)
  <2>. DEFINE L == Live'
              P == parent'
  <2>1. L \subseteq Live /\ (\A r \in L \ {Root} : parent[r] = P[r]) /\ q \in L
    BY <1>1, <1>4
  <2>2. P \in [L \ {Root} -> L]
    BY <1>5
  <2>. HIDE DEF L, P
  <2>3. PathIn(parent, Live, q) = PathIn(P, L, q)
    BY <1>1, <2>1, <2>2, PathStable
  <2>. QED  BY <2>3 DEF L, P
<1>7. \A q \in Live' : PathToRoot(q)' = PathToRoot(q)
  BY <1>6, PathToRootIsPathIn
<1>. QED  BY <1>1, <1>2, <1>4, <1>5, <1>7

\* The events removed with o are those its own queue shows.
LEMMA RemovedFacts ==
  ASSUME IndInv, NEW o \in Live
  PROVE  RemovedEvents(o) = {id \in DOMAIN origins : o \in PathToRoot(origins[id])}
<1>1. TypeOK /\ Mirrored
  BY DEF IndInv
<1>2. o \in Subtree(o)
  BY <1>1, TypeFacts, PathBasics, PathToRootIsPathIn DEF Subtree
<1>3. ASSUME NEW q \in Subtree(o), NEW id \in Range(entries[q])
      PROVE  id \in DOMAIN origins /\ o \in PathToRoot(origins[id])
  <2>1. q \in Live /\ o \in PathToRoot(q)
    BY DEF Subtree
  <2>2. id \in DOMAIN origins /\ q \in PathToRoot(origins[id]) /\ origins[id] \in Live
    BY <1>1, <1>3, <2>1, TypeFacts DEF Mirrored
  <2>3. PathToRoot(q) \subseteq PathToRoot(origins[id])
    BY <1>1, <2>2, TypeFacts, PathTransitive, PathToRootIsPathIn
  <2>. QED  BY <2>1, <2>2, <2>3
<1>4. Range(entries[o]) = {id \in DOMAIN origins : o \in PathToRoot(origins[id])}
  BY <1>1 DEF Mirrored
<1>. QED  BY <1>2, <1>3, <1>4 DEF RemovedEvents

LEMMA RemoveInv ==
  ASSUME IndInv, NEW o \in Live \ {Root}, RemoveOwner(o)
  PROVE  IndInv'
<1>. DEFINE gone == RemovedEvents(o)
<1>1. TypeOK /\ Mirrored /\ InPutOrder
  BY DEF IndInv
<1>2. /\ Live' = Live \ Subtree(o) /\ Root \in Live'
      /\ parent' \in [Live' \ {Root} -> Live']
      /\ \A q \in Live' \ {Root} : parent'[q] = parent[q]
      /\ \A q \in Live' : PathToRoot(q)' = PathToRoot(q)
  BY <1>1, RemovePaths
<1>3. /\ DOMAIN origins' = DOMAIN origins \ gone /\ DOMAIN events' = DOMAIN events \ gone
      /\ \A id \in DOMAIN origins' : origins'[id] = origins[id]
      /\ nextEvent' = nextEvent /\ nextOwner' = nextOwner /\ drained' = <<>>
  BY DEF RemoveOwner, Forget, Restrict
<1>4. gone = {id \in DOMAIN origins : o \in PathToRoot(origins[id])}
  BY RemovedFacts
<1>5. \A id \in DOMAIN origins' : origins'[id] \in Live'
  BY <1>1, <1>2, <1>3, <1>4, TypeFacts DEF Subtree
<1>6. ASSUME NEW q \in Live'
      PROVE  /\ entries'[q] \in Seq(0..(nextEvent - 1)) /\ IsAscending(entries'[q])
             /\ Range(entries'[q]) = {id \in DOMAIN origins' : q \in PathToRoot(origins[id])}
  <2>1. /\ entries[q] \in Seq(0..(nextEvent - 1)) /\ entries[q] \in Seq(Nat)
        /\ IsAscending(entries[q])
        /\ Range(entries[q]) = {id \in DOMAIN origins : q \in PathToRoot(origins[id])}
    BY <1>1, <1>2, TypeFacts DEF InPutOrder, Mirrored
  <2>2. entries'[q] = Without(entries[q], gone)
    BY <1>2 DEF RemoveOwner
  <2>3. Range(entries'[q]) = Range(entries[q]) \ gone
    BY <2>1, <2>2, WithoutRange
  <2>4. entries'[q] \in Seq(0..(nextEvent - 1)) /\ IsAscending(entries'[q])
    BY <2>1, <2>2, WithoutIsSeq, WithoutAscending
  <2>. QED  BY <1>3, <2>1, <2>3, <2>4
<1>7. TypeOK'
  <2>1. entries' \in [Live' -> Seq(0..(nextEvent - 1))]
    BY <1>2, <1>6 DEF RemoveOwner
  <2>2. events' \in [DOMAIN events' -> Event] /\ origins' \in [DOMAIN origins' -> Live']
    BY <1>1, <1>3, <1>5 DEF TypeOK, RemoveOwner, Forget, Restrict
  <2>3. drained' \in Seq(Event)
    BY <1>3, EmptySeq
  <2>4. \A q \in Live' \ {Root} : parent'[q] < q
    BY <1>1, <1>2 DEF TypeOK
  <2>. QED  BY <1>1, <1>2, <1>3, <2>1, <2>2, <2>3, <2>4 DEF TypeOK
<1>8. Mirrored'
  <2>. SUFFICES ASSUME NEW q \in Live'
                PROVE  Range(entries'[q])
                         = {id \in DOMAIN origins' : q \in PathToRoot(origins[id])}
    BY <1>2, <1>3, <1>5 DEF Mirrored
  <2>. QED  BY <1>6
<1>9. InPutOrder'
  BY <1>6 DEF InPutOrder
<1>. QED  BY <1>7, <1>8, <1>9 DEF IndInv

-----------------------------------------------------------------------------
(* The invariant theorems *)

LEMMA StepInv == IndInv /\ [Next]_vars => IndInv'
<1>. SUFFICES ASSUME IndInv, [Next]_vars
              PROVE  IndInv'
  OBVIOUS
<1>1. ASSUME NEW o \in Live, Child(o)
      PROVE  IndInv'
  BY <1>1, ChildInv
<1>2. ASSUME NEW o \in Live, NEW e \in Event, Put(o, e)
      PROVE  IndInv'
  BY <1>2, PutInv
<1>3. ASSUME NEW o \in Live, ProcessEvents(o)
      PROVE  IndInv'
  BY <1>3, ProcessInv
<1>4. ASSUME NEW o \in Live, RemoveOwner(o)
      PROVE  IndInv'
  BY <1>4, RemoveInv DEF RemoveOwner
<1>5. CASE UNCHANGED vars
  BY <1>5 DEF vars, IndInv, TypeOK, Mirrored, InPutOrder, IsAscending, Live, PathToRoot,
              ParentClosed
<1>. QED  BY <1>1, <1>2, <1>3, <1>4, <1>5 DEF Next

LEMMA Invariance == Spec => []IndInv
BY InitInv, StepInv, PTL DEF Spec

(***************************************************************************)
(* MultiQueue is well typed; in particular no parent link or origin ever   *)
(* names a removed owner, so the walks up the tree never fail half way.    *)
(***************************************************************************)
THEOREM TypeCorrect == Spec => []TypeOK
BY Invariance, PTL DEF IndInv

(***************************************************************************)
(* Whatever owners and drains interleave, every queue shows exactly the    *)
(* pending events of its subtree.                                          *)
(***************************************************************************)
THEOREM AlwaysMirrored == Spec => []Mirrored
BY Invariance, PTL DEF IndInv

(***************************************************************************)
(* Every queue lists its events in the order they were put, each once.     *)
(***************************************************************************)
THEOREM AlwaysInPutOrder == Spec => []InPutOrder
BY Invariance, PTL DEF IndInv

-----------------------------------------------------------------------------
(* What each operation does to the pending events, for modules that compose *)
(* the queues with something else.                                          *)

LEMMA ChildEffect ==
  ASSUME IndInv, NEW p, Child(p)
  PROVE  /\ nextOwner' = nextOwner + 1 /\ Live \subseteq Live'
         /\ UNCHANGED <<events, origins>>
BY DEF Child, Live

LEMMA PutEffect ==
  ASSUME IndInv, NEW o, NEW e, Put(o, e)
  PROVE  /\ UNCHANGED nextOwner /\ Live' = Live /\ o \in Live
         /\ \A id \in DOMAIN events : id \in Nat /\ id < nextEvent
         /\ nextEvent \in Nat /\ DOMAIN events' = DOMAIN events \union {nextEvent}
         /\ events'[nextEvent] = e /\ origins'[nextEvent] = o
         /\ \A id \in DOMAIN events : events'[id] = events[id] /\ origins'[id] = origins[id]
<1>1. TypeOK
  BY DEF IndInv
<1>2. \A id \in DOMAIN events : id \in Nat /\ id < nextEvent
  BY <1>1 DEF TypeOK
<1>3. nextEvent \in Nat /\ DOMAIN origins = DOMAIN events
  BY <1>1 DEF TypeOK
<1>4. nextEvent \notin DOMAIN events
  BY <1>2, <1>3
<1>5. Live' = Live
  BY DEF Put, Live
<1>. QED  BY <1>2, <1>3, <1>4, <1>5 DEF Put

LEMMA RemoveEffect ==
  ASSUME IndInv, NEW o, RemoveOwner(o)
  PROVE  /\ UNCHANGED nextOwner /\ Live' \subseteq Live /\ Root \in Live'
         /\ DOMAIN events' \subseteq DOMAIN events
         /\ \A id \in DOMAIN events' : events'[id] = events[id] /\ origins'[id] = origins[id]
         /\ \A id \in DOMAIN events : origins[id] \in Live' => id \in DOMAIN events'
<1>1. o \in Live \ {Root} /\ TypeOK
  BY DEF RemoveOwner, IndInv
<1>2. Live' = Live \ Subtree(o) /\ Root \in Live'
  BY <1>1, RemovePaths
<1>3. RemovedEvents(o) = {id \in DOMAIN origins : o \in PathToRoot(origins[id])}
  BY <1>1, RemovedFacts
<1>4. DOMAIN origins = DOMAIN events /\ \A id \in DOMAIN origins : origins[id] \in Live
  BY <1>1 DEF TypeOK
<1>5. /\ DOMAIN events' = DOMAIN events \ RemovedEvents(o)
      /\ \A id \in DOMAIN events' : events'[id] = events[id] /\ origins'[id] = origins[id]
  BY <1>4 DEF RemoveOwner, Forget, Restrict
<1>6. ASSUME NEW id \in DOMAIN events, origins[id] \in Live'
      PROVE  id \in DOMAIN events'
  BY <1>2, <1>3, <1>4, <1>5, <1>6 DEF Subtree
<1>7. UNCHANGED nextOwner
  BY DEF RemoveOwner
<1>. QED  BY <1>2, <1>5, <1>6, <1>7

(***************************************************************************)
(* A drain returns in ascending order pending ids, and of one origin all   *)
(* or none.                                                                *)
(***************************************************************************)
LEMMA DrainEffect ==
  ASSUME IndInv, NEW o, ProcessEvents(o)
  PROVE  /\ UNCHANGED nextOwner /\ Live' = Live
         /\ \E ids \in Seq(Nat) :
              /\ IsAscending(ids) /\ Range(ids) \subseteq DOMAIN events
              /\ drained' = [i \in DOMAIN ids |-> events[ids[i]]]
              /\ DOMAIN events' = DOMAIN events \ Range(ids)
              /\ \A id \in DOMAIN events' : events'[id] = events[id] /\ origins'[id] = origins[id]
              /\ \A i, j \in DOMAIN events :
                   origins[i] = origins[j] /\ i \in Range(ids) => j \in Range(ids)
<1>1. o \in Live /\ TypeOK
  BY DEF ProcessEvents, IndInv
<1>2. DOMAIN origins = DOMAIN events
  BY <1>1 DEF TypeOK
<1>. DEFINE ids == Delivered(o)
<1>3. /\ Popped(o) = {id \in DOMAIN origins : o \in PathToRoot(origins[id])}
      /\ ids \in Seq(Nat) /\ Range(ids) = Popped(o) /\ IsAscending(ids)
  BY <1>1, PoppedFacts
<1>4. drained' = [i \in DOMAIN ids |-> events[ids[i]]]
  BY DEF ProcessEvents
<1>5. /\ DOMAIN events' = DOMAIN events \ Popped(o)
      /\ \A id \in DOMAIN events' : events'[id] = events[id] /\ origins'[id] = origins[id]
  BY <1>2 DEF ProcessEvents, Forget, Restrict
<1>6. UNCHANGED nextOwner /\ Live' = Live
  BY DEF ProcessEvents, Live
<1>. HIDE DEF ids
<1>7. Range(ids) \subseteq DOMAIN events
  BY <1>2, <1>3
<1>8. ASSUME NEW i \in DOMAIN events, NEW j \in DOMAIN events, origins[i] = origins[j], i \in Range(ids)
      PROVE  j \in Range(ids)
  BY <1>2, <1>3, <1>8
<1>9. DOMAIN events' = DOMAIN events \ Range(ids)
  BY <1>3, <1>5
<1>. QED  BY <1>3, <1>4, <1>5, <1>6, <1>7, <1>8, <1>9

-----------------------------------------------------------------------------
(* The queues implement the event board *)

\* The state of the board that a state of the queues stands for.
BarLineage == [o \in Live |-> PathToRoot(o)]
BarPending == [id \in DOMAIN origins |->
                 [audience |-> PathToRoot(origins[id]), event |-> events[id]]]

\* An ascending sequence enumerates its range in the sense of the board.
LEMMA AscendingEnumerates ==
  ASSUME NEW s \in Seq(Nat), IsAscending(s)
  PROVE  s \in Board!Ascending(Range(s))
<1>. DEFINE n == Len(s)
            R == Range(s)
<1>1. n \in Nat /\ s \in [1..n -> Nat] /\ DOMAIN s = 1..n
  BY LenProperties
<1>2. s \in Surjection(1..n, R)
  BY <1>1, Fun_RangeProperties
<1>3. IsInjective(s)
  <2>. SUFFICES ASSUME NEW i \in 1..n, NEW j \in 1..n, i # j
                PROVE  s[i] # s[j]
    BY <1>1 DEF IsInjective
  <2>1. i < j \/ j < i
    BY <1>1, SMT
  <2>. QED  BY <1>1, <2>1, SMT DEF IsAscending
<1>4. s \in Injection(1..n, R)
  BY <1>2, <1>3 DEF Injection, Surjection
<1>5. IsFiniteSet(1..n) /\ Cardinality(1..n) = n
  <2>. HIDE DEF n
  <2>1. /\ IsFiniteSet(1..n)
        /\ Cardinality(1..n) = IF 1 > n THEN 0 ELSE n - 1 + 1
    BY <1>1, FS_Interval
  <2>. QED  BY <1>1, <2>1, SMT
<1>6. ExistsBijection(1..n, R)
  BY <1>2, <1>4 DEF ExistsBijection, Bijection
<1>7. Cardinality(R) = n
  BY <1>5, <1>6, FS_Bijection
<1>8. s \in [1..n -> R]
  BY <1>2 DEF Surjection
<1>9. \A i, j \in DOMAIN s : i < j => s[i] < s[j]
  BY DEF IsAscending
<1>10. s \in [1..Cardinality(R) -> R]
  BY <1>7, <1>8
<1>. HIDE DEF R, n
<1>11. Board!Cardinality(R) = Cardinality(R)
  BY DEF Board!Cardinality, Cardinality, Board!IsFiniteSet, IsFiniteSet
<1>12. s \in Board!Ascending(R)
  BY <1>9, <1>10, <1>11 DEF Board!Ascending
<1>. QED  BY <1>12 DEF R

LEMMA BoardInit == Init => Board!Init
<1>. SUFFICES ASSUME Init PROVE Board!Init
  OBVIOUS
<1>1. TypeOK /\ Live = {Root} /\ DOMAIN origins = {}
  BY InitInv DEF Init, Live, IndInv
<1>2. PathToRoot(Root) = {Root}
  BY <1>1, TypeFacts, PathOfRoot, PathToRootIsPathIn
<1>. QED  BY <1>1, <1>2 DEF Init, Board!Init, Board!Root, Root

LEMMA BoardChild ==
  ASSUME IndInv, NEW p \in Live, Child(p)
  PROVE  Board!Child(p)
<1>1. /\ Live' = Live \union {nextOwner} /\ nextOwner \notin Live
      /\ \A q \in Live : PathToRoot(q)' = PathToRoot(q)
      /\ \A n : n = nextOwner => PathToRoot(n)' = {n} \union PathToRoot(p)
  BY ChildPaths DEF IndInv
<1>2. BarLineage' = [o \in Live \union {nextOwner} |->
                       IF o = nextOwner THEN BarLineage[p] \union {o} ELSE BarLineage[o]]
  BY <1>1 DEF BarLineage
<1>3. origins' = origins /\ events' = events
  BY DEF Child
<1>4. BarPending' = BarPending
  <2>1. \A id \in DOMAIN origins : \A o : o = origins[id] => o \in Live
    BY TypeFacts DEF IndInv
  <2>2. \A id \in DOMAIN origins : \A o : o = origins[id] => PathToRoot(o)' = PathToRoot(o)
    BY <1>1, <2>1
  <2>3. \A id \in DOMAIN origins : \A o : o = origins[id] =>
          PathToRoot(o)' = PathToRoot(origins[id])'
    BY <1>3 DEF PathToRoot, ParentClosed, Live
  <2>. QED  BY <1>3, <2>2, <2>3 DEF BarPending
<1>. QED  BY <1>2, <1>4 DEF Child, Board!Child, Board!Owners, BarLineage, BarPending

LEMMA BoardPut ==
  ASSUME IndInv, NEW o \in Live, NEW e \in Event, Put(o, e)
  PROVE  Board!Put(o, e)
<1>. DEFINE n == nextEvent
<1>1. Live' = Live /\ parent' = parent /\ \A q : PathToRoot(q)' = PathToRoot(q)
  <2>1. Live' = Live /\ parent' = parent
    BY DEF Put, Live
  <2>. QED  BY <2>1, SameTreeSamePaths
<1>2. BarLineage' = BarLineage
  BY <1>1 DEF BarLineage
<1>3. /\ DOMAIN origins = DOMAIN events /\ n \notin DOMAIN origins
      /\ DOMAIN origins' = DOMAIN origins \union {n} /\ origins'[n] = o /\ events'[n] = e
      /\ \A id \in DOMAIN origins : origins'[id] = origins[id] /\ events'[id] = events[id]
  BY TypeFacts DEF Put, IndInv, TypeOK
<1>4. BarPending' = [id \in DOMAIN BarPending \union {n} |->
                       IF id = n THEN [audience |-> BarLineage[o], event |-> e]
                                 ELSE BarPending[id]]
  <2>1. BarPending' = [id \in DOMAIN origins' |->
                         [audience |-> PathToRoot(origins'[id]), event |-> events'[id]]]
    BY <1>1 DEF BarPending, PathToRoot, ParentClosed, Live
  <2>. QED  BY <1>3, <2>1 DEF BarPending, BarLineage
<1>. QED  BY <1>2, <1>4 DEF Put, Board!Put, Board!Owners, BarLineage, BarPending

LEMMA BoardDrain ==
  ASSUME IndInv, NEW o \in Live, ProcessEvents(o)
  PROVE  Board!Drain(o)
<1>. DEFINE d == Delivered(o)
            seen == {id \in DOMAIN BarPending : o \in BarPending[id].audience}
<1>1. Live' = Live /\ parent' = parent /\ \A q : PathToRoot(q)' = PathToRoot(q)
  <2>1. Live' = Live /\ parent' = parent
    BY DEF ProcessEvents, Live
  <2>. QED  BY <2>1, SameTreeSamePaths
<1>2. BarLineage' = BarLineage
  BY <1>1 DEF BarLineage
<1>3. seen = Popped(o) /\ seen \subseteq DOMAIN origins
  BY PoppedFacts DEF BarPending
<1>4. /\ DOMAIN origins' = DOMAIN origins \ seen /\ DOMAIN events = DOMAIN origins
      /\ \A id \in DOMAIN origins' : origins'[id] = origins[id] /\ events'[id] = events[id]
  BY <1>3 DEF ProcessEvents, Forget, Restrict, IndInv, TypeOK
<1>5. BarPending' = [id \in DOMAIN BarPending \ seen |-> BarPending[id]]
  <2>1. BarPending' = [id \in DOMAIN origins' |->
                         [audience |-> PathToRoot(origins'[id]), event |-> events'[id]]]
    BY <1>1 DEF BarPending, PathToRoot, ParentClosed, Live
  <2>. QED  BY <1>4, <2>1 DEF BarPending
<1>6. d \in Board!Ascending(seen)
  BY <1>3, PoppedFacts, AscendingEnumerates
<1>7. drained' = [i \in DOMAIN d |-> BarPending[d[i]].event]
  <2>1. \A i \in DOMAIN d : d[i] \in DOMAIN origins
    BY <1>3, PoppedFacts DEF Range
  <2>. QED  BY <2>1 DEF ProcessEvents, BarPending
<1>. QED
  BY <1>2, <1>5, <1>6, <1>7
  DEF ProcessEvents, Board!Drain, Board!SeenBy, Board!Drop, Board!Owners, BarLineage, BarPending

LEMMA BoardRemove ==
  ASSUME IndInv, NEW o \in Live \ {Root}, RemoveOwner(o)
  PROVE  Board!Remove(o)
<1>. DEFINE seen == {id \in DOMAIN BarPending : o \in BarPending[id].audience}
<1>1. Live' = Live \ Subtree(o) /\ \A q \in Live' : PathToRoot(q)' = PathToRoot(q)
  BY RemovePaths DEF IndInv
<1>2. BarLineage' = [q \in {q \in Live : o \notin BarLineage[q]} |-> BarLineage[q]]
  BY <1>1 DEF BarLineage, Subtree
<1>3. seen = RemovedEvents(o)
  BY RemovedFacts DEF BarPending
<1>4. /\ DOMAIN origins' = DOMAIN origins \ seen /\ DOMAIN events = DOMAIN origins
      /\ \A id \in DOMAIN origins' : origins'[id] = origins[id] /\ events'[id] = events[id]
  BY <1>3 DEF RemoveOwner, Forget, Restrict, IndInv, TypeOK
<1>5. TypeOK'
  BY RemoveInv DEF IndInv
<1>6. \A id \in DOMAIN origins' : \A q : q = origins'[id] => PathToRoot(q)' = PathToRoot(q)
  BY <1>1, <1>5 DEF TypeOK
<1>7. BarPending' = [id \in DOMAIN BarPending \ seen |-> BarPending[id]]
  <2>1. \A id \in DOMAIN origins' : PathToRoot(origins[id])' = PathToRoot(origins[id])
    <3>1. \A id, q : q = origins'[id] => PathToRoot(q)' = PathToRoot(origins[id])'
      BY DEF PathToRoot, ParentClosed, Live
    <3>. QED  BY <1>4, <1>6, <3>1
  <2>. QED  BY <1>4, <2>1 DEF BarPending
<1>. QED
  BY <1>2, <1>7
  DEF RemoveOwner, Board!Remove, Board!SeenBy, Board!Drop, Board!Owners, Board!Root, Root,
      BarLineage, BarPending

LEMMA BoardStep == IndInv /\ [Next]_vars => [Board!Next]_(Board!vars)
<1>. SUFFICES ASSUME IndInv, [Next]_vars
              PROVE  [Board!Next]_(Board!vars)
  OBVIOUS
<1>1. Board!Owners = Live
  BY DEF Board!Owners
<1>2. ASSUME NEW o \in Live, Child(o)
      PROVE  Board!Next
  BY <1>1, <1>2, BoardChild DEF Board!Next
<1>3. ASSUME NEW o \in Live, NEW e \in Event, Put(o, e)
      PROVE  Board!Next
  BY <1>1, <1>3, BoardPut DEF Board!Next
<1>4. ASSUME NEW o \in Live, ProcessEvents(o)
      PROVE  Board!Next
  BY <1>1, <1>4, BoardDrain DEF Board!Next
<1>5. ASSUME NEW o \in Live, RemoveOwner(o)
      PROVE  Board!Next
  BY <1>1, <1>5, BoardRemove DEF Board!Next, RemoveOwner
<1>6. CASE UNCHANGED vars
  BY <1>6 DEF vars, Board!vars, Live, PathToRoot, ParentClosed
<1>. QED  BY <1>2, <1>3, <1>4, <1>5, <1>6 DEF Next

(***************************************************************************)
(* The queues of events.rs implement the event board: draining an owner    *)
(* returns exactly its subtree's events, in put order and once, and leaves *)
(* every other event where it was; removing an owner discards exactly      *)
(* those.                                                                  *)
(***************************************************************************)
THEOREM QueuesImplementBoard == Spec => ImplementsBoard
BY BoardInit, BoardStep, Invariance, PTL DEF Spec, ImplementsBoard, Board!Spec
=============================================================================
