--------------------------- MODULE TimerHeapProofs ---------------------------
(***************************************************************************)
(* Proofs about TimerHeap, for any intervals and any number of timers.     *)
(*                                                                         *)
(* Keys of the heap are ordered totally, so the number of due timers that  *)
(* come before one is its place in the list of a pass (Listed).  That      *)
(* nothing due is left for the deferred callbacks follows the iteration:   *)
(* from the return of the readiness callbacks to the last pass the clock   *)
(* does not run backwards and the host does not act (HeapInv).             *)
(***************************************************************************)
EXTENDS TimerHeap, FiniteSetTheorems, FunctionTheorems, TLAPS

Timers == [at : Nat, every : Interval \union {ONCE}]
Steps == {"idle", "first", "timeout", "poll", "second", "dispatch", "third", "drain"}

TypeOK ==
  /\ now \in Nat /\ nextTimer \in Nat /\ pc \in Steps
  /\ heap \in [Pending -> Timers] /\ Pending \subseteq 0..(nextTimer - 1)
  /\ calledAt \in Nat /\ calledAt <= now

HeapInv == TypeOK /\ TimersBeforeDeferred

-----------------------------------------------------------------------------
(* Deadline and insertion order the keys totally. *)
LEMMA KeysOrdered ==
  ASSUME TypeOK
  PROVE  /\ Pending \subseteq Nat /\ \A id \in Pending : heap[id].at \in Nat
         /\ \A a \in Pending : ~Before(a, a)
         /\ \A a, b \in Pending : a # b => Before(a, b) \/ Before(b, a)
         /\ \A a, b, c \in Pending : Before(a, b) /\ Before(b, c) => Before(a, c)
<1>1. Pending \subseteq Nat
  BY DEF TypeOK
<1>2. ASSUME NEW id \in Pending PROVE heap[id].at \in Nat
  <2>1. heap[id] \in Timers
    BY DEF TypeOK
  <2>. QED  BY <2>1 DEF Timers
<1>3. \A a \in Pending : ~Before(a, a)
  BY <1>1, <1>2 DEF Before
<1>4. \A a, b \in Pending : a # b => Before(a, b) \/ Before(b, a)
  BY <1>1, <1>2 DEF Before
<1>5. \A a, b, c \in Pending : Before(a, b) /\ Before(b, c) => Before(a, c)
  BY <1>1, <1>2 DEF Before
<1>. QED  BY <1>1, <1>2, <1>3, <1>4, <1>5

LEMMA DueFinite ==
  ASSUME TypeOK, NEW t \in Nat
  PROVE  /\ Due(t) \subseteq Pending /\ IsFiniteSet(Due(t)) /\ Cardinality(Due(t)) \in Nat
         /\ \A id \in Pending : Rank(id, t) \in Nat
<1>1. IsFiniteSet(0..(nextTimer - 1))
  BY FS_Interval DEF TypeOK
<1>2. Due(t) \subseteq Pending /\ Pending \subseteq 0..(nextTimer - 1)
  BY DEF Due, TypeOK
<1>3. ASSUME NEW S \in SUBSET Due(t) PROVE IsFiniteSet(S) /\ Cardinality(S) \in Nat
  <2>1. IsFiniteSet(S)
    BY <1>1, <1>2, FS_Subset
  <2>. QED  BY <2>1, FS_CardinalityType
<1>. QED  BY <1>2, <1>3 DEF Rank

(* Who comes before another is before fewer due timers. *)
LEMMA RanksAscend ==
  ASSUME TypeOK, NEW t \in Nat, NEW a \in Due(t), NEW b \in Due(t), Before(a, b)
  PROVE  Rank(a, t) < Rank(b, t)
<1>. DEFINE A == {other \in Due(t) : Before(other, a)}
            B == {other \in Due(t) : Before(other, b)}
<1>1. Due(t) \subseteq Pending /\ IsFiniteSet(Due(t)) /\ Rank(a, t) \in Nat /\ Rank(b, t) \in Nat
  BY DueFinite
<1>2. A \subseteq B /\ a \in B /\ a \notin A
  BY <1>1, KeysOrdered
<1>3. IsFiniteSet(B)
  BY <1>1, FS_Subset
<1>. HIDE DEF A, B
<1>4. Cardinality(A) <= Cardinality(B) /\ (Cardinality(B) = Cardinality(A) => B = A)
  BY <1>2, <1>3, FS_Subset
<1>5. Rank(a, t) = Cardinality(A) /\ Rank(b, t) = Cardinality(B)
  BY DEF Rank, A, B
<1>. QED  BY <1>1, <1>2, <1>4, <1>5

LEMMA RankBelow ==
  ASSUME TypeOK, NEW t \in Nat, NEW id \in Due(t)
  PROVE  Rank(id, t) + 1 \in 1..Cardinality(Due(t))
<1>. DEFINE A == {other \in Due(t) : Before(other, id)}
            D == Due(t)
<1>1. /\ D \subseteq Pending /\ IsFiniteSet(D) /\ Cardinality(D) \in Nat /\ Rank(id, t) \in Nat
      /\ Rank(id, t) = Cardinality(A)
  BY DueFinite DEF Rank
<1>2. A \subseteq D /\ id \in D /\ id \notin A
  BY <1>1, KeysOrdered
<1>. HIDE DEF A, D
<1>3. Cardinality(A) <= Cardinality(D) /\ (Cardinality(D) = Cardinality(A) => D = A)
  BY <1>1, <1>2, FS_Subset
<1>4. Rank(id, t) < Cardinality(D)
  BY <1>1, <1>2, <1>3
<1>. QED  BY <1>1, <1>4 DEF D

(* The list of a pass has every due timer, once, at the place of its rank. *)
LEMMA Listed ==
  ASSUME TypeOK, NEW t \in Nat
  PROVE  /\ DOMAIN InOrder(t) = 1..Cardinality(Due(t))
         /\ \A i \in 1..Cardinality(Due(t)) : InOrder(t)[i] \in Due(t)
         /\ \A id \in Due(t) : /\ Rank(id, t) + 1 \in 1..Cardinality(Due(t))
                               /\ InOrder(t)[Rank(id, t) + 1] = id
<1>. DEFINE D == Due(t)
            n == Cardinality(D)
            f == [id \in D |-> Rank(id, t) + 1]
<1>1. D \subseteq Pending /\ IsFiniteSet(D) /\ n \in Nat /\ \A id \in D : Rank(id, t) \in Nat
  BY DueFinite
<1>2. \A id \in D : Rank(id, t) + 1 \in 1..n
  BY RankBelow
<1>3. \A a, b \in D : Rank(a, t) = Rank(b, t) => a = b
  <2>. SUFFICES ASSUME NEW a \in D, NEW b \in D, a # b PROVE Rank(a, t) # Rank(b, t)
    OBVIOUS
  <2>1. Before(a, b) \/ Before(b, a)
    BY <1>1, KeysOrdered
  <2>2. Rank(a, t) < Rank(b, t) \/ Rank(b, t) < Rank(a, t)
    BY <2>1, RanksAscend
  <2>. QED  BY <1>1, <2>2
<1>4. f \in Injection(D, 1..n)
  <2>1. f \in [D -> 1..n]
    BY <1>2
  <2>2. \A a, b \in D : f[a] = f[b] => a = b
    BY <1>1, <1>3
  <2>. HIDE DEF f, n, D
  <2>. QED  BY <2>1, <2>2, Fun_IsInj
<1>5. f \in Surjection(D, 1..n)
  <2>1. IsFiniteSet(1..n) /\ Cardinality(1..n) = n
    BY <1>1, FS_Interval
  <2>. HIDE DEF f, D
  <2>. QED  BY <1>4, <2>1, FS_Injection
<1>6. \A i \in 1..n : \E id \in D : Rank(id, t) = i - 1
  <2>1. \A i \in 1..n : \E id \in D : f[id] = i
    <3>. HIDE DEF f, D, n
    <3>. QED  BY <1>5, Fun_SurjectionProperties
  <2>. QED  BY <1>1, <2>1
<1>7. DOMAIN InOrder(t) = 1..n
      /\ \A i \in 1..n : InOrder(t)[i] = CHOOSE id \in D : Rank(id, t) = i - 1
  BY DEF InOrder
<1>8. ASSUME NEW i \in 1..n PROVE InOrder(t)[i] \in D /\ Rank(InOrder(t)[i], t) = i - 1
  BY <1>6, <1>7
<1>9. ASSUME NEW id \in D PROVE InOrder(t)[Rank(id, t) + 1] = id
  <2>1. Rank(InOrder(t)[Rank(id, t) + 1], t) = Rank(id, t) /\ InOrder(t)[Rank(id, t) + 1] \in D
    BY <1>1, <1>2, <1>8
  <2>. QED  BY <1>3, <2>1
<1>. QED  BY <1>2, <1>7, <1>8, <1>9

-----------------------------------------------------------------------------
(* A pass leaves repeating timers and those that are not due. *)
LEMMA PassLeaves ==
  ASSUME TypeOK, Expired(now)
  PROVE  /\ heap' \in [Pending' -> Timers] /\ Pending' \subseteq Pending
         /\ \A id \in Pending' : heap'[id].every = ONCE => heap'[id].at > now
<1>1. now \in Nat /\ nextTimer \in Nat
  BY DEF TypeOK
<1>2. /\ Pending' = {i \in Pending : i \notin Due(now) \/ heap[i].every # ONCE}
      /\ heap' = [id \in Pending' |-> IF id \in Due(now) THEN Rearmed(id, now) ELSE heap[id]]
  BY DEF Expired, Pending
<1>3. ASSUME NEW id \in Pending'
      PROVE  heap'[id] \in Timers /\ (heap'[id].every = ONCE => heap'[id].at > now)
  <2>1. id \in Pending /\ heap[id] \in Timers
    BY <1>2 DEF TypeOK
  <2>2. heap[id].at \in Nat /\ heap[id].every \in Interval \union {ONCE}
    BY <2>1 DEF Timers
  <2>3. CASE id \in Due(now)
    <3>1. heap[id].every # ONCE
      BY <1>2, <2>3
    <3>2. heap[id].every \in Interval /\ heap[id].every \in Nat
      BY <2>2, <3>1, TimesAreNat
    <3>3. heap'[id] = [heap[id] EXCEPT !.at = heap[id].at + heap[id].every]
      BY <1>2, <2>3 DEF Rearmed
    <3>4. heap[id].at + heap[id].every \in Nat
      BY <2>2, <3>2
    <3>5. heap'[id] \in Timers /\ heap'[id].every = heap[id].every
      BY <2>1, <3>3, <3>4 DEF Timers
    <3>. QED  BY <3>1, <3>5
  <2>4. CASE id \notin Due(now)
    <3>1. heap'[id] = heap[id]
      BY <1>2, <2>4
    <3>2. ~(heap[id].at <= now)
      BY <2>1, <2>4 DEF Due
    <3>. QED  BY <1>1, <2>1, <2>2, <3>1, <3>2
  <2>. QED  BY <2>3, <2>4
<1>4. heap' \in [Pending' -> Timers]
  <2>. DEFINE P == Pending'
  <2>1. heap' = [id \in P |-> IF id \in Due(now) THEN Rearmed(id, now) ELSE heap[id]]
    BY <1>2
  <2>2. \A id \in P : heap'[id] \in Timers
    BY <1>3
  <2>. HIDE DEF P
  <2>3. heap' \in [P -> Timers]
    BY <2>1, <2>2
  <2>. QED  BY <2>3 DEF P
<1>. QED  BY <1>2, <1>3, <1>4

LEMMA HeapInit == Init => HeapInv
BY DEF Init, HeapInv, TypeOK, TimersBeforeDeferred, Pending, Steps

LEMMA HeapStep == HeapInv /\ [Next]_vars => HeapInv'
<1>. SUFFICES ASSUME HeapInv, [Next]_vars PROVE HeapInv'
  OBVIOUS
<1>. USE DEF HeapInv, Steps
<1>0. /\ now \in Nat /\ nextTimer \in Nat /\ calledAt \in Nat /\ calledAt <= now
      /\ heap \in [Pending -> Timers] /\ Pending \subseteq 0..(nextTimer - 1)
  BY DEF TypeOK
<1>1. CASE Tick
  BY <1>1 DEF Tick, loopVars, TypeOK, TimersBeforeDeferred, Pending
<1>2. ASSUME NEW at \in 0..MaxTime, NEW every \in Interval \union {ONCE}, Insert(at, every)
      PROVE  HeapInv'
  <2>. DEFINE timer == [at |-> at, every |-> every]
  <2>1. timer \in Timers
    BY TimesAreNat DEF Timers
  <2>. HIDE DEF timer
  <2>2. /\ heap' = [id \in Pending \union {nextTimer} |-> IF id = nextTimer THEN timer ELSE heap[id]]
        /\ nextTimer' = nextTimer + 1 /\ pc = "idle" /\ UNCHANGED <<now, pc, calledAt>>
    BY <1>2 DEF Insert, loopVars, timer
  <2>3. Pending' = Pending \union {nextTimer}
    BY <2>2 DEF Pending
  <2>4. heap' \in [Pending \union {nextTimer} -> Timers]
    BY <1>0, <2>1, <2>2
  <2>5. Pending \union {nextTimer} \subseteq 0..(nextTimer' - 1)
    BY <1>0, <2>2
  <2>. QED  BY <1>0, <2>2, <2>3, <2>4, <2>5 DEF TypeOK, TimersBeforeDeferred
<1>3. ASSUME NEW gone \in Pending, Cancel(gone)
      PROVE  HeapInv'
  <2>1. /\ heap' = [other \in Pending \ {gone} |-> heap[other]]
        /\ pc = "idle" /\ UNCHANGED <<now, nextTimer, pc, calledAt>>
    BY <1>3 DEF Cancel, loopVars
  <2>2. Pending' = Pending \ {gone}
    BY <2>1 DEF Pending
  <2>3. heap' \in [Pending \ {gone} -> Timers]
    BY <1>0, <2>1
  <2>. QED  BY <1>0, <2>1, <2>2, <2>3 DEF TypeOK, TimersBeforeDeferred
<1>4. CASE Pass("first", "timeout") \/ Pass("second", "dispatch") \/ Pass("third", "drain")
  <2>1. Expired(now) /\ UNCHANGED <<now, nextTimer, calledAt>> /\ pc' \in {"timeout", "dispatch", "drain"}
    BY <1>4 DEF Pass
  <2>2. /\ heap' \in [Pending' -> Timers] /\ Pending' \subseteq Pending
        /\ \A id \in Pending' : heap'[id].every = ONCE => heap'[id].at > now
    BY <2>1, PassLeaves
  <2>3. TypeOK'
    BY <1>0, <2>1, <2>2 DEF TypeOK
  <2>4. ASSUME NEW id \in Pending', heap'[id].every = ONCE PROVE heap'[id].at > calledAt
    <3>1. heap'[id] \in Timers
      BY <2>2
    <3>2. heap'[id].at \in Nat /\ heap'[id].at > now
      BY <2>2, <2>4, <3>1 DEF Timers
    <3>. QED  BY <1>0, <3>2
  <2>. QED  BY <2>1, <2>3, <2>4 DEF TimersBeforeDeferred
<1>5. CASE EnterPoll \/ PollReady \/ IterationFails \/ Drain \/ BeginAny
  <2>1. UNCHANGED <<now, heap, nextTimer, calledAt>> /\ pc' \in {"poll", "second", "idle", "first"}
    BY <1>5 DEF EnterPoll, PollReady, IterationFails, Drain, BeginAny, Begin
  <2>. QED  BY <2>1 DEF TypeOK, TimersBeforeDeferred, Pending
<1>6. CASE Dispatch
  <2>1. UNCHANGED <<now, heap, nextTimer>> /\ calledAt' = now /\ pc' \in {"third", "idle"}
    BY <1>6 DEF Dispatch, AfterDispatch
  <2>. QED  BY <1>0, <2>1 DEF TypeOK, TimersBeforeDeferred, Pending
<1>7. CASE UNCHANGED vars
  BY <1>7 DEF vars, loopVars, TypeOK, TimersBeforeDeferred, Pending
<1>. QED  BY <1>1, <1>2, <1>3, <1>4, <1>5, <1>6, <1>7 DEF Next, Host, LoopStep, PollTimesOut

(***************************************************************************)
(* The types of the heap: every pending timer has a deadline and was given *)
(* its sequence number by an insertion (TimerHeap).                        *)
(***************************************************************************)
THEOREM TypeCorrect == Spec => []TypeOK
<1>1. HeapInv => TypeOK
  BY DEF HeapInv
<1>. QED  BY HeapInit, HeapStep, <1>1, PTL DEF Spec

(***************************************************************************)
(* No deferred callback runs ahead of a one-shot timer that became due     *)
(* before the readiness callbacks returned (the third pass of              *)
(* run_once_for).                                                          *)
(***************************************************************************)
THEOREM TimersComeFirst == Spec => []TimersBeforeDeferred
<1>1. HeapInv => TimersBeforeDeferred
  BY DEF HeapInv
<1>. QED  BY HeapInit, HeapStep, <1>1, PTL DEF Spec

(***************************************************************************)
(* A pass runs due timers by deadline, and those of one deadline in the    *)
(* order they were inserted, leaving none out (expired).                   *)
(***************************************************************************)
THEOREM RunInDeadlineOrder == Spec => InDeadlineOrder
<1>1. TypeOK /\ [Next]_vars =>
       [(pc' # pc /\ pc \in {"first", "second", "third"}) =>
         \A b \in Range(fired') : \A a \in {p \in Pending : Earlier(p, b)} : RanBefore(a, b)]_vars
  <2>. SUFFICES ASSUME TypeOK, [Next]_vars, pc' # pc, pc \in {"first", "second", "third"}
                PROVE  \A b \in Range(fired') : \A a \in {p \in Pending : Earlier(p, b)} : RanBefore(a, b)
    OBVIOUS
  <2>1. Expired(now)
    BY DEF Next, Host, BeginAny, LoopStep, Tick, Insert, Cancel, Begin, Pass, EnterPoll, PollTimesOut,
           PollReady, Dispatch, Drain, IterationFails, loopVars, vars
  <2>2. fired' = InOrder(now) /\ now \in Nat
    BY <2>1 DEF Expired, TypeOK
  <2>. SUFFICES ASSUME NEW b \in Range(InOrder(now)), NEW a \in Pending, Earlier(a, b)
                PROVE  RanBefore(a, b)
    BY <2>2
  <2>. DEFINE D == Due(now)
              s == InOrder(now)
  <2>3. b \in D
    BY <2>2, Listed DEF Range
  <2>4. b \in Pending /\ heap[b].at <= now /\ heap[b].at \in Nat /\ heap[a].at \in Nat
    BY <2>3, KeysOrdered DEF Due
  <2>5. heap[a].at <= heap[b].at
    BY <2>4 DEF Earlier
  <2>6. a \in D /\ Before(a, b)
    BY <2>2, <2>4, <2>5 DEF Due, Before, Earlier
  <2>7. Rank(a, now) < Rank(b, now) /\ Rank(a, now) \in Nat /\ Rank(b, now) \in Nat
    BY <2>2, <2>3, <2>6, <2>4, RanksAscend, DueFinite
  <2>8. /\ Rank(a, now) + 1 \in DOMAIN s /\ s[Rank(a, now) + 1] = a
        /\ Rank(b, now) + 1 \in DOMAIN s /\ s[Rank(b, now) + 1] = b
    BY <2>2, <2>3, <2>6, Listed
  <2>9. Rank(a, now) + 1 < Rank(b, now) + 1
    BY <2>7
  <2>. HIDE DEF s
  <2>10. \E i, j \in DOMAIN s : i < j /\ s[i] = a /\ s[j] = b
    BY <2>8, <2>9
  <2>. QED  BY <2>2, <2>10 DEF RanBefore, s
<1>2. HeapInv => TypeOK
  BY DEF HeapInv
<1>. QED  BY HeapInit, HeapStep, <1>1, <1>2, PTL DEF Spec, InDeadlineOrder
=============================================================================
