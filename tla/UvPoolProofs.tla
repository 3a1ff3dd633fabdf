---------------------------- MODULE UvPoolProofs ----------------------------
(***************************************************************************)
(* Theorems about the worker pool, for every number of requests and        *)
(* workers.  The chain is: types; a request is in one place, the one its   *)
(* stage says; so whoever ends a request ends one that is counted, and the *)
(* count is exact; so a run returns with nothing left to answer; and a     *)
(* blocked loop has a wake to come.                                        *)
(***************************************************************************)
EXTENDS UvPool, FiniteSetTheorems, TLAPS

LEMMA InitTypes == ASSUME Init PROVE TypeOK
<1> USE DEF Init
<1>1. pending \in Seq(Request) /\ jobs \in Seq(Request \union {Shutdown})
  OBVIOUS
<1>2. hand \in [Worker -> Request \union {None}] /\ stage \in [Request -> Stage]
  BY DEF Stage
<1>3. owes \subseteq Request \union Worker /\ started \subseteq Worker /\ gone \subseteq started
  OBVIOUS
<1>4. accepting \in BOOLEAN /\ edge \in BOOLEAN /\ forced \in BOOLEAN /\ block \in BOOLEAN
      /\ stop \in BOOLEAN
  OBVIOUS
<1> QED BY <1>1, <1>2, <1>3, <1>4 DEF TypeOK

(***************************************************************************)
(* What the dropping thread sends is as many shutdown messages as there    *)
(* are workers to join.                                                    *)
(***************************************************************************)
LEMMA ShutdownsType ==
  ASSUME TypeOK
  PROVE  /\ Cardinality(started) \in Nat
         /\ Shutdowns \in Seq({Shutdown}) /\ Len(Shutdowns) = Cardinality(started)
         /\ \A i \in 1..Cardinality(started) : Shutdowns[i] = Shutdown
<1>1. Cardinality(started) \in Nat
  BY PoolAssumption, FS_Subset, FS_CardinalityType DEF TypeOK
<1> QED BY <1>1 DEF Shutdowns

LEMMA StepKeepsTypes == ASSUME TypeOK, [Next]_vars PROVE TypeOK'
<1> USE DEF TypeOK
<1>1. ASSUME NEW r \in Request, CheckAccepting(r) \/ SubmitStep(r) PROVE TypeOK'
  <2>1. CASE CheckAccepting(r)
    BY <2>1 DEF CheckAccepting, Moves, Enters, Stage, queueVars, wakeVars, poolVars, loopVars
  <2>2. CASE Count(r)
    BY <2>2 DEF Count, Moves, Enters, Stage, wakeVars, poolVars, loopVars
  <2>3. CASE Recheck(r)
    BY <2>3 DEF Recheck, Moves, Enters, Stage, queueVars, wakeVars, poolVars, loopVars
  <2>4. CASE Send(r)
    BY <2>4 DEF Send, Moves, Enters, Stage, queueVars, wakeVars, loopVars
  <2>5. CASE Refuse(r)
    BY <2>5 DEF Refuse, Ends, Less, Owing, Moves, Enters, Stage, poolVars, loopVars
  <2>6. CASE Wakes(r)
    BY <2>6 DEF Wakes, queueVars, poolVars, loopVars
  <2> QED BY <1>1, <2>1, <2>2, <2>3, <2>4, <2>5, <2>6 DEF SubmitStep
<1>2. ASSUME NEW w \in Worker, WorkerStep(w) PROVE TypeOK'
  <2>1. CASE Take(w)
    <3>1. Head(jobs) \in Request /\ Tail(jobs) \in Seq(Request \union {Shutdown})
      BY <2>1 DEF Take
    <3> QED BY <2>1, <3>1 DEF Take, Enters, Stage, queueVars, wakeVars, loopVars
  <2>2. CASE TakeShutdown(w)
    BY <2>2 DEF TakeShutdown, Free, queueVars, wakeVars, loopVars
  <2>3. CASE Work(w)
    BY <2>3 DEF Work, Moves, Enters, Stage, queueVars, wakeVars, poolVars, loopVars
  <2>4. CASE Push(w)
    BY <2>4 DEF Push, Owing, Moves, Enters, Stage, loopVars
  <2>5. CASE Drop(w)
    BY <2>5 DEF Drop, Ends, Less, Owing, Moves, Enters, Stage, loopVars
  <2>6. CASE Wakes(w)
    BY <2>6 DEF Wakes, queueVars, poolVars, loopVars
  <2> QED BY <1>2, <2>1, <2>2, <2>3, <2>4, <2>5, <2>6 DEF WorkerStep
<1>3. CASE DropPool
  <2>1. jobs \o Shutdowns \in Seq(Request \union {Shutdown})
    BY ShutdownsType
  <2> QED BY <1>3, <2>1 DEF DropPool, queueVars, wakeVars, loopVars
<1>4. CASE PoolJoined
  BY <1>4 DEF PoolJoined, queueVars, wakeVars, loopVars
<1>5. CASE Run \/ StopBetweenRuns \/ CloseLoop \/ PollDisturbed
  BY <1>5 DEF Run, StopBetweenRuns, CloseLoop, PollDisturbed, queueVars, wakeVars, poolVars,
              loopVars
<1>6. CASE Returns \/ Turns \/ DrainedBefore \/ PollReturns
  BY <1>6 DEF Returns, Turns, DrainedBefore, PollReturns, queueVars, wakeVars, poolVars, loopVars
<1>7. CASE PollTimeout
  <2>1. Blocks \in BOOLEAN
    BY DEF Blocks
  <2> QED BY <1>7, <2>1 DEF PollTimeout, queueVars, wakeVars, poolVars
<1>8. CASE DrainedAfter
  BY <1>8 DEF DrainedAfter, queueVars, wakeVars, poolVars
<1>9. CASE Complete
  <2>1. pending' \in Seq(Request) /\ outstanding' \in Nat /\ stage' \in [Request -> Stage]
    BY <1>9 DEF Complete, Enters, Less, Stage
  <2>2. stop' \in BOOLEAN
    BY <1>9, Zenon DEF Complete
  <2>3. edge' \in BOOLEAN
        /\ UNCHANGED <<accepting, owes, started, gone, jobs, hand, pool, pc, forced, block>>
    BY <1>9 DEF Complete, poolVars
  <2> QED BY <2>1, <2>2, <2>3
<1>10. CASE UNCHANGED vars
  BY <1>10 DEF vars, queueVars, wakeVars, poolVars, loopVars
<1> QED BY <1>1, <1>2, <1>3, <1>4, <1>5, <1>6, <1>7, <1>8, <1>9, <1>10 DEF Next, LoopStep

(***************************************************************************)
(* Every variable of the pool and of its loop keeps its type.              *)
(***************************************************************************)
THEOREM TypeCorrect == Spec => []TypeOK
<1> QED BY InitTypes, StepKeepsTypes, PTL DEF Spec

-----------------------------------------------------------------------------
Placed == {"queued", "working", "pushing", "dropping", "posted"}

LEMMA InitPlaces == ASSUME Init PROVE InOnePlace
BY DEF Init, InOnePlace, InChannel, InHand, InQueue

(***************************************************************************)
(* A request in no place can change its stage without disturbing any.      *)
(***************************************************************************)
LEMMA UnplacedMoves ==
  ASSUME TypeOK, InOnePlace, NEW r \in Request, stage[r] \notin Placed, NEW to, Enters(r, to),
         UNCHANGED <<jobs, hand, pending>>
  PROVE  InOnePlace'
BY DEF TypeOK, InOnePlace, InChannel, InHand, InQueue, Placed, Enters

LEMMA SamePlaces ==
  ASSUME InOnePlace, UNCHANGED <<jobs, hand, pending, stage>>
  PROVE  InOnePlace'
BY DEF InOnePlace, InChannel, InHand, InQueue

(***************************************************************************)
(* Requests enter the channel at its end, and only when they are in no     *)
(* place yet.                                                              *)
(***************************************************************************)
LEMMA SendPlaces ==
  ASSUME TypeOK, InOnePlace, NEW r \in Request, Send(r)
  PROVE  InOnePlace'
<1>1. stage[r] \notin Placed
  BY DEF Send, Moves, Placed
<1>2. CASE started = {}
  BY <1>1, <1>2, UnplacedMoves DEF Send, Moves, queueVars
<1>3. CASE started # {}
  <2>1. jobs' = Append(jobs, r) /\ stage' = [stage EXCEPT ![r] = "queued"]
        /\ UNCHANGED <<hand, pending>>
    BY <1>3 DEF Send, Moves, Enters, queueVars
  <2>2. \A i \in DOMAIN jobs : jobs[i] # r
    BY <1>1, PoolAssumption DEF InOnePlace, InChannel, Placed
  <2>3. InChannel'
    <3>1. DOMAIN jobs' = 1..(Len(jobs) + 1) /\ jobs'[Len(jobs) + 1] = r
          /\ \A i \in 1..Len(jobs) : i \in DOMAIN jobs /\ jobs'[i] = jobs[i]
      BY <2>1 DEF TypeOK
    <3> SUFFICES ASSUME NEW i \in DOMAIN jobs', jobs'[i] # Shutdown
                 PROVE  /\ stage'[jobs'[i]] = "queued"
                        /\ \A j \in DOMAIN jobs' : jobs'[i] = jobs'[j] => i = j
      BY DEF InChannel
    <3>2. CASE i = Len(jobs) + 1
      BY <2>1, <2>2, <3>1, <3>2 DEF TypeOK
    <3>3. CASE i \in 1..Len(jobs)
      <4>1. stage[jobs[i]] = "queued" /\ \A j \in DOMAIN jobs : jobs[i] = jobs[j] => i = j
        BY <3>1, <3>3 DEF InOnePlace, InChannel
      <4>2. jobs[i] # r
        BY <2>2, <3>1, <3>3
      <4> QED BY <2>1, <3>1, <3>3, <4>1, <4>2 DEF TypeOK
    <3> QED BY <3>1, <3>2, <3>3 DEF TypeOK
  <2>4. InHand' /\ InQueue'
    BY <1>1, <2>1 DEF TypeOK, InOnePlace, InHand, InQueue, Placed
  <2> QED BY <2>3, <2>4 DEF InOnePlace
<1> QED BY <1>2, <1>3

(***************************************************************************)
(* A worker takes the first job: what stays in the channel is other        *)
(* requests, and no worker held this one.                                  *)
(***************************************************************************)
LEMMA TakePlaces ==
  ASSUME TypeOK, InOnePlace, NEW w \in Worker, Take(w)
  PROVE  InOnePlace'
<1> DEFINE r == Head(jobs)
<1>1. /\ r \in Request /\ r = jobs[1] /\ 1 \in DOMAIN jobs /\ jobs # <<>> /\ hand[w] = None
      /\ stage' = [stage EXCEPT ![r] = "working"] /\ hand' = [hand EXCEPT ![w] = r]
      /\ jobs' = Tail(jobs) /\ pending' = pending
  BY DEF Take, Free, Enters, TypeOK, queueVars
<1>2. stage[r] = "queued" /\ \A j \in DOMAIN jobs : jobs[j] = r => j = 1
  BY <1>1, PoolAssumption DEF InOnePlace, InChannel
<1>3. InChannel'
  <2>1. \A i \in DOMAIN jobs' : i + 1 \in DOMAIN jobs /\ i + 1 # 1 /\ jobs'[i] = jobs[i + 1]
        /\ i \in Nat
    BY <1>1 DEF TypeOK
  <2> SUFFICES ASSUME NEW i \in DOMAIN jobs', jobs'[i] # Shutdown
               PROVE  /\ stage'[jobs'[i]] = "queued"
                      /\ \A j \in DOMAIN jobs' : jobs'[i] = jobs'[j] => i = j
    BY DEF InChannel
  <2>2. stage[jobs[i + 1]] = "queued" /\ \A j \in DOMAIN jobs : jobs[i + 1] = jobs[j] => i + 1 = j
    BY <2>1 DEF InOnePlace, InChannel
  <2>3. jobs'[i] # r
    BY <1>2, <2>1
  <2>4. stage'[jobs'[i]] = "queued"
    BY <1>1, <2>1, <2>2, <2>3 DEF TypeOK
  <2>5. ASSUME NEW j \in DOMAIN jobs', jobs'[i] = jobs'[j] PROVE i = j
    BY <2>1, <2>2, <2>5
  <2> QED BY <2>4, <2>5
<1>4. InHand'
  BY <1>1, <1>2 DEF TypeOK, InOnePlace, InHand
<1>5. InQueue'
  BY <1>1, <1>2 DEF TypeOK, InOnePlace, InQueue
<1> QED BY <1>3, <1>4, <1>5 DEF InOnePlace

(***************************************************************************)
(* The first job leaves without being run when it is a shutdown message.   *)
(***************************************************************************)
LEMMA ShutdownPlaces ==
  ASSUME TypeOK, InOnePlace, NEW w \in Worker, TakeShutdown(w)
  PROVE  InOnePlace'
<1>1. jobs # <<>> /\ jobs' = Tail(jobs) /\ UNCHANGED <<hand, pending, stage>>
  BY DEF TakeShutdown, queueVars
<1>2. \A i \in DOMAIN jobs' : i + 1 \in DOMAIN jobs /\ jobs'[i] = jobs[i + 1] /\ i \in Nat
  BY <1>1 DEF TypeOK
<1>3. InChannel'
  <2> SUFFICES ASSUME NEW i \in DOMAIN jobs', jobs'[i] # Shutdown
               PROVE  /\ stage'[jobs'[i]] = "queued"
                      /\ \A j \in DOMAIN jobs' : jobs'[i] = jobs'[j] => i = j
    BY DEF InChannel
  <2>1. stage[jobs[i + 1]] = "queued" /\ \A j \in DOMAIN jobs : jobs[i + 1] = jobs[j] => i + 1 = j
    BY <1>2 DEF InOnePlace, InChannel
  <2>2. ASSUME NEW j \in DOMAIN jobs', jobs'[i] = jobs'[j] PROVE i = j
    BY <1>2, <2>1, <2>2
  <2> QED BY <1>1, <1>2, <2>1, <2>2
<1>4. InHand' /\ InQueue'
  BY <1>1 DEF InOnePlace, InHand, InQueue
<1> QED BY <1>3, <1>4 DEF InOnePlace

(***************************************************************************)
(* The dropping thread adds shutdown messages, no request.                 *)
(***************************************************************************)
LEMMA DropPoolPlaces ==
  ASSUME TypeOK, InOnePlace, DropPool
  PROVE  InOnePlace'
<1>1. jobs' = jobs \o Shutdowns /\ UNCHANGED <<hand, pending, stage>>
  BY DEF DropPool, queueVars
<1>2. \A i \in DOMAIN jobs' : jobs'[i] # Shutdown => i \in DOMAIN jobs /\ jobs'[i] = jobs[i]
  <2>1. jobs \in Seq(Request \union {Shutdown}) /\ Len(jobs) \in Nat
    BY DEF TypeOK
  <2>2. Shutdowns \in Seq({Shutdown}) /\ Len(Shutdowns) \in Nat
        /\ \A k \in 1..Len(Shutdowns) : Shutdowns[k] = Shutdown
    BY ShutdownsType
  <2> SUFFICES ASSUME NEW i \in DOMAIN jobs', jobs'[i] # Shutdown
               PROVE  i \in DOMAIN jobs /\ jobs'[i] = jobs[i]
    OBVIOUS
  <2>3. i \in 1..(Len(jobs) + Len(Shutdowns))
    BY <1>1, <2>1, <2>2
  <2>4. CASE i > Len(jobs)
    BY <1>1, <2>1, <2>2, <2>3, <2>4
  <2> QED BY <1>1, <2>1, <2>2, <2>3, <2>4
<1>3. InChannel'
  BY <1>1, <1>2 DEF InOnePlace, InChannel
<1>4. InHand' /\ InQueue'
  BY <1>1 DEF InOnePlace, InHand, InQueue
<1> QED BY <1>3, <1>4 DEF InOnePlace

(***************************************************************************)
(* Running, posting and dropping: no other worker holds the request, and   *)
(* the queue does not hold it yet.                                         *)
(***************************************************************************)
LEMMA HeldIsNowhereElse ==
  ASSUME TypeOK, InOnePlace, NEW w \in Worker, hand[w] # None
  PROVE  /\ hand[w] \in Request
         /\ \A v \in Worker : hand[v] = hand[w] => v = w
         /\ \A i \in DOMAIN jobs : jobs[i] # hand[w]
         /\ \A i \in DOMAIN pending : pending[i] # hand[w]
<1>1. hand[w] \in Request /\ stage[hand[w]] \in {"working", "pushing", "dropping"}
      /\ \A v \in Worker : hand[v] = hand[w] => v = w
  BY DEF TypeOK, InOnePlace, InHand
<1>2. \A i \in DOMAIN jobs : jobs[i] # hand[w]
  BY <1>1, PoolAssumption DEF InOnePlace, InChannel
<1>3. \A i \in DOMAIN pending : pending[i] # hand[w]
  BY <1>1 DEF InOnePlace, InQueue
<1> QED BY <1>1, <1>2, <1>3

LEMMA WorkPlaces ==
  ASSUME TypeOK, InOnePlace, NEW w \in Worker, Work(w)
  PROVE  InOnePlace'
<1>1. hand[w] # None /\ UNCHANGED <<jobs, hand, pending>>
      /\ \E to \in {"pushing", "dropping"} : stage' = [stage EXCEPT ![hand[w]] = to]
  BY DEF Work, Moves, Enters, queueVars, poolVars
<1>2. InChannel'
  BY <1>1, HeldIsNowhereElse DEF TypeOK, InOnePlace, InChannel
<1>3. InHand'
  BY <1>1, HeldIsNowhereElse DEF TypeOK, InOnePlace, InHand
<1>4. InQueue'
  BY <1>1, HeldIsNowhereElse DEF TypeOK, InOnePlace, InQueue
<1> QED BY <1>2, <1>3, <1>4 DEF InOnePlace

LEMMA DropPlaces ==
  ASSUME TypeOK, InOnePlace, NEW w \in Worker, Drop(w)
  PROVE  InOnePlace'
<1>1. hand[w] # None /\ UNCHANGED <<jobs, pending>> /\ hand' = [hand EXCEPT ![w] = None]
      /\ stage' = [stage EXCEPT ![hand[w]] = "dropped"]
  BY DEF Drop, Moves, Enters
<1>2. InChannel'
  BY <1>1, HeldIsNowhereElse DEF TypeOK, InOnePlace, InChannel
<1>3. InHand'
  BY <1>1, HeldIsNowhereElse DEF TypeOK, InOnePlace, InHand
<1>4. InQueue'
  BY <1>1, HeldIsNowhereElse DEF TypeOK, InOnePlace, InQueue
<1> QED BY <1>2, <1>3, <1>4 DEF InOnePlace

LEMMA PushPlaces ==
  ASSUME TypeOK, InOnePlace, NEW w \in Worker, Push(w)
  PROVE  InOnePlace'
<1> DEFINE r == hand[w]
<1>1. r # None /\ UNCHANGED jobs /\ hand' = [hand EXCEPT ![w] = None]
      /\ stage' = [stage EXCEPT ![r] = "posted"] /\ pending' = Append(pending, r)
  BY DEF Push, Moves, Enters
<1>2. InChannel'
  BY <1>1, HeldIsNowhereElse DEF TypeOK, InOnePlace, InChannel
<1>3. InHand'
  BY <1>1, HeldIsNowhereElse DEF TypeOK, InOnePlace, InHand
<1>4. InQueue'
  <2>1. /\ DOMAIN pending' = 1..(Len(pending) + 1) /\ pending'[Len(pending) + 1] = r
        /\ \A i \in 1..Len(pending) : i \in DOMAIN pending /\ pending'[i] = pending[i]
        /\ Len(pending) \in Nat /\ stage'[r] = "posted"
    BY <1>1, HeldIsNowhereElse DEF TypeOK
  <2>2. \A i \in 1..Len(pending) : pending[i] # r
    BY <1>1, <2>1, HeldIsNowhereElse
  <2>3. \A i \in 1..Len(pending) :
          /\ stage'[pending'[i]] = "posted"
          /\ \A j \in 1..Len(pending) : pending'[i] = pending'[j] => i = j
    BY <1>1, <2>1, <2>2 DEF TypeOK, InOnePlace, InQueue
  <2> QED BY <2>1, <2>2, <2>3 DEF InQueue
<1> QED BY <1>2, <1>3, <1>4 DEF InOnePlace

(***************************************************************************)
(* The loop answers the first completion; what stays queued is other       *)
(* requests.                                                               *)
(***************************************************************************)
LEMMA CompletePlaces ==
  ASSUME TypeOK, InOnePlace, Complete
  PROVE  /\ Head(pending) \in Request /\ stage[Head(pending)] = "posted"
         /\ InOnePlace'
<1> DEFINE r == Head(pending)
<1>1. /\ r \in Request /\ r = pending[1] /\ 1 \in DOMAIN pending /\ pending' = Tail(pending)
      /\ pending # <<>> /\ stage' = [stage EXCEPT ![r] = "answered"] /\ UNCHANGED <<jobs, hand>>
  BY DEF Complete, Enters, TypeOK, poolVars
<1>2. stage[r] = "posted" /\ \A j \in DOMAIN pending : pending[j] = r => j = 1
  BY <1>1 DEF InOnePlace, InQueue
<1>3. InChannel'
  BY <1>1, <1>2, PoolAssumption DEF TypeOK, InOnePlace, InChannel
<1>4. InHand'
  BY <1>1, <1>2 DEF TypeOK, InOnePlace, InHand
<1>5. InQueue'
  <2>1. \A i \in DOMAIN pending' : i + 1 \in DOMAIN pending /\ i + 1 # 1
        /\ pending'[i] = pending[i + 1] /\ i \in Nat
    BY <1>1 DEF TypeOK
  <2> SUFFICES ASSUME NEW i \in DOMAIN pending'
               PROVE  /\ stage'[pending'[i]] = "posted"
                      /\ \A j \in DOMAIN pending' : pending'[i] = pending'[j] => i = j
    BY DEF InQueue
  <2>2. stage[pending[i + 1]] = "posted"
        /\ \A j \in DOMAIN pending : pending[i + 1] = pending[j] => i + 1 = j
    BY <2>1 DEF InOnePlace, InQueue
  <2>3. pending'[i] # r /\ pending'[i] \in Request
    BY <1>2, <2>1 DEF TypeOK
  <2>4. stage'[pending'[i]] = "posted"
    BY <1>1, <2>1, <2>2, <2>3 DEF TypeOK
  <2>5. ASSUME NEW j \in DOMAIN pending', pending'[i] = pending'[j] PROVE i = j
    BY <2>1, <2>2, <2>5
  <2> QED BY <2>4, <2>5
<1> QED BY <1>1, <1>2, <1>3, <1>4, <1>5 DEF InOnePlace

LEMMA StepKeepsPlaces == ASSUME TypeOK, InOnePlace, [Next]_vars PROVE InOnePlace'
<1>1. ASSUME NEW r \in Request, CheckAccepting(r) \/ SubmitStep(r) PROVE InOnePlace'
  <2>1. CASE CheckAccepting(r) \/ Count(r) \/ Recheck(r) \/ Refuse(r)
    <3>1. stage[r] \notin Placed /\ (\E to : Enters(r, to)) /\ UNCHANGED <<jobs, hand, pending>>
      BY <2>1 DEF CheckAccepting, Count, Recheck, Refuse, Moves, Placed, queueVars, poolVars
    <3> QED BY <3>1, UnplacedMoves
  <2>2. CASE Send(r)
    BY <2>2, SendPlaces
  <2>3. CASE Wakes(r)
    BY <2>3, SamePlaces DEF Wakes, queueVars, poolVars
  <2> QED BY <1>1, <2>1, <2>2, <2>3 DEF SubmitStep
<1>2. ASSUME NEW w \in Worker, WorkerStep(w) PROVE InOnePlace'
  <2>1. CASE Wakes(w)
    BY <2>1, SamePlaces DEF Wakes, queueVars, poolVars
  <2> QED BY <1>2, <2>1, TakePlaces, ShutdownPlaces, WorkPlaces, PushPlaces, DropPlaces
          DEF WorkerStep
<1>3. CASE DropPool
  BY <1>3, DropPoolPlaces
<1>4. CASE Complete
  BY <1>4, CompletePlaces
<1>5. CASE PoolJoined \/ Run \/ StopBetweenRuns \/ CloseLoop \/ PollDisturbed
  BY <1>5, SamePlaces DEF PoolJoined, Run, StopBetweenRuns, CloseLoop, PollDisturbed, queueVars,
                          poolVars
<1>6. CASE Returns \/ Turns \/ DrainedBefore \/ PollTimeout \/ PollReturns \/ DrainedAfter
  BY <1>6, SamePlaces DEF Returns, Turns, DrainedBefore, PollTimeout, PollReturns, DrainedAfter,
                          queueVars, poolVars
<1>7. CASE UNCHANGED vars
  BY <1>7, SamePlaces DEF vars, queueVars, poolVars
<1> QED BY <1>1, <1>2, <1>3, <1>4, <1>5, <1>6, <1>7 DEF Next, LoopStep

(***************************************************************************)
(* A request is in one place at a time: no work runs twice, no completion  *)
(* is delivered twice.                                                     *)
(***************************************************************************)
THEOREM AlwaysInOnePlace == Spec => []InOnePlace
<1>1. TypeOK /\ InOnePlace /\ [Next]_vars => TypeOK' /\ InOnePlace'
  BY StepKeepsTypes, StepKeepsPlaces
<1> QED BY <1>1, InitTypes, InitPlaces, PTL DEF Spec

-----------------------------------------------------------------------------
Outstanding == {r \in Request : stage[r] \in Counted}

LEMMA OutstandingFinite ==
  IsFiniteSet(Outstanding) /\ Cardinality(Outstanding) \in Nat
BY PoolAssumption, FS_Subset, FS_CardinalityType DEF Outstanding

(***************************************************************************)
(* What a change of one stage does to the number of counted requests.      *)
(***************************************************************************)
LEMMA OneMore ==
  ASSUME TypeOK, NEW r \in Request, NEW to \in Counted, stage[r] \notin Counted, Enters(r, to)
  PROVE  Cardinality(Outstanding') = Cardinality(Outstanding) + 1
<1>1. Outstanding' = Outstanding \union {r} /\ r \notin Outstanding
  BY DEF TypeOK, Enters, Outstanding
<1> QED BY <1>1, OutstandingFinite, FS_AddElement

LEMMA OneLess ==
  ASSUME TypeOK, NEW r \in Request, NEW to, to \notin Counted, stage[r] \in Counted, Enters(r, to)
  PROVE  /\ Cardinality(Outstanding) # 0
         /\ Cardinality(Outstanding') = Cardinality(Outstanding) - 1
<1>1. Outstanding' = Outstanding \ {r} /\ r \in Outstanding
  BY DEF TypeOK, Enters, Outstanding
<1>2. Outstanding # {} BY <1>1
<1>3. Cardinality(Outstanding) # 0
  BY <1>2, OutstandingFinite, FS_EmptySet
<1> QED BY <1>1, <1>3, OutstandingFinite, FS_RemoveElement

LEMMA AsMany ==
  ASSUME TypeOK, NEW r \in Request, NEW to, Enters(r, to),
         stage[r] \in Counted <=> to \in Counted
  PROVE  Outstanding' = Outstanding
BY DEF TypeOK, Enters, Outstanding

LEMMA InitCount == ASSUME Init PROVE CountExact
<1>1. {r \in Request : stage[r] \in Counted} = {}
  BY DEF Init, Counted
<1> QED BY <1>1, FS_EmptySet DEF Init, CountExact

LEMMA StepKeepsCount ==
  ASSUME TypeOK, InOnePlace, CountExact, [Next]_vars
  PROVE  CountExact'
<1> USE DEF CountExact, Outstanding
<1>1. ASSUME NEW r \in Request, CheckAccepting(r) \/ SubmitStep(r) PROVE CountExact'
  <2>1. CASE CheckAccepting(r) \/ Recheck(r) \/ Send(r)
    <3>1. UNCHANGED outstanding
          /\ \E to : Enters(r, to) /\ (stage[r] \in Counted <=> to \in Counted)
      BY <2>1 DEF CheckAccepting, Recheck, Send, Moves, Counted, queueVars
    <3> QED BY <3>1, AsMany
  <2>2. CASE Count(r)
    <3>1. stage[r] \notin Counted /\ Enters(r, "counted") /\ "counted" \in Counted
          /\ outstanding' = outstanding + 1
      BY <2>2 DEF Count, Moves, Counted
    <3> QED BY <3>1, OneMore
  <2>3. CASE Refuse(r)
    <3>1. stage[r] \in Counted /\ Enters(r, "refused") /\ "refused" \notin Counted
          /\ outstanding' = Less(outstanding)
      BY <2>3 DEF Refuse, Moves, Ends, Counted
    <3> QED BY <3>1, OneLess, OutstandingFinite DEF Less
  <2>4. CASE Wakes(r)
    BY <2>4 DEF Wakes, queueVars
  <2> QED BY <1>1, <2>1, <2>2, <2>3, <2>4 DEF SubmitStep
<1>2. ASSUME NEW w \in Worker, WorkerStep(w) PROVE CountExact'
  <2>1. CASE Take(w)
    <3>1. Head(jobs) \in Request /\ Head(jobs) = jobs[1] /\ 1 \in DOMAIN jobs
          /\ Head(jobs) # Shutdown /\ Enters(Head(jobs), "working") /\ UNCHANGED outstanding
      BY <2>1 DEF TypeOK, Take, queueVars
    <3>2. stage[Head(jobs)] = "queued"
      BY <3>1 DEF InOnePlace, InChannel
    <3>3. stage[Head(jobs)] \in Counted <=> "working" \in Counted
      BY <3>2 DEF Counted
    <3> QED BY <3>1, <3>3, AsMany
  <2>2. CASE Work(w) \/ Push(w)
    <3>1. UNCHANGED outstanding /\ hand[w] \in Request
          /\ \E to : Enters(hand[w], to) /\ (stage[hand[w]] \in Counted <=> to \in Counted)
      BY <2>2, HeldIsNowhereElse DEF Work, Push, Moves, Counted, queueVars
    <3> QED BY <3>1, AsMany
  <2>3. CASE Drop(w)
    <3>1. hand[w] \in Request /\ stage[hand[w]] \in Counted /\ Enters(hand[w], "dropped")
          /\ "dropped" \notin Counted /\ outstanding' = Less(outstanding)
      BY <2>3, HeldIsNowhereElse DEF Drop, Moves, Ends, Counted
    <3> QED BY <3>1, OneLess, OutstandingFinite DEF Less
  <2>4. CASE TakeShutdown(w) \/ Wakes(w)
    BY <2>4 DEF TakeShutdown, Wakes, queueVars
  <2> QED BY <1>2, <2>1, <2>2, <2>3, <2>4 DEF WorkerStep
<1>3. CASE Complete
  <2>1. Head(pending) \in Request /\ stage[Head(pending)] \in Counted
        /\ Enters(Head(pending), "answered") /\ "answered" \notin Counted
        /\ outstanding' = Less(outstanding)
    BY <1>3, CompletePlaces DEF Complete, Counted
  <2> QED BY <2>1, OneLess, OutstandingFinite DEF Less
<1>4. CASE DropPool \/ PoolJoined \/ Run \/ StopBetweenRuns \/ CloseLoop \/ PollDisturbed
  BY <1>4 DEF DropPool, PoolJoined, Run, StopBetweenRuns, CloseLoop, PollDisturbed, queueVars
<1>5. CASE Returns \/ Turns \/ DrainedBefore \/ PollTimeout \/ PollReturns \/ DrainedAfter
  BY <1>5 DEF Returns, Turns, DrainedBefore, PollTimeout, PollReturns, DrainedAfter, queueVars
<1>6. CASE UNCHANGED vars
  BY <1>6 DEF vars, queueVars
<1> QED BY <1>1, <1>2, <1>3, <1>4, <1>5, <1>6 DEF Next, LoopStep

PoolInv == TypeOK /\ InOnePlace /\ CountExact

LEMMA PoolInvariant == Spec => []PoolInv
<1>1. Init => PoolInv
  BY InitTypes, InitPlaces, InitCount DEF PoolInv
<1>2. PoolInv /\ [Next]_vars => PoolInv'
  BY StepKeepsTypes, StepKeepsPlaces, StepKeepsCount DEF PoolInv
<1> QED BY <1>1, <1>2, PTL DEF Spec

(***************************************************************************)
(* The outstanding count is the number of requests begun and not ended, in *)
(* every interleaving of submitters, workers, the loop and its drop; the   *)
(* saturating subtraction of end never saturates.                          *)
(***************************************************************************)
THEOREM CountAlwaysExact == Spec => []CountExact
BY PoolInvariant, PTL DEF PoolInv

(***************************************************************************)
(* A default run that nobody stopped returns with every accepted request   *)
(* answered: the count is zero, and it is exact.                           *)
(***************************************************************************)
THEOREM RunsWait == Spec => RunWaits
<1> DEFINE Waits == pc = "top" /\ pc' = "idle" /\ ~stop
                    => \A r \in Request : stage[r] \notin Accepted
<1>1. PoolInv /\ [Next]_vars => [Waits]_vars
  <2> SUFFICES ASSUME PoolInv, [Next]_vars, pc = "top", pc' = "idle", ~stop
               PROVE  \A r \in Request : stage[r] \notin Accepted
    OBVIOUS
  <2>1. Returns
    <3>1. ~UNCHANGED vars
      BY DEF vars, loopVars
    <3>2. ~(\E r \in Request : CheckAccepting(r) \/ SubmitStep(r))
      BY DEF CheckAccepting, SubmitStep, Count, Recheck, Send, Refuse, Wakes, loopVars
    <3>3. ~(\E w \in Worker : WorkerStep(w))
      BY DEF WorkerStep, Take, TakeShutdown, Work, Push, Drop, Wakes, loopVars
    <3>4. ~(DropPool \/ PoolJoined \/ Run \/ StopBetweenRuns \/ CloseLoop \/ PollDisturbed)
      BY DEF DropPool, PoolJoined, Run, StopBetweenRuns, CloseLoop, PollDisturbed, loopVars
    <3>5. ~(Turns \/ Complete \/ DrainedBefore \/ PollTimeout \/ PollReturns \/ DrainedAfter)
      BY DEF Turns, Complete, DrainedBefore, PollTimeout, PollReturns, DrainedAfter
    <3> QED BY <3>1, <3>2, <3>3, <3>4, <3>5 DEF Next, LoopStep
  <2>2. Cardinality(Outstanding) = 0
    BY <2>1 DEF Returns, Alive, PoolInv, CountExact, Outstanding
  <2>3. Outstanding = {}
    BY <2>2, OutstandingFinite, FS_EmptySet
  <2> QED BY <2>3 DEF Outstanding, Accepted, Counted
<1> QED BY <1>1, PoolInvariant, PTL DEF Spec, RunWaits

-----------------------------------------------------------------------------
(***************************************************************************)
(* NeverAsleep is not inductive: a completion may be queued between the    *)
(* last look at the queue and the poll, so the wake must be known to be on *)
(* its way from that look on.                                              *)
(***************************************************************************)
WakeComing == edge \/ owes # {}
Awake ==
  /\ pc \in {"timeout", "poll"} /\ pending # <<>> => WakeComing
  /\ pc = "poll" /\ block /\ outstanding = 0 => WakeComing

(***************************************************************************)
(* A step that leaves its thread owing a wake, and a step that wakes.      *)
(***************************************************************************)
LEMMA OwingAwake == ASSUME NEW t, owes' = owes \union Owing(t) PROVE Awake'
BY DEF Awake, WakeComing, Owing

LEMMA WakesAwake == ASSUME edge' = TRUE PROVE Awake'
BY DEF Awake, WakeComing

(***************************************************************************)
(* Steps that neither queue, nor end, nor move the loop; the count may     *)
(* only grow.                                                              *)
(***************************************************************************)
LEMMA SameAwake ==
  ASSUME Awake, UNCHANGED <<pc, block, pending, edge, owes>>,
         outstanding' = outstanding \/ outstanding' # 0
  PROVE  Awake'
BY DEF Awake, WakeComing

LEMMA ElsewhereAwake == ASSUME pc' \notin {"timeout", "poll"} PROVE Awake'
BY DEF Awake

LEMMA StepKeepsAwake == ASSUME TypeOK, Awake, [Next]_vars PROVE Awake'
<1>1. ASSUME NEW r \in Request, CheckAccepting(r) \/ SubmitStep(r) PROVE Awake'
  <2>1. CASE CheckAccepting(r) \/ Recheck(r) \/ Send(r)
    BY <2>1, SameAwake DEF CheckAccepting, Recheck, Send, queueVars, wakeVars, loopVars
  <2>2. CASE Count(r)
    <3>1. outstanding' # 0
      BY <2>2 DEF TypeOK, Count
    <3> QED BY <2>2, <3>1, SameAwake DEF Count, wakeVars, loopVars
  <2>3. CASE Refuse(r)
    BY <2>3, OwingAwake DEF Refuse, Ends
  <2>4. CASE Wakes(r)
    BY <2>4, WakesAwake DEF Wakes
  <2> QED BY <1>1, <2>1, <2>2, <2>3, <2>4 DEF SubmitStep
<1>2. ASSUME NEW w \in Worker, WorkerStep(w) PROVE Awake'
  <2>1. CASE Take(w) \/ TakeShutdown(w) \/ Work(w)
    BY <2>1, SameAwake DEF Take, TakeShutdown, Work, queueVars, wakeVars, loopVars
  <2>2. CASE Push(w) \/ Drop(w)
    BY <2>2, OwingAwake DEF Push, Drop, Ends
  <2>3. CASE Wakes(w)
    BY <2>3, WakesAwake DEF Wakes
  <2> QED BY <1>2, <2>1, <2>2, <2>3 DEF WorkerStep
<1>3. CASE DropPool \/ PoolJoined
  BY <1>3, SameAwake DEF DropPool, PoolJoined, queueVars, wakeVars, loopVars
<1>4. CASE StopBetweenRuns \/ CloseLoop
  BY <1>4, SameAwake DEF StopBetweenRuns, CloseLoop, queueVars, wakeVars, loopVars
<1>5. CASE Run \/ Returns \/ Turns \/ PollReturns \/ PollDisturbed \/ DrainedAfter
  BY <1>5, ElsewhereAwake DEF Run, Returns, Turns, PollReturns, PollDisturbed, DrainedAfter
<1>6. CASE Complete
  BY <1>6, WakesAwake DEF Complete
<1>7. CASE DrainedBefore
  BY <1>7 DEF DrainedBefore, Awake, queueVars
<1>8. CASE PollTimeout
  <2>1. pc = "timeout" /\ UNCHANGED <<pending, outstanding, edge, owes>>
    BY <1>8 DEF PollTimeout, queueVars, wakeVars
  <2>2. block' => outstanding # 0
    BY <1>8 DEF PollTimeout, Blocks, Alive
  <2> QED BY <2>1, <2>2 DEF Awake, WakeComing
<1>9. CASE UNCHANGED vars
  BY <1>9, SameAwake DEF vars, queueVars, wakeVars, loopVars
<1> QED BY <1>1, <1>2, <1>3, <1>4, <1>5, <1>6, <1>7, <1>8, <1>9 DEF Next, LoopStep

(***************************************************************************)
(* No wake is lost: a loop blocked in poll with a completion to deliver,   *)
(* or with no request left, has a wake pending or about to come.           *)
(***************************************************************************)
THEOREM NoWakeLost == Spec => []NeverAsleep
<1>1. Init => Awake
  BY DEF Init, Awake
<1>2. TypeOK /\ Awake /\ [Next]_vars => Awake'
  BY StepKeepsAwake
<1>3. Awake => NeverAsleep
  BY DEF Awake, WakeComing, NeverAsleep
<1> QED BY <1>1, <1>2, <1>3, TypeCorrect, PTL DEF Spec
=============================================================================
