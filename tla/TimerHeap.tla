----------------------------- MODULE TimerHeap -----------------------------
(***************************************************************************)
(* crates/ox-loop/src/timer.rs: the timers of the main loop, and the three *)
(* passes over them in an iteration of the pump (loop.rs, run_once_for):   *)
(* before the poll, after it, and after the readiness callbacks, each      *)
(* ahead of the deferred callbacks.                                        *)
(*                                                                         *)
(* Timers are changed by the host between iterations only: the callbacks   *)
(* of timers and sources are not given the heap.  The clock moves at any   *)
(* moment, so a pass may be late by any amount.  run calls iterations back *)
(* to back; here the host may act between any two of them.                 *)
(***************************************************************************)
EXTENDS Naturals, FiniteSets, Functions

CONSTANTS
  ONCE,       \* no repeat interval
  Interval,   \* repeat intervals of repeating timers, 0 among them if allowed
  Cap,        \* timeouts a caller may give an iteration
  MaxTimer,   \* bound: timers ever inserted
  MaxTime     \* bound of the clock

ASSUME TimesAreNat == Interval \subseteq Nat /\ ONCE \notin Nat /\ Cap \subseteq Nat /\ MaxTime \in Nat

NEVER == MaxTime + 1    \* a poll without timeout; the clock does not get there

VARIABLES
  now,        \* the monotonic clock
  heap,       \* pending timer -> [at, every]
  nextTimer,  \* next_sequence
  pc,         \* next step of the iteration
  cap,        \* the caller's timeout, or none
  wakeAt,     \* when the poll gives up
  fired,      \* history: the timers run by the last pass, in order
  calledAt    \* history: when the readiness callbacks last returned

loopVars == <<pc, cap, wakeAt, fired, calledAt>>
vars == <<now, heap, nextTimer, loopVars>>

Init ==
  /\ now = 0 /\ heap = [id \in {} |-> 0] /\ nextTimer = 0
  /\ pc = "idle" /\ cap = {} /\ wakeAt = 0 /\ fired = <<>> /\ calledAt = 0

Least(S) == CHOOSE m \in S : \A k \in S : m <= k
Pending == DOMAIN heap

-----------------------------------------------------------------------------
Tick ==
  /\ now < MaxTime /\ now' = now + 1
  /\ UNCHANGED <<heap, nextTimer, loopVars>>

\* The host between iterations.
Insert(at, every) ==
  /\ pc = "idle" /\ nextTimer < MaxTimer
  /\ heap' = [id \in Pending \union {nextTimer} |->
                IF id = nextTimer THEN [at |-> at, every |-> every] ELSE heap[id]]
  /\ nextTimer' = nextTimer + 1
  /\ UNCHANGED <<now, loopVars>>

Cancel(id) ==
  /\ pc = "idle" /\ id \in Pending
  /\ heap' = [other \in Pending \ {id} |-> heap[other]]
  /\ UNCHANGED <<now, nextTimer, loopVars>>

Begin(c) ==
  /\ pc = "idle" /\ pc' = "first" /\ cap' = c
  /\ UNCHANGED <<now, heap, nextTimer, wakeAt, fired, calledAt>>

-----------------------------------------------------------------------------
(* expired: the due keys are listed once, in order of deadline and then of
   insertion; each is removed, and a repeating one is inserted again an
   interval after its deadline, where this pass does not look again. *)
Due(t) == {id \in Pending : heap[id].at <= t}
ByInsertion(a, b) == a < b        \* mutant: the deadline is not part of the key
Before(a, b) == heap[a].at < heap[b].at \/ (heap[a].at = heap[b].at /\ a < b)
Rank(id, t) == Cardinality({other \in Due(t) : Before(other, id)})
InOrder(t) == [i \in 1..Cardinality(Due(t)) |-> CHOOSE id \in Due(t) : Rank(id, t) = i - 1]
Rearmed(id, t) == [heap[id] EXCEPT !.at = @ + heap[id].every]

Expired(t) ==
  /\ fired' = InOrder(t)
  /\ heap' = [id \in {i \in Pending : i \notin Due(t) \/ heap[i].every # ONCE} |->
                IF id \in Due(t) THEN Rearmed(id, t) ELSE heap[id]]

Pass(from, to) ==
  /\ pc = from /\ pc' = to
  /\ Expired(now)
  /\ UNCHANGED <<now, nextTimer, cap, wakeAt, calledAt>>

(* The poll's timeout is the smaller of the time to the next deadline and the
   caller's, and nothing when the queue to be drained has events. *)
Deadlines == {heap[id].at : id \in Pending}
CallerOnly(c) == {now + d : d \in c}   \* mutant: the timers do not wake the poll
Limits(c) == {now + d : d \in c} \union {IF at < now THEN now ELSE at : at \in Deadlines}
EnterPoll ==
  /\ pc = "timeout" /\ pc' = "poll"
  /\ \/ wakeAt' = Least(Limits(cap) \union {NEVER})
     \/ wakeAt' = now
  /\ UNCHANGED <<now, heap, nextTimer, cap, fired, calledAt>>

\* Something is ready, a wake arrives, or the wait is interrupted.
PollReady ==
  /\ pc = "poll" /\ pc' = "second"
  /\ UNCHANGED <<now, heap, nextTimer, cap, wakeAt, fired, calledAt>>
PollTimesOut == now >= wakeAt /\ PollReady

\* The queue to be drained is gone, or the poll fails.
IterationFails ==
  /\ pc \in {"timeout", "poll"} /\ pc' = "idle"
  /\ UNCHANGED <<now, heap, nextTimer, cap, wakeAt, fired, calledAt>>

\* The readiness callbacks, which may take any time, or fail and end the iteration.
TwoPasses == "drain"       \* mutant: no pass after the readiness callbacks
AfterDispatch == "third"
Dispatch ==
  /\ pc = "dispatch" /\ pc' \in {AfterDispatch, "idle"}
  /\ calledAt' = now
  /\ UNCHANGED <<now, heap, nextTimer, cap, wakeAt, fired>>

\* The deferred callbacks run.
Drain ==
  /\ pc = "drain" /\ pc' = "idle"
  /\ UNCHANGED <<now, heap, nextTimer, cap, wakeAt, fired, calledAt>>

-----------------------------------------------------------------------------
Host ==
  \/ \E at \in 0..MaxTime, every \in Interval \union {ONCE} : Insert(at, every)
  \/ \E id \in Pending : Cancel(id)

BeginAny == \E c \in {{}} \union {{d} : d \in Cap} : Begin(c)

LoopStep ==
  \/ Pass("first", "timeout") \/ EnterPoll \/ PollTimesOut
  \/ Pass("second", "dispatch") \/ Dispatch \/ Pass("third", "drain") \/ Drain

Next == Tick \/ Host \/ BeginAny \/ LoopStep \/ PollReady \/ IterationFails

Spec == Init /\ [][Next]_vars

(***************************************************************************)
(* Time passes, the loop thread runs unless it sleeps in a poll that has   *)
(* not timed out, and the host pumps again.  Nothing is assumed of         *)
(* readiness, so a timer cannot count on it.                               *)
(***************************************************************************)
FairSpec == Spec /\ WF_vars(Tick) /\ WF_vars(LoopStep) /\ WF_vars(BeginAny)

-----------------------------------------------------------------------------
(***************************************************************************)
(* A pass that runs a timer has run, just before it or earlier, every      *)
(* pending timer with an earlier deadline, or with the same deadline and   *)
(* inserted earlier.  (timer.rs: the sequence also orders equal deadlines) *)
(***************************************************************************)
RanBefore(a, b) == \E i, j \in DOMAIN fired' : i < j /\ fired'[i] = a /\ fired'[j] = b
Earlier(a, b) == heap[a].at < heap[b].at \/ (heap[a].at = heap[b].at /\ a < b)
InDeadlineOrder ==
  [][(pc' # pc /\ pc \in {"first", "second", "third"}) =>
       \A b \in Range(fired') : \A a \in {p \in Pending : Earlier(p, b)} : RanBefore(a, b)]_vars

(***************************************************************************)
(* When the deferred callbacks run, no one-shot timer is left that became  *)
(* due before the readiness callbacks returned, however long they took.    *)
(* (loop.rs: timers are kept ahead of the check/deferred phase)            *)
(***************************************************************************)
TimersBeforeDeferred ==
  pc = "drain" => \A id \in Pending : heap[id].every = ONCE => heap[id].at > calledAt

(***************************************************************************)
(* A due timer is run or cancelled, and a repeating one catches up with    *)
(* the clock, though nothing but its deadline may wake the poll, and       *)
(* though a timer of interval 0 is due at every pass.                      *)
(***************************************************************************)
Overdue(id) == id \in Pending /\ heap[id].at <= now /\ heap[id].every # 0
LateTimersCatchUp == \A id \in 0..(MaxTimer - 1) : Overdue(id) ~> ~Overdue(id)
=============================================================================
