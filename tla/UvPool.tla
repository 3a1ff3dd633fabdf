------------------------------- MODULE UvPool -------------------------------
(***************************************************************************)
(* crates/ox-uv/src/pool.rs: the worker pool and the completion queue it   *)
(* posts to, with the default run of the loop that owns the queue          *)
(* (uv_loop.rs).                                                           *)
(*                                                                         *)
(* Each request is submitted by a thread of its own, named after it: a     *)
(* Work context is Send.  Every atomic operation of begin, end and post is *)
(* a step; so is every wake, which the thread owes after it has changed    *)
(* the count or the queue.  The loop has no handle but the requests:       *)
(* events of other handles only make its poll return early.                *)
(***************************************************************************)
EXTENDS Naturals, Sequences, FiniteSets, SequencesExt

CONSTANTS
  Request,          \* calls of submit, each by a thread of its own
  Worker,           \* worker threads the pool tries to start
  Shutdown,         \* the message that ends a worker
  None              \* no request in hand

ASSUME PoolAssumption ==
  /\ IsFiniteSet(Request) /\ IsFiniteSet(Worker)
  /\ Request \intersect Worker = {}
  /\ Shutdown \notin Request /\ None \notin Request

VARIABLES
  accepting,        \* CompletionQueue.accepting
  outstanding,      \* CompletionQueue.outstanding
  pending,          \* CompletionQueue.pending
  edge,             \* the waker's eventfd has an edge to report
  owes,             \* threads between a change and the wake that follows it
  started,          \* workers whose thread could be started
  gone,             \* workers that have returned
  jobs,             \* the channel from submitters to workers
  hand,             \* worker -> the request it runs
  stage,            \* request -> how far it is
  pool,             \* "open", "joining" (in Inner::drop) or "joined"
  pc, forced, block, \* the loop thread: step, forced_nowait, poll without timeout
  stop              \* stop_requested

queueVars == <<accepting, outstanding, pending>>
wakeVars == <<edge, owes>>
poolVars == <<started, gone, jobs, hand, pool>>
loopVars == <<pc, forced, block, stop>>
vars == <<queueVars, wakeVars, poolVars, stage, loopVars>>

Init ==
  /\ accepting = TRUE /\ outstanding = 0 /\ pending = <<>>
  /\ edge = FALSE /\ owes = {}
  /\ started \in SUBSET Worker /\ gone = {} /\ jobs = <<>>
  /\ hand = [w \in Worker |-> None] /\ pool = "open"
  /\ stage = [r \in Request |-> "new"]
  /\ pc = "idle" /\ forced = FALSE /\ block = FALSE /\ stop = FALSE

Enters(r, to) == stage' = [stage EXCEPT ![r] = to]
Moves(r, from, to) == stage[r] = from /\ Enters(r, to)

\* end: fetch_update with checked_sub, then the wake its thread still owes.
Less(n) == IF n = 0 THEN 0 ELSE n - 1
ForgetsWake(t) == {}     \* mutant: the count or the queue changes and nobody is told
Owing(t) == {t}
EndsQuietly(t) ==        \* mutant: a request ends and nobody is told
  outstanding' = Less(outstanding) /\ UNCHANGED owes
Ends(t) == outstanding' = Less(outstanding) /\ owes' = owes \union Owing(t)

\* waker.wake(), the last thing end and post do.
Wakes(t) ==
  /\ t \in owes
  /\ owes' = owes \ {t} /\ edge' = TRUE
  /\ UNCHANGED <<queueVars, poolVars, stage, loopVars>>

-----------------------------------------------------------------------------
(* submit: begin looks, counts and looks again; then the job is sent. *)

CheckAccepting(r) ==
  /\ pool = "open"
  /\ Moves(r, "new", IF accepting THEN "checked" ELSE "refused")
  /\ UNCHANGED <<queueVars, wakeVars, poolVars, loopVars>>

Count(r) ==
  /\ Moves(r, "checked", "counted")
  /\ outstanding' = outstanding + 1
  /\ UNCHANGED <<accepting, pending, wakeVars, poolVars, loopVars>>

RecheckForgets(r) ==     \* mutant: a begin refused late leaves its request counted
  /\ Moves(r, "counted", IF accepting THEN "accepted" ELSE "refused")
  /\ UNCHANGED <<queueVars, wakeVars, poolVars, loopVars>>
Recheck(r) ==
  /\ Moves(r, "counted", IF accepting THEN "accepted" ELSE "refusing")
  /\ UNCHANGED <<queueVars, wakeVars, poolVars, loopVars>>

\* A pool that could start no thread has no sender.
Send(r) ==
  /\ Moves(r, "accepted", IF started = {} THEN "refusing" ELSE "queued")
  /\ jobs' = IF started = {} THEN jobs ELSE Append(jobs, r)
  /\ UNCHANGED <<queueVars, wakeVars, started, gone, hand, pool, loopVars>>

Refuse(r) ==
  /\ Moves(r, "refusing", "refused") /\ Ends(r)
  /\ UNCHANGED <<accepting, pending, edge, poolVars, loopVars>>

-----------------------------------------------------------------------------
(* worker_main and the job it runs. *)

Free(w) == w \in started \ gone /\ w \notin owes /\ hand[w] = None

Take(w) ==
  /\ Free(w) /\ jobs # <<>> /\ Head(jobs) # Shutdown
  /\ Enters(Head(jobs), "working")
  /\ hand' = [hand EXCEPT ![w] = Head(jobs)] /\ jobs' = Tail(jobs)
  /\ UNCHANGED <<queueVars, wakeVars, started, gone, pool, loopVars>>

TakeShutdown(w) ==
  /\ Free(w) /\ jobs # <<>> /\ Head(jobs) = Shutdown
  /\ gone' = gone \union {w} /\ jobs' = Tail(jobs)
  /\ UNCHANGED <<queueVars, wakeVars, started, hand, pool, stage, loopVars>>

\* The work returns or unwinds, the same from here on; post looks at the flag.
Work(w) ==
  /\ hand[w] # None
  /\ Moves(hand[w], "working", IF accepting THEN "pushing" ELSE "dropping")
  /\ UNCHANGED <<queueVars, wakeVars, poolVars, loopVars>>

PushKeeps(w) ==          \* mutant: the worker does not let go of the job it posted
  /\ hand[w] # None /\ Moves(hand[w], "pushing", "posted")
  /\ pending' = Append(pending, hand[w])
  /\ owes' = owes \union Owing(w)
  /\ UNCHANGED <<accepting, outstanding, edge, poolVars, loopVars>>
Push(w) ==
  /\ hand[w] # None /\ Moves(hand[w], "pushing", "posted")
  /\ pending' = Append(pending, hand[w])
  /\ owes' = owes \union Owing(w)
  /\ hand' = [hand EXCEPT ![w] = None]
  /\ UNCHANGED <<accepting, outstanding, edge, started, gone, jobs, pool, loopVars>>

Drop(w) ==
  /\ hand[w] # None /\ Moves(hand[w], "dropping", "dropped") /\ Ends(w)
  /\ hand' = [hand EXCEPT ![w] = None]
  /\ UNCHANGED <<accepting, pending, edge, started, gone, jobs, pool, loopVars>>

-----------------------------------------------------------------------------
(* Inner::drop, by the thread that lets go of the pool last; a submit in    *)
(* progress still holds it.                                                *)

Submitting(r) == stage[r] \in {"checked", "counted", "accepted", "refusing"} \/ r \in owes

OneShutdown == <<Shutdown>>   \* mutant: one message for the whole pool
Shutdowns == [i \in 1..Cardinality(started) |-> Shutdown]
DropPool ==
  /\ pool = "open" /\ \A r \in Request : ~Submitting(r)
  /\ pool' = "joining" /\ jobs' = jobs \o Shutdowns
  /\ UNCHANGED <<queueVars, wakeVars, started, gone, hand, stage, loopVars>>

PoolJoined ==
  /\ pool = "joining" /\ started \subseteq gone
  /\ pool' = "joined"
  /\ UNCHANGED <<queueVars, wakeVars, started, gone, jobs, hand, stage, loopVars>>

-----------------------------------------------------------------------------
(* The loop thread: run_default_inner and run_turn. *)

AliveIfPending == pending # <<>>   \* mutant: only queued completions keep a loop alive
Alive == outstanding # 0           \* loop_alive of a loop without handles

\* A stop requested before the run makes it one turn that does not block.
Run ==
  /\ pc = "idle" /\ accepting
  /\ pc' = IF stop THEN "before" ELSE "top"
  /\ forced' = stop
  /\ UNCHANGED <<queueVars, wakeVars, poolVars, stage, block, stop>>

StopBetweenRuns ==
  /\ pc = "idle" /\ accepting /\ stop' = TRUE
  /\ UNCHANGED <<queueVars, wakeVars, poolVars, stage, pc, forced, block>>

\* Drop for UvLoop.
CloseLoop ==
  /\ pc = "idle" /\ accepting /\ accepting' = FALSE
  /\ UNCHANGED <<outstanding, pending, wakeVars, poolVars, stage, loopVars>>

Returns ==
  /\ pc = "top" /\ (stop \/ ~Alive)
  /\ pc' = "idle" /\ stop' = FALSE
  /\ UNCHANGED <<queueVars, wakeVars, poolVars, stage, forced, block>>

Turns ==
  /\ pc = "top" /\ ~stop /\ Alive
  /\ pc' = "before"
  /\ UNCHANGED <<queueVars, wakeVars, poolVars, stage, forced, block, stop>>

\* dispatch_pending_sources, before the poll and after it: the completion runs,
\* may ask the loop to stop, and its guard ends the request, also on a panic.
Complete ==
  /\ pc \in {"before", "after"} /\ pending # <<>>
  /\ Enters(Head(pending), "answered")
  /\ pending' = Tail(pending)
  /\ outstanding' = Less(outstanding) /\ edge' = TRUE
  /\ stop' \in {stop, TRUE}
  /\ UNCHANGED <<accepting, owes, poolVars, pc, forced, block>>

DrainedBefore ==
  /\ pc = "before" /\ pending = <<>>
  /\ pc' = "timeout"
  /\ UNCHANGED <<queueVars, wakeVars, poolVars, stage, forced, block, stop>>

Blocks == ~forced /\ ~stop /\ Alive
PollTimeout ==
  /\ pc = "timeout" /\ pc' = "poll" /\ block' = Blocks
  /\ UNCHANGED <<queueVars, wakeVars, poolVars, stage, forced, stop>>

PollReturns ==
  /\ pc = "poll" /\ (edge \/ ~block)
  /\ pc' = "after" /\ edge' = FALSE
  /\ UNCHANGED <<queueVars, owes, poolVars, stage, forced, block, stop>>

\* Another handle's event, or EINTR.
PollDisturbed ==
  /\ pc = "poll" /\ block /\ ~edge
  /\ pc' = "after"
  /\ UNCHANGED <<queueVars, wakeVars, poolVars, stage, forced, block, stop>>

\* The end of a turn, and of a run that was one forced turn.
DrainedAfter ==
  /\ pc = "after" /\ pending = <<>>
  /\ pc' = IF forced THEN "idle" ELSE "top"
  /\ stop' = IF forced THEN FALSE ELSE stop
  /\ UNCHANGED <<queueVars, wakeVars, poolVars, stage, forced, block>>

-----------------------------------------------------------------------------
SubmitStep(r) == Count(r) \/ Recheck(r) \/ Send(r) \/ Refuse(r) \/ Wakes(r)
WorkerStep(w) ==
  Take(w) \/ TakeShutdown(w) \/ Work(w) \/ Push(w) \/ Drop(w) \/ Wakes(w)
LoopStep ==
  \/ Returns \/ Turns \/ Complete \/ DrainedBefore \/ PollTimeout \/ PollReturns
  \/ DrainedAfter

Next ==
  \/ \E r \in Request : CheckAccepting(r) \/ SubmitStep(r)
  \/ \E w \in Worker : WorkerStep(w)
  \/ DropPool \/ PoolJoined
  \/ Run \/ StopBetweenRuns \/ CloseLoop \/ LoopStep \/ PollDisturbed

Spec == Init /\ [][Next]_vars

(***************************************************************************)
(* Scheduling the code justifies: a thread inside submit, a worker and the *)
(* loop thread keep running unless they block, join returns when every     *)
(* worker has, and the host runs its loop again.  Nothing is assumed of    *)
(* submits, stops, closing and disturbed polls.                            *)
(***************************************************************************)
Fairness ==
  /\ \A r \in Request : WF_vars(SubmitStep(r))
  /\ \A w \in Worker : WF_vars(WorkerStep(w))
  /\ WF_vars(LoopStep) /\ WF_vars(Run) /\ WF_vars(PoolJoined)

FairSpec == Spec /\ Fairness

-----------------------------------------------------------------------------
Stage == {"new", "checked", "counted", "accepted", "queued", "working", "pushing", "posted",
          "answered", "refusing", "refused", "dropping", "dropped"}
Counted == {"counted", "accepted", "queued", "working", "pushing", "posted", "refusing",
            "dropping"}
Accepted == {"accepted", "queued", "working", "pushing", "posted"}

(***************************************************************************)
(* Types.                                                                  *)
(***************************************************************************)
TypeOK ==
  /\ accepting \in BOOLEAN /\ outstanding \in Nat /\ pending \in Seq(Request)
  /\ edge \in BOOLEAN /\ owes \subseteq Request \union Worker
  /\ started \subseteq Worker /\ gone \subseteq started
  /\ jobs \in Seq(Request \union {Shutdown})
  /\ hand \in [Worker -> Request \union {None}]
  /\ stage \in [Request -> Stage] /\ pool \in {"open", "joining", "joined"}
  /\ pc \in {"idle", "top", "before", "timeout", "poll", "after"}
  /\ forced \in BOOLEAN /\ block \in BOOLEAN /\ stop \in BOOLEAN

(***************************************************************************)
(* A request is in one place at a time, the one its stage says: once in    *)
(* the channel, with one worker, or once in the completion queue.  So no   *)
(* work runs twice and no completion is delivered twice or after its       *)
(* request ended.                                                          *)
(***************************************************************************)
InChannel ==
  \A i \in DOMAIN jobs : jobs[i] # Shutdown =>
    /\ stage[jobs[i]] = "queued"
    /\ \A j \in DOMAIN jobs : jobs[i] = jobs[j] => i = j
InHand ==
  \A w \in Worker : hand[w] # None =>
    /\ stage[hand[w]] \in {"working", "pushing", "dropping"}
    /\ \A v \in Worker : hand[v] = hand[w] => v = w
InQueue ==
  \A i \in DOMAIN pending :
    /\ stage[pending[i]] = "posted"
    /\ \A j \in DOMAIN pending : pending[i] = pending[j] => i = j
InOnePlace == InChannel /\ InHand /\ InQueue

(***************************************************************************)
(* The count the loop's liveness rests on is the number of requests that   *)
(* were begun and not ended, whoever ends them: the guard of a completion, *)
(* a worker whose post is refused, a begin or a send that fails.  So the   *)
(* saturating subtraction never saturates.                                 *)
(***************************************************************************)
CountExact == outstanding = Cardinality({r \in Request : stage[r] \in Counted})

(***************************************************************************)
(* A default run that nobody stopped returns only when every accepted      *)
(* request is answered.  (run_default_inner: while the loop is alive.)     *)
(***************************************************************************)
RunWaits ==
  [][pc = "top" /\ pc' = "idle" /\ ~stop => \A r \in Request : stage[r] \notin Accepted]_vars

(***************************************************************************)
(* A loop blocked in poll has neither a completion to deliver nor run out  *)
(* of requests, unless a wake is pending or about to come.                 *)
(* (LoopPoster: post must wake the loop.)                                  *)
(***************************************************************************)
NeverAsleep ==
  pc = "poll" /\ block /\ (pending # <<>> \/ outstanding = 0) => edge \/ owes # {}

(***************************************************************************)
(* A default run returns, once the finitely many requests are submitted.   *)
(***************************************************************************)
RunReturns == (pc = "top") ~> (pc = "idle")

(***************************************************************************)
(* Dropping the pool ends: every worker gets a shutdown message and none   *)
(* is left behind in recv.                                                 *)
(***************************************************************************)
DropEnds == (pool = "joining") ~> (pool = "joined")
=============================================================================
