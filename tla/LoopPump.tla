------------------------------ MODULE LoopPump ------------------------------
(***************************************************************************)
(* crates/ox-loop: the main-loop pump (loop.rs) over the owned queues      *)
(* (MultiQueue), the cross-thread work inbox (work.rs), the edge-triggered *)
(* reactor (reactor.rs) and the signal pipe (signal.rs).                   *)
(*                                                                         *)
(* Foreign threads post work in two steps, push under the inbox mutex and  *)
(* then wake; a stopper stores the flag and then wakes; the kernel makes   *)
(* sources readable; the one loop thread polls, dispatches the ready       *)
(* tokens, drains the target queue and runs its callbacks.  A timer        *)
(* callback can reach the loop only by posting, so the three timer passes  *)
(* of an iteration appear here as posters; their order is TimerHeap's.     *)
(***************************************************************************)
EXTENDS Naturals, Sequences, FiniteSets, SequencesExt

CONSTANTS
  Poster,           \* threads holding a DeferredScheduler
  Source,           \* readable I/O sources, each with a callback
  SignalNo,         \* subscribed signals
  WAKE, SIGNAL,     \* the two reserved tokens
  Modes,            \* how the host pumps: subset of {"run", "once", "wait"}
  Failing,          \* sources whose callback may return an error
  EventCap,         \* edges one poll reports at most (128 in the code)
  Removes,          \* whether the host removes owners
  MaxOwner, MaxEvent, \* bounds of the owned queues
  MaxPost,          \* bound: work items ever posted
  MaxFrame          \* bound: frames ever received, over all sources

\* put is never refused for want of an id: the code's counter does not run out.
ASSUME EnoughIds ==
  /\ MaxOwner \in Nat \ {0} /\ MaxEvent \in Nat /\ MaxPost \in Nat /\ MaxFrame \in Nat
  /\ MaxEvent >= MaxPost + MaxFrame + Cardinality(SignalNo)

\* register refuses the reserved tokens; a poll has room for at least one edge.
ASSUME TokensAssumption ==
  /\ WAKE # SIGNAL /\ {WAKE, SIGNAL} \intersect Source = {}
  /\ Failing \subseteq Source /\ EventCap \in Nat \ {0}

Token == {WAKE, SIGNAL} \union Source
Post(n) == [kind |-> "post", n |-> n]
Signal(g) == [kind |-> "signal", n |-> g]
Frame == [kind |-> "frame", n |-> 0]
Event == {Post(n) : n \in 1..MaxPost} \union {Signal(g) : g \in SignalNo} \union {Frame}

VARIABLES
  nextOwner, nextEvent, parent, entries, events, origins, drained,
  inbox,      \* Pending behind its mutex: per-owner work and the order of owners
  taken,      \* what the running transfer took out of the inbox
  post,       \* history: the n-th item posted, [owner, fast]
  poster,     \* thread -> "idle" or "pushed" (the wake is still to come)
  edge,       \* tokens with a readiness edge epoll has not reported yet
  frames,     \* source -> frames in its OS buffer
  arrived,    \* history: frames received so far
  raised,     \* signals waiting in the self-pipe
  caught,     \* history: signals raised so far
  stopped,    \* the shared flag
  stopper,    \* "idle", "stored" (the wake is still to come) or "done"
  pc, mode, target, \* the loop thread: step, host call, queue being drained
  ready,      \* tokens of this poll still to dispatch
  batch,      \* drained events still to run
  done,       \* history: posts executed, in order
  returned    \* history: signals handed back to the host by run_once

queueVars == <<nextOwner, nextEvent, parent, entries, events, origins, drained>>
postVars == <<inbox, post, poster>>
kernelVars == <<frames, arrived, raised, caught>>
stopVars == <<stopped, stopper>>
loopVars == <<pc, mode, target, ready, batch, taken>>
vars == <<queueVars, postVars, kernelVars, stopVars, loopVars, edge, done, returned>>

MQ == INSTANCE MultiQueue
Root == MQ!Root
Live == MQ!Live

OwnerIds == 0..(MaxOwner - 1)
NoWork == [channels |-> [o \in OwnerIds |-> <<>>], order |-> <<>>]

Init ==
  /\ MQ!Init
  /\ inbox = NoWork /\ taken = NoWork /\ post = <<>>
  /\ poster = [t \in Poster |-> "idle"]
  /\ edge = {} /\ frames = [s \in Source |-> 0] /\ arrived = 0
  /\ raised = {} /\ caught = {}
  /\ stopped = FALSE /\ stopper = "idle"
  /\ pc = "idle" /\ mode \in Modes /\ target = Root
  /\ ready = <<>> /\ batch = <<>> /\ done = <<>> /\ returned = {}

-----------------------------------------------------------------------------
(* Producers *)

PushedOnce(q, o, n) ==   \* mutant: an owner that already waits is not listed again
  [channels |-> [q.channels EXCEPT ![o] = Append(@, n)],
   order |-> IF q.channels[o] = <<>> THEN Append(q.order, o) ELSE q.order]
PushedWork(q, o, n) ==
  [channels |-> [q.channels EXCEPT ![o] = Append(@, n)], order |-> Append(q.order, o)]

NoWake == {}             \* mutant: the flag or the inbox changes and nobody is told
Wake == {WAKE}           \* waker.wake(): the eventfd becomes readable

\* schedule_deferred up to the unlock; an owner id stays usable after its removal.
PushDeferred(t, o) ==
  /\ poster[t] = "idle" /\ Len(post) < MaxPost /\ o < nextOwner
  /\ post' = Append(post, [owner |-> o, fast |-> FALSE])
  /\ inbox' = PushedWork(inbox, o, Len(post) + 1)
  /\ poster' = [poster EXCEPT ![t] = "pushed"]
  /\ UNCHANGED <<queueVars, kernelVars, stopVars, loopVars, edge, done, returned>>

\* waker.wake() at the end of schedule_deferred.
WakeAfterPush(t) ==
  /\ poster[t] = "pushed"
  /\ poster' = [poster EXCEPT ![t] = "idle"]
  /\ edge' = edge \union Wake
  /\ UNCHANGED <<queueVars, inbox, post, kernelVars, stopVars, loopVars, done, returned>>

\* schedule_fast needs the loop's WorkQueues, so only the host calls it, between pumps.
PushFast(o) ==
  /\ pc = "idle" /\ Len(post) < MaxPost /\ o < nextOwner
  /\ post' = Append(post, [owner |-> o, fast |-> TRUE])
  /\ inbox' = PushedWork(inbox, o, Len(post) + 1)
  /\ edge' = edge \union Wake
  /\ UNCHANGED <<queueVars, poster, kernelVars, stopVars, loopVars, done, returned>>

FrameArrives(s) ==
  /\ arrived < MaxFrame
  /\ arrived' = arrived + 1
  /\ frames' = [frames EXCEPT ![s] = @ + 1]
  /\ edge' = edge \union {s}
  /\ UNCHANGED <<queueVars, postVars, raised, caught, stopVars, loopVars, done, returned>>

SignalArrives(g) ==
  /\ g \notin caught
  /\ caught' = caught \union {g} /\ raised' = raised \union {g}
  /\ edge' = edge \union {SIGNAL}
  /\ UNCHANGED <<queueVars, postVars, frames, arrived, stopVars, loopVars, done, returned>>

\* StopHandle::stop: the flag, then the wake.
StoreStop ==
  /\ stopper = "idle" /\ stopper' = "stored" /\ stopped' = TRUE
  /\ UNCHANGED <<queueVars, postVars, kernelVars, loopVars, edge, done, returned>>
WakeAfterStop ==
  /\ stopper = "stored" /\ stopper' = "done"
  /\ edge' = edge \union Wake
  /\ UNCHANGED <<queueVars, postVars, kernelVars, stopped, loopVars, done, returned>>

-----------------------------------------------------------------------------
(* The host between pumps *)

HostChild(p) ==
  /\ pc = "idle" /\ MQ!Child(p)
  /\ UNCHANGED <<postVars, kernelVars, stopVars, loopVars, edge, done, returned>>

HostRemove(o) ==
  /\ Removes /\ pc = "idle" /\ MQ!RemoveOwner(o)
  /\ UNCHANGED <<postVars, kernelVars, stopVars, loopVars, edge, done, returned>>

\* run, run_once and process_events_until; only the last names an owner.
HostPumps(m, o) ==
  /\ pc = "idle" /\ pc' = "top" /\ mode' = m /\ target' = o
  /\ o = Root \/ (m = "wait" /\ o < nextOwner)
  /\ UNCHANGED <<queueVars, postVars, kernelVars, stopVars, ready, batch, taken, edge, done,
                 returned>>

-----------------------------------------------------------------------------
(* The loop thread *)

Goto(step) == pc' = step /\ UNCHANGED <<mode, target>>

\* Head of an iteration: run and process_events_until look at the flag, and the
\* latter's condition may hold or its timeout may have passed.
Returns ==
  /\ pc = "top"
  /\ \/ mode # "once" /\ stopped
     \/ mode = "wait"
  /\ Goto("idle")
  /\ UNCHANGED <<queueVars, postVars, kernelVars, stopVars, ready, batch, taken, edge, done,
                 returned>>

Iterates ==
  /\ pc = "top" /\ (mode = "once" \/ ~stopped)
  /\ Goto("poll")
  /\ UNCHANGED <<queueVars, postVars, kernelVars, stopVars, ready, batch, taken, edge, done,
                 returned>>

\* is_empty(owner)? and process_events(owner)? fail when the owner is gone; the
\* poll is not reached, or what it left in the queues stays there.
TargetUnknown ==
  /\ pc \in {"poll", "drain"} /\ ready = <<>> /\ target \notin Live
  /\ Goto("idle")
  /\ UNCHANGED <<queueVars, postVars, kernelVars, stopVars, ready, batch, taken, edge, done,
                 returned>>

\* The poll returns when an edge is pending, at once when the target queue is
\* not empty; an edge it reports is consumed (EPOLLET), and those beyond the
\* capacity of its buffer wait for the next poll.
Reported == {R \in SUBSET edge : Cardinality(R) = IF Cardinality(edge) <= EventCap
                                                 THEN Cardinality(edge) ELSE EventCap}
PollReturns ==
  /\ pc = "poll" /\ target \in Live
  /\ edge # {} \/ entries[target] # <<>>
  /\ \E R \in Reported : ready' \in SetToSeqs(R) /\ edge' = edge \ R
  /\ Goto("dispatch")
  /\ UNCHANGED <<queueVars, postVars, kernelVars, stopVars, batch, taken, done, returned>>

\* A timer deadline or the caller's timeout passes, or EINTR: an empty wakeup,
\* which epoll does not report while it has edges to report.
PollExpires ==
  /\ pc = "poll" /\ target \in Live /\ edge = {} /\ entries[target] = <<>>
  /\ Goto("dispatch")
  /\ UNCHANGED <<queueVars, postVars, kernelVars, stopVars, ready, batch, taken, edge, done,
                 returned>>

\* WAKE: transfer takes the whole inbox under the mutex.
TakeInbox ==
  /\ pc = "dispatch" /\ ready # <<>> /\ Head(ready) = WAKE
  /\ taken' = inbox /\ inbox' = NoWork
  /\ Goto("transfer")
  /\ UNCHANGED <<queueVars, post, poster, kernelVars, stopVars, ready, batch, edge, done,
                 returned>>

Popped(q, o) == [channels |-> [q.channels EXCEPT ![o] = Tail(@)], order |-> Tail(q.order)]
NextOwner(q) == Head(q.order)
NextWork(q) == Head(q.channels[NextOwner(q)])

TransferFast ==
  /\ pc = "transfer" /\ taken.order # <<>> /\ post[NextWork(taken)].fast
  /\ done' = Append(done, NextWork(taken))
  /\ taken' = Popped(taken, NextOwner(taken))
  /\ UNCHANGED <<queueVars, postVars, kernelVars, stopVars, pc, mode, target, ready, batch, edge,
                 returned>>

TransferDeferred ==
  /\ pc = "transfer" /\ taken.order # <<>> /\ ~post[NextWork(taken)].fast
  /\ MQ!Put(NextOwner(taken), Post(NextWork(taken)))
  /\ taken' = Popped(taken, NextOwner(taken))
  /\ UNCHANGED <<postVars, kernelVars, stopVars, pc, mode, target, ready, batch, edge, done,
                 returned>>

\* put fails on a removed owner; the ? leaves transfer and the iteration, and the
\* work already taken and the tokens already polled are dropped with them.
TransferFails ==
  /\ pc = "transfer" /\ taken.order # <<>> /\ ~post[NextWork(taken)].fast
  /\ NextOwner(taken) \notin Live
  /\ taken' = NoWork /\ ready' = <<>>
  /\ Goto("idle")
  /\ UNCHANGED <<queueVars, postVars, kernelVars, stopVars, batch, edge, done, returned>>

TransferDone ==
  /\ pc = "transfer" /\ taken.order = <<>>
  /\ ready' = Tail(ready) /\ taken' = NoWork
  /\ Goto("dispatch")
  /\ UNCHANGED <<queueVars, postVars, kernelVars, stopVars, batch, edge, done, returned>>

\* SIGNAL: every pending signal becomes an event of the root queue.
QueueSignal(g) ==
  /\ pc = "dispatch" /\ ready # <<>> /\ Head(ready) = SIGNAL /\ g \in raised
  /\ MQ!Put(Root, Signal(g))
  /\ raised' = raised \ {g}
  /\ UNCHANGED <<postVars, frames, arrived, caught, stopVars, loopVars, edge, done, returned>>

\* dispatch_readiness: the callback, here one frame at a time, is called again
\* until it sees WouldBlock; it may queue an event for what it read.
ReadFrame(s) ==
  /\ pc = "dispatch" /\ ready # <<>> /\ Head(ready) = s /\ frames[s] > 0
  /\ frames' = [frames EXCEPT ![s] = @ - 1]
  /\ MQ!Put(Root, Frame)
  /\ UNCHANGED <<postVars, arrived, raised, caught, stopVars, loopVars, edge, done, returned>>

\* A callback is also handed the queues, and may remove an owner.
ReadRemoves(s, o) ==
  /\ Removes /\ pc = "dispatch" /\ ready # <<>> /\ Head(ready) = s /\ frames[s] > 0
  /\ frames' = [frames EXCEPT ![s] = @ - 1]
  /\ MQ!RemoveOwner(o)
  /\ UNCHANGED <<postVars, arrived, raised, caught, stopVars, loopVars, edge, done, returned>>

ReadFails(s) ==
  /\ s \in Failing /\ pc = "dispatch" /\ ready # <<>> /\ Head(ready) = s
  /\ ready' = <<>>
  /\ Goto("idle")
  /\ UNCHANGED <<queueVars, postVars, kernelVars, stopVars, batch, taken, edge, done, returned>>

\* The pipe is empty or the read would block: on to the next token.
DrainsOne(tok) == TRUE   \* mutant: one callback call per edge
Drained(tok) == IF tok = SIGNAL THEN raised = {} ELSE frames[tok] = 0
TokenDone ==
  /\ pc = "dispatch" /\ ready # <<>> /\ Head(ready) # WAKE /\ Drained(Head(ready))
  /\ ready' = Tail(ready)
  /\ UNCHANGED <<queueVars, postVars, kernelVars, stopVars, pc, mode, target, batch, taken, edge,
                 done, returned>>

DispatchDone ==
  /\ pc = "dispatch" /\ ready = <<>>
  /\ Goto("drain")
  /\ UNCHANGED <<queueVars, postVars, kernelVars, stopVars, ready, batch, taken, edge, done,
                 returned>>

DrainTarget ==
  /\ pc = "drain" /\ MQ!ProcessEvents(target)
  /\ batch' = drained'
  /\ Goto("callbacks")
  /\ UNCHANGED <<postVars, kernelVars, stopVars, ready, taken, edge, done, returned>>

\* Callbacks run in order; run_once hands signals back to its caller, run
\* discards them and process_events_until's dispatch does nothing with them.
DropsSignals(ev) == {}   \* mutant: nobody is given the signals
HandedBack(ev) == IF mode = "once" /\ ev.kind = "signal" THEN {ev.n} ELSE {}
RunCallback ==
  /\ pc = "callbacks" /\ batch # <<>>
  /\ done' = IF Head(batch).kind = "post" THEN Append(done, Head(batch).n) ELSE done
  /\ returned' = returned \union HandedBack(Head(batch))
  /\ batch' = Tail(batch)
  /\ UNCHANGED <<queueVars, postVars, kernelVars, stopVars, pc, mode, target, ready, taken, edge>>

IterationDone ==
  /\ pc = "callbacks" /\ batch = <<>>
  /\ Goto(IF mode = "once" THEN "idle" ELSE "top")
  /\ UNCHANGED <<queueVars, postVars, kernelVars, stopVars, ready, batch, taken, edge, done,
                 returned>>

-----------------------------------------------------------------------------
Produce ==
  \/ \E t \in Poster : (\E o \in OwnerIds : PushDeferred(t, o)) \/ WakeAfterPush(t)
  \/ \E s \in Source : FrameArrives(s)
  \/ \E g \in SignalNo : SignalArrives(g)
  \/ StoreStop \/ WakeAfterStop

Host ==
  \E o \in OwnerIds : \/ PushFast(o) \/ HostChild(o) \/ HostRemove(o)
                      \/ \E m \in Modes : HostPumps(m, o)

LoopStep ==
  \/ Returns \/ Iterates \/ TargetUnknown \/ PollReturns
  \/ TakeInbox \/ TransferFast \/ TransferDeferred \/ TransferFails \/ TransferDone
  \/ \E g \in SignalNo : QueueSignal(g)
  \/ \E s \in Source : ReadFrame(s) \/ ReadFails(s) \/ \E o \in OwnerIds : ReadRemoves(s, o)
  \/ TokenDone \/ DispatchDone \/ DrainTarget \/ RunCallback \/ IterationDone

Next == Produce \/ Host \/ LoopStep \/ PollExpires

Spec == Init /\ [][Next]_vars

(***************************************************************************)
(* Scheduling the code justifies: the loop thread keeps running unless it  *)
(* is blocked in poll with nothing to report, a thread that pushed reaches *)
(* its wake, and the host pumps again after a pump returns.  Nothing is    *)
(* assumed of arrivals, posts, stops or empty wakeups.                     *)
(***************************************************************************)
Fairness ==
  /\ WF_vars(LoopStep)
  /\ \A t \in Poster : WF_vars(WakeAfterPush(t))
  /\ WF_vars(WakeAfterStop)
  /\ WF_vars(\E m \in Modes : HostPumps(m, Root))

FairSpec == Spec /\ Fairness

-----------------------------------------------------------------------------
WorkOf(q) == UNION {Range(q.channels[o]) : o \in OwnerIds}
Queued == {events[id] : id \in DOMAIN events}

(***************************************************************************)
(* Work posted for an owner that still exists is executed or still on its  *)
(* way: in the inbox, in a transfer, in the queues or in the batch being   *)
(* run.  (work.rs: deferred work is forwarded to the owner's MultiQueue.)  *)
(***************************************************************************)
WorkConserved ==
  \A n \in 1..Len(post) :
    \/ post[n].owner \notin Live
    \/ n \in WorkOf(inbox) \union WorkOf(taken) \union Range(done)
    \/ Post(n) \in Queued \union Range(batch)

(***************************************************************************)
(* When the loop thread blocks in poll nothing is stranded: whatever waits *)
(* in the inbox, a source or the signal pipe has an edge still to be       *)
(* reported, or its thread is about to wake the poll; a source whose own   *)
(* callback fails is not covered.  (loop.rs readiness contract: buffered   *)
(* frames are never left waiting for a report that will not come.)         *)
(***************************************************************************)
NothingStranded ==
  pc = "poll" =>
    /\ inbox.order # <<>> => WAKE \in edge \/ \E t \in Poster : poster[t] = "pushed"
    /\ \A s \in Source \ Failing : frames[s] > 0 => s \in edge
    /\ raised # {} => SIGNAL \in edge

(***************************************************************************)
(* Deferred work of one owner runs in the order it was posted, whatever    *)
(* selective waits, failures and removals come between.                    *)
(***************************************************************************)
RunsInPostOrder ==
  \A i, j \in DOMAIN done :
    /\ i < j /\ ~post[done[i]].fast /\ ~post[done[j]].fast
    /\ post[done[i]].owner = post[done[j]].owner
    => done[i] < done[j]

(***************************************************************************)
(* A signal that run_once takes out of the queues is given to its caller,  *)
(* whatever fails in between; no other step of that pump forgets one.      *)
(* (Event::dispatch: signal events are left for explicit consumers; run    *)
(* and process_events_until are none, they discard what they drain.)       *)
(***************************************************************************)
SignalHeld(g) == g \in raised \union returned \/ Signal(g) \in Queued \union Range(batch)
SignalsKept ==
  [][\A g \in caught : SignalHeld(g) => SignalHeld(g)' \/ (mode # "once" /\ Signal(g) \in Range(batch))]_vars

(***************************************************************************)
(* remove_owner takes its pending work with it: a deferred callback that   *)
(* runs belongs to an owner that still exists.                             *)
(***************************************************************************)
RemovedNeverRuns ==
  [][\A n \in Range(done') \ Range(done) : post[n].fast \/ post[n].owner \in Live]_vars

(***************************************************************************)
(* A pump that is asked to stop returns, even from a poll it was blocked   *)
(* in when the flag was stored (StopHandle: returns promptly).             *)
(***************************************************************************)
StopReturns == stopped ~> (pc = "idle")

(***************************************************************************)
(* Every posted item is executed, unless the pump is stopped.              *)
(***************************************************************************)
WorkRuns == \A n \in 1..MaxPost : (n <= Len(post)) ~> (n \in Range(done) \/ stopped)
=============================================================================
