------------------------------- MODULE UvLoop -------------------------------
(***************************************************************************)
(* crates/ox-uv: one turn of the libuv loop and its run modes              *)
(* (uv_loop.rs) over timers, phase handles, async handles and signal       *)
(* watchers (timer.rs, aux_handles.rs, async_handle.rs, signal.rs).        *)
(*                                                                         *)
(* A callback is handed the loop: it may start, stop and close handles,    *)
(* send, stop the loop and run it again (run_nested), so the runs under    *)
(* way are a stack of frames, each with its mode, the phase its turn is    *)
(* in, what that phase collected, the closes its turn has to deliver and   *)
(* the callback it is inside of.  pending_callbacks, the closes asked for  *)
(* and the stop request belong to the loop and are shared by all frames.   *)
(*                                                                         *)
(* Clocks are abstracted to a flag per timer, set when its deadline has    *)
(* passed.  The poll is LoopPump's; of it remain the wake, the signals in  *)
(* the self-pipe and that it may fail.  One request of the thread pool     *)
(* (UvPool) is in flight at a time.                                        *)
(***************************************************************************)
EXTENDS Naturals, Sequences, FiniteSets, SequencesExt, Retain

CONSTANTS
  Timer, Idle, Prepare, Check, Async, Signal, \* the handles of each kind
  Started,     \* timers, phase handles and watchers running at first, the timers repeatedly
  Unrefs,      \* handles whose reference flag changes
  NestModes,   \* how callbacks run the loop again
  Nesting,     \* phases whose callbacks do
  PollErrors,  \* whether the poll may fail
  MaxDepth,    \* bound: runs on the stack
  MaxOps,      \* bound: calls on handles
  MaxSends     \* bound: sends by the other thread

Phased == Idle \union Prepare \union Check
Handle == Timer \union Phased \union Async \union Signal
Mode == {"default", "once", "nowait"}
Phase == {"timers", "work", "deliver", "idle", "prepare", "poll",
          "work2", "deliver2", "check", "closes"}
ASSUME UvAssumption ==
  /\ NestModes \subseteq Mode /\ Nesting \subseteq Phase
  /\ Started \subseteq Handle \ Async /\ IsFiniteSet(Handle) /\ {"none", "work"} \intersect Handle = {}
  /\ Async \intersect (Timer \union Phased \union Signal) = {}
  /\ Timer \intersect (Phased \union Signal) = {}

VARIABLES
  handles,   \* the registry: live handles in its order
  h,         \* handle -> its state
  stack,     \* runs under way, the innermost last
  queue,     \* pending_callbacks: handles and the generation they were queued for
  closeNext, \* closes asked for since the last turn began
  stop,      \* stop_requested
  woken,     \* the waker's eventfd is readable
  raised, caught, \* a signal in the self-pipe; how many the driver has read
  request,   \* the request in flight: "none", "working", "posted" or "running"
  sender,    \* the other thread: the async handle it has marked and must still wake
  owed,      \* history: async handles sent to since their callback last began
  ops, sends \* calls on handles and sends made so far

ioVars == <<woken, raised, caught, request, sender, sends>>
loopVars == <<queue, closeNext, stop>>
vars == <<handles, h, stack, loopVars, ioVars, owed, ops>>

NONE == "none"
NoCall == [id |-> NONE, ver |-> 0, gen |-> 0]
Fresh(x) ==
  LET n == IF x \in Async \union Started THEN 1 ELSE 0
  IN  [active |-> n = 1, closing |-> FALSE, referenced |-> TRUE, generation |-> n,
       callback |-> n, \* 0: the slot is empty
       newest |-> n,   \* history: the last callback installed
       repeats |-> n = 1 /\ x \in Timer, oneshot |-> FALSE, due |-> FALSE, pending |-> FALSE]

Init ==
  /\ handles = SetToSeq(Handle) /\ h = [x \in Handle |-> Fresh(x)]
  /\ stack = <<>> /\ queue = <<>> /\ closeNext = <<>> /\ stop = FALSE
  /\ woken = FALSE /\ raised = FALSE /\ caught = 0
  /\ request = NONE /\ sender = NONE /\ owed = {} /\ ops = 0 /\ sends = 0

Registered == Range(handles)
Active(x) == x \in Registered /\ h[x].active /\ ~h[x].closing
Alive ==
  \/ request # NONE
  \/ \E x \in Registered : h[x].closing \/ (h[x].referenced /\ h[x].active)

Top == Last(stack)
InCallback == stack # <<>> /\ Top.call # NoCall
Running == stack # <<>> /\ Top.call = NoCall
AtHead == Running /\ Top.pc \in {"enter", "again"}
Polling == Running /\ Top.pc = "poll"
ReplaceTop(f) == Append(Front(stack), f)

-----------------------------------------------------------------------------
(* Calls on handles: by the host between runs, by a callback inside one. *)

Calls == (stack = <<>> \/ InCallback) /\ ops < MaxOps /\ ops' = ops + 1

Open(x) == x \in Registered /\ ~h[x].closing
Changes(x, g) ==
  /\ Calls /\ Open(x) /\ h' = [h EXCEPT ![x] = g]
  /\ UNCHANGED <<handles, stack, loopVars, ioVars, owed>>

NextGeneration(g) == g + 1
Installed(s) == [s EXCEPT !.active = TRUE, !.generation = NextGeneration(@),
                          !.callback = s.newest + 1, !.newest = @ + 1]

\* Timer::start; a zero timeout is due at once.
TimerStart(t, zero, rep) ==
  Changes(t, [Installed(h[t]) EXCEPT !.due = zero, !.repeats = rep])

Stopped(s) == [s EXCEPT !.active = FALSE, !.due = FALSE, !.generation = NextGeneration(@)]
Stop(x) == x \notin Async /\ Changes(x, Stopped(h[x]))

\* Timer::again fails on a timer never started or without a repeat interval.
Again(t) ==
  /\ h[t].newest # 0 /\ h[t].repeats
  /\ Changes(t, [h[t] EXCEPT !.active = TRUE, !.due = FALSE, !.generation = NextGeneration(@)])

PhaseStart(p) == Changes(p, Installed(h[p]))
SignalStart(s, once) == Changes(s, [Installed(h[s]) EXCEPT !.oneshot = once])
SetRef(x, b) == h[x].referenced # b /\ Changes(x, [h[x] EXCEPT !.referenced = b])

Closing(s) == [s EXCEPT !.closing = TRUE, !.active = FALSE]
Close(x) ==
  /\ Calls /\ Open(x)
  /\ h' = [h EXCEPT ![x] = Closing(h[x])]
  /\ closeNext' = Append(closeNext, x) /\ owed' = owed \ {x}
  /\ UNCHANGED <<handles, stack, queue, stop, ioVars>>

Send(a) ==
  /\ Calls /\ a \in Registered
  /\ h' = [h EXCEPT ![a].pending = TRUE] /\ woken' = TRUE
  /\ owed' = IF Open(a) THEN owed \union {a} ELSE owed
  /\ UNCHANGED <<handles, stack, loopVars, raised, caught, request, sender, sends>>

Submit ==
  /\ Calls /\ request = NONE /\ request' = "working"
  /\ UNCHANGED <<handles, h, stack, loopVars, woken, raised, caught, sender, sends, owed>>

StopLoop ==
  /\ Calls /\ ~stop /\ stop' = TRUE
  /\ stack' = IF stack = <<>> THEN stack ELSE ReplaceTop([Top EXCEPT !.asked = TRUE])
  /\ UNCHANGED <<handles, h, queue, closeNext, ioVars, owed>>

-----------------------------------------------------------------------------
(* Other threads, the kernel and the clock act at any moment; they are     *)
(* given their steps where the loop could tell an earlier one apart.       *)

External == UNCHANGED <<handles, stack, loopVars, ops>>

\* AsyncSender::send stores the flag and then wakes; a sender outlives its handle.
SenderStores(a) ==
  /\ Polling \/ (Running /\ Top.pc \in {"work", "work2"}) \/ (InCallback /\ Top.call.id = a)
  /\ sender = NONE /\ sends < MaxSends /\ External
  /\ sends' = sends + 1 /\ sender' = a
  /\ h' = [h EXCEPT ![a].pending = TRUE]
  /\ owed' = IF Open(a) THEN owed \union {a} ELSE owed
  /\ UNCHANGED <<woken, raised, caught, request>>
SenderWakes ==
  /\ Polling /\ sender # NONE /\ External
  /\ sender' = NONE /\ woken' = TRUE
  /\ UNCHANGED <<h, raised, caught, request, sends, owed>>

WorkerPosts ==
  /\ request = "working" /\ request' = "posted" /\ woken' = TRUE /\ External
  /\ UNCHANGED <<h, raised, caught, sender, sends, owed>>

\* subscribe is never undone, so the pipe hears every signal after the first start.
SignalRaised ==
  /\ Polling /\ ~raised /\ raised' = TRUE /\ External
  /\ \E s \in Signal : h[s].newest # 0
  /\ UNCHANGED <<h, woken, caught, request, sender, sends, owed>>

\* A deadline passes; the start of a turn and the poll look at the clock.
Elapses(t) ==
  /\ AtHead \/ Polling
  /\ Active(t) /\ ~h[t].due /\ External
  /\ h' = [h EXCEPT ![t].due = TRUE]
  /\ UNCHANGED <<ioVars, owed>>

-----------------------------------------------------------------------------
(* Runs and turns *)

Frame(m) == [mode |-> m, pc |-> "enter", forced |-> FALSE, batch |-> <<>>, due |-> <<>>,
             call |-> NoCall, asked |-> FALSE] \* asked: history, stop called in this run

\* The host's run, refused while one is under way, or a callback's run_nested.
Run(m) ==
  /\ \/ stack = <<>> /\ UNCHANGED ops
     \/ /\ Calls /\ InCallback /\ Len(stack) < MaxDepth
        /\ m \in NestModes /\ Top.pc \in Nesting
  /\ stack' = Append(stack, Frame(m))
  /\ UNCHANGED <<handles, h, loopVars, ioVars, owed>>

\* The active members of S in registry order, with their generations.
Collected(S) ==
  LET ids == Without(handles, {x \in Handle : x \notin S \/ ~Active(x)})
  IN  [i \in DOMAIN ids |-> <<ids[i], h[ids[i]].generation>>]
DueTimers == {t \in Timer : h[t].due}

\* A default or once run that finds a stop request makes one forced turn, a
\* nowait run none; a default run goes on while there is work and no stop.
IgnoresStop ==       \* mutant: the default run only asks whether work is left
  \/ Top.pc = "enter" /\ IF stop THEN Top.mode # "nowait" ELSE Alive
  \/ Top.pc = "again" /\ Alive
TurnAhead ==
  \/ Top.pc = "enter" /\ IF stop THEN Top.mode # "nowait" ELSE Alive
  \/ Top.pc = "again" /\ Alive /\ ~stop

KeepsDue(q) == q     \* mutant: the closes taken stay in close_next
TakenCloses(q) == <<>>
BeginTurn ==
  /\ AtHead /\ TurnAhead
  /\ stack' = ReplaceTop([Top EXCEPT !.pc = "timers", !.forced = stop \/ Top.mode = "nowait",
                                     !.batch = Collected(DueTimers), !.due = closeNext])
  /\ closeNext' = TakenCloses(closeNext)
  /\ UNCHANGED <<handles, h, queue, stop, ioVars, owed, ops>>

-----------------------------------------------------------------------------
(* Callbacks.  take_callback empties the slot of an active handle; a slot  *)
(* whose callback is on the stack is empty, so nothing is called twice at  *)
(* the same time.                                                          *)

Call(x) == [id |-> x, ver |-> h[x].callback, gen |-> h[x].generation]
TakenSlot(s) == [s EXCEPT !.callback = 0]

AnyGeneration(e) == Active(e[1])   \* mutant: what was collected is fired
StillCurrent(e) == Active(e[1]) /\ h[e[1]].generation = e[2]
Fires(e) == StillCurrent(e) /\ h[e[1]].callback # 0
FirstFiring(batch) == {i \in DOMAIN batch : Fires(batch[i]) /\ \A j \in 1..(i - 1) : ~Fires(batch[j])}

\* fire_due_timers and fire_phase: the next callback of what the phase collected.
FireCollected ==
  /\ Running /\ Top.pc \in {"timers", "idle", "prepare", "check"}
  /\ \E i \in FirstFiring(Top.batch) :
       LET x == Top.batch[i][1]
       IN  /\ stack' = ReplaceTop([Top EXCEPT !.call = Call(x),
                                              !.batch = SubSeq(@, i + 1, Len(@))])
           /\ h' = [h EXCEPT ![x] = TakenSlot(@)]
  /\ UNCHANGED <<handles, loopVars, ioVars, owed, ops>>

RunCompletion ==
  /\ Running /\ Top.pc \in {"work", "work2"} /\ request = "posted"
  /\ request' = "running"
  /\ stack' = ReplaceTop([Top EXCEPT !.call = [NoCall EXCEPT !.id = "work"]])
  /\ UNCHANGED <<handles, h, loopVars, woken, raised, caught, sender, sends, owed, ops>>

Repeated(n, s) == [i \in 1..(n * Len(s)) |-> s[((i - 1) % Len(s)) + 1]]

\* Async flags are swapped and caught signals fanned out into pending_callbacks.
CollectSources ==
  /\ Running /\ Top.pc \in {"work", "work2"} /\ request # "posted"
  /\ LET sent == {a \in Async : Active(a) /\ h[a].pending}
     IN  /\ queue' = queue \o Collected(sent) \o Repeated(caught, Collected(Signal))
         /\ h' = [a \in Handle |-> IF a \in sent THEN [h[a] EXCEPT !.pending = FALSE] ELSE h[a]]
  /\ caught' = 0
  /\ stack' = ReplaceTop([Top EXCEPT !.pc = IF @ = "work" THEN "deliver" ELSE "deliver2"])
  /\ UNCHANGED <<handles, closeNext, stop, woken, raised, request, sender, sends, owed, ops>>

\* A one-shot watcher is inactive before its callback begins.
Delivered(e) ==
  \/ e[1] \in Signal /\ StillCurrent(e)
  \/ e[1] \in Async /\ Active(e[1])
Deliver ==
  /\ Running /\ Top.pc \in {"deliver", "deliver2"} /\ queue # <<>>
  /\ LET x == Head(queue)[1]
         called == Delivered(Head(queue)) /\ h[x].callback # 0
     IN  IF called
         THEN /\ stack' = ReplaceTop([Top EXCEPT !.call = Call(x)])
              /\ h' = [h EXCEPT ![x] = [TakenSlot(@) EXCEPT !.active = ~h[x].oneshot]]
              /\ owed' = owed \ {x}
         ELSE UNCHANGED <<stack, h, owed>>
  /\ queue' = Tail(queue)
  /\ UNCHANGED <<handles, closeNext, stop, ioVars, ops>>

\* fire_closes: the handle leaves the registry, the last one takes its place.
SwapRemove(s, x) ==
  LET i == CHOOSE j \in DOMAIN s : s[j] = x
  IN  IF i = Len(s) THEN Front(s) ELSE [Front(s) EXCEPT ![i] = Last(s)]
FireClose ==
  /\ Running /\ Top.pc = "closes" /\ Top.due # <<>>
  /\ LET x == Head(Top.due)
     IN  IF x \in Registered
         THEN /\ handles' = SwapRemove(handles, x)
              /\ stack' = ReplaceTop([Top EXCEPT !.due = Tail(@), !.call = [NoCall EXCEPT !.id = x]])
         ELSE /\ stack' = ReplaceTop([Top EXCEPT !.due = Tail(@)])
              /\ UNCHANGED handles
  /\ UNCHANGED <<h, loopVars, ioVars, owed, ops>>

(***************************************************************************)
(* A callback returns, in error or not: its slot is restored unless it     *)
(* was filled again or the handle closes; a timer still in the generation  *)
(* that fired is re-armed or, without an interval, inactive from now on;   *)
(* the request of a completion ends with its callback.                     *)
(***************************************************************************)
ForgetsSends(s, c) ==    \* mutant: the flag falls when the callback ends
  IF s.closing THEN s ELSE [s EXCEPT !.callback = IF @ = 0 THEN c.ver ELSE @, !.pending = FALSE]
Restored(s, c) == IF s.closing \/ s.callback # 0 THEN s ELSE [s EXCEPT !.callback = c.ver]
Rearmed(s, c) ==
  IF s.closing \/ ~s.active \/ s.generation # c.gen THEN s
  ELSE [s EXCEPT !.due = FALSE, !.active = s.repeats]
CallbackReturns ==
  /\ InCallback
  /\ LET c == Top.call
     IN  /\ h' = IF c.id \notin Registered THEN h
                 ELSE [h EXCEPT ![c.id] = IF c.id \in Timer THEN Rearmed(Restored(@, c), c)
                                                           ELSE Restored(@, c)]
         /\ request' = IF c.id = "work" THEN NONE ELSE request
  /\ stack' = ReplaceTop([Top EXCEPT !.call = NoCall])
  /\ UNCHANGED <<handles, loopVars, woken, raised, caught, sender, sends, owed, ops>>

-----------------------------------------------------------------------------
(* From phase to phase *)

\* The phases after pc; fire_phase passes over one without active handles.
Rest(pc) ==
  CASE pc = "timers" -> <<"work">>
    [] pc = "deliver" -> <<"idle", "prepare", "poll">>
    [] pc = "idle" -> <<"prepare", "poll">>
    [] pc = "prepare" -> <<"poll">>
    [] pc = "deliver2" -> <<"check", "closes">>
    [] pc = "check" -> <<"closes">>
    [] pc = "closes" -> <<"again">>
BatchOf(pc) == CASE pc = "idle" -> Collected(Idle) [] pc = "prepare" -> Collected(Prepare)
                 [] pc = "check" -> Collected(Check) [] OTHER -> <<>>
Passed(pc) == pc \in {"idle", "prepare", "check"} /\ BatchOf(pc) = <<>>
Exhausted ==
  \/ Top.pc \in {"timers", "idle", "prepare", "check"} /\ FirstFiring(Top.batch) = {}
  \/ Top.pc \in {"deliver", "deliver2"} /\ queue = <<>>
  \/ Top.pc = "closes" /\ Top.due = <<>>
LastTurn == Top.pc = "closes" /\ (Top.mode # "default" \/ Top.forced)

Advance ==
  /\ Running /\ Exhausted /\ ~LastTurn
  /\ \E i \in DOMAIN Rest(Top.pc) :
       LET pc == Rest(Top.pc)[i]
       IN  /\ ~Passed(pc) /\ \A j \in 1..(i - 1) : Passed(Rest(Top.pc)[j])
           /\ stack' = ReplaceTop([Top EXCEPT !.pc = pc, !.batch = BatchOf(pc)])
  /\ UNCHANGED <<handles, h, loopVars, ioVars, owed, ops>>

\* The stop request ends with the run that saw it, nested or not.
Outer == IF Len(stack) = 1 THEN <<>> ELSE [Front(stack) EXCEPT ![Len(stack) - 1].asked = FALSE]
EndRun ==
  /\ (AtHead /\ ~TurnAhead) \/ (Running /\ Exhausted /\ LastTurn)
  /\ stack' = Outer /\ stop' = FALSE
  /\ UNCHANGED <<handles, h, queue, closeNext, ioVars, owed, ops>>

\* poll_timeout: zero, or until the next deadline of an active timer, or for ever.
SleepsOnCloses ==    \* mutant: closes already taken do not shorten the poll
  \/ Top.forced \/ stop \/ ~Alive \/ closeNext # <<>>
  \/ \E x \in Registered : x \in Idle /\ Active(x)
ZeroTimeout ==
  \/ Top.forced \/ stop \/ ~Alive \/ closeNext # <<>>
  \/ \E x \in Registered : h[x].closing \/ (x \in Idle /\ h[x].active)

ReadsSources ==
  /\ woken' = FALSE /\ raised' = FALSE
  /\ caught' = IF raised THEN caught + 1 ELSE caught

Poll ==
  /\ Polling
  /\ ZeroTimeout \/ woken \/ raised \/ \E t \in Timer : Active(t) /\ h[t].due
  /\ ReadsSources
  /\ stack' = ReplaceTop([Top EXCEPT !.pc = "work2"])
  /\ UNCHANGED <<handles, h, loopVars, request, sender, sends, owed, ops>>

\* An error of the inner loop, before or after its sources were read, leaves the
\* turn and the run; only the forced turn of a stop clears the request first.
PollFails ==
  /\ PollErrors /\ Polling
  /\ ReadsSources \/ UNCHANGED <<woken, raised, caught>>
  /\ stack' = Outer
  /\ stop' = (stop /\ ~(Top.forced /\ Top.mode # "nowait"))
  /\ UNCHANGED <<handles, h, queue, closeNext, request, sender, sends, owed, ops>>

-----------------------------------------------------------------------------
HandleCalls ==
  \/ \E t \in Timer : (\E zero, rep \in BOOLEAN : TimerStart(t, zero, rep)) \/ Again(t)
  \/ \E p \in Phased : PhaseStart(p)
  \/ \E s \in Signal, once \in BOOLEAN : SignalStart(s, once)
  \/ \E a \in Async : Send(a)
  \/ \E x \in Handle : Stop(x) \/ Close(x)
  \/ \E x \in Unrefs, b \in BOOLEAN : SetRef(x, b)
  \/ Submit \/ StopLoop

Environment ==
  \/ \E a \in Async : SenderStores(a)
  \/ SenderWakes \/ WorkerPosts \/ SignalRaised
  \/ \E t \in Timer : Elapses(t)

LoopStep ==
  \/ BeginTurn \/ EndRun \/ FireCollected \/ RunCompletion \/ CollectSources \/ Deliver
  \/ FireClose \/ CallbackReturns \/ Advance \/ Poll

Next == HandleCalls \/ Environment \/ LoopStep \/ PollFails \/ \E m \in Mode : Run(m)

Spec == Init /\ [][Next]_vars

(***************************************************************************)
(* Scheduling the code justifies: the loop thread goes on unless it is     *)
(* blocked in poll, its callbacks return, a thread that stored a flag      *)
(* reaches its wake, and the host runs the loop again after a run ends.    *)
(* Nothing is assumed of the clock, of signals or of the calls made.       *)
(***************************************************************************)
Fairness == WF_vars(LoopStep) /\ WF_vars(SenderWakes) /\ WF_vars(stack = <<>> /\ \E m \in Mode : Run(m))

FairSpec == Spec /\ Fairness

-----------------------------------------------------------------------------
Closes(i) == IF i = 0 THEN closeNext ELSE stack[i].due
Places(x) == UNION {{<<i, j>> : j \in {k \in DOMAIN Closes(i) : Closes(i)[k] = x}} : i \in 0..Len(stack)}
PollFailed == stack # <<>> /\ Top.pc = "poll" /\ Len(stack') < Len(stack)

(***************************************************************************)
(* A close that was asked for waits in exactly one place, close_next or    *)
(* the turn that took it, until that turn retires the handle, however the  *)
(* runs nest; only a turn whose poll fails drops the closes it took.       *)
(* (close_with: deferred destruction with a next-turn callback.)           *)
(***************************************************************************)
CloseOnce ==
  [][\A x \in Handle :
       /\ \A p, q \in Places(x)' : p = q
       /\ (Places(x) # {} /\ Places(x)' = {} => x \notin Registered' \/ PollFailed)]_vars

(***************************************************************************)
(* A timer, phase, async or signal callback begins only for a handle whose *)
(* close nobody asked for, with the callback installed last, for a timer   *)
(* not before the deadline of its last start, and for a watcher only while *)
(* started: nothing an earlier callback stopped, restarted or closed fires *)
(* from what was collected before.                                         *)
(***************************************************************************)
Begins(x) == x \in Handle /\ h[x].callback # 0 /\ h[x]'.callback = 0 /\ h[x]'.newest = h[x].newest
CloseAsked(x) == x \in Range(closeNext) \/ \E i \in DOMAIN stack : x \in Range(stack[i].due)
OnlyCurrentFires ==
  [][\A x \in Handle : Begins(x) => /\ ~CloseAsked(x) /\ h[x].active
                                   /\ h[x].callback = h[x].newest
                                   /\ (x \in Timer => h[x].due)]_vars

(***************************************************************************)
(* A send is answered by a callback that begins after it: until then the   *)
(* flag is up or the callback is queued.  A run inside that very callback  *)
(* may swallow a send, nothing else does.                                  *)
(***************************************************************************)
Held(a) == h[a].pending \/ \E i \in DOMAIN queue : queue[i][1] = a
OnStack(a) == \E i \in DOMAIN stack : stack[i].call.id = a
SendsKept ==
  [][\A a \in owed \intersect owed' : Held(a) => Held(a)' \/ (OnStack(a) /\ OnStack(a)')]_vars

(***************************************************************************)
(* A run asked to stop by one of its callbacks begins no other turn,       *)
(* unless a run nested in it came after the request and consumed it.       *)
(* (stop: the current run call returns after its iteration.)               *)
(***************************************************************************)
StopEndsRun ==
  [][stack # <<>> /\ Top.asked /\ Len(stack') = Len(stack) => ~(Top.pc = "again" /\ Last(stack').pc = "timers")]_vars

(***************************************************************************)
(* The closes asked for are all delivered, or dropped by a failing poll;   *)
(* the calls that could ask for ever more of them are bounded.             *)
(***************************************************************************)
CloseDelivered ==
  (\E x \in Handle : CloseAsked(x)) ~> (\A x \in Handle : ~CloseAsked(x))
=============================================================================
