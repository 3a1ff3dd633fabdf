------------------------------ MODULE JobEvents ------------------------------
(***************************************************************************)
(* crates/ox-editor job.rs and builtins/process.rs, crates/oxvim server.rs:*)
(* from the output and the exit of child processes to their callbacks.     *)
(*                                                                         *)
(* Readers of the reactor put raw events in one queue.  A poll turns them  *)
(* into callback events; whoever polls and may not call back appends them  *)
(* to the deferred queue.  Three callers hand events to handlers: the      *)
(* background tick, jobwait, and the flush that follows a jobwait which    *)
(* deferred Lua callbacks.  A handler is user code: it may poll (system,   *)
(* chansend to a terminal), wait for jobs and fail, so deliveries nest and *)
(* each is a frame of a stack with the batch it took from the queue.       *)
(*                                                                         *)
(* A chunk of output is its number; every job has all its callbacks, all   *)
(* of them Vimscript functions or all of them Lua functions.               *)
(***************************************************************************)
EXTENDS Naturals, Sequences, FiniteSets, SequencesExt

CONSTANTS
  Job,          \* child processes, started before the first step
  Pty,          \* those on a pseudoterminal, which have no stderr of their own
  Lua,          \* those whose callbacks are Lua functions
  Buffered,     \* those whose output is delivered once, at its end
  HandlerCalls, \* what handlers do: {"sweep", "wait"} or less
  Failing,      \* whether they may fail
  MaxData,      \* bound: chunks of a stream
  MaxCalls      \* bound: calls of user code

ASSUME JobsAssumption == Pty \subseteq Job /\ Lua \subseteq Job /\ Buffered \subseteq Job

Owed(j) == IF j \in Pty THEN {"stdout"} ELSE {"stdout", "stderr"}
Stream == UNION {{<<j, s>> : s \in Owed(j)} : j \in Job}
Callback == Stream \union {<<j, "exit">> : j \in Job}

VARIABLES
  wrote,     \* stream -> chunks the child wrote to it
  ended,     \* streams the reader has seen the end of
  gone,      \* children that have exited
  raw,       \* the queue the readers append to
  buffer, eof, exited, \* per stream the held output and the end; jobs with a status
  deferred,  \* JobManager.deferred
  stack,     \* deliveries under way, the innermost last
  flush,     \* lua_flush_pending
  host,      \* a Lua host is installed
  passes,    \* hostless_job_event_passes of the tick
  delivered, \* history: per callback, what its handler was given, in that order
  dropped,   \* history: per callback, what was given up for want of a host
  swept,     \* history: a handler polled while its delivery had events left
  calls      \* calls of user code so far

childVars == <<wrote, ended, gone>>
jobVars == <<buffer, eof, exited>>
history == <<delivered, dropped, swept>>
vars == <<childVars, raw, jobVars, deferred, stack, flush, host, passes, history, calls>>

Event(j, of, bytes) == [job |-> j, of |-> of, bytes |-> bytes]
CallbackOf(e) == <<e.job, e.of>>
GivenOf(log, events) ==
  [c \in Callback |-> log[c] \o SelectSeq(events, LAMBDA e : CallbackOf(e) = c)]

Init ==
  /\ wrote = [k \in Stream |-> 0] /\ ended = {} /\ gone = {} /\ raw = <<>>
  /\ buffer = [k \in Stream |-> <<>>] /\ eof = {} /\ exited = {}
  /\ deferred = <<>> /\ stack = <<>> /\ flush = FALSE /\ host \in BOOLEAN /\ passes = 0
  /\ delivered = [c \in Callback |-> <<>>] /\ dropped = [c \in Callback |-> <<>>]
  /\ swept = FALSE /\ calls = 0

-----------------------------------------------------------------------------
(* Children and readers: a stream is read in order and reports one end or  *)
(* several; it may outlive the child whose exit is reported.  They act at  *)
(* any moment and are given their steps where a poll may follow.           *)

Top == Last(stack)
Handling == stack # <<>> /\ Top.busy
Waiting == stack # <<>> /\ Top.kind = "wait" /\ ~Top.over
Outside ==
  /\ stack = <<>> \/ Waiting \/ (Handling /\ calls < MaxCalls /\ HandlerCalls # {})
  /\ UNCHANGED <<jobVars, deferred, stack, flush, host, passes, history, calls>>

Writes(k) ==
  /\ k \notin ended /\ wrote[k] < MaxData
  /\ wrote' = [wrote EXCEPT ![k] = @ + 1]
  /\ raw' = Append(raw, Event(k[1], k[2], <<wrote[k] + 1>>))
  /\ UNCHANGED <<ended, gone>> /\ Outside

StreamEnds(k) ==
  /\ k \notin ended
  /\ ended' = ended \union {k} /\ raw' = Append(raw, Event(k[1], k[2], <<>>))
  /\ UNCHANGED <<wrote, gone>> /\ Outside

\* An edge after the end reads the end once more.
EndsAgain(k) ==
  /\ k \in ended /\ \A i \in DOMAIN raw : CallbackOf(raw[i]) # k
  /\ raw' = Append(raw, Event(k[1], k[2], <<>>))
  /\ UNCHANGED childVars /\ Outside

Exits(j) ==
  /\ j \notin gone /\ gone' = gone \union {j} /\ raw' = Append(raw, Event(j, "exit", <<>>))
  /\ UNCHANGED <<wrote, ended>> /\ Outside

HostInstalled ==
  /\ stack = <<>> /\ ~host /\ host' = TRUE
  /\ UNCHANGED <<childVars, raw, jobVars, deferred, stack, flush, passes, history, calls>>

-----------------------------------------------------------------------------
(* Polling *)

\* drain_raw on one raw event: a buffered stream keeps its data for the end,
\* the first end is the only one, an exit sets the status.
DrainOne(acc, e) ==
  LET k == CallbackOf(e)
      emits(x) == [acc EXCEPT !.events = Append(@, x)]
  IN  CASE e.of = "exit" -> [emits(e) EXCEPT !.exited = @ \union {e.job}]
        [] e.of # "exit" /\ e.bytes # <<>> /\ e.job \in Buffered ->
             [acc EXCEPT !.buffer[k] = @ \o e.bytes]
        [] e.of # "exit" /\ e.bytes # <<>> /\ e.job \notin Buffered -> emits(e)
        [] e.of # "exit" /\ e.bytes = <<>> /\ k \in acc.eof -> acc
        [] e.of # "exit" /\ e.bytes = <<>> /\ k \notin acc.eof ->
             [emits([e EXCEPT !.bytes = acc.buffer[k]]) EXCEPT !.eof = @ \union {k}, !.buffer[k] = <<>>]
Drained == FoldLeft(DrainOne, [events |-> <<>>, buffer |-> buffer, eof |-> eof, exited |-> exited], raw)

NewestFirst(old, new) == new \o old    \* mutant
Polled(old, new) == old \o new
Polls(d) == raw' = <<>> /\ buffer' = d.buffer /\ eof' = d.eof /\ exited' = d.exited

ReplaceTop(f) == Append(Front(stack), f)
UserCode == stack = <<>> \/ Handling
Calls(what) ==
  /\ UserCode /\ calls < MaxCalls /\ calls' = calls + 1
  /\ Handling => what \in HandlerCalls

LeftBehind == \E i \in DOMAIN stack : stack[i].batch # <<>> \/ stack[i].parked # <<>>

\* system and chansend to a terminal poll, and defer what they must not invoke.
Sweep ==
  /\ Calls("sweep")
  /\ LET d == Drained IN Polls(d) /\ deferred' = Polled(deferred, d.events)
  /\ swept' = (swept \/ (Handling /\ LeftBehind))
  /\ UNCHANGED <<childVars, stack, flush, host, passes, delivered, dropped>>

-----------------------------------------------------------------------------
(* Deliveries *)

Frame(kind, batch, ids) ==
  [kind |-> kind, waits |-> ids, over |-> FALSE, complete |-> FALSE, batch |-> batch,
   parked |-> <<>>, host |-> host, lua |-> FALSE, busy |-> FALSE]

\* poll_background_work: flush_pty_output polls and defers, then the whole
\* queue is taken.
Tick ==
  /\ stack = <<>> /\ deferred' = <<>>
  /\ LET d == Drained
         batch == Polled(deferred, d.events)
     IN  /\ Polls(d)
         /\ IF batch = <<>>
            THEN passes' = 0 /\ flush' = FALSE /\ UNCHANGED stack
            ELSE stack' = <<Frame("tick", batch, {})>> /\ UNCHANGED <<passes, flush>>
  /\ UNCHANGED <<childVars, host, history, calls>>

\* deliver_pending_lua_flush, at the first boundary out of user code.
Flush ==
  /\ stack = <<>> /\ flush /\ flush' = FALSE
  /\ deferred' = <<>>
  /\ stack' = IF deferred = <<>> THEN stack ELSE <<Frame("flush", deferred, {})>>
  /\ UNCHANGED <<childVars, raw, jobVars, host, passes, history, calls>>

\* jobwait: poll until the jobs are drained or the deadline has passed.
JobWait(ids) ==
  /\ Calls("wait")
  /\ stack' = Append(stack, Frame("wait", <<>>, ids))
  /\ swept' = (swept \/ (Handling /\ LeftBehind))
  /\ UNCHANGED <<childVars, raw, jobVars, deferred, flush, host, passes, delivered, dropped>>

ExitedOnly(j, eofs, exits) == j \in exits    \* mutant: the streams are forgotten
JobDrained(j, eofs, exits) == j \in exits /\ \A s \in Owed(j) : <<j, s>> \in eofs
WaitPolls ==
  /\ Waiting /\ deferred' = <<>>
  /\ LET d == Drained
         complete == \A j \in Top.waits : JobDrained(j, d.eof, d.exited)
     IN  /\ Polls(d)
         /\ \E timedOut \in BOOLEAN :
              stack' = ReplaceTop([Top EXCEPT !.batch = @ \o Polled(deferred, d.events),
                                              !.over = complete \/ timedOut, !.complete = complete])
  /\ UNCHANGED <<childVars, flush, host, passes, history, calls>>

Invoking == stack # <<>> /\ ~Top.busy /\ ~Waiting
Event1 == Head(Top.batch)
NextIs(lua) == Invoking /\ Top.batch # <<>> /\ (Event1.job \in Lua) = lua
Rest == [Top EXCEPT !.batch = Tail(@)]
DeliversStep == UNCHANGED <<childVars, raw, jobVars, host, swept, calls>>

HandlerBegins ==
  /\ NextIs(FALSE) \/ (NextIs(TRUE) /\ Top.host /\ Top.kind # "wait")
  /\ stack' = ReplaceTop([Rest EXCEPT !.busy = TRUE])
  /\ delivered' = GivenOf(delivered, <<Event1>>)
  /\ DeliversStep /\ UNCHANGED <<deferred, flush, passes, dropped>>

\* jobwait may not enter Lua from user code: the event goes back at once.
LuaDefers ==
  /\ NextIs(TRUE) /\ Top.host /\ Top.kind = "wait"
  /\ deferred' = Append(deferred, Event1) /\ stack' = ReplaceTop([Rest EXCEPT !.lua = TRUE])
  /\ DeliversStep /\ UNCHANGED <<flush, passes, delivered, dropped>>

\* Without a host jobwait fails; a delivery parks the event and goes on.
HostlessWait ==
  /\ NextIs(TRUE) /\ ~Top.host /\ Top.kind = "wait"
  /\ deferred' = deferred \o Top.batch /\ stack' = Front(stack)
  /\ DeliversStep /\ UNCHANGED <<flush, passes, delivered, dropped>>
HostlessParks ==
  /\ NextIs(TRUE) /\ ~Top.host /\ Top.kind # "wait"
  /\ stack' = ReplaceTop([Rest EXCEPT !.parked = Append(@, Event1)])
  /\ DeliversStep /\ UNCHANGED <<deferred, flush, passes, delivered, dropped>>

HandlerReturns ==
  /\ Handling /\ stack' = ReplaceTop([Top EXCEPT !.busy = FALSE])
  /\ DeliversStep /\ UNCHANGED <<deferred, flush, passes, delivered, dropped>>

\* What a delivery leaves: nothing, or what it parked and what a failure kept from it.
MaxHostlessPasses == 3
GivesUp == Top.kind = "tick" /\ Top.parked # <<>> /\ passes + 1 = MaxHostlessPasses
DropsTail(parked, tail) == parked      \* mutant
Requeued(parked, tail) == parked \o tail
PassesAfter(p) == IF Top.parked # <<>> /\ ~GivesUp THEN p + 1 ELSE 0
EndsDelivery ==
  /\ deferred' = deferred \o Requeued(IF GivesUp THEN <<>> ELSE Top.parked, Top.batch)
  /\ dropped' = IF GivesUp THEN GivenOf(dropped, Top.parked) ELSE dropped
  /\ passes' = IF Top.kind = "tick" THEN PassesAfter(passes) ELSE passes
  /\ flush' = IF Top.kind = "tick" THEN FALSE ELSE flush \/ (Top.lua /\ ~Top.busy)
  /\ stack' = Front(stack)
  /\ DeliversStep /\ UNCHANGED delivered

\* The failing event is consumed.
HandlerFails == Failing /\ Handling /\ EndsDelivery
BatchDone == Invoking /\ Top.batch = <<>> /\ EndsDelivery

-----------------------------------------------------------------------------
Child ==
  \/ \E k \in Stream : Writes(k) \/ StreamEnds(k) \/ EndsAgain(k)
  \/ \E j \in Job : Exits(j)
  \/ HostInstalled
UserCalls == Sweep \/ \E ids \in SUBSET Job \ {{}} : JobWait(ids)
Delivers ==
  \/ WaitPolls \/ HandlerBegins \/ LuaDefers \/ HostlessWait \/ HostlessParks
  \/ HandlerReturns \/ HandlerFails \/ BatchDone

Next == Child \/ UserCalls \/ Tick \/ Flush \/ Delivers

Spec == Init /\ [][Next]_vars

-----------------------------------------------------------------------------
OnTheWay == FlattenSeq([i \in DOMAIN stack |-> stack[i].parked \o stack[i].batch]) \o deferred
BytesOf(events) == FlattenSeq([i \in DOMAIN events |-> events[i].bytes])
For(c, events) == SelectSeq(events, LAMBDA e : CallbackOf(e) = c)
Made(c) == delivered[c] \o dropped[c] \o For(c, OnTheWay)

(***************************************************************************)
(* No chunk, end or exit is lost or duplicated on its way to the handler,  *)
(* whatever fails, nests, is deferred or waits for a host: each chunk is   *)
(* held for the end of its stream, unread, on the way, delivered or given  *)
(* up, once, and every stream that ended and job that exited made one      *)
(* event of it.  ("callbacks are never silently discarded", job.rs.)       *)
(***************************************************************************)
Conserved ==
  /\ \A k \in Stream :
       LET chunks == BytesOf(Made(k) \o For(k, raw)) \o buffer[k]
           last(e) == IF k[1] \in Buffered THEN TRUE ELSE e.bytes = <<>>
       IN  /\ Len(chunks) = wrote[k] /\ Range(chunks) = 1..wrote[k]
           /\ Len(SelectSeq(Made(k), last)) = IF k \in eof THEN 1 ELSE 0
  /\ \A j \in Job : Len(Made(<<j, "exit">>)) = IF j \in exited THEN 1 ELSE 0

(***************************************************************************)
(* The events of a stream reach its handler in the order they were read,   *)
(* the end last: "upstream has one queue and its order is FIFO"            *)
(* (invoke_job_events, process.rs).                                        *)
(***************************************************************************)
InOrder(k) ==
  LET given == delivered[k]
      read == BytesOf(given)
  IN  /\ \A i, n \in DOMAIN read : i < n => read[i] < read[n]
      /\ \A i \in DOMAIN given : given[i].bytes = <<>> => i = Len(given)
Fifo == \A k \in Stream : InOrder(k)

(***************************************************************************)
(* The same, as long as no handler polled while its delivery still had     *)
(* events to hand out: failures, hostless passes and deferred Lua events   *)
(* alone leave the order intact.                                           *)
(***************************************************************************)
FifoUnlessSwept == swept \/ Fifo

(***************************************************************************)
(* A jobwait that returns because its jobs have ended has run every        *)
(* callback of theirs, but for Lua callbacks, whose events are then in the *)
(* deferred queue with the flush pending.  (wait, invoke_job_events.)      *)
(***************************************************************************)
Has(j, events) == \E i \in DOMAIN events : events[i].job = j
ReturnsComplete ==
  /\ stack # <<>> /\ Top.complete /\ ~Top.busy /\ Top.batch = <<>> /\ Len(stack') < Len(stack)
WaitCompletes ==
  [][ReturnsComplete =>
       \A j \in Top.waits :
         /\ \A i \in DOMAIN stack' : ~Has(j, stack'[i].batch \o stack'[i].parked)
         /\ Has(j, deferred') => j \in Lua /\ flush']_vars
=============================================================================
