# Oxvim: a TLA+ development

Oxvim is a Rust reimplementation of Neovim's core: an editor server with a
MessagePack-RPC interface, a Vimscript evaluator, a Lua host with its own
`vim.uv`, and a terminal client. This directory holds TLA+ models of the parts
whose correctness depends on *order*, on *interleaving* and on *histories of
calls*, the TLC configurations that check them on small instances, and proofs
that TLAPS checks for every instance.

`PROJECT.json` lists the components, the runs, the source lines each definition
stands for, the hazards, the disagreements found, and the proved theorems. Every
definition is translated from the Rust source; where code and comment disagree,
the model follows the code, and section 6 names the configuration that shows the
disagreement.

Source paths below are relative to `src/`.

1. [Inventory](#1-inventory)
2. [Modules](#2-modules)
3. [Runs](#3-runs)
4. [Fairness](#4-fairness)
5. [Proofs](#5-proofs)
6. [Disagreements between code and comments](#6-disagreements-between-code-and-comments)
7. [What is not modelled](#7-what-is-not-modelled)
8. [Plan](#8-plan)

## 1. Inventory

### How the parts fit together

One thread owns the editor. `oxvim` (the server) pumps an event loop, decodes
RPC messages, dispatches API functions (`ox-api`) into the editor state
(`ox-editor`) and sends responses, buffer events and redraw batches back. The
editor keeps text and undo history through `ox-text`; Ex commands are parsed by
`ox-excmd`, expressions evaluated by `ox-eval`, patterns matched by `ox-regex`.
The Lua host (`ox-lua`) runs scripts in the same thread and offers `vim.uv`
through `ox-uv`, a libuv-like loop built on `ox-loop`. Other threads exist
only at the edges: pool workers of `ox-uv`, job readers and socket peers of the
server, and whoever holds a `DeferredScheduler` or a `StopHandle`. They reach
the editor's thread in one way: put something into a shared place, then wake the
loop.

### Components

| component | crate, files | state it keeps | operations | what is hard | what makes it correct |
|---|---|---|---|---|---|
| owned event queues | `ox-loop` `events.rs` | queues of event ids per owner, linked towards the root; the payloads | child, put, process_events, remove_owner | one event is in several queues at once; a drain of one owner takes ids out of all its ancestors | a queue shows exactly what its subtree has pending, in the order it was put; nothing is delivered twice or after its owner is removed |
| loop pump | `ox-loop` `loop.rs`, `work.rs`, `reactor.rs`, `signal.rs` | work inbox behind a mutex, stop flag, readiness callbacks, the signal pipe | run, run_once, process_events_until, schedule_deferred, schedule_fast, stop | push and wake are two steps, as are store and wake; edges are reported once; a failure in the middle of a batch | nothing is stranded when the loop sleeps; posted work runs, in order; a stop ends the pump |
| timers | `ox-loop` `timer.rs` | timers by (deadline, sequence) | insert, cancel, expired | late passes, equal deadlines, interval 0 | order, cadence, precedence over deferred callbacks, nobody oversleeps |
| undo tree and text | `ox-text` `undo.rs`, `buffer.rs`; `ox-editor` `buffer.rs` | headers with the edits of a block, preferred children, the resident lines, saved point and `modified` | edit, sync, undojoin, undo, redo, undo_to_seq, set_eol, mark_saved, mark_modified, load | the tree stores no text: routes across branches replay edits; the saved point is a pair of numbers | replay reproduces every version; unmodified means saved; an open block is a leaf; the exported links describe the tree |
| libuv loop | `ox-uv` `uv_loop.rs`, `handle.rs`, `timer.rs`, `async_handle.rs`, `aux_handles.rs`, `signal.rs`, `poll.rs` | the handle registry, per handle its state, generation and callback slot; pending closes, pending callbacks, the stop request | run (default, once, nowait), nested runs, start, stop, close, send, submit, stop of the loop | callbacks start, stop and close handles and run the loop again while a batch is being delivered; sends come from other threads; the poll may fail in the middle of a turn | a close is delivered once; nothing stopped, restarted or closed fires from what was collected before; a send leads to a callback that begins after it; a stop ends the run it was asked of |
| thread pool | `ox-uv` `pool.rs`, `work.rs`, `thread.rs` | job channel, outstanding count, completion queue | submit, begin, end, post, drop of the pool and of the loop | submitters, workers and the loop race; the loop may be dropped first | a request is in one place at a time; the count is exact; a run returns when nothing is left to answer; no wake is lost |
| I/O handles, processes | `ox-uv` `process.rs`, `net.rs`, `ipc.rs`, `fs.rs`, `fs_watch.rs`, `dns.rs`, `misc.rs` | descriptors | read, write, spawn, watch | mostly the operating system's behaviour | as the loop and the pool |
| swap files | `ox-text` `swapfile.rs`; `ox-editor` `excmd_exec.rs` | the pinned swap name, the ledger of written swap files, blocks on disk | choose a name, reserve, write, exit, preserve_exit, recover | several editors of one file, each a process; a crash between any two system calls; a failing write | a preserved text stays whole and stays its editor's; recovery never joins blocks of two processes |
| undo files, marks, shada | `ox-text` `undo_file.rs`, `marks.rs`, `shada.rs` | serialised records | encode, decode, merge | formats | round trips, merge rules |
| buffer attachments and events | `ox-editor` `buffer.rs`, `editor.rs`; `ox-lua` `buf_attach.rs`; `ox-api` `buffer.rs` | subscriptions by id, queued events with their recipients, releases to announce | nvim_buf_attach, nvim_buf_detach, edit, load, unload, wipe, drain | callbacks attach and detach while a batch is worked off, so drains nest; a channel may refuse; an attachment ends in seven ways | an attachment gets what was committed while it stood, once, in order; its references are released once and after their last use |
| RPC channel | `ox-rpc` | next message id, outstanding requests, decoder buffer | request, response, feed, close | ids wrap, responses out of order, close with requests outstanding | every request gets one answer |
| jobs and their callbacks | `ox-editor` `job.rs`, `builtins/process.rs`; `oxvim` `server.rs` | the queue of the readers, held output and ends per stream, the deferred events, the pending Lua flush | poll, defer, jobwait, invoke, deliver at a tick or at a flush | a handler is user code: it polls, waits and fails in the middle of a batch; Lua callbacks need a host that may come late | every chunk, end and exit reaches its handler once, in order; a jobwait that completes has run the callbacks |
| server | `oxvim` `server.rs`, `runtime.rs`, `cli.rs`; `ox-uv` `net.rs` | channels, peers and their streams with their write queues, attached UIs, the exit request | a turn of the primary channel or of a peer, background tick, accept, remove a peer | three writers to one stream (turns, other turns, the tick), two loops, listeners that fail in the middle of a turn, quits from anywhere | events before the answer of their turn, turns in order, one answer per request, answers arrive |
| editor core | `ox-editor` | windows, tabs, options, registers, marks, mappings, autocommands, modes | Ex commands, normal mode, options | nesting of autocommands and directory changes | state is restored after every nested execution |
| API | `ox-api`, `ox-api-macros` | function registry, sessions | `nvim_*` | argument checking | as documented upstream |
| Vimscript | `ox-eval` | scopes | evaluate | an unbounded language | as the language |
| Ex parser | `ox-excmd` | none | parse | | |
| patterns | `ox-regex` | none | compile, match | two engines | same matches |
| Lua host | `ox-lua` | Lua state, registry references, callback queues | call, convert, schedule | callbacks re-enter the host | a scheduled callback runs once |
| UI | `ox-ui` | grids, highlight ids, emission state | resize, put, flush | | client grid equals server grid after flush |
| terminal client | `ox-tui` | screen surfaces | draw, decode keys | | |
| system calls | `ox-sys` | none | locale, environment, platform | | |
| shared types | `ox-types` | none | values, conversions | | |
| everything else | `runtime/`, `codegen/`, `tools/`, `third_party/`, `tests/` | | | not the program's own logic | |

### Hard behaviours

The list with source lines is under `hazards` in `PROJECT.json`. In groups:

* *Two steps of one thread, another in between*: push and wake, store and wake,
  a poll that returns between them; choosing a swap name and reserving it,
  testing who owns it and truncating it.
* *Batches cut short*: an error leaves the function with half of a batch in a
  local variable (work transfer, readiness dispatch, the closes of a libuv turn,
  the events of a job delivery).
* *Re-entry*: a callback runs the loop again, a job handler polls or waits for
  jobs, while the caller's batch still has members.
* *One fact in several places*: ids in the queues of all ancestors, an owner
  listed once per item of its channel, links of the undo tree and the text the
  edits are replayed on, the saved point and the text it names, a handle in
  close_next and in the turn that took it.
* *Routes*: undo histories reached by joining, branching and navigation in any
  order.
* *Lateness*: timers whose pass comes any time after their deadline; a Lua host
  installed after the events it is to handle.
* *Ids that outlive their owner*: recipients of a queued event, references in the
  batch of an outer drain, streams of a peer that hung up.
* *Crashes*: an editor that dies between any two steps of writing its swap file.

## 2. Modules

```
EventBoard  <-- refined by -- MultiQueue  <-- proofs -- MultiQueueProofs
                                ^     \                        ^
                                |      `-- EXTENDS --> Retain  | INSTANCE
                                | INSTANCE               ^     |
                             LoopPump   <-- proofs ------|-- LoopPumpProofs
                                                         |
                                             UvLoop -----'  <-- proofs -- UvLoopProofs

UvPool       <-- proofs -- UvPoolProofs
UndoHistory  <-- proofs -- UndoHistoryProofs
ServerTurn   <-- proofs -- ServerTurnProofs
TimerHeap    <-- proofs -- TimerHeapProofs
SwapFile     <-- proofs -- SwapFileProofs
JobEvents    BufferEvents
```

`MCMultiQueue` and `MCUndoHistory` give TLC what a `.cfg` cannot write down. The
modules of one crate share their boundaries: what `LoopPump` calls a poll is one
step of `UvLoop`, a request of `UvPool` is the `request` of `UvLoop`, and a timer
of `TimerHeap` is a poster of `LoopPump`. The events a turn of `ServerTurn` writes are
those a drain of `BufferEvents` hands to channels; its tick is the one of `JobEvents`.

### EventBoard

What the owned queues promise a caller, with no queue in sight. Owners have a
lineage; a posted event gets a ticket and an audience, the lineage of its owner.
Draining an owner returns, in the order of their tickets, exactly the events on
the board with that owner in their audience, and takes them off the board.
Removing an owner removes everybody who has it in their lineage, and the events
posted to them.

### MultiQueue (`crates/ox-loop/src/events.rs`)

| TLA+ | code |
|---|---|
| `nextOwner`, `nextEvent` | the two counters of the struct |
| `parent`, `entries` | `Queue.parent`, `Queue.entries` of the queue of an owner |
| `events`, `origins` | the payload by id, and the owner it was put to |
| `drained` | the vector process_events returns |
| `Child`, `Put`, `ProcessEvents`, `RemoveOwner` | the functions of these names |

`Put` pushes the new id to the queue of the owner and of every ancestor.
`ProcessEvents(o)` empties the queue of `o`, takes its ids out of the queues of
all ancestors, and of those below that hold them, and returns the payloads.
`RemoveOwner` refuses the root, removes the subtree, its payloads and their ids
in the ancestors that stay. Calls with an unknown owner return an error and
change nothing, so they are not steps.

Two definitions have a form chosen for the proofs. `PathToRoot(o)` is the least
set that holds `o` and the parent of each of its members, not a walk: no
recursion, and minimality is all the proofs need. `Without(s, S)` (`Retain`, also
used by `UvLoop` to collect handles in registry order) lists the members of `s`
outside `S` by rank; `MCMultiQueue` asserts that it is `SelectSeq` on all short
sequences.

### LoopPump (`loop.rs`, `work.rs`, `reactor.rs`, `signal.rs`)

Composes `MultiQueue` (as `MQ`) with everything around it. One action is one
step another thread may come before or after.

| TLA+ | code |
|---|---|
| `inbox`: `channels`, `order` | `Pending` behind its mutex: work per owner, and the order of owners, one entry for each item |
| `taken` | what the running transfer took with `mem::take` |
| `edge` | readiness edges the kernel has not yet reported |
| `frames`, `raised` | data in the OS buffers of sources, signals in the self-pipe |
| `ready`, `batch` | local variables of run_once_for: events of this poll still to dispatch, drained events still to run |
| `stopped`, `stopper` | the shared flag, and where the stopping thread is |
| `pc`, `mode`, `target` | where the loop thread is, in which of the three host calls, draining which owner |
| `PushDeferred`, `WakeAfterPush` | schedule_deferred before and after its unlock |
| `StoreStop`, `WakeAfterStop` | StopHandle::stop |
| `PushFast` | schedule_fast, which needs the loop's `WorkQueues`, so that only the host between pumps calls it |
| `Returns`, `Iterates`, `TargetUnknown` | the loop heads and early returns of run and process_events_until |
| `PollReturns`, `PollExpires` | Reactor::poll with at most `EventCap` edges, or an empty wakeup (timeout, timer, EINTR) |
| `TakeInbox`, `TransferFast`, `TransferDeferred`, `TransferFails`, `TransferDone` | WorkQueues::transfer, one item at a time because producers run meanwhile |
| `QueueSignal` | Signals::drain |
| `ReadFrame`, `ReadRemoves`, `ReadFails`, `TokenDone` | dispatch_readiness: a callback called until it sees `WouldBlock`, which may queue an event, remove an owner, or fail |
| `DrainTarget`, `RunCallback`, `IterationDone` | the safe point at the end of the iteration |

The kernel is external: an edge arises when data arrives, and a poll that
reports it consumes it (`EPOLLET`). What a readiness callback does is taken from
what its signature allows. Which sources and callbacks are registered is fixed.
`post`, `done`, `caught`, `returned` and `arrived` are history variables.

### TimerHeap (`timer.rs`, and the passes in `loop.rs`)

`heap` is the `BTreeMap`, keyed by the sequence with the deadline as a value;
`Before` is its order. `Pass` is fire_expired, at the three places of
run_once_for (`"first"`, `"second"`, `"third"`); `Expired` collects the due keys
first and then re-arms, so a timer runs at most once in a pass. `Tick` moves the
clock between any two steps, so a pass is late by any amount. `EnterPoll`
computes the timeout from the next deadline, the caller's timeout and the queue.
Only the host between iterations inserts and cancels: the callbacks of timers
and of sources are not given the heap. In `LoopPump` the timers appear as what
they can do to it: post work, and end a poll.

### UvPool (`ox-uv` `pool.rs`, and the default run in `uv_loop.rs`)

| TLA+ | code |
|---|---|
| `accepting`, `outstanding`, `pending` | `CompletionQueue`: the flag, the count, the completions |
| `edge`, `owes` | the waker's eventfd; threads between a change and its `waker.wake()` |
| `started`, `gone`, `jobs`, `hand` | the workers whose thread could be started, those that returned, the channel, the job a worker runs |
| `stage` | how far a request is; a history of its submit, its job and its completion |
| `CheckAccepting`, `Count`, `Recheck` | the three atomic operations of begin |
| `Send`, `Refuse` | the rest of submit, and end where it fails |
| `Take`, `TakeShutdown`, `Work`, `Push`, `Drop` | worker_main and the job: the work, post's look at the flag, its push, or end when the loop is gone |
| `Wakes` | the wake at the end of end and of post, a step of its own |
| `DropPool`, `PoolJoined` | `Inner::drop`: shutdown messages, then the joins |
| `Run`, `Turns`, `Returns`, `Complete`, `DrainedBefore`, `PollTimeout`, `PollReturns`, `DrainedAfter` | run_default_inner and run_turn of a loop whose only activity are requests; `forced` is the single turn of a run that was asked to stop before it began |
| `CloseLoop` | `Drop for UvLoop` |

Each request is submitted by a thread of its own, because `Work` may be sent to
any thread; a submit from the loop thread is the case in which the loop does
nothing meanwhile. The flag and the count are sequentially consistent in the
model. The code uses acquire and release, and its one store-then-load pattern,
begin against `Drop for UvLoop`, decides only whether a request of a loop that
is going away is refused at once or dropped later. Wakes do not fail. Events of
other handles appear as a poll that returns early (`PollDisturbed`).

### UndoHistory (`ox-text` `undo.rs` and `buffer.rs`, `ox-editor` `buffer.rs`)

| TLA+ | code |
|---|---|
| `buffer` | the resident text: lines and final end-of-line |
| `parent`, `preferred`, `edits` | the node vector: parent, preferred child, the edits of the block |
| `current`, `synced` | current node and whether the next edit opens a block |
| `savedAt`, `savedEol`, `forced`, `modified` | saved_undo_state, saved eol, forced_modified and the flag |
| `Edit` | replace_lines, append_lines, delete_lines with UndoTree::record (`JoinBlock`, `NewBlock`) |
| `Sync`, `Undojoin`, `Undo`, `Redo`, `UndoToSeq` | the functions of these names with apply_undo_step and refresh_modified |
| `SetEol`, `MarkModified`, `MarkSaved`, `Load` | the functions of these names |
| `AltNext`, `AltPrev` | the coordinates alt_links derives for undo files and undotree() |

`version` and `savedLines` are history variables: the text each header stood for
when it was recorded, and the text last saved. `Written` is what a splice does,
including that a text never has no lines: one emptied keeps a single empty line
and no final eol. `UndoToSeq` is one step, as in the code: undo up to the
deepest common ancestor and redo down to the target, with what this leaves in
the preferred children. It is stated over sets (`Left`, `Entered`) because the
headers on a path are ordered by their sequence numbers. With the current
sequence as its target the function takes no step and therefore does not close
an open block.

### UvLoop (`ox-uv` `uv_loop.rs`, with the handle kinds)

A callback is handed the loop, so it may do everything the host may, running the
loop again included. The runs under way are therefore a *stack of frames*; only
the innermost takes steps, and every frame below it is inside a callback.

| TLA+ | code |
|---|---|
| `handles`, `h` | the registry (`IndexMap`, in its order) and per handle the common state, the generation and the callback slot |
| `stack[i].mode`, `.pc`, `.forced` | the run mode, the phase of the turn, a turn that does not block |
| `stack[i].batch`, `.due` | local variables of run_turn: what the phase collected, the closes the turn took from close_next |
| `stack[i].call` | the callback on the Rust stack, with the version and the generation it was taken with |
| `queue`, `closeNext`, `stop` | pending_callbacks, close_next, stop_requested |
| `woken`, `raised`, `caught` | the waker's eventfd; the self-pipe and what the driver has read of it |
| `request`, `sender` | the request of the thread pool; a thread between the two steps of AsyncSender::send |
| `TimerStart`, `Stop`, `Again`, `PhaseStart`, `SignalStart`, `SetRef`, `Close`, `Send`, `Submit`, `StopLoop` | the functions of the handle types and of the loop, called by the host or from a callback |
| `Run` | run and run_nested |
| `BeginTurn`, `EndRun`, `TurnAhead`, `LastTurn` | the three inner run functions and the start of run_turn |
| `FireCollected` | fire_due_timers and fire_phase: the next of the collected handles whose generation is unchanged |
| `RunCompletion`, `CollectSources`, `Deliver` | dispatch_pending_sources: completions of the pool, async flags and signals into pending_callbacks, then one by one |
| `Poll`, `PollFails`, `ZeroTimeout` | the call of the inner loop, its failure, poll_timeout |
| `FireClose` | fire_closes: the handle leaves the registry by swap_remove, then its callback runs |
| `CallbackReturns` | the end of invoke_callback: restore_callback, and re-arming for timers |
| `Advance` | from one phase to the next; phases without active handles are passed over |

`take_callback` empties the slot of a handle while its callback runs, which is why
nothing is called while it is on the stack. `owed`, `newest` and `asked` are
history: async handles sent to since their callback last began, the last
callback installed, a stop asked for in that run. Clocks are a flag per timer,
`due`, which may rise whenever the code looks at the clock. `PollFails` stands
for an error of the inner loop before or after it read its sources. The bound
`Nesting` lists the phases whose callbacks run the loop again and `NestModes`
how. A nested *default* run is left out, see section 7.

### JobEvents (`ox-editor` `job.rs`, `builtins/process.rs`; `oxvim` `server.rs`)

| TLA+ | code |
|---|---|
| `raw` | the queue the reader callbacks of the reactor append to |
| `buffer`, `eof`, `exited` | per stream the held output and the end, per job its status |
| `deferred` | `JobManager.deferred` |
| `flush`, `host`, `passes` | lua_flush_pending, whether a Lua host is installed, hostless_job_event_passes |
| `stack` | deliveries under way: a tick, a flush or a jobwait, each with the batch it took, what it parked, and whether a handler of it is running |
| `Drained` | drain_raw, folded over the raw events |
| `Sweep` | system() and chansend() to a terminal, which poll and defer what they must not invoke |
| `Tick`, `Flush`, `JobWait`, `WaitPolls` | poll_background_work, deliver_pending_lua_flush, jobwait |
| `HandlerBegins`, `HandlerReturns`, `HandlerFails`, `LuaDefers`, `HostlessWait`, `HostlessParks`, `BatchDone` | invoke_job_events, per event |

Children, readers and pipes are external: a stream is read in order, an edge
after its end reads the end again, and a stream may outlive the exit of its
child. Handlers are arbitrary user code within `HandlerCalls`.

### SwapFile (`ox-text` `swapfile.rs`, `ox-editor` `excmd_exec.rs`)

Each editor is a process, and each *system call* of a preserve is one action:
`Exists` per name tried, `Create` (`O_EXCL`), `Open`, `Check` (is_own_swapfile),
`Truncate`, `WriteHead`, `WriteBody`. Between any two of them another editor acts
or the process crashes. `disk` maps names to files and a descriptor keeps the
file it was opened on, so an editor can go on writing a file whose name is gone.
Of the blocks of a file remain who wrote the head and who wrote the body. The
name, once chosen, is pinned for the buffer, as in buffer_swap_name; that it was
free then says nothing about later, and `Create` and `Check` decide again.

### BufferEvents (`ox-editor` `buffer.rs`, `editor.rs`; `ox-lua` `buf_attach.rs`)

| TLA+ | code |
|---|---|
| `subs`, `nextLua` | the subscriptions of a buffer, and its counter of Lua ids |
| `pending`, `releases`, `wipedReleases` | pending_bytes, pending_subscription_releases of a buffer, and the editor's for wiped ones |
| `stack` | drains under way: work left of the batch, retries, `detached`, channels that failed for the current event, whether a callback of it is running |
| `Edit`, `Load`, `Unload`, `Wipe` | commit_recorded_splice, load, release_resident_state, wipe_buffer |
| `AttachLua`, `DetachLua`, `AttachRpc`, `DetachRpc`, `HangUp` | nvim_buf_attach and nvim_buf_detach from Lua and over RPC, and remove_peer |
| `Round` | the head of the loop of drain_buffer_callbacks: collect a batch, put retries back, or end |
| `Deliveries`, `Farewells` | collect_pending and invoke_detach_callbacks, the order of the calls |
| `Notify`, `Bye`, `Refused`, `KeepForRetry` | what a channel is sent, and what becomes of what it refuses |
| `Invoke`, `PassOver`, `Return`, `Drop`, `InvokeOnDetach`, `Free` | a callback, one that is passed over, its return with a falsy or truthy value, the end of a Lua attachment at a reload, release of its references |

The recipients of an event are fixed when it is committed, its deliveries when its
batch is collected, and the subscriptions are looked at again when a callback is
about to be called: the gap between the three is what the properties are about.
Callbacks run under textlock, so they do not edit, but they attach and detach, and
the dispatch gate drains inside of them when that leaves work. `settled` is the
moment the server is about to answer. `owed` (what commits promised an attachment),
`missed`, `refused` and `freed` are history.

### ServerTurn (`oxvim` `server.rs`)

| TLA+ | code |
|---|---|
| `inbox`, `asked` | requests in a socket or on stdin, not read yet; how many were sent |
| `peers`, `uis` | the transport registry, and ui_channels |
| `queue`, `armed` | the `WriteQueue` of a stream, and whether its loop watches it for writing |
| `PeerTurn`, `StdioTurn` | NetworkRuntime::read and the loop of bind_stdio, with process_message and drain_turn_boundary |
| `Written` | what a turn writes to a channel, in order |
| `Dropped`, `WriteFails`, `Unheard` | remove_peer at end of file, at bytes that do not decode and at a failed write; a batch read after a quit |
| `Flush` | drive_writes, one frame at a time |
| `Tick`, `TickQuits`, `TickExits` | poll_background, and the exit it makes of a quit |
| `Accept`, `Ask`, `Close` | the listener, and the clients |

`Interest` is what makes a queue move: a write registers its stream with the loop
that holds it, and the loop registers after a read what is still queued. The tick
writes through another loop and registers nothing, which `Tick` keeps by leaving
`armed` alone. What a dispatch writes is open: any set of clients may have events,
every UI or none is redrawn, a listener may fail. `turns`, `answered`, `got` and
`lost` are history.

## 3. Runs

Every run ends by exhausting its state space, or by its counterexample.
Deadlock is checked in all of them but these: in `pool` everything may come to rest
(the loop and the pool dropped, every request answered or refused), in `swap` every
process the bound allows may have ended, in `server` and `server_background` the
server ends or every client has asked what the bound allows.

| run | question | bounds |
|---|---|---|
| `queues` | Do mirrored queues stay consistent and ordered, and implement `EventBoard`, under any mixture of puts, selective drains and removals? | 4 owners, 3 events of 2 kinds. Four owners fit a chain of three below the root, and a child with a child beside a sibling: every relation two owners can be in. Three events distinguish order within a queue, across siblings and around a removal. |
| `pump_safe` | With a posting thread, a source whose callback may fail, a signal, a stopper and a host that runs, runs once, waits selectively and removes owners: does work of an owner run in order, does work of a removed owner ever run, is every signal run_once drains handed over? | 1 thread, 2 owners, 2 posts, 1 frame, 1 signal; a poll may report two edges together, so the callback can fail or remove the owner of work just transferred while another edge waits. |
| `pump_live` | Is nothing stranded when the loop blocks, does a stop end the pump, does posted work run? | 2 threads, 2 owners, 3 posts, 1 frame; a poll reports one edge at a time, so the limit of its buffer is always met; fairness of section 4. Owners are not removed and callbacks do not fail: section 6 shows what either does to work on its way. |
| `pool` | Is every request in one place, is the count exact, does a run return when and only when nothing is left, is every wake delivered, does dropping the pool end? | 3 requests, 2 workers of which 0, 1 or 2 could be started. A third request waits in the channel while both workers are busy, or is begun while the loop is about to return. |
| `timers` | Order, precedence over deferred callbacks, and liveness of timers under any lateness | 3 timers of kinds once, interval 0 and interval 1; clock 0 to 2. Three timers can be due together with equal and unequal deadlines, and an interval shorter than the possible lateness makes passes miss occurrences. |
| `undo` | Does every route through a branching history give back the text of the header it ends in; are open blocks leaves; do the exported links describe the tree; does unmodified mean saved? | 3 edits, at most 2 lines of 2 contents; saves, forced `modified` and changes of eol among the first 2 edits. Three edits make all trees of up to three headers (three siblings, a chain, a branch below the first) and blocks of up to three edits, whose order matters; two edits around a save are enough for a saved point inside a block, before it and on another branch. |
| `uv_loop` | Is a close delivered once, does only what is current fire, is no send and no stop forgotten, are all closes delivered? | two repeating timers, a check handle, an async handle and a watcher; runs nested two deep, of modes once and nowait, in every phase but the timers' own (section 6); 2 calls of the interface, 1 send by another thread, 1 failing poll at any time. Two calls make every pair of an operation on a handle and one more on it or on another from the same batch; two timers are the least of which one can stop the other in a batch. |
| `jobs` | Is no chunk, end or exit lost or duplicated, does the order hold, has a jobwait that completes run the callbacks? | 2 jobs on pseudoterminals, one with Vimscript and one with Lua callbacks and held output; 1 chunk a stream; 2 calls of polls and jobwait, by the host or by handlers, which also fail. |
| `swap` | Does a preserved text stay whole and its editor's; does any file join the blocks of two processes? | 2 editors at a time, 4 processes, 2 swap names. With four processes both editors can crash and be followed by another that meets their files under both names. |
| `buf_events` | Does an attachment get what was committed while it stood, once and in order; are references released once and after their last use; is anything but refused events left when the server answers? | 2 buffers, 1 channel that may refuse any event any number of times, 1 Lua attachment a buffer of one of two shapes (with and without on_reload and on_detach), changedtick up to 2, so two events or an event and the end of an attachment in one batch; a channel attaches again while one of its events waits. Two buffers are the least in which ids meet in one drain. |
| `server` | Are frames in the order of turns with events before answers; is every request answered once; does the answer arrive? | the primary client with 1 request and a peer with 2 of every kind, both of which may hang up; 2 background ticks' worth of output before, between and after. One peer and the tick make two writers to one queue; with a second peer the state space is out of reach of a five-minute run. |
| `server_background` | the disagreement of section 6 that has a run | a peer that asks once at most, one tick |

What the properties say, in terms of the code:

* `Mirrored`: the ids in the queue of an owner are exactly the pending ids put
  to it or below it. `InPutOrder`: they ascend. `ImplementsBoard`: so draining is
  as simple as the board says.
* `NothingStranded`: when the loop is in its poll, whatever waits (inbox, source,
  signal pipe) has an edge still to be reported, or the thread that put it there
  is about to wake the loop. This is the invariant that makes two-step posting
  and edge-triggered readiness safe.
* `RunsInPostOrder`: deferred work of one owner runs in posting order.
* `SignalsKept`: a signal leaves the pipe, the queues and the batch of run_once
  only into the hands of its caller. `RemovedNeverRuns`: no callback of a removed
  owner runs.
* `StopReturns`, `WorkRuns`: liveness. The order list of the inbox, which names an
  owner once per item, is what the second rests on: with a list that names an
  owner once per transfer, it fails.
* `InOnePlace`: a request is once in the channel, with one worker, or once in the
  completion queue, as its stage says. `CountExact`: the outstanding count is the
  number of requests begun and not ended. `RunWaits`: a default run that nobody
  stopped returns with every accepted request answered. `NeverAsleep`: a blocked
  loop with something to do has a wake pending or about to come. `RunReturns`,
  `DropEnds`: a run returns, dropping the pool ends.
* `InDeadlineOrder`, `TimersBeforeDeferred`, `LateTimersCatchUp`:
  a pass runs what was due in order of (deadline, insertion); a one-shot timer that
  becomes due during readiness callbacks precedes the deferred ones; no due timer
  waits for ever.
* `TextIsVersion`: the text after any history equals the text of the current
  header. `SavedMeansClean`: a buffer that is not modified holds the saved lines
  and eol. `OpenIsLeaf`: no edit grows a header other headers were recorded on.
  `LinksReachAll`: from the oldest active header, prev and alt_next reach every
  header, and alt_prev inverts alt_next.
* `CloseOnce`: a close that was asked for waits in one place, close_next or the
  turn that took it, until that turn retires the handle. `CloseDelivered`: all
  closes are delivered. A failing poll drops those its turn took; both properties
  name that exception, which is a hazard of the list.
* `OnlyCurrentFires`: a callback begins only for a handle nobody asked to close,
  still active, with the callback installed last, and for a timer not before the
  deadline of its last start. The generations are what this rests on.
* `SendsKept`: until a callback begins that comes after a send, the flag is up or
  the callback is queued; only a run inside that very callback may swallow it.
  `StopEndsRun`: a run one of its callbacks asked to stop begins no other turn,
  unless a run nested after the request consumed it.
* `Conserved`: every chunk that was read is held, on its way, delivered or given
  up, once; every end and exit makes one event. `FifoUnlessSwept`: a stream's
  events reach the handler in order, the end last, as long as no handler polls
  while its delivery has events left. `WaitCompletes`: a jobwait that returns
  because its jobs have ended has run their callbacks, or left Lua events with
  the flush pending.
* `OwedWaits`: what commits owe a standing attachment is in a queue, in a batch or
  among the retries, each event for each callback once; a channel that refused may be
  sent one twice. The queues name no one else, and an attached callback is passed over
  only for a namesake (section 6). `InCommitOrder`: it is handed over in that order.
  `RefsOnce`, `LiveRefsOnly`: however an attachment ends and however drains nest, its
  Lua references are released once, and never called through afterwards.
  `AnsweredAfterEvents`: when the server answers, only refused events wait.
* `InTurnOrder`: a peer sees turns in their order and in each the events before the
  answer. `AnsweredOnce`: requests read are answered once and in the order asked, even
  if a listener fails. `AnswersArrive`: an answer reaches its peer, or the peer or the
  server goes away. `BackgroundArrives` (in `server_background`): so would anything
  else that is queued for it.
* `KeptWhole`: the file a running editor has preserved its text in stays whole,
  head and body its own, until it writes it again. `SwapFile!TypeOK` also says
  that no file joins the blocks of two processes.

For each property the module holds a *mutant*: a definition written as a
plausible mistake (an owner listed once, no wake, one callback call per edge, a
timers run in the order of their insertion, edits undone in the wrong order, a saved
point without the block's length, closes left in close_next by the turn that took
them, a swap file reused without asking whether its creator runs). Put in place of the correct one it makes the
run fail; the pairs are listed under `mutants`.

## 4. Fairness

`LoopPump!Fairness`:

* weak fairness of the loop thread's own steps: nothing in the code blocks it
  except the poll, and `LoopStep` contains `PollReturns` only, which is enabled
  when an edge is pending or the target queue is not empty;
* weak fairness of the wake that follows a push, and of the wake that follows
  the stop flag: they are the next statement of a running thread;
* weak fairness of the host pumping the root again after a pump returns: the
  embedding program is a loop. This is an assumption about the host.

Nothing is assumed about arrivals, posts, stops, removals, or a poll that ends
by a timeout: no progress of posted work may depend on a timer.

`TimerHeap!FairSpec`: time passes, the loop thread runs unless it sleeps in a
poll that has not timed out, and the host pumps again. Nothing is assumed about
readiness: a timer cannot count on a poll that something else ends.

`UvPool!Fairness`: a thread inside submit, each worker and the loop thread keep
running unless they block in a receive or a poll; join returns when the workers
have; the host runs its loop again. Nothing is assumed about submits, stops,
drops, or polls that something else ends.

`UvLoop!Fairness`: the loop thread goes on unless it is blocked in poll, which is
enabled when its timeout is zero or something woke it; its callbacks return; a
thread that stored an async flag reaches the wake, its next statement; the host
runs the loop again after a run ends. The clock, signals and the calls of the
interface are left free, so nothing may depend on a timer that happens to expire.

`ServerTurn!Fairness`: the loop of the streams serves what is ready (requests, ends,
writes of a registered stream), because a repeating timer of the main loop pumps it,
and a tick that finds a quit ends the server. Nothing is assumed of clients, of the
primary channel, or of output by the tick. `BufferEvents`, `JobEvents`, `SwapFile`,
`MultiQueue` and `UndoHistory` state no fairness: their properties are about what may
never happen.

## 5. Proofs

### MultiQueueProofs

For every set of payloads and all bounds, of any size:

* `TypeCorrect`: `Spec => []TypeOK`
* `AlwaysMirrored`: `Spec => []Mirrored`
* `AlwaysInPutOrder`: `Spec => []InPutOrder`
* `QueuesImplementBoard`: `Spec => ImplementsBoard`, the refinement of `EventBoard`

The inductive invariant is `IndInv == TypeOK /\ Mirrored /\ InPutOrder`. None of
the conjuncts is inductive alone. `Mirrored` needs from `TypeOK` that parents are
live and have smaller numbers, so that paths end at the root and adding a child
changes no other path; `InPutOrder` needs `Mirrored` to know that a new id is
larger than whatever a queue holds, and that a drained id occurs nowhere else.

The argument rests on lemmas about `PathToRoot` (it contains its start, is
closed under parents, is contained in every closed set, is unchanged by a new
child, and is the same after removing a subtree it avoids) and about `Without`
(its range, and that it keeps ascending sequences ascending). Because the path
is defined as a least closed set, each is proved by exhibiting a closed set, with
no induction.

For the refinement a further fact is that an ascending queue is the one ascending
sequence of its members; by `Mirrored` these are the ids the board says are
drained. The initial states agree and each action of `MultiQueue` is the board's
action of the same name.

### LoopPumpProofs

For any number of posting threads, sources, signals and owners, and all bounds:

* `DeferredInOrder`: `Spec => []RunsInPostOrder`
* `RemovedNeverRun`: `Spec => RemovedNeverRuns`
* `SignalsAreKept`: `Spec => SignalsKept`
* `NothingIsStranded`: `Spec /\ [][~LosesEdges]_vars => []NothingStranded`
* `PollStrandsNothing`: `Spec => []NothingStranded`, for `EventCap = 1`, and for
  hosts whose callbacks do not fail and whose owners stay
* `NoWorkLost`: `Spec => []WorkConserved`, for hosts that remove no owner

The invariant is `PumpInv == Flow /\ Staged`, and `Flow` holds the invariant of the
owned queues. The queues are not proved again: `MQP == INSTANCE MultiQueueProofs`
brings their theorems, and `PutDoes`, `DrainDoes`, `RemoveDoes`, `ChildDoes` say what
each operation does to the events and their owners. `StepKinds` classifies the steps
of the pump by what they do to work on its way (`Takes`, `RunsFast`, `Forwards`,
`Drops`, `Calls`, `Pushes`, `Notes`, `Adds`, `Removal`, `Drains`, or nothing), and
every conjunct is kept kind by kind.

`RunsInPostOrder` speaks of executed work alone and is far from inductive. Work goes
through five stages: inbox, transfer, owned queues, drained batch, executed.
`InLine` says that of each owner the work of a later stage was posted before that of
an earlier one (`Chain`), and that every stage is in order by itself. A selective drain
takes all or none of an owner's events, which is why it cannot break the chain between
queues and batch. That transfer gives an owner its own work, in order, needs that
the order of owners lists each as often as it has items (`Matched`), and that a
transfer never starts over what an earlier one left (`Staged`). `RemovedNeverRuns`
needs that no owner of the batch is removed while the batch is run (`Faithful`).

For `NothingStranded` the invariant `Told` counts an edge that was polled and not yet
dispatched as still to come (`Due`). It breaks on one kind of step, an error that
leaves an iteration with other edges of the poll undispatched (`LosesEdges`); so the
theorem excludes these steps by hypothesis, and `PollStrandsNothing` gives two
settings in which none exists. With `EventCap = 128`, failing callbacks or removed
owners the property is false, as section 6 says. In `NoWorkLost` the hypothesis is
needed for the same reason: a removed owner's item makes `put` fail (`LoopPumpLoss.cfg`).

### UvPoolProofs

For every number of requests and workers:

* `TypeCorrect`: `Spec => []TypeOK`
* `AlwaysInOnePlace`: `Spec => []InOnePlace`
* `CountAlwaysExact`: `Spec => []CountExact`
* `RunsWait`: `Spec => RunWaits`
* `NoWakeLost`: `Spec => []NeverAsleep`

`PoolInv == TypeOK /\ InOnePlace /\ CountExact`. The count alone is not
inductive: that a worker or the loop ends a request which is still counted
follows from where it found the request, and that is `InOnePlace`; with it the
saturating subtraction of `end` is a subtraction. `RunsWait` then reads the
guard of the one step on which a run returns. `NeverAsleep` speaks of a loop
that is already in its poll; the invariant `Awake` begins at the loop's last
look at the queue, from which on a completion pushed behind its back has left a
wake owed.

### UvLoopProofs

For every set of handles, every way of nesting runs and all bounds:

* `StopsEndRun`: `Spec => StopEndsRun`
* `ClosesOnce`: `Spec => CloseOnce`
* `SendsStay`: `Spec => SendsKept`
* `CurrentFires`: `"timers" \notin Nesting => (Spec => OnlyCurrentFires)`

All rest on a classification of steps by what they do to the stack: nothing,
replace the innermost frame, push one, pop one. `StopInv` says that a stop asked
of the innermost run still stands; the only steps that lower the request also pop
a frame, and the frame below is then marked as not asked.

`CloseInv` is the strengthening for closes. That a close waits in one place
(`Once`) is kept by close only because a waiting handle is already marked closing
(`Marked`) and close refuses it; by the beginning of a turn only because the run
that begins it has delivered what it took before (`DueInv`: a frame between turns
has no closes); and the retired handle leaves the registry only because the
registry holds it once (`RegistryInv`, with `SwapRemoves` about swap_remove).
`Kept3` states for one handle what each kind of step does to its places, and one
lemma per kind (`LeftDue`, `PushedDue`, `PoppedDue`, `AskedDue`, `BegunDue`,
`FiredDue`) proves it.

`SendInv` adds what keeps a send: an open async handle is active and has its
callback in its slot or on the stack (`SlotInv`), a callback on the stack of a
handle still registered is one to put back (`CallsInv`), and only open handles are
owed a callback (`OwedInv`). A flag is taken down only by the swap, which queues
the handle because it is active; an entry of the queue is passed over only when the
slot is empty, and then the callback is on the stack. That fire_closes cannot take
a handle that is owed one uses `CloseInv`: what it retires is marked closing.

`FireInv` is the strengthening for what fires. The current callback of a handle is the
newest version of it. `VersionOf` says where that is: in the slot of the handle,
or, while the slot is empty, on the stack in the innermost run inside this callback,
which will put it back (`Innermost`); an older version on the stack is never put
back, because a callback set meanwhile has filled the slot. For timers the batch of the
innermost run matters: what is left of it was due in the generation noted with it
(`DueEntry`), no timer is in it twice, nor the one whose callback is under way, which
may be re-armed in the same generation (`Timely`). A timer restarted in between has a newer generation, and
generations never come back (`Dated`, `NoneAges`). All of this is about the innermost
run because only that one is in its timers' phase (`FramesInv`), which is what the
hypothesis gives: with a timer callback that runs the loop, the theorem is false
(`UvLoopEarly.cfg`, section 6). That a handle that fires was not asked to close is
`CloseInv` again: what is asked is marked, and firing takes open handles only
(`OpenNotAsked`).

### UndoHistoryProofs

* `OpenBlockIsLeaf`: `Spec => []OpenIsLeaf`, for all texts and trees of any size.

`OpenIsLeaf` is not inductive: `undojoin` tests only that no child would be
*redone* (`Active(current) = 0`), which says there are no children only if every
node with children has an active one. The invariant proved is
`TreeInv == Numbered /\ PreferredCovers /\ OpenIsLeaf`: headers are numbered by
sequence, parents come first, and a node with children has a child it prefers.
The step that needs most care is `UndoToSeq`, which changes the preferred child
of every node on the route.

* `LinksMakeOneList`: `Spec => []LinksReachAll`, for trees of any size, from the same
  invariant. The links visit the children of a node one after the other: the active
  one first, the others from the newest to the oldest (`Precedes`). `AltNextIs` and
  `AltPrevIs` say that the two links of the code are the neighbours in that order, so
  they invert each other. That every child is visited (`ChildrenReached`) takes the
  greatest sibling not reached yet, which exists because the numbers are well-founded
  (`GreatestHeader`); that every header is visited (`LinksReach`) takes the least one,
  whose parent is then a header that was reached.

* `ReplayGivesVersion`: `~Drains => (Spec => []TextIsVersion)`, and `UnmodifiedIsSaved`:
  `~Drains => (Spec => []SavedMeansClean)`, for all texts and trees of any size.

  The hypothesis leaves out the deletion of every line, with which both are false
  (`UndoHistoryDrain.cfg`, section 6). Undo and redo replay the edits of a block one by
  one, and edits are recorded one by one. The invariant keeps for every header
  (`BlockOf`) that there is a chain of texts, from the version
  of the parent to that of the header, of which each edit leads from one to the next
  (`Follows`). A single edit is undone by its inverse (`SpliceBack`), so
  undoing or redoing a block goes through the same chain (`UndoneBlock`, `RedoneBlock`). Moving to
  a header far away climbs to the common ancestor and descends; the texts on the
  way are the versions of the headers on the route (`ClimbedText`, `DescendedText`).
  In the module replay and route are recursive functions, `UndoBlock` and
  `Climbed` among them, rather than folds, so that a value
  and the one before it are both at hand. Two sequences that begin alike
  and take the same steps are equal, since there is no least place where they differ
  (`SameSteps`); this is what stands in for induction over the edits. `SavedMeansClean`
  needs besides that a block never gets shorter, so that the length it had at a save
  marks the text that was saved (`SavedInv`).

### ServerTurnProofs

* `TurnsInOrder`: `Spec => []InTurnOrder`, for any number of peers, any mixture of
  requests and all bounds; the run has one peer.

A stream is the frame a peer received last followed by its queue. The invariant is
`TurnInv == Shapes /\ Past /\ InTurnOrder`: `Past` says that no frame in a stream is of
a turn to come, which is why the frames of a new turn, in order among themselves
(`WrittenInOrder`, which is where events go before the answer), may follow whatever
is queued (`Appended`). `Shapes` includes that a stream registered for writing has
a frame to write, so that `Flush` moves the head of a queue and a stream loses only
what it forwarded (`Forwarded`). Removing a peer empties its queue (`Emptied`); the
turns of the primary channel write nothing to peers and only make the next number
larger (`Later`).

* `RequestsAnsweredOnce`: `Spec => []AnsweredOnce`, in the same generality.

A client has an account: the frames queued for it, the number of answers it received,
its requests not read yet, the number of requests it sent. `Balanced` says that the
three make up the fourth, and that the numbers of the answers queued and of the
requests unread continue each other. One lemma for each thing that can happen to an
account shows that it still balances (`RequestSent`, `RequestRead`, `AnswerQueued`,
`AnswerHandedOver`, and `OutputQueued` and `FrameReceived` for frames that are no
answers). `AnswerInv` adds what connecting a peer relies on: a peer not connected has an
empty queue and nothing unread, and was not answered before it asked. Nothing is
claimed once the server is to exit, since it leaves what is unread unread.

### TimerHeapProofs

For any intervals and any number of timers:

* `TypeCorrect`: `Spec => []TypeOK`
* `TimersComeFirst`: `Spec => []TimersBeforeDeferred`
* `RunInDeadlineOrder`: `Spec => InDeadlineOrder`

`HeapInv == TypeOK /\ TimersBeforeDeferred`. `calledAt`, the time at which the readiness
callbacks returned, is at most the present, so what was due then is due in the third
pass, which removes it or moves it on by its interval; the steps from there to
the deferred callbacks do not touch the heap. For the order, the place of a timer in
its pass is the number of due timers that come before it (`Rank`). Keys are totally
ordered and the due ones finitely many, so ranks are different (`RanksAscend`) and
less than the number of due timers (`RankBelow`), hence all of these numbers are taken
(`Listed`), by a fact of the library about injections between finite sets of one size.

### SwapFileProofs

For any number of names and of processes one after the other, and *two editors*
(`AtMostTwo`, a hypothesis of both theorems: with three they are false, as section 6 says):

* `TypeCorrect`: `AtMostTwo => (Spec => []TypeOK)`
* `PreservedStaysWhole`: `AtMostTwo => (Spec => []KeptWhole)`

What could go wrong is that both editors find the writer of a file dead and truncate it.
The invariant `SwapInv` excludes it by `Shared`: if two editors can get at a file, through
a descriptor or a name, its head is empty or of one of the two. It is inductive since a
name is pinned only while nothing is under it, and reaches what is created there later:
the other editor shares a file from its creation or not at all. Hence an ownership
test that succeeds beside another writer would contradict `InHand`, what each writer's
file holds before each of its system calls (`RightfulOwner`), and a file has one writer
(`Alone`). The steps fall into kinds with a lemma each: those that write no file
(`Quiet`, of it `Leaves`, `GoesOn`, `Ends`), those of a writer (`Overwritten`), a file
created, a process started. `KeptWhole` also covers a file that lost its name: whoever
would write it must have judged it stale, and its head is of a process that runs.

### Assumptions

Each module names its assumptions about constants, and TLC evaluates them in
every run of that module: `EnoughIds` (the counter of event ids does not run
out; in the code it is 64 bits wide), `TokensAssumption` (a poll has room for an edge, and
no source has a reserved token, which register refuses), `TextAssumption`, `TimesAreNat`,
`PoolAssumption` (finitely many threads, told apart from requests),
`UvAssumption` (finitely many handles, an async handle and a timer are of no other kind),
`JobsAssumption`, `NamesAssumption` and `StartsAssumption` (of `SwapFile`), `BufferEventsAssumption`, `ServerTurnAssumption`, `WithoutIsSelectSeq`.

### Only model-checked

* all liveness (temporal reasoning with `ENABLED` is outside the prover);
* the properties of `JobEvents` and `BufferEvents`: they speak of flattened, filtered and
  folded sequences, and need induction over them;
* the expected counterexamples of section 6, and with them the cases that the hypotheses
  `~Drains`, `"timers" \notin Nesting` and `AtMostTwo` leave out.

## 6. Disagreements between code and comments

`server_background` is a run whose expected result is a counterexample, listed under
`findings`. The others are shown by the configuration and the property named with each:
`tlc -config X.cfg M` ends in a counterexample.

* `ServerTurnBackground.cfg`, `BackgroundArrives`: the tick writes to peers through a
  loop that does not hold their streams (`server.rs:4015`, beside `server.rs:3539`). The
  frame is queued, no write is registered, and the output of a job or of a scheduled
  callback stays there until the peer says something or a request writes to it.
* `LoopPumpLoss.cfg`, `WorkConserved`: `transfer` takes the whole inbox and forwards
  item by item. One item of a removed owner makes `put` fail, `?` leaves the function
  (`work.rs:122`), and the rest of what was taken is dropped, work of live owners included.
* `UndoHistoryDrain.cfg`, `TextIsVersion` (module `MCUndoHistory`): deleting every line
  keeps one empty line that the recorded edit does not mention (`buffer.rs:1364`). Undo
  puts the old lines back beside it, so the buffer ends one line longer than it was. The
  run `undo` therefore sets `Drains = FALSE`.
* `JobEventsOrder.cfg`, `Fifo`: a handler that polls (system(), or chansend to a
  terminal) while its jobwait has a Lua job's data left puts the newer end of that stream
  in the deferred queue; the older data is deferred behind it (`process.rs:720`). The
  comment above claims FIFO.
* `BufferEventsReload.cfg`, `NothingAfterEnd`: a batch holds a reload and an edit after
  it. The channel is told that its attachment ended, then sent the edit: the channels of
  an event are not looked up again (`buf_attach.rs:690`), as Lua attachments are.
* `BufferEventsNamesake.cfg`, `LuaServed`: a drain remembers ended attachments by number
  alone (`buf_attach.rs:627`), and every buffer numbers its own from the same start. A
  truthy return in one buffer makes the namesake in another miss its events of that drain.
* `BufferEventsUnload.cfg`, `EndAnnounced`: unload, wipe and nvim_buf_detach end the
  attachment of a channel without nvim_buf_detach_event, which `runtime/doc/api.txt:330`
  promises whenever the contents are unloaded.
* `BufferEventsOrder.cfg`, `CommitOrderKept`: an event a channel refused is sent again
  by the next drain, after later events of the batch that it accepted
  (`buf_attach.rs:906`; "in commit order", line 600).
* `ServerTurnDropped.cfg`, `NothingDropped`: a turn of the primary channel takes the
  frames of all channels and writes those of its own (`server.rs:3350`); events and
  redraws for peers are lost. Turns of peers and the tick write to everyone.
* `ServerTurnGone.cfg`, `UisConnected`: remove_peer (`server.rs:4200`) leaves the UI of a
  peer registered; it goes on bounding the screen, and nvim_list_uis lists it.

The following show when the named constants of a configuration are changed, or from
reading the code:

* A readiness callback that returns an error leaves the iteration with the other
  edges of the same poll undispatched (`loop.rs:369`). Edges are reported once: a
  host that pumps on after the error never hears of that data until something new
  arrives (`pump_live` with `Failing = Source` and `EventCap = 2`).
* Requests and bytes that do not decode in one batch of a peer: the stream is removed
  with the answers to the requests still queued (`server.rs:4189`), where the primary
  channel flushes them first.
* process_events_until and run dispatch every drained event, and dispatching a
  signal has no effect (`loop.rs:318`): `SignalsKept` speaks of run_once only.
* A timer callback that runs the loop again (`UvLoopEarly.cfg`): the outer batch
  holds a repeating timer, the nested turn fires it and re-arms it without a new
  generation (`uv_loop.rs:430`), and the outer batch fires it once more, before its
  deadline. `uv_loop` and the theorem `CurrentFires` therefore leave the timers' phase
  out of `Nesting`.
* A jobwait inside a handler (`JobEventsNested.cfg`) finds its jobs ended although
  events of theirs are still in the batch of the delivery around it, and returns
  before those callbacks ran; `vimfn.txt` promises "Waits for jobs and their
  |on_exit| handlers to complete."
* Two editors that chose the same swap name: one has the other's file open when
  that one exits and removes it; it then finds the creator gone and writes a file no
  name leads to (`SwapFileUnlinked.cfg`, `KeptReachable`), so a preserve that
  reported success cannot be found again. With three (`SwapFileRace.cfg`), two judge
  the file of a dead one stale at the same time, and the second truncates what the
  first has preserved.
* A crash between set_len(0) and the write loses the copy preserved before, and the
  short file is taken as foreign by everybody from then on.

## 7. What is not modelled

*In the modelled parts.* Registration of sources and callbacks while pumping;
running out of tokens and ids; deadlines beyond the range of `Instant`; the
contents of signals; a pool's wake that fails; cursors, marks, extmarks and folds
moved by edits; timestamps; redo_branch with a branch other than the preferred
one, which only undo_to_seq calls; prompt buffers, which write behind the undo
tree on purpose. Of the libuv loop: poll handles, several signal numbers,
set_repeat, external handles, and a *default* run nested in a close, one-shot or
completion callback. That run waits for the closing handle, the one-shot timer or
the request whose callback it is inside of, and does not end unless it is stopped;
it is a hazard of the list, and `NestModes` leaves it out because nothing else can
happen after it. Of jobs: starting and stopping them, closing their input, errors
of the reactor. Of swap files: two sessions in one process, the directory list,
reading a file back, and a system crash, which may lose what was written. Of buffer
events: their arguments and geometry, errors of a callback, and events by
set_eol, which nothing outside the tests calls on an attached buffer. Of the server:
notifications, the other startup shapes, starting and stopping listeners, what
dispatch does to the editor.

*Whole parts.* Parsers, evaluators and matchers (`ox-excmd`, `ox-eval`,
`ox-regex`) are sequential functions over unbounded inputs: differential tests
fit them better. Formats (`undo_file.rs`, `shada.rs`, the RPC codec) are data.
System calls have their behaviour in the operating system. Grids and screens
are arithmetic. The editor core is too large to model as one system; its parts
with nesting (autocommands, directories, window layout) are candidates once the
parts below are done. In lines these parts are nearly all of the repository, so
the share of it that the models cover is small: they cover the parts in which
order, interleaving and histories of calls decide.

## 8. Plan

In order:

1. `RpcChannel`: message ids that wrap, responses out of order, close with requests
   outstanding; then `ServerTurn` with two peers over an abstract stream.
2. `UvPool`, extended by the watchers of `fs_watch.rs`, which count themselves
   with the same begin and end, join their thread before they end, and post from
   a drop on any thread; and an abstract specification (a request is accepted,
   then answered or dropped with its loop) for `UvPool` to implement.
3. `WindowLayout`: the window tree under split, close and move.
4. Composition: `UvLoop` over `LoopPump`, where the poll of the one is the pump of
   the other; `BufferEvents` as the drain inside `ServerTurn`.

Theorems next in line: `RefsOnce` and `AnsweredAfterEvents` of `BufferEvents`, and
`Conserved` of `JobEvents`, which speaks of flattened and filtered sequences and first
needs a form that does without induction over them. The number of runs is kept small:
when a new part needs one, runs that ask related questions are merged.
