----------------------------- MODULE BufferEvents -----------------------------
(***************************************************************************)
(* crates/ox-editor buffer.rs and editor.rs, crates/ox-lua buf_attach.rs:  *)
(* the subscriptions of nvim_buf_attach and the delivery of buffer events. *)
(*                                                                         *)
(* A commit queues an event for whoever is attached at that moment.  A     *)
(* drain takes the queues of all buffers as one batch, works it off with   *)
(* no editor borrow held, and starts over until it finds nothing.  Lua     *)
(* callbacks are user code: they may not edit (textlock) but may attach    *)
(* and detach, and a call that leaves more work than it found drains       *)
(* again, so drains nest.  An RPC channel is sent its events; what could   *)
(* not be sent goes back to the front of its buffer's queue.               *)
(*                                                                         *)
(* Buffers are numbers in handle order.  An RPC attachment is known by its *)
(* channel, a Lua attachment by a number each buffer counts for itself,    *)
(* and its shape is the set of callbacks it came with.  Text and positions *)
(* are abstracted to the changedtick.                                      *)
(***************************************************************************)
EXTENDS Naturals, Sequences, FiniteSets, SequencesExt

CONSTANTS
  NBuffers,  \* buffers
  Chans,     \* RPC channels
  Shapes,    \* sets of callbacks a Lua attachment may come with
  Faulty,    \* whether a channel's transport may refuse bytes
  MaxLua,    \* bound: Lua attachments of a buffer
  MaxTick,   \* bound: changedtick of a buffer
  MaxHeld    \* bound: queued events of a buffer a channel attaches to

CallbackKeys == {"lines", "bytes", "reload", "detach"}
ASSUME BufferEventsAssumption == Shapes \subseteq SUBSET CallbackKeys

Buf == 1 .. NBuffers
LuaId == 1 .. MaxLua
Id == Chans \union LuaId

VARIABLES
  loaded, wiped, \* buffers whose text is resident; those gone for good
  tick,          \* changedtick
  subs,          \* subscriptions: buffer -> (id -> shape)
  nextLua,       \* next_lua_subscription
  pending,       \* pending_bytes
  releases,      \* pending_subscription_releases, by buffer
  wipedReleases, \* the editor's, of wiped buffers
  open,          \* channels not closed yet
  stack,         \* drains under way, the innermost last
  settled,       \* a drain has ended since the last call from outside
  owed,          \* history: events committed for an attachment and not handed over
  missed,        \* history: Lua attachments passed over while attached
  refused,       \* history: channels that refused an event
  freed          \* history: times the references of a Lua attachment were released

bufferVars == <<loaded, wiped, tick, subs, nextLua, pending, releases, wipedReleases, open>>
history == <<owed, missed, refused, freed>>
vars == <<bufferVars, stack, settled, history>>

Event(kind, t, to) == [kind |-> kind, tick |-> t, to |-> to]
Step(op, b, id, e) == [op |-> op, buf |-> b, id |-> id, event |-> e]
Release(b, id, shape) == [buf |-> b, id |-> id, shape |-> shape]
NoEvent == Event("none", 0, {})

NewDrain == [work |-> <<>>, retries |-> [b \in Buf |-> <<>>], detached |-> {},
             failed |-> {}, calling |-> FALSE]
Top == Last(stack)
Outside == stack = <<>>
InCallback == stack # <<>> /\ Top.calling
Draining == stack # <<>> /\ ~Top.calling

Attached(b) == DOMAIN subs[b]
InIdOrder(ids) == SetToSeq(ids \intersect Chans) \o SetToSortSeq(ids \ Chans, <)
Without(f, ids) == [i \in DOMAIN f \ ids |-> f[i]]
ReleasesOf(b, ids) == [n \in 1 .. Cardinality(ids) |->
                         Release(b, InIdOrder(ids)[n], subs[b][InIdOrder(ids)[n]])]

----------------------------------------------------------------------------
(* What a drain makes of an event: callbacks by their kind, ids ascending. *)

BytesFirst(kind) ==      \* mutant
  IF kind = "edit" THEN <<"bytes", "lines">> ELSE <<>>
LuaOps(kind) == IF kind = "edit" THEN <<"lines", "bytes">> ELSE <<>>

Steps(op, b, ids, e) == [n \in 1 .. Len(ids) |-> Step(op, b, ids[n], e)]

Deliveries(b, e) ==
  LET rpc == SetToSeq(e.to \intersect Attached(b) \intersect Chans)
      lua == InIdOrder((e.to \intersect Attached(b)) \ Chans)
      With(op) == SelectSeq(lua, LAMBDA id : op \in subs[b][id])
      Calls == [n \in DOMAIN LuaOps(e.kind) |->
                  Steps(LuaOps(e.kind)[n], b, With(LuaOps(e.kind)[n]), e)]
      Reloads == [n \in DOMAIN lua |->
                    Step(IF "reload" \in subs[b][lua[n]] THEN "reload" ELSE "drop", b, lua[n], e)]
  IN (IF e.kind = "reload" THEN Steps("bye", b, rpc, e) \o Reloads
                           ELSE Steps("notify", b, rpc, e) \o FlattenSeq(Calls))
     \o (IF rpc = <<>> THEN <<>> ELSE <<Step("retry", b, rpc[1], e)>>)

FreesFirst(released) ==  \* mutant: references go before on_detach is called
  LET lua == SelectSeq(released, LAMBDA r : r.id \notin Chans)
      told == SelectSeq(lua, LAMBDA r : "detach" \in r.shape)
  IN [n \in DOMAIN lua |-> Step("free", lua[n].buf, lua[n].id, NoEvent)]
     \o [n \in DOMAIN told |-> Step("on_detach", told[n].buf, told[n].id, NoEvent)]

FreesTold(released) ==  \* mutant: only those with an on_detach are released
  LET told == SelectSeq(released, LAMBDA r : r.id \notin Chans /\ "detach" \in r.shape)
  IN [n \in DOMAIN told |-> Step("on_detach", told[n].buf, told[n].id, NoEvent)]
     \o [n \in DOMAIN told |-> Step("free", told[n].buf, told[n].id, NoEvent)]

(* on_detach of everyone released, then their references. *)
Farewells(released) ==
  LET lua == SelectSeq(released, LAMBDA r : r.id \notin Chans)
      told == SelectSeq(lua, LAMBDA r : "detach" \in r.shape)
  IN [n \in DOMAIN told |-> Step("on_detach", told[n].buf, told[n].id, NoEvent)]
     \o [n \in DOMAIN lua |-> Step("free", lua[n].buf, lua[n].id, NoEvent)]

AllReleases == wipedReleases \o FlattenSeq([b \in Buf |-> releases[b]])
BufferWork(b) == FlattenSeq([n \in DOMAIN pending[b] |-> Deliveries(b, pending[b][n])])
Batch == Farewells(AllReleases) \o FlattenSeq([b \in Buf |-> BufferWork(b)])

(* pending_buffer_bytes *)
WorkOf(events, released, ofWiped) ==
  Len(ofWiped) + Len(FlattenSeq([b \in Buf |-> events[b]])) + Len(FlattenSeq(released))

----------------------------------------------------------------------------
(* History: what a commit owes an attachment, and its handing over. *)

Promised(kind) == CASE kind = "edit" -> <<"lines", "bytes">>
                    [] kind = "reload" -> <<"reload">>
                    [] OTHER -> <<>>
OwedBy(e, id, shape) ==
  IF id \in Chans THEN <<<<e.tick, IF e.kind = "reload" THEN "bye" ELSE "notify">>>>
  ELSE LET mine == SelectSeq(Promised(e.kind), LAMBDA op : op \in shape)
       IN [n \in DOMAIN mine |-> <<e.tick, mine[n]>>]

Owing(b, e) ==
  [owed EXCEPT ![b] = [id \in Id |-> IF id \in e.to THEN @[id] \o OwedBy(e, id, subs[b][id])
                                                    ELSE @[id]]]
Forgiven(b, ids) == [owed EXCEPT ![b] = [id \in Id |-> IF id \in ids THEN <<>> ELSE @[id]]]
TakeFirst(s, x) ==
  LET n == SelectInSeq(s, LAMBDA y : y = x) IN IF n = 0 THEN s ELSE RemoveAt(s, n)
HandedOver(step) == [owed EXCEPT ![step.buf][step.id] = TakeFirst(@, <<step.event.tick, step.op>>)]

----------------------------------------------------------------------------
(* Changes of a buffer's queues. *)

StruckWhole(events, ids) ==  \* mutant: an event goes with its first recipient
  SelectSeq(events, LAMBDA e : e.to \intersect ids = {})

(* Recipients are struck from queued events, events left without any go. *)
Struck(events, ids) ==
  SelectSeq([n \in DOMAIN events |-> [events[n] EXCEPT !.to = @ \ ids]], LAMBDA e : e.to # {})

Removed(b, ids) ==
  /\ subs' = [subs EXCEPT ![b] = Without(@, ids)]
  /\ releases' = [releases EXCEPT ![b] = @ \o ReleasesOf(b, ids \intersect Attached(b))]
  /\ pending' = [pending EXCEPT ![b] = Struck(@, ids)]
  /\ owed' = Forgiven(b, ids)

RemovedForReload(b, id) ==
  /\ subs' = [subs EXCEPT ![b] = Without(@, {id})]
  /\ pending' = [pending EXCEPT ![b] = Struck(@, {id})]
  /\ owed' = Forgiven(b, {id})

Queued(b, e) ==
  /\ pending' = [pending EXCEPT ![b] = Append(@, e)]
  /\ owed' = Owing(b, e)

----------------------------------------------------------------------------
(* Outside of any drain: the editor, Ex commands, Lua chunks. *)

Edit(b) ==
  /\ Outside /\ b \in loaded /\ tick[b] < MaxTick
  /\ tick' = [tick EXCEPT ![b] = @ + 1]
  /\ Queued(b, Event("edit", tick[b] + 1, Attached(b)))
  /\ settled' = FALSE
  /\ UNCHANGED <<loaded, wiped, subs, nextLua, releases, wipedReleases, open, stack,
                 missed, refused, freed>>

(* Replaces the text; whoever is attached is told of a reload. *)
Load(b) ==
  /\ Outside /\ b \notin wiped /\ tick[b] < MaxTick
  /\ tick' = [tick EXCEPT ![b] = @ + 1]
  /\ loaded' = loaded \union {b}
  /\ IF Attached(b) = {} THEN UNCHANGED <<pending, owed>>
     ELSE Queued(b, Event("reload", tick[b] + 1, Attached(b)))
  /\ settled' = FALSE
  /\ UNCHANGED <<wiped, subs, nextLua, releases, wipedReleases, open, stack,
                 missed, refused, freed>>

(* release_resident_state: all attachments end, queued events go. *)
Unload(b) ==
  /\ Outside /\ b \in loaded /\ tick[b] < MaxTick
  /\ tick' = [tick EXCEPT ![b] = @ + 1]
  /\ loaded' = loaded \ {b}
  /\ releases' = [releases EXCEPT ![b] = @ \o ReleasesOf(b, Attached(b))]
  /\ subs' = [subs EXCEPT ![b] = <<>>]
  /\ pending' = [pending EXCEPT ![b] = <<>>]
  /\ owed' = Forgiven(b, Id)
  /\ settled' = FALSE
  /\ UNCHANGED <<wiped, nextLua, wipedReleases, open, stack, missed, refused, freed>>

Wipe(b) ==
  /\ Outside /\ b \notin wiped
  /\ wiped' = wiped \union {b}
  /\ loaded' = loaded \ {b}
  /\ wipedReleases' = wipedReleases \o releases[b] \o ReleasesOf(b, Attached(b))
  /\ releases' = [releases EXCEPT ![b] = <<>>]
  /\ subs' = [subs EXCEPT ![b] = <<>>]
  /\ pending' = [pending EXCEPT ![b] = <<>>]
  /\ owed' = Forgiven(b, Id)
  /\ settled' = FALSE
  /\ UNCHANGED <<tick, nextLua, open, stack, missed, refused, freed>>

(* nvim_buf_attach and nvim_buf_detach from Lua, in a callback or not.  The *)
(* dispatch gate drains if the call left more work than it found.          *)
AttachLua(b, shape) ==
  /\ ~Draining /\ b \in loaded /\ nextLua[b] \in LuaId
  /\ subs' = [subs EXCEPT ![b] = [id \in Attached(b) \union {nextLua[b]} |->
                                    IF id = nextLua[b] THEN shape ELSE @[id]]]
  /\ nextLua' = [nextLua EXCEPT ![b] = @ + 1]
  /\ UNCHANGED <<loaded, wiped, tick, pending, releases, wipedReleases, open, stack, settled, history>>

DetachLua(b) ==
  /\ ~Draining /\ b \in loaded /\ Attached(b) \ Chans # {}
  /\ Removed(b, Attached(b) \ Chans)
  /\ stack' = IF WorkOf(pending', releases', wipedReleases) > WorkOf(pending, releases, wipedReleases)
              THEN Append(stack, NewDrain) ELSE stack
  /\ settled' = (settled /\ ~Outside)
  /\ UNCHANGED <<loaded, wiped, tick, nextLua, wipedReleases, open, missed, refused, freed>>

----------------------------------------------------------------------------
(* Requests of a channel, and its end.  The server drains after every one. *)

AttachRpc(b, c) ==
  /\ Outside /\ settled /\ b \in loaded /\ c \in open /\ Len(pending[b]) < MaxHeld
  /\ subs' = [subs EXCEPT ![b] = [id \in Attached(b) \union {c} |-> IF id = c THEN {} ELSE @[id]]]
  /\ releases' = [releases EXCEPT ![b] = @ \o ReleasesOf(b, Attached(b) \intersect {c})]
  /\ pending' = [pending EXCEPT ![b] = Append(@, Event("init", tick[b], {c}))]
  /\ owed' = [owed EXCEPT ![b][c] = Append(@, <<tick[b], "notify">>)]
  /\ settled' = FALSE
  /\ UNCHANGED <<loaded, wiped, tick, nextLua, wipedReleases, open, stack, missed, refused, freed>>

DetachRpc(b, c) ==
  /\ Outside /\ settled /\ b \in loaded /\ c \in open /\ c \in Attached(b)
  /\ Removed(b, {c})
  /\ settled' = FALSE
  /\ UNCHANGED <<loaded, wiped, tick, nextLua, wipedReleases, open, stack, missed, refused, freed>>

(* remove_peer *)
HangUp(c) ==
  LET mine == {b \in Buf : c \in Attached(b)}
  IN /\ Outside /\ settled /\ c \in open
     /\ open' = open \ {c}
     /\ subs' = [b \in Buf |-> Without(subs[b], {c})]
     /\ releases' = [b \in Buf |-> releases[b] \o ReleasesOf(b, Attached(b) \intersect {c})]
     /\ pending' = [b \in Buf |-> IF b \in mine THEN Struck(pending[b], {c}) ELSE pending[b]]
     /\ owed' = [b \in Buf |-> [owed[b] EXCEPT ![c] = <<>>]]
     /\ settled' = FALSE
     /\ UNCHANGED <<loaded, wiped, tick, nextLua, wipedReleases, stack, missed, refused, freed>>

----------------------------------------------------------------------------
(* drain_buffer_callbacks *)

Begin ==
  /\ Outside
  /\ stack' = <<NewDrain>>
  /\ UNCHANGED <<bufferVars, settled, history>>

SetTop(frame) == stack' = Append(Front(stack), frame)
AtStep(ops) == Draining /\ Top.work # <<>> /\ Head(Top.work).op \in ops
ThisStep == Head(Top.work)
Done(frame) == [frame EXCEPT !.work = Tail(@)]
HeldBack(frame) == {b \in Buf : frame.retries[b] # <<>>}

Ends ==
  /\ stack' = Front(stack)
  /\ settled' = (settled \/ Len(stack) = 1)

(* The batch is worked off.  What could not be sent is put back and ends   *)
(* the drain; otherwise another round, until nothing is queued.            *)
Round ==
  /\ Draining /\ Top.work = <<>>
  /\ IF HeldBack(Top) # {}
     THEN /\ pending' = [b \in Buf |-> Top.retries[b] \o pending[b]]
          /\ Ends
          /\ UNCHANGED <<releases, wipedReleases>>
     ELSE /\ pending' = [b \in Buf |-> <<>>]
          /\ releases' = [b \in Buf |-> <<>>]
          /\ wipedReleases' = <<>>
          /\ IF AllReleases = <<>> /\ (\A b \in Buf : BufferWork(b) = <<>>) THEN Ends
             ELSE SetTop([NewDrain EXCEPT !.work = Batch, !.detached = Top.detached]) /\ UNCHANGED settled
  /\ UNCHANGED <<loaded, wiped, tick, subs, nextLua, open, history>>

(* Events go to the channel with no look at its subscription. *)
Notify ==
  /\ AtStep({"notify"})
  /\ SetTop(Done(Top))
  /\ owed' = HandedOver(ThisStep)
  /\ UNCHANGED <<bufferVars, settled, missed, refused, freed>>

(* nvim_buf_detach_event: a reload ends the attachment of a channel. *)
Bye ==
  /\ AtStep({"bye"})
  /\ SetTop(Done(Top))
  /\ IF ThisStep.id \in Attached(ThisStep.buf)
     THEN RemovedForReload(ThisStep.buf, ThisStep.id)
     ELSE UNCHANGED <<subs, pending, owed>>
  /\ UNCHANGED <<loaded, wiped, tick, nextLua, releases, wipedReleases, open, settled,
                 missed, refused, freed>>

Refused ==
  /\ Faulty /\ AtStep({"notify", "bye"})
  /\ ThisStep.op = "bye" => ThisStep.id \in Attached(ThisStep.buf)
  /\ SetTop([Done(Top) EXCEPT !.failed = @ \union {ThisStep.id}])
  /\ refused' = refused \union {ThisStep.id}
  /\ UNCHANGED <<bufferVars, settled, owed, missed, freed>>

KeptForAll(e, failed) == e   \* mutant

(* The end of an event: it is kept for the channels that refused it. *)
ForRetry(e, failed) == [e EXCEPT !.to = @ \intersect failed]

KeepForRetry ==
  /\ AtStep({"retry"})
  /\ SetTop(IF Top.failed = {} THEN Done(Top)
            ELSE [Done(Top) EXCEPT !.retries[ThisStep.buf] = Append(@, ForRetry(ThisStep.event, Top.failed)),
                                   !.failed = {}])
  /\ UNCHANGED <<bufferVars, settled, history>>

Calls == {"lines", "bytes", "reload"}
MayCall(step, detached) == step.id \notin detached /\ step.id \in Attached(step.buf)

Invoke ==
  /\ AtStep(Calls) /\ MayCall(ThisStep, Top.detached)
  /\ SetTop([Top EXCEPT !.calling = TRUE])
  /\ owed' = HandedOver(ThisStep)
  /\ UNCHANGED <<bufferVars, settled, missed, refused, freed>>

PassOver ==
  /\ AtStep(Calls) /\ ~MayCall(ThisStep, Top.detached)
  /\ SetTop([Done(Top) EXCEPT !.detached = @ \union {ThisStep.id}])
  /\ owed' = HandedOver(ThisStep)
  /\ missed' = IF ThisStep.id \in Attached(ThisStep.buf)
               THEN missed \union {<<ThisStep.buf, ThisStep.id>>} ELSE missed
  /\ UNCHANGED <<bufferVars, settled, refused, freed>>

InvokeOnDetach ==
  /\ AtStep({"on_detach"})
  /\ SetTop([Top EXCEPT !.calling = TRUE])
  /\ UNCHANGED <<bufferVars, settled, history>>

(* A truthy return of an update callback removes its attachment. *)
Return(truthy) ==
  /\ InCallback
  /\ truthy => ThisStep.op \in {"lines", "bytes"}
  /\ SetTop([Done(Top) EXCEPT !.calling = FALSE,
                              !.detached = IF truthy THEN @ \union {ThisStep.id} ELSE @])
  /\ IF truthy THEN Removed(ThisStep.buf, {ThisStep.id}) ELSE UNCHANGED <<subs, releases, pending, owed>>
  /\ UNCHANGED <<loaded, wiped, tick, nextLua, wipedReleases, open, settled,
                 missed, refused, freed>>

(* A reload ends a Lua attachment without on_reload, told at once. *)
Drop ==
  LET b == ThisStep.buf
      id == ThisStep.id
      told == Farewells(ReleasesOf(b, {id}))
  IN /\ AtStep({"drop"})
     /\ IF id \in Attached(b)
        THEN /\ RemovedForReload(b, id)
             /\ SetTop([Done(Top) EXCEPT !.work = told \o @, !.detached = @ \union {id}])
        ELSE /\ SetTop([Done(Top) EXCEPT !.detached = @ \union {id}])
             /\ UNCHANGED <<subs, pending, owed>>
     /\ UNCHANGED <<loaded, wiped, tick, nextLua, releases, wipedReleases, open, settled,
                    missed, refused, freed>>

Free ==
  /\ AtStep({"free"})
  /\ SetTop(Done(Top))
  /\ freed' = [freed EXCEPT ![ThisStep.buf][ThisStep.id] = @ + 1]
  /\ UNCHANGED <<bufferVars, settled, owed, missed, refused>>

DrainStep == Round \/ Notify \/ Bye \/ Refused \/ KeepForRetry \/ Invoke \/ PassOver
             \/ InvokeOnDetach \/ Drop \/ Free

----------------------------------------------------------------------------
Init ==
  /\ loaded = Buf /\ wiped = {} /\ tick = [b \in Buf |-> 0]
  /\ subs = [b \in Buf |-> <<>>] /\ nextLua = [b \in Buf |-> 1]
  /\ pending = [b \in Buf |-> <<>>] /\ releases = [b \in Buf |-> <<>>] /\ wipedReleases = <<>>
  /\ open = Chans /\ stack = <<>> /\ settled = TRUE
  /\ owed = [b \in Buf |-> [id \in Id |-> <<>>]]
  /\ missed = {} /\ refused = {}
  /\ freed = [b \in Buf |-> [id \in LuaId |-> 0]]

Next ==
  \/ \E b \in Buf : Edit(b) \/ Load(b) \/ Unload(b) \/ Wipe(b) \/ DetachLua(b)
  \/ \E b \in Buf, shape \in Shapes : AttachLua(b, shape)
  \/ \E b \in Buf, c \in Chans : AttachRpc(b, c) \/ DetachRpc(b, c)
  \/ \E c \in Chans : HangUp(c)
  \/ Begin \/ DrainStep
  \/ \E truthy \in BOOLEAN : Return(truthy)

Spec == Init /\ [][Next]_vars

----------------------------------------------------------------------------
(* Where an event committed for an attachment can be. *)
EventsFor(b, id, events) ==
  FlattenSeq([n \in DOMAIN events |-> IF id \in events[n].to THEN OwedBy(events[n], id, subs[b][id]) ELSE <<>>])
Unserved(frame) == IF frame.calling THEN Tail(frame.work) ELSE frame.work
StepsFor(b, id, frame) ==
  LET mine == SelectSeq(Unserved(frame), LAMBDA s : /\ s.buf = b
                                   /\ \/ s.id = id /\ s.op \in Calls \union {"notify", "bye"}
                                      \/ s.op = "retry" /\ id \in frame.failed)
  IN FlattenSeq([n \in DOMAIN mine |-> IF mine[n].op = "retry" THEN OwedBy(mine[n].event, id, {})
                                       ELSE <<<<mine[n].event.tick, mine[n].op>>>>])
Waiting(b, id) ==
  FlattenSeq([n \in DOMAIN stack |-> EventsFor(b, id, stack[n].retries[b]) \o StepsFor(b, id, stack[n])])
  \o EventsFor(b, id, pending[b])

Count(s, x) == Cardinality({n \in DOMAIN s : s[n] = x})
Occurrences(s) == {s[n] : n \in DOMAIN s}

----------------------------------------------------------------------------
(* Exactly once: what a commit owed an attachment that still stands is on  *)
(* its way to it, each event for each callback once: in a queue, in the    *)
(* batch of a drain or among its retries.  To a channel that refused       *)
(* events some may come twice, none is lost.  The queues name no other     *)
(* attachment: an id attached later gets nothing from before.  A callback  *)
(* is passed over only for a namesake in another buffer that is gone,      *)
(* since the marks of a drain carry no buffer.                             *)
OwedWaits ==
  /\ \A b \in Buf : \A id \in Attached(b) :
       LET due == owed[b][id]
           coming == Waiting(b, id)
       IN \A x \in Occurrences(due) \union Occurrences(coming) :
            /\ Count(due, x) <= Count(coming, x)
            /\ id \in refused \/ Count(due, x) = Count(coming, x)
  /\ \A b \in Buf : \A n \in DOMAIN pending[b] : pending[b][n].to \subseteq Attached(b) \union refused
  /\ \A m \in missed : \E b \in Buf \ {m[1]} : m[2] < nextLua[b] /\ m[2] \notin Attached(b)

(* The drain hands an attachment its events in the order of the commits,   *)
(* and its line callback before its byte callback.                         *)
HandedInOrder(ids) ==
  \A b \in Buf : \A id \in ids \intersect Attached(b) \intersect Attached(b)' :
    Len(owed[b][id]') < Len(owed[b][id]) => owed[b][id]' = Tail(owed[b][id])
InCommitOrder == [][HandedInOrder(Id \ refused)]_vars

(* However an attachment ends, its references are released at most once,   *)
(* never while it stands, and have been once the queues are settled; only  *)
(* a drain that a refusing channel ended leaves releases to the next.      *)
RefsOnce ==
  \A b \in Buf : \A id \in 1 .. nextLua[b] - 1 :
    /\ freed[b][id] <= IF id \in Attached(b) THEN 0 ELSE 1
    /\ Outside /\ settled /\ id \notin Attached(b) =>
         freed[b][id] + Cardinality({n \in DOMAIN AllReleases : AllReleases[n].buf = b /\ AllReleases[n].id = id}) = 1
    /\ Outside /\ settled /\ refused = {} => AllReleases = <<>>

(* No callback is called through a released reference, whatever callbacks  *)
(* and nested drains removed since its event was taken from the queue.     *)
LiveRefsOnly ==
  [][~InCallback /\ InCallback' /\ Len(stack') = Len(stack)
       => freed[ThisStep.buf][ThisStep.id] = 0]_vars

(* When the server answers, no event waits but for a channel that refused. *)
AnsweredAfterEvents ==
  Outside /\ settled => \A b \in Buf : \A n \in DOMAIN pending[b] :
                          pending[b][n].to \subseteq refused

----------------------------------------------------------------------------
(* Claims of the documentation that the code does not keep. *)

(* "ends RPC channels": a reload is the last a channel hears. *)
NothingAfterEnd == [][Notify => ThisStep.id \in Attached(ThisStep.buf)]_vars

(* Every Lua attachment is called for the events committed while attached. *)
LuaServed == missed = {}

(* "nvim_buf_detach_event ... whenever the buffer contents are unloaded":  *)
(* an attachment of a channel ends with this event.                        *)
EndAnnounced ==
  [][\A b \in Buf : \A c \in (Attached(b) \ Attached(b)') \intersect open' : AtStep({"bye"})]_vars

(* "in commit order", also for a channel that refused an event before.     *)
CommitOrderKept == [][HandedInOrder(Id)]_vars

=============================================================================
