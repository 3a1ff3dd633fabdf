----------------------------- MODULE MultiQueue -----------------------------
(***************************************************************************)
(* crates/ox-loop/src/events.rs: the owned parent/child event queues of    *)
(* the main loop.  A queue holds event ids only; an id is pushed to its    *)
(* origin queue and to every ancestor, and whichever queue is drained must *)
(* take it out of all the others.  The payloads and origins of pending ids *)
(* are two maps beside the queues.  All operations take &mut self, so each *)
(* is one action; a call with an unknown owner returns an error and        *)
(* changes nothing, so it has no action.                                   *)
(***************************************************************************)
EXTENDS Naturals, Sequences, FiniteSets, Functions, Retain

CONSTANTS Event,     \* payloads: callbacks and signals
          MaxOwner,  \* bound on next_owner (the code counts in a wrapping u64)
          MaxEvent   \* bound on next_event (likewise)

ASSUME BoundsAssumption == MaxOwner \in Nat \ {0} /\ MaxEvent \in Nat

VARIABLES nextOwner, nextEvent,
          parent,    \* live owner other than the root -> its parent
          entries,   \* live owner -> its sequence of event ids
          events,    \* pending id -> payload
          origins,   \* pending id -> the owner it was put to
          drained    \* the events the last operation returned

vars == <<nextOwner, nextEvent, parent, entries, events, origins, drained>>

Root == 0
Live == DOMAIN entries

-----------------------------------------------------------------------------
(***************************************************************************)
(* The owners met by following parent links from o: the least set that     *)
(* contains o and is closed under parent.                                  *)
(***************************************************************************)
ParentClosed(S) == \A q \in S \ {Root} : parent[q] \in S

PathToRoot(o) ==
  {q \in Live : \A S \in SUBSET Live : o \in S /\ ParentClosed(S) => q \in S}

Subtree(o) == {q \in Live : o \in PathToRoot(q)}

PushFront(s, id) == <<id>> \o s     \* mutant: put at the wrong end
PushBack(s, id) == Append(s, id)

Forget(f, S) == Restrict(f, DOMAIN f \ S)

-----------------------------------------------------------------------------
Init ==
  /\ nextOwner = 1 /\ nextEvent = 0
  /\ parent = [q \in {} |-> Root]
  /\ entries = [q \in {Root} |-> <<>>]
  /\ events = [id \in {} |-> Root] /\ origins = [id \in {} |-> Root]
  /\ drained = <<>>

Child(p) ==
  /\ p \in Live /\ nextOwner < MaxOwner
  /\ nextOwner' = nextOwner + 1
  /\ parent' = [q \in (Live \ {Root}) \union {nextOwner} |->
                  IF q = nextOwner THEN p ELSE parent[q]]
  /\ entries' = [q \in Live \union {nextOwner} |->
                   IF q = nextOwner THEN <<>> ELSE entries[q]]
  /\ drained' = <<>>
  /\ UNCHANGED <<nextEvent, events, origins>>

Put(o, e) ==
  /\ o \in Live /\ nextEvent < MaxEvent
  /\ nextEvent' = nextEvent + 1
  /\ events' = [id \in DOMAIN events \union {nextEvent} |->
                  IF id = nextEvent THEN e ELSE events[id]]
  /\ origins' = [id \in DOMAIN origins \union {nextEvent} |->
                   IF id = nextEvent THEN o ELSE origins[id]]
  /\ entries' = [q \in Live |-> IF q \in PathToRoot(o) THEN PushBack(entries[q], nextEvent)
                                                       ELSE entries[q]]
  /\ drained' = <<>>
  /\ UNCHANGED <<nextOwner, parent>>

(***************************************************************************)
(* The ids popped from o that still have an origin are delivered; a popped *)
(* id without one is skipped.  Each delivered id leaves every other queue  *)
(* on the path from its origin to the root.                                *)
(***************************************************************************)
Popped(o) == Range(entries[o]) \intersect DOMAIN origins
OwnOnly(o) == Without(entries[o], {id \in DOMAIN origins : origins[id] # o})   \* mutant
Delivered(o) == Without(entries[o], Range(entries[o]) \ DOMAIN origins)

TakenFromBelow(o, q) == {id \in Popped(o) : o \in PathToRoot(q)}   \* mutant: ancestors keep the link
TakenFrom(o, q) == {id \in Popped(o) : q \in PathToRoot(origins[id])}

ProcessEvents(o) ==
  /\ o \in Live
  /\ drained' = [i \in DOMAIN Delivered(o) |-> events[Delivered(o)[i]]]
  /\ entries' = [q \in Live |->
                   IF q = o THEN <<>> ELSE Without(entries[q], TakenFrom(o, q))]
  /\ events' = Forget(events, Popped(o))
  /\ origins' = Forget(origins, Popped(o))
  /\ UNCHANGED <<nextOwner, nextEvent, parent>>

KeepsEvents(o) == {}     \* mutant: the owner goes, its pending events stay
RemovedEvents(o) == UNION {Range(entries[q]) : q \in Subtree(o)}

RemoveOwner(o) ==
  /\ o \in Live \ {Root}
  /\ events' = Forget(events, RemovedEvents(o))
  /\ origins' = Forget(origins, RemovedEvents(o))
  /\ entries' = [q \in Live \ Subtree(o) |-> Without(entries[q], RemovedEvents(o))]
  /\ parent' = Forget(parent, Subtree(o))
  /\ drained' = <<>>
  /\ UNCHANGED <<nextOwner, nextEvent>>

Next ==
  \E o \in Live : \/ Child(o)
                  \/ \E e \in Event : Put(o, e)
                  \/ ProcessEvents(o)
                  \/ RemoveOwner(o)

Spec == Init /\ [][Next]_vars

-----------------------------------------------------------------------------
(***************************************************************************)
(* Types.  A parent is an owner created earlier, so the links cannot form  *)
(* a cycle and the walk in put, process_events and is_descendant_of ends;  *)
(* it is itself live, so the walk never meets UnknownOwner half way.       *)
(***************************************************************************)
TypeOK ==
  /\ nextOwner \in 1..MaxOwner /\ nextEvent \in 0..MaxEvent
  /\ Root \in Live /\ Live \subseteq 0..(nextOwner - 1)
  /\ entries \in [Live -> Seq(0..(nextEvent - 1))]
  /\ parent \in [Live \ {Root} -> Live]
  /\ \A q \in Live \ {Root} : parent[q] < q
  /\ DOMAIN events \subseteq 0..(nextEvent - 1) /\ events \in [DOMAIN events -> Event]
  /\ DOMAIN origins = DOMAIN events /\ origins \in [DOMAIN origins -> Live]
  /\ drained \in Seq(Event)

(***************************************************************************)
(* put mirrors an id into every ancestor, process_events and remove_owner  *)
(* take it back out of every one: at all times a queue holds exactly the   *)
(* pending ids whose origin lies in its subtree.                           *)
(***************************************************************************)
Mirrored ==
  \A q \in Live : Range(entries[q]) = {id \in DOMAIN origins : q \in PathToRoot(origins[id])}

(***************************************************************************)
(* The ids of a queue ascend: whatever mixture of selective drains and     *)
(* removals came before, a parent's queue still lists the events of all    *)
(* its children in the order they were put, and no id twice.               *)
(***************************************************************************)
IsAscending(s) == \A i, j \in DOMAIN s : i < j => s[i] < s[j]
InPutOrder == \A q \in Live : IsAscending(entries[q])

(***************************************************************************)
(* The queues implement the event board: the audience of a pending event   *)
(* is the path from its origin to the root.                                *)
(***************************************************************************)
Board == INSTANCE EventBoard WITH
           lineage <- [o \in Live |-> PathToRoot(o)],
           pending <- [id \in DOMAIN origins |->
                         [audience |-> PathToRoot(origins[id]), event |-> events[id]]]

ImplementsBoard == Board!Spec
=============================================================================
