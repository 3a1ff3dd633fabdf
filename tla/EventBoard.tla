----------------------------- MODULE EventBoard -----------------------------
(***************************************************************************)
(* What the owned event queues of ox-loop promise, with no queues in it.   *)
(* Every owner has a lineage, the owners from itself up to the root.  A    *)
(* posted event gets a ticket and an audience, the lineage of the owner it *)
(* was posted to; draining an owner hands out, in ticket order and once,   *)
(* exactly the events whose audience contains that owner.                  *)
(***************************************************************************)
EXTENDS Naturals, FiniteSets

CONSTANTS Event,     \* what a caller posts
          MaxOwner,  \* bound: owners ever created, the root included
          MaxEvent   \* bound: events ever posted

VARIABLES nextOwner, nextEvent,
          lineage,   \* owner -> the owners that see what is posted to it
          pending,   \* ticket -> [audience, event]
          drained    \* what the last operation returned

vars == <<nextOwner, nextEvent, lineage, pending, drained>>

Root == 0

Init ==
  /\ nextOwner = 1 /\ nextEvent = 0
  /\ lineage = [o \in {Root} |-> {Root}]
  /\ pending = [id \in {} |-> {}]
  /\ drained = <<>>

Owners == DOMAIN lineage
SeenBy(o) == {id \in DOMAIN pending : o \in pending[id].audience}
Drop(S) == [id \in DOMAIN pending \ S |-> pending[id]]

Child(p) ==
  /\ p \in Owners /\ nextOwner < MaxOwner
  /\ nextOwner' = nextOwner + 1
  /\ lineage' = [o \in Owners \union {nextOwner} |->
                   IF o = nextOwner THEN lineage[p] \union {o} ELSE lineage[o]]
  /\ drained' = <<>>
  /\ UNCHANGED <<nextEvent, pending>>

Put(o, e) ==
  /\ o \in Owners /\ nextEvent < MaxEvent
  /\ nextEvent' = nextEvent + 1
  /\ pending' = [id \in DOMAIN pending \union {nextEvent} |->
                   IF id = nextEvent THEN [audience |-> lineage[o], event |-> e]
                                     ELSE pending[id]]
  /\ drained' = <<>>
  /\ UNCHANGED <<nextOwner, lineage>>

\* The enumerations of a set of tickets from the oldest to the newest.
Ascending(S) ==
  {s \in [1..Cardinality(S) -> S] : \A i, j \in DOMAIN s : i < j => s[i] < s[j]}

Drain(o) ==
  /\ o \in Owners
  /\ \E s \in Ascending(SeenBy(o)) : drained' = [i \in DOMAIN s |-> pending[s[i]].event]
  /\ pending' = Drop(SeenBy(o))
  /\ UNCHANGED <<nextOwner, nextEvent, lineage>>

Remove(o) ==
  /\ o \in Owners \ {Root}
  /\ lineage' = [q \in {q \in Owners : o \notin lineage[q]} |-> lineage[q]]
  /\ pending' = Drop(SeenBy(o))
  /\ drained' = <<>>
  /\ UNCHANGED <<nextOwner, nextEvent>>

Next == \E o \in Owners : Child(o) \/ (\E e \in Event : Put(o, e)) \/ Drain(o) \/ Remove(o)

Spec == Init /\ [][Next]_vars
=============================================================================
