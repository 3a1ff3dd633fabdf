---------------------------- MODULE LoopPumpProofs ----------------------------
(***************************************************************************)
(* Proofs about LoopPump, for any number of posting threads, sources,      *)
(* signals and owners, and all bounds.                                     *)
(***************************************************************************)
EXTENDS LoopPump, FiniteSetTheorems, TLAPS

\* What is proved of the owned queues on their own.
MQP == INSTANCE MultiQueueProofs

Works == [channels : [OwnerIds -> Seq(Nat)], order : Seq(OwnerIds)]

(* Every owner is listed once for each item of its channel. *)
At(s, x) == {i \in DOMAIN s : s[i] = x}
Matched(q) == \A o \in OwnerIds : Len(q.channels[o]) = Cardinality(At(q.order, o))

Shape ==
  /\ post \in Seq([owner : OwnerIds, fast : BOOLEAN]) /\ Len(post) <= MaxPost
  /\ \A n \in DOMAIN post : post[n].owner < nextOwner
  /\ inbox \in Works /\ taken \in Works /\ Matched(inbox) /\ Matched(taken)
  /\ batch \in Seq(Event) /\ done \in Seq(Nat)

(* Work is in a transfer, and drained events wait, at one place of the loop each. *)
Staged ==
  /\ pc # "transfer" => taken = NoWork
  /\ pc # "callbacks" => batch = <<>>

(* Whatever is on its way is what was posted, with its owner. *)
Deferred(n, o) == n \in DOMAIN post /\ ~post[n].fast /\ post[n].owner = o
OwnedBy(q) ==
  \A o \in OwnerIds : \A n \in Range(q.channels[o]) : n \in DOMAIN post /\ post[n].owner = o
Faithful ==
  /\ OwnedBy(inbox) /\ OwnedBy(taken)
  /\ Range(done) \subseteq DOMAIN post
  /\ \A i \in DOMAIN batch : batch[i].kind = "post" =>
       /\ Deferred(batch[i].n, post[batch[i].n].owner)
       /\ post[batch[i].n].owner \in Live
  /\ \A id \in DOMAIN events :
       /\ events[id].kind = "post" => Deferred(events[id].n, origins[id])
       /\ events[id].kind = "signal" => origins[id] = Root

(* The stages the deferred work of an owner goes through, and their order. *)
Executed(o) == {n \in Range(done) : Deferred(n, o)}
Running(o) == {n \in DOMAIN post : post[n].owner = o /\ Post(n) \in Range(batch)}
Held(o) == {n \in DOMAIN post : post[n].owner = o /\ Post(n) \in Queued}
InTransfer(o) == Range(taken.channels[o])
InInbox(o) == Range(inbox.channels[o])

Below(S, T) == \A m \in S, n \in T : m < n
Chain(done1, running, held, transfer, waiting) ==
  /\ Below(done1, running \union held \union transfer \union waiting)
  /\ Below(running, held \union transfer \union waiting)
  /\ Below(held, transfer \union waiting)
  /\ Below(transfer, waiting)

(* Within a stage the work of an owner is in the order it was posted. *)
Sorted(q) == \A o \in OwnerIds : MQ!IsAscending(q.channels[o])
HeldInOrder ==
  \A i, j \in DOMAIN events :
    i < j /\ events[i].kind = "post" /\ events[j].kind = "post" /\ origins[i] = origins[j]
    => events[i].n < events[j].n
BatchInOrder ==
  \A i, j \in DOMAIN batch :
    /\ i < j /\ batch[i].kind = "post" /\ batch[j].kind = "post"
    /\ post[batch[i].n].owner = post[batch[j].n].owner
    => batch[i].n < batch[j].n

InLine ==
  /\ \A o \in OwnerIds : Chain(Executed(o), Running(o), Held(o), InTransfer(o), InInbox(o))
  /\ Sorted(inbox) /\ Sorted(taken) /\ HeldInOrder /\ BatchInOrder /\ RunsInPostOrder

Flow == MQP!IndInv /\ Shape /\ Faithful /\ InLine
PumpInv == Flow /\ Staged

-----------------------------------------------------------------------------
(* The two instances of MultiQueue define the same operators. *)
LEMMA SameSequences ==
  /\ \A s, S : MQ!Without(s, S) = MQP!Without(s, S)
  /\ \A s : MQ!IsAscending(s) <=> MQP!IsAscending(s)
<1>1. \A s, S : MQ!Without(s, S) = MQP!Without(s, S)
  BY DEF MQ!Without, MQP!Without, MQ!Kept, MQP!Kept, MQ!Rank, MQP!Rank,
         MQ!Cardinality, MQP!Cardinality
<1>. QED  BY <1>1 DEF MQ!IsAscending, MQP!IsAscending

LEMMA SamePaths ==
  /\ \A o : MQ!PathToRoot(o) = MQP!PathToRoot(o)
  /\ \A o : MQ!Subtree(o) = MQP!Subtree(o)
  /\ \A f : MQ!Range(f) = MQP!Range(f)
  /\ \A f, S : MQ!Forget(f, S) = MQP!Forget(f, S)
<1>1. \A S : MQ!ParentClosed(S) = MQP!ParentClosed(S)
  BY DEF MQ!ParentClosed, MQP!ParentClosed, MQ!Root, MQP!Root
<1>2. \A o : MQ!PathToRoot(o) = MQP!PathToRoot(o)
  BY <1>1 DEF MQ!PathToRoot, MQP!PathToRoot, MQ!Live, MQP!Live
<1>3. \A o : MQ!Subtree(o) = MQP!Subtree(o)
  BY <1>2 DEF MQ!Subtree, MQP!Subtree, MQ!Live, MQP!Live
<1>4. \A f : MQ!Range(f) = MQP!Range(f)
  BY DEF MQ!Range, MQP!Range
<1>5. \A f, S : MQ!Restrict(f, S) = MQP!Restrict(f, S)
  BY DEF MQ!Restrict, MQP!Restrict
<1>6. \A f, S : MQ!Forget(f, S) = MQP!Forget(f, S)
  BY <1>5 DEF MQ!Forget, MQP!Forget
<1>. QED  BY <1>2, <1>3, <1>4, <1>6

LEMMA SameOperations ==
  /\ MQ!Init <=> MQP!Init
  /\ \A o : MQ!Child(o) <=> MQP!Child(o)
  /\ \A o, e : MQ!Put(o, e) <=> MQP!Put(o, e)
  /\ \A o : MQ!ProcessEvents(o) <=> MQP!ProcessEvents(o)
  /\ \A o : MQ!RemoveOwner(o) <=> MQP!RemoveOwner(o)
<1>. USE DEF MQ!Live, MQP!Live, MQ!Root, MQP!Root
<1>1. \A o : MQ!Child(o) <=> MQP!Child(o)
  BY DEF MQ!Child, MQP!Child
<1>2. \A o, e : MQ!Put(o, e) <=> MQP!Put(o, e)
  BY SamePaths DEF MQ!Put, MQP!Put, MQ!PushBack, MQP!PushBack
<1>3. \A o : MQ!Popped(o) = MQP!Popped(o)
  BY SamePaths DEF MQ!Popped, MQP!Popped
<1>4. \A o : MQ!Delivered(o) = MQP!Delivered(o)
  BY SamePaths, SameSequences DEF MQ!Delivered, MQP!Delivered
<1>5. \A o, q : MQ!TakenFrom(o, q) = MQP!TakenFrom(o, q)
  BY <1>3, SamePaths DEF MQ!TakenFrom, MQP!TakenFrom
<1>6. \A o : MQ!ProcessEvents(o) <=> MQP!ProcessEvents(o)
  BY <1>3, <1>4, <1>5, SamePaths, SameSequences DEF MQ!ProcessEvents, MQP!ProcessEvents
<1>7. \A o : MQ!RemovedEvents(o) = MQP!RemovedEvents(o)
  BY SamePaths DEF MQ!RemovedEvents, MQP!RemovedEvents
<1>8. \A o : MQ!RemoveOwner(o) <=> MQP!RemoveOwner(o)
  BY <1>7, SamePaths, SameSequences DEF MQ!RemoveOwner, MQP!RemoveOwner
<1>9. MQ!Init <=> MQP!Init
  BY DEF MQ!Init, MQP!Init
<1>. QED  BY <1>1, <1>2, <1>6, <1>8, <1>9
-----------------------------------------------------------------------------
(* Counting the places an owner has in an order *)

LEMMA AtFinite ==
  ASSUME NEW T, NEW s \in Seq(T), NEW x
  PROVE  IsFiniteSet(At(s, x)) /\ Cardinality(At(s, x)) \in Nat
<1>1. Len(s) \in Nat /\ DOMAIN s = 1..Len(s)
  OBVIOUS
<1>2. IsFiniteSet(1..Len(s))
  BY <1>1, FS_Interval
<1>3. At(s, x) \in SUBSET (1..Len(s))
  BY <1>1 DEF At
<1>4. IsFiniteSet(At(s, x))
  BY <1>2, <1>3, FS_Subset
<1>. QED  BY <1>4, FS_CardinalityType

LEMMA AtAppend ==
  ASSUME NEW T, NEW s \in Seq(T), NEW y \in T, NEW x
  PROVE  Cardinality(At(Append(s, y), x)) = Cardinality(At(s, x)) + IF x = y THEN 1 ELSE 0
<1>1. /\ Len(s) \in Nat /\ DOMAIN s = 1..Len(s) /\ DOMAIN Append(s, y) = 1..(Len(s) + 1)
      /\ Append(s, y)[Len(s) + 1] = y /\ \A i \in 1..Len(s) : Append(s, y)[i] = s[i]
  OBVIOUS
<1>2. IsFiniteSet(At(s, x)) /\ Len(s) + 1 \notin At(s, x) /\ Cardinality(At(s, x)) \in Nat
  <2>1. Len(s) + 1 \notin At(s, x)
    BY <1>1 DEF At
  <2>. QED  BY <2>1, AtFinite
<1>3. CASE x = y
  <2>1. At(Append(s, y), x) = At(s, x) \union {Len(s) + 1}
    BY <1>1, <1>3 DEF At
  <2>. QED  BY <1>2, <1>3, <2>1, FS_AddElement
<1>4. CASE x # y
  <2>1. At(Append(s, y), x) = At(s, x)
    BY <1>1, <1>4 DEF At
  <2>. QED  BY <1>2, <1>4, <2>1
<1>. QED  BY <1>3, <1>4

LEMMA AtTail ==
  ASSUME NEW T, NEW s \in Seq(T), s # <<>>, NEW x
  PROVE  Cardinality(At(s, x)) = Cardinality(At(Tail(s), x)) + IF x = Head(s) THEN 1 ELSE 0
<1>. DEFINE t == Tail(s)
            A == At(t, x)
            B == At(s, x) \ {1}
            f == [i \in A |-> i + 1]
<1>1. /\ Len(s) \in Nat \ {0} /\ DOMAIN s = 1..Len(s) /\ t \in Seq(T) /\ Len(t) = Len(s) - 1
      /\ DOMAIN t = 1..Len(t) /\ Head(s) = s[1] /\ \A i \in 1..Len(t) : t[i] = s[i + 1]
  OBVIOUS
<1>2. IsFiniteSet(A) /\ IsFiniteSet(At(s, x)) /\ Cardinality(At(s, x)) \in Nat /\ Cardinality(A) \in Nat
  BY <1>1, AtFinite
<1>3. f \in Bijection(A, B)
  <2>1. \A i \in A : i \in 1..Len(t) /\ t[i] = x
    BY <1>1 DEF At
  <2>2. \A i \in A : i + 1 \in B
    BY <1>1, <2>1 DEF At
  <2>3. \A i, j \in A : i # j => i + 1 # j + 1
    BY <1>1, <2>1
  <2>4. \A k \in B : k - 1 \in A /\ (k - 1) + 1 = k
    BY <1>1 DEF At
  <2>5. f \in [A -> B]
    BY <2>2
  <2>6. f \in Injection(A, B)
    BY <2>3, <2>5 DEF Injection, IsInjective
  <2>7. f \in Surjection(A, B)
    BY <2>4, <2>5 DEF Surjection
  <2>. QED  BY <2>6, <2>7 DEF Bijection
<1>4. Cardinality(B) = Cardinality(A)
  <2>1. ExistsBijection(A, B)
    BY <1>3 DEF ExistsBijection
  <2>. QED  BY <1>2, <2>1, FS_Bijection
<1>5. Cardinality(B) = IF 1 \in At(s, x) THEN Cardinality(At(s, x)) - 1 ELSE Cardinality(At(s, x))
  BY <1>2, FS_RemoveElement
<1>6. 1 \in At(s, x) <=> x = Head(s)
  BY <1>1 DEF At
<1>. HIDE DEF A, B
<1>7. Cardinality(At(s, x)) = Cardinality(A) + IF x = Head(s) THEN 1 ELSE 0
  BY <1>2, <1>4, <1>5, <1>6
<1>. QED  BY <1>7 DEF A

LEMMA NoWorkMatched == NoWork \in Works /\ Matched(NoWork)
<1>1. NoWork \in Works
  BY DEF NoWork, Works
<1>2. ASSUME NEW o \in OwnerIds
      PROVE  Len(NoWork.channels[o]) = Cardinality(At(NoWork.order, o))
  <2>1. At(NoWork.order, o) = {}
    BY DEF At, NoWork
  <2>2. Len(NoWork.channels[o]) = 0
    BY DEF NoWork
  <2>. QED  BY <2>1, <2>2, FS_EmptySet
<1>. QED  BY <1>1, <1>2 DEF Matched

LEMMA PushedMatched ==
  ASSUME NEW q \in Works, Matched(q), NEW o \in OwnerIds, NEW n \in Nat
  PROVE  PushedWork(q, o, n) \in Works /\ Matched(PushedWork(q, o, n))
<1>. DEFINE p == PushedWork(q, o, n)
<1>1. /\ q.channels \in [OwnerIds -> Seq(Nat)] /\ q.order \in Seq(OwnerIds)
      /\ p.channels = [q.channels EXCEPT ![o] = Append(@, n)] /\ p.order = Append(q.order, o)
  BY DEF Works, PushedWork
<1>2. p \in Works
  BY DEF Works, PushedWork
<1>. HIDE DEF p
<1>3. ASSUME NEW c \in OwnerIds
      PROVE  Len(p.channels[c]) = Cardinality(At(p.order, c))
  <2>1. Cardinality(At(p.order, c)) = Cardinality(At(q.order, c)) + IF c = o THEN 1 ELSE 0
    BY <1>1, AtAppend
  <2>2. Len(q.channels[c]) = Cardinality(At(q.order, c)) /\ Len(q.channels[c]) \in Nat
    BY <1>1 DEF Matched
  <2>3. Len(p.channels[c]) = Len(q.channels[c]) + IF c = o THEN 1 ELSE 0
    <3>1. q.channels[c] \in Seq(Nat) /\ Len(Append(q.channels[c], n)) = Len(q.channels[c]) + 1
      BY <1>1
    <3>2. p.channels[c] = IF c = o THEN Append(q.channels[c], n) ELSE q.channels[c]
      BY <1>1
    <3>. QED  BY <2>2, <3>1, <3>2
  <2>. QED  BY <2>1, <2>2, <2>3
<1>4. p \in Works /\ Matched(p)
  BY <1>2, <1>3 DEF Matched
<1>. QED  BY <1>4 DEF p

(* The owner that is next has work. *)
LEMMA PoppedMatched ==
  ASSUME NEW q \in Works, Matched(q), q.order # <<>>
  PROVE  /\ NextOwner(q) \in OwnerIds /\ q.channels[NextOwner(q)] # <<>>
         /\ NextWork(q) \in Nat
         /\ Popped(q, NextOwner(q)) \in Works /\ Matched(Popped(q, NextOwner(q)))
<1>. DEFINE o == NextOwner(q)
            p == Popped(q, o)
<1>1. /\ q.channels \in [OwnerIds -> Seq(Nat)] /\ q.order \in Seq(OwnerIds) /\ o = Head(q.order)
      /\ o \in OwnerIds
      /\ p.channels = [q.channels EXCEPT ![o] = Tail(@)] /\ p.order = Tail(q.order)
      /\ p = [channels |-> p.channels, order |-> p.order]
  BY DEF Works, Popped, NextOwner
<1>. HIDE DEF o, p
<1>2. ASSUME NEW c \in OwnerIds
      PROVE  /\ Cardinality(At(q.order, c)) = Cardinality(At(Tail(q.order), c)) + IF c = o THEN 1 ELSE 0
             /\ Cardinality(At(Tail(q.order), c)) \in Nat
             /\ Len(q.channels[c]) = Cardinality(At(q.order, c))
  <2>1. Tail(q.order) \in Seq(OwnerIds)
    BY <1>1
  <2>. QED  BY <1>1, <2>1, AtTail, AtFinite DEF Matched
<1>3. Len(q.channels[o]) >= 1
  BY <1>1, <1>2
<1>4. q.channels[o] # <<>> /\ Head(q.channels[o]) \in Nat /\ Tail(q.channels[o]) \in Seq(Nat)
  BY <1>1, <1>3
<1>5. p \in Works
  <2>1. Tail(q.order) \in Seq(OwnerIds)
    BY <1>1
  <2>2. p.channels \in [OwnerIds -> Seq(Nat)]
    BY <1>1, <1>4
  <2>. QED  BY <1>1, <2>1, <2>2 DEF Works
<1>6. ASSUME NEW c \in OwnerIds
      PROVE  Len(p.channels[c]) = Cardinality(At(p.order, c))
  <2>1. CASE c = o
    <3>1. Len(p.channels[c]) = Len(q.channels[c]) - 1
      <4>1. q.channels[o] \in Seq(Nat) /\ p.channels[c] = Tail(q.channels[o])
        BY <1>1, <2>1
      <4>. QED  BY <1>4, <2>1, <4>1
    <3>2. /\ Cardinality(At(q.order, c)) = Cardinality(At(Tail(q.order), c)) + 1
          /\ Cardinality(At(Tail(q.order), c)) \in Nat
          /\ Len(q.channels[c]) = Cardinality(At(q.order, c))
      BY <1>2, <2>1
    <3>3. Len(p.channels[c]) = Cardinality(At(Tail(q.order), c))
      BY <3>1, <3>2
    <3>. QED  BY <1>1, <3>3
  <2>2. CASE c # o
    <3>1. p.channels[c] = q.channels[c]
      BY <1>1, <2>2
    <3>. QED  BY <1>1, <1>2, <2>2, <3>1
  <2>. QED  BY <2>1, <2>2
<1>7. Matched(p)
  BY <1>6 DEF Matched
<1>. QED  BY <1>1, <1>4, <1>5, <1>7 DEF o, p, NextWork

(* No owner is left in the order, no work is left in the channels. *)
LEMMA MatchedEmpty ==
  ASSUME NEW q \in Works, Matched(q), q.order = <<>>, NEW o \in OwnerIds
  PROVE  q.channels[o] = <<>>
<1>1. At(q.order, o) = {}
  BY DEF At
<1>2. Len(q.channels[o]) = 0
  BY <1>1, FS_EmptySet DEF Matched
<1>. QED  BY <1>2 DEF Works
-----------------------------------------------------------------------------
(* What the operations of the queues do to pending events *)

LEMMA PutDoes ==
  ASSUME MQP!IndInv, NEW o, NEW e \in Event, MQ!Put(o, e)
  PROVE  /\ MQP!IndInv' /\ UNCHANGED nextOwner /\ Live' = Live /\ o \in Live
         /\ \A id \in DOMAIN events : id \in Nat /\ id < nextEvent
         /\ nextEvent \in Nat /\ DOMAIN events' = DOMAIN events \union {nextEvent}
         /\ events'[nextEvent] = e /\ origins'[nextEvent] = o
         /\ \A id \in DOMAIN events : events'[id] = events[id] /\ origins'[id] = origins[id]
<1>. USE EnoughIds
<1>1. MQP!Put(o, e)
  BY SameOperations
<1>2. o \in MQP!Live
  BY <1>1 DEF MQP!Put
<1>3. MQP!IndInv'
  BY <1>1, <1>2, MQP!PutInv
<1>. QED  BY <1>1, <1>3, MQP!PutEffect DEF Live, MQ!Live, MQP!Live

LEMMA RemoveDoes ==
  ASSUME MQP!IndInv, NEW o, MQ!RemoveOwner(o)
  PROVE  /\ MQP!IndInv' /\ UNCHANGED nextOwner /\ Live' \subseteq Live /\ Root \in Live'
         /\ DOMAIN events' \subseteq DOMAIN events
         /\ \A id \in DOMAIN events' : events'[id] = events[id] /\ origins'[id] = origins[id]
         /\ \A id \in DOMAIN events : origins[id] \in Live' => id \in DOMAIN events'
<1>. USE EnoughIds
<1>1. MQP!RemoveOwner(o)
  BY SameOperations
<1>2. o \in MQP!Live \ {MQP!Root}
  BY <1>1 DEF MQP!RemoveOwner
<1>3. MQP!IndInv'
  BY <1>1, <1>2, MQP!RemoveInv
<1>. QED  BY <1>1, <1>3, MQP!RemoveEffect DEF Live, MQ!Live, MQP!Live, Root, MQ!Root, MQP!Root

LEMMA ChildDoes ==
  ASSUME MQP!IndInv, NEW o, MQ!Child(o)
  PROVE  /\ MQP!IndInv' /\ nextOwner' = nextOwner + 1
         /\ Live' = Live \union {nextOwner} /\ UNCHANGED <<events, origins>>
<1>. USE EnoughIds
<1>1. MQP!Child(o)
  BY SameOperations
<1>2. o \in MQP!Live
  BY <1>1 DEF MQP!Child
<1>3. MQP!IndInv'
  BY <1>1, <1>2, MQP!ChildInv
<1>4. Live' = Live \union {nextOwner}
  BY <1>1 DEF MQP!Child, MQP!Live, Live, MQ!Live
<1>. QED  BY <1>1, <1>3, <1>4, MQP!ChildEffect

LEMMA DrainDoes ==
  ASSUME MQP!IndInv, NEW o, MQ!ProcessEvents(o)
  PROVE  /\ MQP!IndInv' /\ UNCHANGED nextOwner /\ Live' = Live
         /\ \E ids \in Seq(Nat) :
              /\ MQ!IsAscending(ids) /\ Range(ids) \subseteq DOMAIN events
              /\ drained' = [i \in DOMAIN ids |-> events[ids[i]]]
              /\ DOMAIN events' = DOMAIN events \ Range(ids)
              /\ \A id \in DOMAIN events' : events'[id] = events[id] /\ origins'[id] = origins[id]
              /\ \A i, j \in DOMAIN events :
                   origins[i] = origins[j] /\ i \in Range(ids) => j \in Range(ids)
<1>. USE EnoughIds
<1>1. MQP!ProcessEvents(o)
  BY SameOperations
<1>2. o \in MQP!Live
  BY <1>1 DEF MQP!ProcessEvents
<1>3. MQP!IndInv'
  BY <1>1, <1>2, MQP!ProcessInv
<1>4. Live' = Live /\ UNCHANGED nextOwner
  BY <1>1, MQP!DrainEffect DEF Live, MQ!Live, MQP!Live
<1>5. \A s : Range(s) = MQP!Range(s)
  BY DEF Range, MQP!Range
<1>6. \A s : MQ!IsAscending(s) <=> MQP!IsAscending(s)
  BY SameSequences
<1>. QED  BY <1>1, <1>3, <1>4, <1>5, <1>6, MQP!DrainEffect

LEMMA QueuesAlone ==
  ASSUME MQP!IndInv, UNCHANGED queueVars
  PROVE  MQP!IndInv' /\ Live' = Live
<1>1. MQP!vars' = MQP!vars
  BY DEF queueVars, MQP!vars
<1>2. MQP!IndInv'
  BY <1>1, EnoughIds, MQP!StepInv
<1>. QED  BY <1>2 DEF queueVars, Live, MQ!Live

(* A pending event is an event, and its owner is live. *)
LEMMA Pending ==
  ASSUME MQP!IndInv
  PROVE  /\ nextOwner \in Nat /\ nextOwner <= MaxOwner /\ Root \in Live
         /\ Live \subseteq OwnerIds /\ \A o \in Live : o < nextOwner
         /\ \A id \in DOMAIN events : id \in Nat /\ events[id] \in Event /\ origins[id] \in Live
<1>1. MQP!TypeOK
  BY DEF MQP!IndInv
<1>. QED  BY <1>1, EnoughIds DEF MQP!TypeOK, MQP!Live, MQP!Root, Live, MQ!Live, Root, MQ!Root, OwnerIds

LEMMA EventForms ==
  /\ \A e \in Event : e.kind = "post" => e = Post(e.n) /\ e.n \in 1..MaxPost
  /\ \A e \in Event : e.kind = "signal" => e = Signal(e.n) /\ e.n \in SignalNo
  /\ \A n \in 1..MaxPost : Post(n) \in Event
  /\ \A g \in SignalNo : Signal(g) \in Event
  /\ \A n : Post(n).kind = "post" /\ Post(n).n = n
  /\ \A g : Signal(g).kind = "signal" /\ Signal(g).n = g
  /\ Frame \in Event /\ Frame.kind = "frame"
<1>1. \A n : Post(n).kind = "post" /\ Post(n).n = n
  BY DEF Post
<1>2. \A g : Signal(g).kind = "signal" /\ Signal(g).n = g
  BY DEF Signal
<1>3. Frame.kind = "frame"
  BY DEF Frame
<1>4. ASSUME NEW e \in Event
      PROVE  \/ \E n \in 1..MaxPost : e = Post(n)
             \/ \E g \in SignalNo : e = Signal(g)
             \/ e = Frame
  BY <1>4 DEF Event
<1>5. ASSUME NEW e \in Event, e.kind = "post"
      PROVE  e = Post(e.n) /\ e.n \in 1..MaxPost
  BY <1>1, <1>2, <1>3, <1>4, <1>5
<1>6. ASSUME NEW e \in Event, e.kind = "signal"
      PROVE  e = Signal(e.n) /\ e.n \in SignalNo
  BY <1>1, <1>2, <1>3, <1>4, <1>6
<1>7. Frame \in Event /\ \A n \in 1..MaxPost : Post(n) \in Event
  BY DEF Event
<1>8. \A g \in SignalNo : Signal(g) \in Event
  BY DEF Event
<1>. QED  BY <1>1, <1>2, <1>3, <1>5, <1>6, <1>7, <1>8
-----------------------------------------------------------------------------
(* The kinds of step: what they do to the work on its way to its callback *)

OffPath == <<inbox, post, taken, batch, done>>

Quiet == UNCHANGED <<queueVars, OffPath>>
Pushes(o, fast) ==
  /\ Len(post) < MaxPost /\ o < nextOwner
  /\ post' = Append(post, [owner |-> o, fast |-> fast])
  /\ inbox' = PushedWork(inbox, o, Len(post) + 1)
  /\ UNCHANGED <<queueVars, taken, batch, done>>
Takes ==
  /\ taken = NoWork /\ taken' = inbox /\ inbox' = NoWork
  /\ UNCHANGED <<queueVars, post, batch, done>>
RunsFast ==
  /\ taken.order # <<>> /\ post[NextWork(taken)].fast
  /\ done' = Append(done, NextWork(taken)) /\ taken' = Popped(taken, NextOwner(taken))
  /\ UNCHANGED <<queueVars, inbox, post, batch>>
Forwards ==
  /\ taken.order # <<>> /\ ~post[NextWork(taken)].fast
  /\ MQ!Put(NextOwner(taken), Post(NextWork(taken)))
  /\ taken' = Popped(taken, NextOwner(taken))
  /\ UNCHANGED <<inbox, post, batch, done>>
Drops ==
  /\ taken.order = <<>> \/ (~post[NextWork(taken)].fast /\ NextOwner(taken) \notin Live)
  /\ taken' = NoWork /\ UNCHANGED <<queueVars, inbox, post, batch, done>>
Notes(e) == e.kind # "post" /\ MQ!Put(Root, e) /\ UNCHANGED OffPath
Adds(o) == MQ!Child(o) /\ UNCHANGED OffPath
Removal(o) == Removes /\ batch = <<>> /\ MQ!RemoveOwner(o) /\ UNCHANGED OffPath
Drains(o) ==
  /\ batch = <<>> /\ MQ!ProcessEvents(o) /\ batch' = drained'
  /\ UNCHANGED <<inbox, post, taken, done>>
Calls ==
  /\ batch # <<>> /\ batch' = Tail(batch)
  /\ done' = IF Head(batch).kind = "post" THEN Append(done, Head(batch).n) ELSE done
  /\ UNCHANGED <<queueVars, inbox, post, taken>>

StepKind ==
  \/ Quiet \/ Takes \/ RunsFast \/ Forwards \/ Drops \/ Calls
  \/ \E o \in OwnerIds : Pushes(o, TRUE) \/ Pushes(o, FALSE)
  \/ \E e \in Event : Notes(e)
  \/ \E o : Adds(o) \/ Removal(o) \/ Drains(o)

LEMMA StepKinds ==
  ASSUME Staged, [Next]_vars
  PROVE  StepKind
<1>. USE DEF OffPath, postVars, kernelVars, stopVars, loopVars
<1>1. CASE UNCHANGED vars
  BY <1>1 DEF vars, StepKind, Quiet, queueVars
<1>2. CASE Produce
  <2>1. ASSUME NEW t \in Poster, NEW o \in OwnerIds, PushDeferred(t, o)
        PROVE  Pushes(o, FALSE)
    BY <2>1 DEF PushDeferred, Pushes
  <2>2. ASSUME NEW t \in Poster, WakeAfterPush(t) PROVE Quiet
    BY <2>2 DEF WakeAfterPush, Quiet
  <2>3. ASSUME NEW s \in Source, FrameArrives(s) PROVE Quiet
    BY <2>3 DEF FrameArrives, Quiet
  <2>4. ASSUME NEW g \in SignalNo, SignalArrives(g) PROVE Quiet
    BY <2>4 DEF SignalArrives, Quiet
  <2>5. StoreStop \/ WakeAfterStop => Quiet
    BY DEF StoreStop, WakeAfterStop, Quiet
  <2>. QED  BY <1>2, <2>1, <2>2, <2>3, <2>4, <2>5 DEF Produce, StepKind
<1>3. CASE Host
  <2>1. ASSUME NEW o \in OwnerIds, PushFast(o) PROVE Pushes(o, TRUE)
    BY <2>1 DEF PushFast, Pushes
  <2>2. ASSUME NEW o \in OwnerIds, HostChild(o) PROVE Adds(o)
    BY <2>2 DEF HostChild, Adds
  <2>3. ASSUME NEW o \in OwnerIds, HostRemove(o) PROVE Removal(o)
    BY <2>3 DEF HostRemove, Removal, Staged
  <2>4. ASSUME NEW o \in OwnerIds, NEW m \in Modes, HostPumps(m, o) PROVE Quiet
    BY <2>4 DEF HostPumps, Quiet
  <2>. QED  BY <1>3, <2>1, <2>2, <2>3, <2>4 DEF Host, StepKind
<1>4. CASE LoopStep
  <2>1. Returns \/ Iterates \/ TargetUnknown \/ PollReturns => Quiet
    BY DEF Returns, Iterates, TargetUnknown, PollReturns, Goto, Quiet
  <2>2. TakeInbox => Takes
    BY DEF TakeInbox, Takes, Staged
  <2>3. TransferFast => RunsFast
    BY DEF TransferFast, RunsFast
  <2>4. TransferDeferred => Forwards
    BY DEF TransferDeferred, Forwards
  <2>5. TransferFails \/ TransferDone => Drops
    BY DEF TransferFails, TransferDone, Drops
  <2>6. ASSUME NEW g \in SignalNo, QueueSignal(g)
        PROVE  Signal(g) \in Event /\ Notes(Signal(g))
    BY <2>6, EventForms DEF QueueSignal, Notes
  <2>7. ASSUME NEW s \in Source, ReadFrame(s)
        PROVE  Frame \in Event /\ Notes(Frame)
    BY <2>7, EventForms DEF ReadFrame, Notes
  <2>8. ASSUME NEW s \in Source, ReadFails(s) PROVE Quiet
    BY <2>8 DEF ReadFails, Quiet
  <2>9. ASSUME NEW s \in Source, NEW o \in OwnerIds, ReadRemoves(s, o) PROVE Removal(o)
    BY <2>9 DEF ReadRemoves, Removal, Staged
  <2>10. TokenDone \/ DispatchDone \/ IterationDone => Quiet
    BY DEF TokenDone, DispatchDone, IterationDone, Goto, Quiet
  <2>11. DrainTarget => Drains(target)
    BY DEF DrainTarget, Drains, Staged
  <2>12. RunCallback => Calls
    BY DEF RunCallback, Calls
  <2>. QED  BY <1>4, <2>1, <2>2, <2>3, <2>4, <2>5, <2>6, <2>7, <2>8, <2>9, <2>10, <2>11, <2>12
            DEF LoopStep, StepKind
<1>5. CASE PollExpires
  BY <1>5 DEF PollExpires, Goto, Quiet, StepKind
<1>. QED  BY <1>1, <1>2, <1>3, <1>4, <1>5 DEF Next

LEMMA StagedStep ==
  ASSUME Staged, [Next]_vars
  PROVE  Staged'
<1>. USE DEF postVars, kernelVars, stopVars, loopVars, Staged
<1>1. CASE UNCHANGED vars
  BY <1>1 DEF vars
<1>2. CASE Produce
  BY <1>2 DEF Produce, PushDeferred, WakeAfterPush, FrameArrives, SignalArrives, StoreStop,
              WakeAfterStop
<1>3. CASE Host
  BY <1>3 DEF Host, PushFast, HostChild, HostRemove, HostPumps
<1>4. CASE LoopStep
  <2>1. Returns \/ Iterates \/ TargetUnknown \/ PollReturns => Staged'
    BY DEF Returns, Iterates, TargetUnknown, PollReturns, Goto
  <2>2. TakeInbox \/ TransferFast \/ TransferDeferred \/ TransferFails \/ TransferDone => Staged'
    BY DEF TakeInbox, TransferFast, TransferDeferred, TransferFails, TransferDone, Goto
  <2>3. \A g : QueueSignal(g) => Staged'
    BY DEF QueueSignal
  <2>4. \A s, o : ReadFrame(s) \/ ReadFails(s) \/ ReadRemoves(s, o) => Staged'
    BY DEF ReadFrame, ReadFails, ReadRemoves, Goto
  <2>5. TokenDone \/ DispatchDone \/ DrainTarget \/ RunCallback \/ IterationDone => Staged'
    BY DEF TokenDone, DispatchDone, DrainTarget, RunCallback, IterationDone, Goto
  <2>. QED  BY <1>4, <2>1, <2>2, <2>3, <2>4, <2>5 DEF LoopStep
<1>5. CASE PollExpires
  BY <1>5 DEF PollExpires, Goto
<1>. QED  BY <1>1, <1>2, <1>3, <1>4, <1>5 DEF Next
-----------------------------------------------------------------------------
(* Ascending sequences, and the stages of the work *)

LEMMA AppendAscending ==
  ASSUME NEW s \in Seq(Nat), NEW n \in Nat
  PROVE  /\ Range(Append(s, n)) = Range(s) \union {n}
         /\ MQ!IsAscending(s) /\ (\A m \in Range(s) : m < n) => MQ!IsAscending(Append(s, n))
<1>. DEFINE t == Append(s, n)
<1>1. /\ Len(s) \in Nat /\ DOMAIN s = 1..Len(s) /\ DOMAIN t = 1..(Len(s) + 1)
      /\ t[Len(s) + 1] = n /\ \A i \in 1..Len(s) : t[i] = s[i] /\ s[i] \in Nat
  OBVIOUS
<1>. HIDE DEF t
<1>2. Range(t) = Range(s) \union {n}
  BY <1>1 DEF Range
<1>3. ASSUME MQ!IsAscending(s), \A m \in Range(s) : m < n
      PROVE  MQ!IsAscending(t)
  <2>1. \A i \in 1..Len(s) : s[i] < n
    BY <1>1, <1>3 DEF Range
  <2>. QED  BY <1>1, <1>3, <2>1 DEF MQ!IsAscending
<1>. QED  BY <1>2, <1>3 DEF t

LEMMA TailAscending ==
  ASSUME NEW s \in Seq(Nat), s # <<>>
  PROVE  /\ Head(s) \in Range(s) /\ Range(Tail(s)) \subseteq Range(s) /\ Range(s) \subseteq Nat
         /\ MQ!IsAscending(s) => /\ MQ!IsAscending(Tail(s))
                                 /\ \A m \in Range(Tail(s)) : Head(s) < m
<1>. DEFINE t == Tail(s)
<1>1. /\ Len(s) \in Nat \ {0} /\ DOMAIN s = 1..Len(s) /\ Len(t) = Len(s) - 1 /\ DOMAIN t = 1..Len(t)
      /\ Head(s) = s[1] /\ (\A i \in 1..Len(t) : t[i] = s[i + 1]) /\ \A i \in 1..Len(s) : s[i] \in Nat
  OBVIOUS
<1>. HIDE DEF t
<1>2. Head(s) \in Range(s) /\ Range(s) \subseteq Nat
  BY <1>1 DEF Range
<1>3. Range(t) \subseteq Range(s)
  <2>. SUFFICES ASSUME NEW i \in 1..Len(t) PROVE t[i] \in Range(s)
    BY <1>1, Zenon DEF Range
  <2>1. i + 1 \in 1..Len(s)
    BY <1>1
  <2>2. t[i] = s[i + 1] /\ i + 1 \in DOMAIN s
    BY <1>1, <2>1, Zenon
  <2>. QED  BY <2>2, Zenon DEF Range
<1>4. ASSUME MQ!IsAscending(s)
      PROVE  MQ!IsAscending(t) /\ \A m \in Range(t) : Head(s) < m
  <2>1. ASSUME NEW i \in 1..Len(t) PROVE s[1] < t[i]
    <3>1. 1 \in DOMAIN s /\ i + 1 \in DOMAIN s /\ 1 < i + 1 /\ t[i] = s[i + 1]
      BY <1>1
    <3>. QED  BY <1>4, <3>1 DEF MQ!IsAscending
  <2>2. ASSUME NEW i \in 1..Len(t), NEW j \in 1..Len(t), i < j PROVE t[i] < t[j]
    <3>1. /\ i + 1 \in DOMAIN s /\ j + 1 \in DOMAIN s /\ i + 1 < j + 1
          /\ t[i] = s[i + 1] /\ t[j] = s[j + 1]
      BY <1>1, <2>2
    <3>. QED  BY <1>4, <3>1 DEF MQ!IsAscending
  <2>3. MQ!IsAscending(t)
    BY <1>1, <2>2 DEF MQ!IsAscending
  <2>. QED  BY <1>1, <2>1, <2>3 DEF Range
<1>. QED  BY <1>2, <1>3, <1>4 DEF t

LEMMA NothingAscending == MQ!IsAscending(<<>>) /\ Range(<<>>) = {} /\ Sorted(NoWork)
BY DEF MQ!IsAscending, Range, Sorted, NoWork

(* Work that goes leaves the rest in line. *)
LEMMA ChainShrinks ==
  ASSUME NEW a, NEW b, NEW c, NEW d, NEW e, Chain(a, b, c, d, e),
         NEW a1 \in SUBSET a, NEW b1 \in SUBSET b, NEW c1 \in SUBSET c, NEW d1 \in SUBSET d,
         NEW e1 \in SUBSET e
  PROVE  Chain(a1, b1, c1, d1, e1)
BY DEF Chain, Below

(* The newest item queues up behind all others. *)
LEMMA ChainGrows ==
  ASSUME NEW a, NEW b, NEW c, NEW d, NEW e, Chain(a, b, c, d, e),
         NEW n, \A m \in a \union b \union c \union d : m < n
  PROVE  Chain(a, b, c, d, e \union {n})
BY DEF Chain, Below

LEMMA PostForms ==
  ASSUME Shape, NEW n \in DOMAIN post
  PROVE  post[n].owner \in OwnerIds /\ post[n].fast \in BOOLEAN /\ post[n].owner < nextOwner
<1>. DEFINE Item == [owner : OwnerIds, fast : BOOLEAN]
<1>1. post \in Seq(Item)
  BY DEF Shape
<1>2. post[n] \in Item
  <2>. HIDE DEF Item
  <2>. QED  BY <1>1
<1>. QED  BY <1>2 DEF Shape

(* An item on its way is one that was posted. *)
LEMMA StagesPosted ==
  ASSUME Flow, NEW o \in OwnerIds
  PROVE  /\ Executed(o) \subseteq DOMAIN post /\ Running(o) \subseteq DOMAIN post
         /\ Held(o) \subseteq DOMAIN post /\ InTransfer(o) \subseteq DOMAIN post
         /\ InInbox(o) \subseteq DOMAIN post /\ DOMAIN post \subseteq 1..MaxPost
         /\ Chain(Executed(o), Running(o), Held(o), InTransfer(o), InInbox(o))
<1>1. Len(post) \in Nat /\ Len(post) <= MaxPost /\ DOMAIN post = 1..Len(post) /\ MaxPost \in Nat
  BY EnoughIds DEF Flow, Shape
<1>2. DOMAIN post \subseteq 1..MaxPost
  BY <1>1
<1>3. InTransfer(o) \subseteq DOMAIN post /\ InInbox(o) \subseteq DOMAIN post
  BY DEF Flow, Faithful, OwnedBy, InTransfer, InInbox
<1>4. Executed(o) \subseteq DOMAIN post /\ Running(o) \subseteq DOMAIN post /\ Held(o) \subseteq DOMAIN post
  BY DEF Executed, Deferred, Running, Held
<1>. QED  BY <1>2, <1>3, <1>4 DEF Flow, InLine

(* What is held back of an owner is what has that origin. *)
LEMMA HeldForms ==
  ASSUME Flow
  PROVE  /\ \A id \in DOMAIN events : events[id].kind = "post" =>
              /\ events[id] = Post(events[id].n) /\ events[id].n \in DOMAIN post
              /\ post[events[id].n].owner = origins[id] /\ events[id].n \in Held(origins[id])
         /\ \A o, n : n \in Held(o) => \E id \in DOMAIN events :
              events[id] = Post(n) /\ events[id].kind = "post" /\ events[id].n = n /\ origins[id] = o
<1>1. ASSUME NEW id \in DOMAIN events, events[id].kind = "post"
      PROVE  /\ events[id] = Post(events[id].n) /\ events[id].n \in DOMAIN post
             /\ post[events[id].n].owner = origins[id] /\ events[id].n \in Held(origins[id])
  <2>1. events[id] \in Event
    BY Pending DEF Flow
  <2>2. events[id] = Post(events[id].n)
    BY <1>1, <2>1, EventForms
  <2>3. events[id].n \in DOMAIN post /\ post[events[id].n].owner = origins[id]
    BY <1>1 DEF Flow, Faithful, Deferred
  <2>4. Post(events[id].n) \in Queued
    BY <2>2 DEF Queued
  <2>. QED  BY <2>2, <2>3, <2>4 DEF Held
<1>2. ASSUME NEW o, NEW n \in Held(o)
      PROVE  \E id \in DOMAIN events :
               events[id] = Post(n) /\ events[id].kind = "post" /\ events[id].n = n /\ origins[id] = o
  <2>1. PICK id \in DOMAIN events : events[id] = Post(n)
    BY DEF Held, Queued
  <2>2. events[id].kind = "post" /\ events[id].n = n
    BY <2>1, EventForms
  <2>3. origins[id] = o
    BY <1>1, <2>2 DEF Held
  <2>. QED  BY <2>1, <2>2, <2>3
<1>. QED  BY <1>1, <1>2

LEMMA AppendedInOrder ==
  ASSUME RunsInPostOrder, done \in Seq(Nat), NEW n \in Nat, UNCHANGED post, done' = Append(done, n),
         post[n].fast \/ \A m \in Range(done) :
           ~post[m].fast /\ post[m].owner = post[n].owner => m < n
  PROVE  RunsInPostOrder'
<1>1. /\ Len(done) \in Nat /\ DOMAIN done = 1..Len(done) /\ DOMAIN done' = 1..(Len(done) + 1)
      /\ done'[Len(done) + 1] = n /\ \A i \in 1..Len(done) : done'[i] = done[i]
  OBVIOUS
<1>2. \A i \in 1..Len(done) : done[i] \in Range(done)
  BY <1>1 DEF Range
<1>3. ASSUME NEW i \in DOMAIN done', NEW j \in DOMAIN done', i < j,
             ~post[done'[i]].fast, ~post[done'[j]].fast, post[done'[i]].owner = post[done'[j]].owner
      PROVE  done'[i] < done'[j]
  <2>1. i \in 1..Len(done)
    BY <1>1, <1>3
  <2>2. CASE j = Len(done) + 1
    BY <1>1, <1>2, <1>3, <2>1, <2>2
  <2>3. CASE j # Len(done) + 1
    <3>1. j \in 1..Len(done)
      BY <1>1, <2>3
    <3>. QED  BY <1>1, <1>3, <2>1, <3>1 DEF RunsInPostOrder
  <2>. QED  BY <2>2, <2>3
<1>. QED  BY <1>3 DEF RunsInPostOrder
-----------------------------------------------------------------------------
(* Every kind of step keeps the work in line *)

(* A step of the queues that brings in no deferred work. *)
LEMMA QueuesKeep ==
  ASSUME Flow, UNCHANGED OffPath, MQP!IndInv', nextOwner <= nextOwner',
         Live \subseteq Live' \/ batch = <<>>,
         \A id \in DOMAIN events' :
           \/ id \in DOMAIN events /\ events'[id] = events[id] /\ origins'[id] = origins[id]
           \/ events'[id].kind # "post" /\ origins'[id] = Root
  PROVE  Flow'
<1>. USE DEF OffPath
<1>1. nextOwner \in Nat /\ nextOwner' \in Nat
  <2>1. MQP!TypeOK /\ MQP!TypeOK'
    BY DEF Flow, MQP!IndInv
  <2>2. nextOwner \in 1..MaxOwner /\ nextOwner' \in 1..MaxOwner
    BY <2>1, Zenon DEF MQP!TypeOK
  <2>. QED  BY ONLY <2>2, EnoughIds
<1>2. Shape'
  <2>1. \A n \in DOMAIN post : post[n].owner < nextOwner'
    <3>1. ASSUME NEW n \in DOMAIN post PROVE post[n].owner \in OwnerIds /\ post[n].owner < nextOwner
      BY PostForms DEF Flow
    <3>. QED  BY <1>1, <3>1, EnoughIds DEF OwnerIds
  <2>. QED  BY <2>1 DEF Flow, Shape, Matched, At
<1>3. Faithful'
  <2>1. \A n, o : Deferred(n, o)' <=> Deferred(n, o)
    BY DEF Deferred
  <2>2. OwnedBy(inbox)' /\ OwnedBy(taken)' /\ (Range(done) \subseteq DOMAIN post)'
    BY DEF Flow, Faithful, OwnedBy
  <2>3. ASSUME NEW i \in DOMAIN batch, batch[i].kind = "post"
        PROVE  Deferred(batch[i].n, post[batch[i].n].owner) /\ post[batch[i].n].owner \in Live'
    BY <2>3 DEF Flow, Faithful
  <2>4. ASSUME NEW id \in DOMAIN events'
        PROVE  /\ events'[id].kind = "post" => Deferred(events'[id].n, origins'[id])
               /\ events'[id].kind = "signal" => origins'[id] = Root
    BY DEF Flow, Faithful
  <2>. QED  BY <2>2, <2>3, <2>4 DEF Faithful, Deferred
<1>4. InLine'
  <2>1. ASSUME NEW o \in OwnerIds
        PROVE  Chain(Executed(o), Running(o), Held(o), InTransfer(o), InInbox(o))'
    <3>1. Executed(o)' = Executed(o) /\ Running(o)' = Running(o)
      BY DEF Executed, Deferred, Running
    <3>2. InTransfer(o)' = InTransfer(o) /\ InInbox(o)' = InInbox(o)
      BY DEF InTransfer, InInbox
    <3>3. Held(o)' \subseteq Held(o)
      <4>1. ASSUME NEW n, Post(n) \in Queued' PROVE Post(n) \in Queued
        <5>1. PICK id \in DOMAIN events' : events'[id] = Post(n)
          BY <4>1 DEF Queued
        <5>2. events'[id].kind = "post"
          BY <5>1, EventForms
        <5>. QED  BY <5>1, <5>2 DEF Queued
      <4>. QED  BY <4>1 DEF Held
    <3>4. Chain(Executed(o), Running(o), Held(o), InTransfer(o), InInbox(o))
      BY DEF Flow, InLine
    <3>5. Chain(Executed(o)', Running(o)', Held(o)', InTransfer(o)', InInbox(o)')
      BY <3>1, <3>2, <3>3, <3>4, ChainShrinks
    <3>. QED  BY <3>5 DEF Chain, Below
  <2>2. HeldInOrder'
    BY DEF Flow, InLine, HeldInOrder
  <2>3. Sorted(inbox)' /\ Sorted(taken)' /\ BatchInOrder' /\ RunsInPostOrder'
    BY DEF Flow, InLine, Sorted, MQ!IsAscending, BatchInOrder, RunsInPostOrder
  <2>. QED  BY <2>1, <2>2, <2>3 DEF InLine
<1>. QED  BY <1>2, <1>3, <1>4 DEF Flow

LEMMA QuietKeeps ==
  ASSUME Flow, Quiet PROVE Flow'
<1>1. MQP!IndInv /\ UNCHANGED queueVars
  BY DEF Flow, Quiet
<1>2. MQP!IndInv' /\ Live' = Live
  BY <1>1, QueuesAlone
<1>3. nextOwner' = nextOwner /\ events' = events /\ origins' = origins /\ UNCHANGED OffPath
  BY DEF Quiet, queueVars
<1>4. nextOwner \in Nat
  BY <1>1, Pending
<1>. QED  BY <1>2, <1>3, <1>4, QueuesKeep

LEMMA NotesKeeps ==
  ASSUME Flow, NEW e \in Event, Notes(e) PROVE Flow'
<1>1. MQP!IndInv /\ MQ!Put(Root, e) /\ e.kind # "post" /\ UNCHANGED OffPath
  BY DEF Flow, Notes
<1>2. /\ MQP!IndInv' /\ nextOwner' = nextOwner /\ Live' = Live
      /\ DOMAIN events' = DOMAIN events \union {nextEvent}
      /\ events'[nextEvent] = e /\ origins'[nextEvent] = Root
      /\ \A id \in DOMAIN events : events'[id] = events[id] /\ origins'[id] = origins[id]
  BY <1>1, PutDoes
<1>3. nextOwner \in Nat
  BY <1>1, Pending
<1>. QED  BY <1>1, <1>2, <1>3, QueuesKeep

LEMMA AddsKeeps ==
  ASSUME Flow, NEW o, Adds(o) PROVE Flow'
<1>1. MQP!IndInv /\ MQ!Child(o) /\ UNCHANGED OffPath
  BY DEF Flow, Adds
<1>2. /\ MQP!IndInv' /\ nextOwner' = nextOwner + 1 /\ Live \subseteq Live'
      /\ events' = events /\ origins' = origins
  BY <1>1, ChildDoes
<1>3. nextOwner \in Nat
  BY <1>1, Pending
<1>. QED  BY <1>1, <1>2, <1>3, QueuesKeep

LEMMA RemovalKeeps ==
  ASSUME Flow, NEW o, Removal(o) PROVE Flow'
<1>1. MQP!IndInv /\ MQ!RemoveOwner(o) /\ batch = <<>> /\ UNCHANGED OffPath
  BY DEF Flow, Removal
<1>2. /\ MQP!IndInv' /\ nextOwner' = nextOwner /\ DOMAIN events' \subseteq DOMAIN events
      /\ \A id \in DOMAIN events' : events'[id] = events[id] /\ origins'[id] = origins[id]
  BY <1>1, RemoveDoes
<1>3. nextOwner \in Nat
  BY <1>1, Pending
<1>. QED  BY <1>1, <1>2, <1>3, QueuesKeep

(* What is at the head of a transfer. *)
LEMMA NextForms ==
  ASSUME Flow, taken.order # <<>>
  PROVE  LET o == NextOwner(taken)
             n == NextWork(taken)
         IN /\ o \in OwnerIds /\ n \in DOMAIN post /\ n \in 1..MaxPost /\ n \in Nat
            /\ post[n].owner = o /\ n \in InTransfer(o)
            /\ Popped(taken, o) \in Works /\ Matched(Popped(taken, o))
            /\ taken.channels[o] \in Seq(Nat) /\ taken.channels[o] # <<>>
            /\ Head(taken.channels[o]) = n /\ MQ!IsAscending(taken.channels[o])
            /\ \A m \in Range(Tail(taken.channels[o])) : n < m
            /\ \A c \in OwnerIds : /\ Range(Popped(taken, o).channels[c]) \subseteq InTransfer(c)
                                   /\ MQ!IsAscending(Popped(taken, o).channels[c])
            /\ Popped(taken, o).channels[o] = Tail(taken.channels[o])
<1>. DEFINE o == NextOwner(taken)
            n == NextWork(taken)
            s == taken.channels[o]
            p == Popped(taken, o)
<1>1. taken \in Works /\ Matched(taken) /\ Sorted(taken) /\ OwnedBy(taken)
  BY DEF Flow, Shape, InLine, Faithful
<1>2. o \in OwnerIds /\ s # <<>> /\ n \in Nat /\ p \in Works /\ Matched(p) /\ n = Head(s)
  BY <1>1, PoppedMatched DEF NextWork
<1>3. s \in Seq(Nat) /\ MQ!IsAscending(s) /\ taken.channels \in [OwnerIds -> Seq(Nat)]
  BY <1>1, <1>2 DEF Works, Sorted
<1>. HIDE DEF o, n, s
<1>4. /\ Head(s) \in Range(s) /\ Range(Tail(s)) \subseteq Range(s) /\ MQ!IsAscending(Tail(s))
      /\ \A m \in Range(Tail(s)) : Head(s) < m
  BY <1>2, <1>3, TailAscending
<1>5. n \in InTransfer(o) /\ Range(s) = InTransfer(o)
  BY <1>2, <1>4 DEF InTransfer, s
<1>6. n \in DOMAIN post /\ post[n].owner = o
  BY <1>1, <1>2, <1>5 DEF OwnedBy, InTransfer
<1>7. n \in 1..MaxPost
  BY <1>2, <1>6, StagesPosted
<1>8. p.channels = [taken.channels EXCEPT ![o] = Tail(@)]
  BY DEF Popped
<1>9. p.channels[o] = Tail(s)
  BY <1>2, <1>3, <1>8 DEF s
<1>10. ASSUME NEW c \in OwnerIds
       PROVE  Range(p.channels[c]) \subseteq InTransfer(c) /\ MQ!IsAscending(p.channels[c])
  <2>1. CASE c = o
    BY <1>4, <1>5, <1>9, <2>1
  <2>2. CASE c # o
    <3>1. p.channels[c] = taken.channels[c]
      BY <1>3, <1>8, <2>2
    <3>. QED  BY <1>1, <3>1 DEF Sorted, InTransfer
  <2>. QED  BY <2>1, <2>2
<1>. HIDE DEF p
<1>11. /\ o \in OwnerIds /\ n \in DOMAIN post /\ n \in 1..MaxPost /\ n \in Nat
       /\ post[n].owner = o /\ n \in InTransfer(o) /\ p \in Works /\ Matched(p)
       /\ s \in Seq(Nat) /\ s # <<>> /\ Head(s) = n /\ MQ!IsAscending(s)
       /\ (\A m \in Range(Tail(s)) : n < m) /\ p.channels[o] = Tail(s)
       /\ \A c \in OwnerIds : Range(p.channels[c]) \subseteq InTransfer(c) /\ MQ!IsAscending(p.channels[c])
  BY <1>2, <1>3, <1>4, <1>5, <1>6, <1>7, <1>9, <1>10
<1>. QED  BY <1>11 DEF o, n, s, p

(* Steps that leave the posts, the queues and the batch alone. *)
LEMMA TransferKeeps ==
  ASSUME Flow, UNCHANGED <<queueVars, post, batch>>,
         inbox' \in Works, taken' \in Works, Matched(inbox'), Matched(taken'),
         Sorted(inbox'), Sorted(taken'), OwnedBy(inbox'), OwnedBy(taken'),
         done' \in Seq(Nat), Range(done') \subseteq DOMAIN post, RunsInPostOrder',
         \A o \in OwnerIds : Executed(o)' = Executed(o)
                             /\ Chain(Executed(o), Running(o), Held(o),
                                      Range(taken'.channels[o]), Range(inbox'.channels[o]))
  PROVE  Flow'
<1>1. MQP!IndInv' /\ Live' = Live /\ events' = events /\ origins' = origins /\ nextOwner' = nextOwner
  <2>1. MQP!IndInv
    BY DEF Flow
  <2>. QED  BY <2>1, QueuesAlone DEF queueVars
<1>2. Shape'
  <2>1. Matched(inbox)' /\ Matched(taken)'
    BY DEF Matched, At
  <2>. QED  BY <1>1, <2>1 DEF Flow, Shape
<1>3. Faithful'
  <2>1. OwnedBy(inbox)' /\ OwnedBy(taken)'
    BY DEF OwnedBy
  <2>. QED  BY <1>1, <2>1 DEF Flow, Faithful, Deferred
<1>4. InLine'
  <2>1. ASSUME NEW o \in OwnerIds
        PROVE  Chain(Executed(o), Running(o), Held(o), InTransfer(o), InInbox(o))'
    <3>1. Running(o)' = Running(o) /\ Held(o)' = Held(o) /\ Executed(o)' = Executed(o)
      BY <1>1 DEF Running, Held, Queued
    <3>2. InTransfer(o)' = Range(taken'.channels[o]) /\ InInbox(o)' = Range(inbox'.channels[o])
      BY DEF InTransfer, InInbox
    <3>3. Chain(Executed(o)', Running(o)', Held(o)', InTransfer(o)', InInbox(o)')
      BY <3>1, <3>2
    <3>. QED  BY <3>3 DEF Chain, Below
  <2>2. HeldInOrder' /\ BatchInOrder'
    BY <1>1 DEF Flow, InLine, HeldInOrder, BatchInOrder
  <2>3. Sorted(inbox)' /\ Sorted(taken)'
    BY DEF Sorted, MQ!IsAscending
  <2>. QED  BY <2>1, <2>2, <2>3 DEF InLine
<1>. QED  BY <1>1, <1>2, <1>3, <1>4 DEF Flow

LEMMA NoWorkForms ==
  /\ NoWork \in Works /\ Matched(NoWork) /\ Sorted(NoWork) /\ OwnedBy(NoWork)
  /\ \A o \in OwnerIds : Range(NoWork.channels[o]) = {}
<1>1. \A o \in OwnerIds : Range(NoWork.channels[o]) = {}
  <2>1. \A o \in OwnerIds : NoWork.channels[o] = <<>>
    BY DEF NoWork
  <2>. QED  BY <2>1, NothingAscending
<1>. QED  BY <1>1, NoWorkMatched, NothingAscending DEF OwnedBy

LEMMA SameDone ==
  ASSUME Flow, UNCHANGED <<post, done>>
  PROVE  /\ done' \in Seq(Nat) /\ Range(done') \subseteq DOMAIN post /\ RunsInPostOrder'
         /\ \A o : Executed(o)' = Executed(o)
BY DEF Flow, Shape, Faithful, InLine, RunsInPostOrder, Executed, Deferred

LEMMA DropsKeeps ==
  ASSUME Flow, Drops PROVE Flow'
<1>1. /\ UNCHANGED <<queueVars, post, batch, done>> /\ inbox' = inbox /\ taken' = NoWork
      /\ inbox \in Works /\ Matched(inbox) /\ Sorted(inbox) /\ OwnedBy(inbox)
  BY DEF Drops, Flow, Shape, InLine, Faithful
<1>2. ASSUME NEW o \in OwnerIds
      PROVE  Chain(Executed(o), Running(o), Held(o), Range(taken'.channels[o]), Range(inbox'.channels[o]))
  <2>1. Range(taken'.channels[o]) = {} /\ Range(inbox'.channels[o]) = InInbox(o)
    BY <1>1, NoWorkForms DEF InInbox
  <2>2. Chain(Executed(o), Running(o), Held(o), InTransfer(o), InInbox(o))
    BY DEF Flow, InLine
  <2>. QED  BY <2>1, <2>2, ChainShrinks
<1>. QED  BY <1>1, <1>2, NoWorkForms, SameDone, TransferKeeps

LEMMA TakesKeeps ==
  ASSUME Flow, Takes PROVE Flow'
<1>1. /\ UNCHANGED <<queueVars, post, batch, done>> /\ inbox' = NoWork /\ taken' = inbox
      /\ inbox \in Works /\ Matched(inbox) /\ Sorted(inbox) /\ OwnedBy(inbox)
  BY DEF Takes, Flow, Shape, InLine, Faithful
<1>2. ASSUME NEW o \in OwnerIds
      PROVE  Chain(Executed(o), Running(o), Held(o), Range(taken'.channels[o]), Range(inbox'.channels[o]))
  <2>1. Range(taken'.channels[o]) = InInbox(o) /\ Range(inbox'.channels[o]) = {}
    BY <1>1, NoWorkForms DEF InInbox
  <2>2. Chain(Executed(o), Running(o), Held(o), InTransfer(o), InInbox(o))
    BY DEF Flow, InLine
  <2>. QED  BY <2>1, <2>2 DEF Chain, Below
<1>. QED  BY <1>1, <1>2, NoWorkForms, SameDone, TransferKeeps

LEMMA RunsFastKeeps ==
  ASSUME Flow, RunsFast PROVE Flow'
<1>. DEFINE n == NextWork(taken)
            o == NextOwner(taken)
<1>1. /\ UNCHANGED <<queueVars, post, batch>> /\ inbox' = inbox /\ taken' = Popped(taken, o)
      /\ inbox \in Works /\ Matched(inbox) /\ Sorted(inbox) /\ OwnedBy(inbox)
      /\ done' = Append(done, n) /\ post[n].fast /\ taken.order # <<>>
  BY DEF RunsFast, Flow, Shape, InLine, Faithful
<1>2. /\ o \in OwnerIds /\ n \in DOMAIN post /\ n \in Nat
      /\ Popped(taken, o) \in Works /\ Matched(Popped(taken, o))
      /\ \A c \in OwnerIds : /\ Range(Popped(taken, o).channels[c]) \subseteq InTransfer(c)
                             /\ MQ!IsAscending(Popped(taken, o).channels[c])
  BY <1>1, NextForms
<1>. HIDE DEF n, o
<1>3. Sorted(taken') /\ OwnedBy(taken')
  BY <1>1, <1>2 DEF Sorted, OwnedBy, InTransfer, Flow, Faithful
<1>4. done \in Seq(Nat) /\ RunsInPostOrder /\ Range(done) \subseteq DOMAIN post
  BY DEF Flow, Shape, InLine, Faithful
<1>5. done' \in Seq(Nat) /\ Range(done') = Range(done) \union {n}
  BY <1>1, <1>2, <1>4, AppendAscending
<1>6. RunsInPostOrder'
  BY <1>1, <1>2, <1>4, AppendedInOrder
<1>7. \A c : Executed(c)' = Executed(c)
  BY <1>1, <1>5 DEF Executed, Deferred
<1>8. ASSUME NEW c \in OwnerIds
      PROVE  Chain(Executed(c), Running(c), Held(c), Range(taken'.channels[c]), Range(inbox'.channels[c]))
  <2>1. Range(taken'.channels[c]) \subseteq InTransfer(c) /\ Range(inbox'.channels[c]) = InInbox(c)
    BY <1>1, <1>2 DEF InInbox
  <2>2. Chain(Executed(c), Running(c), Held(c), InTransfer(c), InInbox(c))
    BY DEF Flow, InLine
  <2>. QED  BY <2>1, <2>2, ChainShrinks
<1>. QED  BY <1>1, <1>2, <1>3, <1>4, <1>5, <1>6, <1>7, <1>8, TransferKeeps

LEMMA ForwardsKeeps ==
  ASSUME Flow, Forwards PROVE Flow'
<1>. DEFINE n == NextWork(taken)
            o == NextOwner(taken)
<1>1. /\ inbox' = inbox /\ post' = post /\ batch' = batch /\ done' = done
      /\ taken' = Popped(taken, o) /\ ~post[n].fast /\ taken.order # <<>>
      /\ MQ!Put(o, Post(n)) /\ MQP!IndInv
  BY DEF Forwards, Flow
<1>2. /\ o \in OwnerIds /\ n \in DOMAIN post /\ n \in 1..MaxPost /\ n \in Nat /\ post[n].owner = o
      /\ n \in InTransfer(o)
      /\ Popped(taken, o) \in Works /\ Matched(Popped(taken, o))
      /\ Popped(taken, o).channels[o] = Tail(taken.channels[o])
      /\ \A m \in Range(Tail(taken.channels[o])) : n < m
      /\ \A c \in OwnerIds : /\ Range(Popped(taken, o).channels[c]) \subseteq InTransfer(c)
                             /\ MQ!IsAscending(Popped(taken, o).channels[c])
  BY <1>1, NextForms
<1>. HIDE DEF n, o
<1>3. Post(n) \in Event
  BY <1>2, EventForms
<1>4. /\ MQP!IndInv' /\ nextOwner' = nextOwner /\ Live' = Live
      /\ \A id \in DOMAIN events : id \in Nat /\ id < nextEvent
      /\ nextEvent \in Nat /\ DOMAIN events' = DOMAIN events \union {nextEvent}
      /\ events'[nextEvent] = Post(n) /\ origins'[nextEvent] = o
      /\ \A id \in DOMAIN events : events'[id] = events[id] /\ origins'[id] = origins[id]
  BY <1>1, <1>3, PutDoes
<1>5. Shape'
  <2>1. Matched(inbox)' /\ Matched(taken)' /\ taken' \in Works
    BY <1>1, <1>2 DEF Flow, Shape, Matched, At
  <2>. QED  BY <1>1, <1>4, <2>1 DEF Flow, Shape
<1>6. Faithful'
  <2>1. OwnedBy(inbox)' /\ OwnedBy(taken)'
    BY <1>1, <1>2 DEF OwnedBy, Flow, Faithful, InTransfer
  <2>2. ASSUME NEW id \in DOMAIN events'
        PROVE  /\ events'[id].kind = "post" => Deferred(events'[id].n, origins'[id])
               /\ events'[id].kind = "signal" => origins'[id] = Root
    <3>1. CASE id \in DOMAIN events
      BY <1>4, <3>1 DEF Flow, Faithful
    <3>2. CASE id = nextEvent
      <4>1. events'[id].kind = "post" /\ events'[id].n = n /\ origins'[id] = o
        BY <1>4, <3>2, EventForms
      <4>. QED  BY <1>1, <1>2, <4>1 DEF Deferred
    <3>. QED  BY <1>4, <3>1, <3>2
  <2>. QED  BY <1>1, <1>4, <2>1, <2>2 DEF Flow, Faithful, Deferred
<1>7. \A c : Held(c)' = IF c = o THEN Held(c) \union {n} ELSE Held(c)
  <2>1. \A m : Post(m) \in Queued' <=> Post(m) \in Queued \/ m = n
    <3>1. ASSUME NEW m, m # n PROVE Post(m) # Post(n)
      BY <3>1, EventForms
    <3>. QED  BY <1>4, <3>1 DEF Queued
  <2>. QED  BY <1>1, <1>2, <2>1 DEF Held
<1>8. ASSUME NEW c \in OwnerIds
      PROVE  Chain(Executed(c), Running(c), Held(c), InTransfer(c), InInbox(c))'
  <2>1. Executed(c)' = Executed(c) /\ Running(c)' = Running(c) /\ InInbox(c)' = InInbox(c)
    BY <1>1 DEF Executed, Deferred, Running, InInbox
  <2>2. InTransfer(c)' \subseteq InTransfer(c)
    BY <1>1, <1>2 DEF InTransfer
  <2>3. Chain(Executed(c), Running(c), Held(c), InTransfer(c), InInbox(c))
    BY DEF Flow, InLine
  <2>4. Chain(Executed(c)', Running(c)', Held(c)', InTransfer(c)', InInbox(c)')
    <3>1. CASE c # o
      BY <1>7, <2>1, <2>2, <2>3, <3>1, ChainShrinks
    <3>2. CASE c = o
      <4>1. \A m \in InTransfer(c)' : n < m
        BY <1>1, <1>2, <3>2 DEF InTransfer
      <4>2. Held(c)' = Held(c) \union {n}
        BY <1>7, <3>2
      <4>. QED  BY <1>2, <2>1, <2>2, <2>3, <3>2, <4>1, <4>2 DEF Chain, Below
    <3>. QED  BY <3>1, <3>2
  <2>. QED  BY <2>4 DEF Chain, Below
<1>9. HeldInOrder'
  <2>1. ASSUME NEW i \in DOMAIN events', NEW j \in DOMAIN events', i < j,
               events'[i].kind = "post", events'[j].kind = "post", origins'[i] = origins'[j]
        PROVE  events'[i].n < events'[j].n
    <3>1. i \in DOMAIN events
      BY <1>4, <2>1
    <3>2. CASE j \in DOMAIN events
      BY <1>4, <2>1, <3>1, <3>2 DEF Flow, InLine, HeldInOrder
    <3>3. CASE j = nextEvent
      <4>1. events'[j].n = n /\ origins'[j] = o
        BY <1>4, <3>3, EventForms
      <4>2. events[i].n \in Held(o)
        BY <1>4, <2>1, <3>1, <4>1, HeldForms
      <4>3. Chain(Executed(o), Running(o), Held(o), InTransfer(o), InInbox(o))
        BY <1>2 DEF Flow, InLine
      <4>. QED  BY <1>2, <1>4, <3>1, <4>1, <4>2, <4>3 DEF Chain, Below
    <3>. QED  BY <1>4, <3>2, <3>3
  <2>. QED  BY <2>1 DEF HeldInOrder
<1>10. Sorted(inbox)' /\ Sorted(taken)' /\ BatchInOrder' /\ RunsInPostOrder'
  <2>1. Sorted(taken)'
    BY <1>1, <1>2 DEF Sorted, MQ!IsAscending
  <2>. QED  BY <1>1, <2>1 DEF Flow, InLine, Sorted, MQ!IsAscending, BatchInOrder, RunsInPostOrder
<1>. QED  BY <1>4, <1>5, <1>6, <1>8, <1>9, <1>10 DEF Flow, InLine

LEMMA PushesKeeps ==
  ASSUME Flow, NEW o \in OwnerIds, NEW fast \in BOOLEAN, Pushes(o, fast) PROVE Flow'
<1>. DEFINE N == Len(post) + 1
            Item == [owner : OwnerIds, fast : BOOLEAN]
            item == [owner |-> o, fast |-> fast]
<1>1. /\ Len(post) < MaxPost /\ o < nextOwner /\ post' = Append(post, item)
      /\ inbox' = PushedWork(inbox, o, N) /\ UNCHANGED queueVars
      /\ taken' = taken /\ batch' = batch /\ done' = done
      /\ inbox \in Works /\ Matched(inbox) /\ post \in Seq(Item) /\ MQP!IndInv
  BY DEF Pushes, Flow, Shape
<1>2. item \in Item /\ item.owner = o
  OBVIOUS
<1>. HIDE DEF item, Item
<1>3. /\ N \in Nat /\ N \notin DOMAIN post /\ DOMAIN post' = DOMAIN post \union {N}
      /\ \A n \in DOMAIN post : n \in Nat /\ n < N /\ post'[n] = post[n]
      /\ post'[N] = item /\ post' \in Seq(Item) /\ Len(post') = N
  BY <1>1, <1>2
<1>4. MQP!IndInv' /\ Live' = Live
  BY <1>1, QueuesAlone
<1>5. nextOwner' = nextOwner /\ events' = events /\ origins' = origins
  BY <1>1 DEF queueVars
<1>6. inbox' \in Works /\ Matched(inbox')
  BY <1>1, <1>3, PushedMatched
<1>7. \A c \in OwnerIds : inbox.channels[c] \in Seq(Nat)
                          /\ inbox'.channels[c] = IF c = o THEN Append(inbox.channels[c], N)
                                                           ELSE inbox.channels[c]
  BY <1>1 DEF PushedWork, Works
<1>. HIDE DEF N
<1>8. ASSUME NEW c \in OwnerIds
      PROVE  /\ Range(inbox'.channels[c]) = IF c = o THEN InInbox(c) \union {N} ELSE InInbox(c)
             /\ MQ!IsAscending(inbox'.channels[c])
  <2>1. inbox.channels[c] \in Seq(Nat) /\ MQ!IsAscending(inbox.channels[c])
    BY <1>7 DEF Flow, InLine, Sorted
  <2>2. \A m \in Range(inbox.channels[c]) : m < N
    BY <1>3, StagesPosted DEF InInbox
  <2>. QED  BY <1>3, <1>7, <2>1, <2>2, AppendAscending DEF InInbox
<1>9. Shape'
  <2>1. Matched(inbox)' /\ Matched(taken)'
    BY <1>1, <1>6 DEF Flow, Shape, Matched, At
  <2>2. \A n \in DOMAIN post' : post'[n].owner < nextOwner'
    BY <1>1, <1>2, <1>3, <1>5 DEF Flow, Shape
  <2>3. Len(post') <= MaxPost
    <3>1. Len(post) \in Nat /\ MaxPost \in Nat
      BY <1>1, EnoughIds
    <3>. QED  BY <1>1, <1>3, <3>1 DEF N
  <2>. QED  BY <1>1, <1>3, <1>6, <2>1, <2>2, <2>3 DEF Flow, Shape, Item
<1>10. Faithful'
  <2>1. ASSUME NEW c \in OwnerIds, NEW n \in Range(inbox'.channels[c])
        PROVE  n \in DOMAIN post' /\ post'[n].owner = c
    <3>1. CASE n \in InInbox(c)
      <4>1. n \in DOMAIN post /\ post[n].owner = c
        BY <3>1 DEF InInbox, OwnedBy, Flow, Faithful
      <4>. QED  BY <1>3, <4>1
    <3>2. CASE n \notin InInbox(c)
      <4>1. n = N /\ c = o
        BY <1>8, <3>2
      <4>. QED  BY <1>2, <1>3, <4>1
    <3>. QED  BY <3>1, <3>2
  <2>2. OwnedBy(taken)'
    BY <1>1, <1>3 DEF OwnedBy, Flow, Faithful
  <2>3. (Range(done) \subseteq DOMAIN post)'
    BY <1>1, <1>3 DEF Flow, Faithful
  <2>4. ASSUME NEW i \in DOMAIN batch, batch[i].kind = "post"
        PROVE  /\ batch[i].n \in DOMAIN post' /\ ~post'[batch[i].n].fast
               /\ post'[batch[i].n].owner \in Live'
    <3>1. Deferred(batch[i].n, post[batch[i].n].owner) /\ post[batch[i].n].owner \in Live
      BY <2>4 DEF Flow, Faithful
    <3>. QED  BY <1>1, <1>3, <1>4, <3>1 DEF Deferred
  <2>5. ASSUME NEW id \in DOMAIN events
        PROVE  /\ events[id].kind = "post" =>
                    /\ events[id].n \in DOMAIN post' /\ ~post'[events[id].n].fast
                    /\ post'[events[id].n].owner = origins[id]
               /\ events[id].kind = "signal" => origins[id] = Root
    BY <1>3 DEF Flow, Faithful, Deferred
  <2>6. OwnedBy(inbox)'
    BY <2>1 DEF OwnedBy
  <2>. QED  BY <1>1, <1>5, <2>2, <2>3, <2>4, <2>5, <2>6 DEF Faithful, Deferred
<1>11. ASSUME NEW c \in OwnerIds
       PROVE  Chain(Executed(c), Running(c), Held(c), InTransfer(c), InInbox(c))'
  <2>1. Executed(c)' = Executed(c)
    BY <1>1, <1>3 DEF Executed, Deferred, Flow, Faithful
  <2>2. Post(N) \notin Range(batch) /\ Post(N) \notin Queued
    <3>1. Post(N).kind = "post" /\ Post(N).n = N
      BY EventForms
    <3>2. \A i \in DOMAIN batch : batch[i].kind = "post" => batch[i].n \in DOMAIN post
      BY DEF Flow, Faithful, Deferred
    <3>3. \A id \in DOMAIN events : events[id].kind = "post" => events[id].n \in DOMAIN post
      BY DEF Flow, Faithful, Deferred
    <3>. QED  BY <1>3, <3>1, <3>2, <3>3 DEF Range, Queued
  <2>3. Running(c)' = Running(c) /\ Held(c)' = Held(c)
    BY <1>1, <1>3, <1>5, <2>2 DEF Running, Held, Queued
  <2>4. InTransfer(c)' = InTransfer(c) /\ InInbox(c)' \subseteq InInbox(c) \union {N}
    BY <1>1, <1>8 DEF InTransfer, InInbox
  <2>5. /\ Chain(Executed(c), Running(c), Held(c), InTransfer(c), InInbox(c))
        /\ \A m \in Executed(c) \union Running(c) \union Held(c) \union InTransfer(c) : m < N
    BY <1>3, StagesPosted
  <2>6. Chain(Executed(c), Running(c), Held(c), InTransfer(c), InInbox(c) \union {N})
    BY <2>5, ChainGrows
  <2>7. Chain(Executed(c)', Running(c)', Held(c)', InTransfer(c)', InInbox(c)')
    BY <2>1, <2>3, <2>4, <2>6, ChainShrinks
  <2>. QED  BY <2>7 DEF Chain, Below
<1>12. HeldInOrder' /\ Sorted(inbox)' /\ Sorted(taken)'
  <2>1. Sorted(inbox)'
    BY <1>8 DEF Sorted, MQ!IsAscending
  <2>. QED  BY <1>1, <1>5, <2>1 DEF Flow, InLine, HeldInOrder, Sorted, MQ!IsAscending
<1>13. BatchInOrder'
  <2>1. \A i \in DOMAIN batch : batch[i].kind = "post" => post'[batch[i].n] = post[batch[i].n]
    BY <1>3 DEF Flow, Faithful, Deferred
  <2>2. BatchInOrder /\ batch' = batch
    BY <1>1 DEF Flow, InLine
  <2>3. ASSUME NEW i \in DOMAIN batch, NEW j \in DOMAIN batch, i < j,
               batch[i].kind = "post", batch[j].kind = "post",
               post'[batch[i].n].owner = post'[batch[j].n].owner
        PROVE  batch[i].n < batch[j].n
    BY <2>1, <2>2, <2>3 DEF BatchInOrder
  <2>. QED  BY <2>2, <2>3 DEF BatchInOrder
<1>14. RunsInPostOrder'
  <2>1. \A i \in DOMAIN done : post'[done[i]] = post[done[i]]
    BY <1>3 DEF Flow, Faithful, Range
  <2>2. RunsInPostOrder /\ done' = done
    BY <1>1 DEF Flow, InLine
  <2>3. ASSUME NEW i \in DOMAIN done, NEW j \in DOMAIN done, i < j,
               ~post'[done[i]].fast, ~post'[done[j]].fast,
               post'[done[i]].owner = post'[done[j]].owner
        PROVE  done[i] < done[j]
    BY <2>1, <2>2, <2>3 DEF RunsInPostOrder
  <2>. QED  BY <2>2, <2>3 DEF RunsInPostOrder
<1>. QED  BY <1>4, <1>9, <1>10, <1>11, <1>12, <1>13, <1>14 DEF Flow, InLine

(* A drain takes all the deferred work of an owner or none of it. *)
LEMMA DrainsKeeps ==
  ASSUME Flow, NEW o, Drains(o) PROVE Flow'
<1>1. /\ inbox' = inbox /\ post' = post /\ taken' = taken /\ done' = done
      /\ batch = <<>> /\ batch' = drained' /\ MQ!ProcessEvents(o) /\ MQP!IndInv
  BY DEF Drains, Flow
<1>2. /\ MQP!IndInv' /\ nextOwner' = nextOwner /\ Live' = Live
      /\ \E ids \in Seq(Nat) :
           /\ MQ!IsAscending(ids) /\ Range(ids) \subseteq DOMAIN events
           /\ drained' = [i \in DOMAIN ids |-> events[ids[i]]]
           /\ DOMAIN events' = DOMAIN events \ Range(ids)
           /\ \A id \in DOMAIN events' : events'[id] = events[id] /\ origins'[id] = origins[id]
           /\ \A i, j \in DOMAIN events :
                origins[i] = origins[j] /\ i \in Range(ids) => j \in Range(ids)
  BY <1>1, DrainDoes
<1>3. PICK ids \in Seq(Nat) :
           /\ MQ!IsAscending(ids) /\ Range(ids) \subseteq DOMAIN events
           /\ drained' = [i \in DOMAIN ids |-> events[ids[i]]]
           /\ DOMAIN events' = DOMAIN events \ Range(ids)
           /\ \A id \in DOMAIN events' : events'[id] = events[id] /\ origins'[id] = origins[id]
           /\ \A i, j \in DOMAIN events :
                origins[i] = origins[j] /\ i \in Range(ids) => j \in Range(ids)
  BY <1>2
<1>4. /\ Len(ids) \in Nat /\ DOMAIN ids = 1..Len(ids)
      /\ DOMAIN batch' = DOMAIN ids
      /\ \A i \in DOMAIN ids : batch'[i] = events[ids[i]] /\ ids[i] \in DOMAIN events
                               /\ ids[i] \in Range(ids)
  <2>1. Len(ids) \in Nat /\ DOMAIN ids = 1..Len(ids)
    BY <1>3
  <2>2. \A i \in DOMAIN ids : ids[i] \in Range(ids)
    BY DEF Range
  <2>. QED  BY <1>1, <1>3, <2>1, <2>2
<1>5. \A id \in DOMAIN events : events[id] \in Event /\ origins[id] \in Live
  BY <1>1, Pending
<1>6. Shape'
  <2>1. batch' \in Seq(Event)
    <3>1. batch' = [i \in 1..Len(ids) |-> events[ids[i]]]
      BY <1>1, <1>3, <1>4
    <3>2. \A i \in 1..Len(ids) : events[ids[i]] \in Event
      BY <1>4, <1>5
    <3>. QED  BY <1>4, <3>1, <3>2
  <2>. QED  BY <1>1, <1>2, <2>1 DEF Flow, Shape, Matched, At
<1>7. \A i \in DOMAIN batch' : batch'[i].kind = "post" =>
        /\ batch'[i].n \in DOMAIN post /\ ~post[batch'[i].n].fast
        /\ post[batch'[i].n].owner = origins[ids[i]] /\ origins[ids[i]] \in Live
  BY <1>4, <1>5 DEF Flow, Faithful, Deferred
<1>8. Faithful'
  <2>1. OwnedBy(inbox)' /\ OwnedBy(taken)' /\ (Range(done) \subseteq DOMAIN post)'
    BY <1>1 DEF OwnedBy, Flow, Faithful
  <2>2. \A id \in DOMAIN events' :
          /\ events'[id].kind = "post" => Deferred(events'[id].n, origins'[id])
          /\ events'[id].kind = "signal" => origins'[id] = Root
    BY <1>3 DEF Flow, Faithful
  <2>. QED  BY <1>1, <1>2, <1>7, <2>1, <2>2 DEF Faithful, Deferred
<1>9. ASSUME NEW c, NEW n \in Running(c)'
      PROVE  n \in Held(c) /\ \E id \in Range(ids) : id \in DOMAIN events /\ origins[id] = c
  <2>1. PICK i \in DOMAIN batch' : batch'[i] = Post(n)
    BY <1>9 DEF Running, Range
  <2>2. events[ids[i]] = Post(n) /\ ids[i] \in Range(ids) /\ ids[i] \in DOMAIN events
    BY <1>4, <2>1
  <2>3. events[ids[i]].kind = "post" /\ events[ids[i]].n = n
    BY <2>2, EventForms
  <2>4. post[n].owner = c
    BY <1>1, <1>9 DEF Running
  <2>. QED  BY <2>2, <2>3, <2>4, HeldForms
<1>10. ASSUME NEW c, NEW n \in Held(c)'
       PROVE  n \in Held(c) /\ \E id \in DOMAIN events \ Range(ids) : origins[id] = c
  <2>1. PICK id \in DOMAIN events' : events'[id] = Post(n)
    BY <1>10 DEF Held, Queued
  <2>2. id \in DOMAIN events \ Range(ids) /\ events[id] = Post(n)
    BY <1>3, <2>1
  <2>3. events[id].kind = "post" /\ events[id].n = n
    BY <2>2, EventForms
  <2>4. post[n].owner = c
    BY <1>1, <1>10 DEF Held
  <2>. QED  BY <2>2, <2>3, <2>4, HeldForms
<1>11. ASSUME NEW c \in OwnerIds
       PROVE  Chain(Executed(c), Running(c), Held(c), InTransfer(c), InInbox(c))'
  <2>1. Executed(c)' = Executed(c) /\ InTransfer(c)' = InTransfer(c) /\ InInbox(c)' = InInbox(c)
    BY <1>1 DEF Executed, Deferred, InTransfer, InInbox
  <2>2. Running(c)' \subseteq Held(c) /\ Held(c)' \subseteq Held(c)
    BY <1>9, <1>10
  <2>3. Running(c)' = {} \/ Held(c)' = {}
    BY <1>3, <1>9, <1>10
  <2>4. Chain(Executed(c), Running(c), Held(c), InTransfer(c), InInbox(c))
    BY DEF Flow, InLine
  <2>5. Chain(Executed(c)', Running(c)', Held(c)', InTransfer(c)', InInbox(c)')
    BY <2>1, <2>2, <2>3, <2>4 DEF Chain, Below
  <2>. QED  BY <2>5 DEF Chain, Below
<1>12. HeldInOrder'
  BY <1>3 DEF Flow, InLine, HeldInOrder
<1>13. BatchInOrder'
  <2>1. ASSUME NEW i \in DOMAIN batch', NEW j \in DOMAIN batch', i < j,
               batch'[i].kind = "post", batch'[j].kind = "post",
               post[batch'[i].n].owner = post[batch'[j].n].owner
        PROVE  batch'[i].n < batch'[j].n
    <3>1. ids[i] < ids[j]
      BY <1>3, <1>4, <2>1 DEF MQ!IsAscending
    <3>2. origins[ids[i]] = origins[ids[j]]
      BY <1>7, <2>1
    <3>. QED  BY <1>4, <2>1, <3>1, <3>2 DEF Flow, InLine, HeldInOrder
  <2>. QED  BY <1>1, <2>1 DEF BatchInOrder
<1>14. Sorted(inbox)' /\ Sorted(taken)' /\ RunsInPostOrder'
  BY <1>1 DEF Flow, InLine, Sorted, MQ!IsAscending, RunsInPostOrder
<1>. QED  BY <1>2, <1>6, <1>8, <1>11, <1>12, <1>13, <1>14 DEF Flow, InLine

LEMMA CallsKeeps ==
  ASSUME Flow, Calls PROVE Flow'
<1>. DEFINE e == Head(batch)
<1>1. /\ UNCHANGED queueVars /\ inbox' = inbox /\ post' = post /\ taken' = taken
      /\ batch # <<>> /\ batch' = Tail(batch) /\ MQP!IndInv /\ batch \in Seq(Event)
      /\ done' = IF e.kind = "post" THEN Append(done, e.n) ELSE done
      /\ done \in Seq(Nat) /\ RunsInPostOrder /\ Range(done) \subseteq DOMAIN post
  BY DEF Calls, Flow, Shape, Faithful, InLine
<1>2. /\ Len(batch) \in Nat \ {0} /\ DOMAIN batch = 1..Len(batch) /\ batch' \in Seq(Event)
      /\ DOMAIN batch' = 1..(Len(batch) - 1) /\ e = batch[1] /\ e \in Event
      /\ \A i \in DOMAIN batch' : /\ batch'[i] = batch[i + 1] /\ i + 1 \in DOMAIN batch
                                  /\ 1 \in DOMAIN batch /\ 1 < i + 1
  BY <1>1
<1>. HIDE DEF e
<1>3. MQP!IndInv' /\ Live' = Live
  BY <1>1, QueuesAlone
<1>4. nextOwner' = nextOwner /\ events' = events /\ origins' = origins
  BY <1>1 DEF queueVars
<1>5. ASSUME e.kind = "post"
      PROVE  /\ e = Post(e.n) /\ e.n \in DOMAIN post /\ e.n \in Nat /\ ~post[e.n].fast
             /\ e.n \in Running(post[e.n].owner) /\ post[e.n].owner \in OwnerIds
  <2>1. e = Post(e.n) /\ e.n \in 1..MaxPost
    BY <1>2, <1>5, EventForms
  <2>2. e.n \in DOMAIN post /\ ~post[e.n].fast
    BY <1>2, <1>5 DEF Flow, Faithful, Deferred
  <2>3. e \in Range(batch)
    BY <1>2 DEF Range
  <2>4. post[e.n].owner \in OwnerIds
    BY <2>2, PostForms DEF Flow
  <2>. QED  BY <2>1, <2>2, <2>3, <2>4 DEF Running
<1>6. done' \in Seq(Nat) /\ Range(done') = IF e.kind = "post" THEN Range(done) \union {e.n} ELSE Range(done)
  <2>1. CASE e.kind = "post"
    <3>1. done' = Append(done, e.n) /\ e.n \in Nat
      BY <1>1, <1>5, <2>1
    <3>. QED  BY <1>1, <2>1, <3>1, AppendAscending
  <2>2. CASE e.kind # "post"
    BY <1>1, <2>2
  <2>. QED  BY <2>1, <2>2
<1>7. Shape'
  BY <1>1, <1>2, <1>4, <1>6 DEF Flow, Shape, Matched, At
<1>8. Faithful'
  <2>1. OwnedBy(inbox)' /\ OwnedBy(taken)'
    BY <1>1 DEF OwnedBy, Flow, Faithful
  <2>2. Range(done') \subseteq DOMAIN post
    BY <1>1, <1>5, <1>6
  <2>3. \A i \in DOMAIN batch' : batch'[i].kind = "post" =>
          /\ Deferred(batch'[i].n, post[batch'[i].n].owner)
          /\ post[batch'[i].n].owner \in Live
    BY <1>2 DEF Flow, Faithful
  <2>. QED  BY <1>1, <1>3, <1>4, <2>1, <2>2, <2>3 DEF Flow, Faithful, Deferred
<1>9. ASSUME NEW c, NEW n \in Running(c)'
      PROVE  n \in Running(c) /\ (e.kind = "post" /\ post[e.n].owner = c => e.n < n)
  <2>1. PICK i \in DOMAIN batch' : batch'[i] = Post(n)
    BY <1>9 DEF Running, Range
  <2>2. batch[i + 1] = Post(n) /\ Post(n) \in Range(batch)
    BY <1>2, <2>1 DEF Range
  <2>3. batch[i + 1].kind = "post" /\ batch[i + 1].n = n
    BY <2>2, EventForms
  <2>4. post[n].owner = c /\ n \in DOMAIN post
    BY <1>1, <1>9 DEF Running
  <2>5. e.kind = "post" /\ post[e.n].owner = c => e.n < n
    BY <1>2, <2>3, <2>4 DEF Flow, InLine, BatchInOrder
  <2>. QED  BY <2>2, <2>4, <2>5 DEF Running
<1>10. \A c : Executed(c)' = IF e.kind = "post" /\ post[e.n].owner = c THEN Executed(c) \union {e.n}
                                                                       ELSE Executed(c)
  BY <1>1, <1>5, <1>6 DEF Executed, Deferred
<1>11. ASSUME NEW c \in OwnerIds
       PROVE  Chain(Executed(c), Running(c), Held(c), InTransfer(c), InInbox(c))'
  <2>1. Held(c)' = Held(c) /\ InTransfer(c)' = InTransfer(c) /\ InInbox(c)' = InInbox(c)
    BY <1>1, <1>4 DEF Held, Queued, InTransfer, InInbox
  <2>2. Running(c)' \subseteq Running(c)
    BY <1>9
  <2>3. Chain(Executed(c), Running(c), Held(c), InTransfer(c), InInbox(c))
    BY DEF Flow, InLine
  <2>4. Chain(Executed(c)', Running(c)', Held(c)', InTransfer(c)', InInbox(c)')
    <3>1. CASE e.kind = "post" /\ post[e.n].owner = c
      <4>1. e.n \in Running(c) /\ \A n \in Running(c)' : e.n < n
        BY <1>5, <1>9, <3>1
      <4>2. Executed(c)' = Executed(c) \union {e.n}
        BY <1>10, <3>1
      <4>. QED  BY <2>1, <2>2, <2>3, <4>1, <4>2 DEF Chain, Below
    <3>2. CASE ~(e.kind = "post" /\ post[e.n].owner = c)
      <4>1. Executed(c)' = Executed(c)
        BY <1>10, <3>2
      <4>. QED  BY <2>1, <2>2, <2>3, <4>1, ChainShrinks
    <3>. QED  BY <3>1, <3>2
  <2>. QED  BY <2>4 DEF Chain, Below
<1>12. RunsInPostOrder'
  <2>1. CASE e.kind = "post"
    <3>1. \A m \in Range(done) : ~post[m].fast /\ post[m].owner = post[e.n].owner => m < e.n
      <4>1. ASSUME NEW m \in Range(done), ~post[m].fast, post[m].owner = post[e.n].owner
            PROVE  m < e.n
        <5>1. m \in Executed(post[e.n].owner)
          BY <1>1, <4>1 DEF Executed, Deferred
        <5>. QED  BY <1>5, <2>1, <5>1, StagesPosted DEF Chain, Below
      <4>. QED  BY <4>1
    <3>. QED  BY <1>1, <1>5, <2>1, <3>1, AppendedInOrder
  <2>2. CASE e.kind # "post"
    BY <1>1, <2>2 DEF RunsInPostOrder
  <2>. QED  BY <2>1, <2>2
<1>13. BatchInOrder'
  <2>1. ASSUME NEW i \in DOMAIN batch', NEW j \in DOMAIN batch', i < j,
               batch'[i].kind = "post", batch'[j].kind = "post",
               post[batch'[i].n].owner = post[batch'[j].n].owner
        PROVE  batch'[i].n < batch'[j].n
    <3>1. i + 1 < j + 1
      BY <1>2, <2>1
    <3>. QED  BY <1>2, <2>1, <3>1 DEF Flow, InLine, BatchInOrder
  <2>. QED  BY <1>1, <2>1 DEF BatchInOrder
<1>14. HeldInOrder' /\ Sorted(inbox)' /\ Sorted(taken)'
  BY <1>1, <1>4 DEF Flow, InLine, Sorted, MQ!IsAscending, HeldInOrder
<1>. QED  BY <1>3, <1>7, <1>8, <1>11, <1>12, <1>13, <1>14 DEF Flow, InLine

LEMMA PumpInit == Init => PumpInv
<1>. SUFFICES ASSUME Init PROVE PumpInv
  OBVIOUS
<1>1. MQ!Init /\ inbox = NoWork /\ taken = NoWork /\ post = <<>> /\ batch = <<>> /\ done = <<>>
  BY DEF Init
<1>2. MQP!IndInv
  BY <1>1, SameOperations, EnoughIds, MQP!InitInv
<1>3. events = [id \in {} |-> MQ!Root]
  BY <1>1 DEF MQ!Init
<1>4. DOMAIN events = {} /\ DOMAIN post = {} /\ Range(done) = {} /\ Range(batch) = {}
  BY <1>1, <1>3 DEF Range
<1>5. Shape
  BY <1>1, <1>4, EnoughIds, NoWorkMatched DEF Shape
<1>6. Faithful
  BY <1>1, <1>4, NoWorkForms DEF Faithful
<1>7. InLine
  <2>1. ASSUME NEW o \in OwnerIds
        PROVE  Chain(Executed(o), Running(o), Held(o), InTransfer(o), InInbox(o))
    <3>1. Executed(o) = {} /\ Running(o) = {} /\ Held(o) = {} /\ InTransfer(o) = {}
      BY <1>1, <1>4, NoWorkForms DEF Executed, Running, Held, InTransfer
    <3>. QED  BY <3>1 DEF Chain, Below
  <2>. QED  BY <1>1, <1>4, <2>1, NoWorkForms DEF InLine, HeldInOrder, BatchInOrder, RunsInPostOrder
<1>8. Staged
  BY <1>1 DEF Staged
<1>. QED  BY <1>2, <1>5, <1>6, <1>7, <1>8 DEF PumpInv, Flow

LEMMA PumpStep == PumpInv /\ [Next]_vars => PumpInv'
<1>. SUFFICES ASSUME PumpInv, [Next]_vars PROVE PumpInv'
  OBVIOUS
<1>1. Flow /\ Staged /\ StepKind /\ Staged'
  BY StepKinds, StagedStep DEF PumpInv
<1>2. ASSUME NEW o \in OwnerIds, Pushes(o, TRUE) \/ Pushes(o, FALSE)
      PROVE  Flow'
  BY <1>1, <1>2, PushesKeeps
<1>3. ASSUME NEW o, Adds(o) \/ Removal(o) \/ Drains(o)
      PROVE  Flow'
  BY <1>1, <1>3, AddsKeeps, RemovalKeeps, DrainsKeeps
<1>4. ASSUME NEW e \in Event, Notes(e)
      PROVE  Flow'
  BY <1>1, <1>4, NotesKeeps
<1>5. Quiet \/ Takes \/ RunsFast \/ Forwards \/ Drops \/ Calls => Flow'
  BY <1>1, QuietKeeps, TakesKeeps, RunsFastKeeps, ForwardsKeeps, DropsKeeps, CallsKeeps
<1>. QED  BY <1>1, <1>2, <1>3, <1>4, <1>5 DEF StepKind, PumpInv

(***************************************************************************)
(* Deferred work runs in the order it was posted to its owner: between the *)
(* inbox, the transfer, the parent's queues and the batch nothing of one   *)
(* owner overtakes (schedule_deferred, transfer, process_events).          *)
(***************************************************************************)
THEOREM DeferredInOrder == Spec => []RunsInPostOrder
<1>1. PumpInv => RunsInPostOrder
  BY DEF PumpInv, Flow, InLine
<1>. QED  BY PumpInit, PumpStep, <1>1, PTL DEF Spec

(***************************************************************************)
(* No callback of a removed owner runs: its pending work goes with it, and *)
(* no owner can be removed while a drained batch is being run.             *)
(* (remove_owner.)                                                         *)
(***************************************************************************)
THEOREM RemovedNeverRun == Spec => RemovedNeverRuns
<1>1. PumpInv /\ [Next]_vars
        => [\A n \in Range(done') \ Range(done) : post[n].fast \/ post[n].owner \in Live]_vars
  <2>. SUFFICES ASSUME PumpInv, [Next]_vars, NEW n \in Range(done') \ Range(done)
                PROVE  post[n].fast \/ post[n].owner \in Live
    OBVIOUS
  <2>1. Flow /\ StepKind /\ done \in Seq(Nat) /\ batch \in Seq(Event)
    BY StepKinds DEF PumpInv, Flow, Shape
  <2>2. CASE RunsFast
    <3>1. done' = Append(done, NextWork(taken)) /\ post[NextWork(taken)].fast
          /\ NextWork(taken) \in Nat
      BY <2>1, <2>2, NextForms DEF RunsFast
    <3>2. n = NextWork(taken)
      BY <2>1, <3>1, AppendAscending
    <3>. QED  BY <3>1, <3>2
  <2>3. CASE Calls
    <3>. DEFINE e == Head(batch)
    <3>1. /\ batch # <<>> /\ e = batch[1] /\ 1 \in DOMAIN batch /\ e \in Event
          /\ done' = IF e.kind = "post" THEN Append(done, e.n) ELSE done
      BY <2>1, <2>3 DEF Calls
    <3>. HIDE DEF e
    <3>2. e.kind = "post" /\ done' = Append(done, e.n)
      BY <3>1
    <3>3. e.n \in Nat
      BY <3>1, <3>2, EventForms
    <3>4. n = e.n
      BY <2>1, <3>2, <3>3, AppendAscending
    <3>. QED  BY <2>1, <3>1, <3>2, <3>4 DEF Flow, Faithful
  <2>4. ASSUME done' = done PROVE FALSE
    BY <2>4
  <2>5. StepKind => RunsFast \/ Calls \/ done' = done
    BY DEF StepKind, Quiet, Takes, Forwards, Drops, Pushes, Notes, Adds, Removal, Drains, OffPath
  <2>. QED  BY <2>1, <2>2, <2>3, <2>4, <2>5
<1>. QED  BY PumpInit, PumpStep, <1>1, PTL DEF Spec, RemovedNeverRuns

-----------------------------------------------------------------------------
(* Signals *)

(* An event is taken out of the queues by a drain, or with its owner. *)
LEMMA QueuedKept ==
  ASSUME PumpInv, [Next]_vars, NEW id \in DOMAIN events, origins[id] \in Live'
  PROVE  events[id] \in Queued' \union Range(batch')
<1>1. Flow /\ StepKind /\ MQP!IndInv
  BY StepKinds DEF PumpInv, Flow
<1>2. ASSUME id \in DOMAIN events', events'[id] = events[id]
      PROVE  events[id] \in Queued'
  BY <1>2 DEF Queued
<1>3. Quiet \/ Takes \/ RunsFast \/ Drops \/ Calls => events' = events
  BY DEF Quiet, Takes, RunsFast, Drops, Calls, queueVars
<1>4. ASSUME NEW o, Pushes(o, TRUE) \/ Pushes(o, FALSE) \/ Adds(o)
      PROVE  events' = events
  BY <1>1, <1>4, ChildDoes DEF Pushes, Adds, queueVars
<1>5. ASSUME Forwards
      PROVE  id \in DOMAIN events' /\ events'[id] = events[id]
  <2>1. /\ MQ!Put(NextOwner(taken), Post(NextWork(taken))) /\ taken.order # <<>>
    BY <1>5 DEF Forwards
  <2>2. Post(NextWork(taken)) \in Event
    BY <1>1, <2>1, NextForms, EventForms
  <2>. QED  BY <1>1, <2>1, <2>2, PutDoes
<1>6. ASSUME NEW e \in Event, Notes(e)
      PROVE  id \in DOMAIN events' /\ events'[id] = events[id]
  BY <1>1, <1>6, PutDoes DEF Notes
<1>7. ASSUME NEW o, Removal(o)
      PROVE  id \in DOMAIN events' /\ events'[id] = events[id]
  BY <1>1, <1>7, RemoveDoes DEF Removal
<1>8. ASSUME NEW o, Drains(o)
      PROVE  events[id] \in Queued' \union Range(batch')
  <2>1. MQ!ProcessEvents(o) /\ batch' = drained'
    BY <1>8 DEF Drains
  <2>2. PICK ids \in Seq(Nat) :
           /\ drained' = [i \in DOMAIN ids |-> events[ids[i]]]
           /\ DOMAIN events' = DOMAIN events \ Range(ids)
           /\ \A k \in DOMAIN events' : events'[k] = events[k]
    BY <1>1, <2>1, DrainDoes
  <2>3. CASE id \in Range(ids)
    <3>1. PICK i \in DOMAIN ids : ids[i] = id
      BY <2>3 DEF Range
    <3>2. i \in DOMAIN batch' /\ batch'[i] = events[id]
      BY <2>1, <2>2, <3>1
    <3>. QED  BY <3>2 DEF Range
  <2>4. CASE id \notin Range(ids)
    BY <1>2, <2>2, <2>4
  <2>. QED  BY <2>3, <2>4
<1>. QED  BY <1>1, <1>2, <1>3, <1>4, <1>5, <1>6, <1>7, <1>8 DEF StepKind

(* A signal leaves the pipe for the root's queue, and the batch through a callback. *)
LEMMA SignalSteps ==
  ASSUME Staged, [Next]_vars
  PROVE  /\ returned \subseteq returned'
         /\ \/ raised \subseteq raised'
            \/ \E g \in SignalNo : raised' = raised \ {g} /\ MQ!Put(Root, Signal(g))
         /\ \/ batch' = batch \/ batch = <<>>
            \/ batch # <<>> /\ batch' = Tail(batch)
               /\ returned' = returned \union HandedBack(Head(batch))
<1>. USE DEF postVars, kernelVars, stopVars, loopVars, Staged
<1>1. CASE UNCHANGED vars
  BY <1>1 DEF vars
<1>2. CASE Produce
  BY <1>2 DEF Produce, PushDeferred, WakeAfterPush, FrameArrives, SignalArrives, StoreStop,
              WakeAfterStop
<1>3. CASE Host
  BY <1>3 DEF Host, PushFast, HostChild, HostRemove, HostPumps
<1>4. CASE LoopStep
  <2>1. CASE Returns \/ Iterates \/ TargetUnknown \/ PollReturns \/ TakeInbox \/ TransferFast
             \/ TransferDeferred \/ TransferFails \/ TransferDone \/ TokenDone \/ DispatchDone
             \/ IterationDone
    BY <2>1 DEF Returns, Iterates, TargetUnknown, PollReturns, TakeInbox, TransferFast,
         TransferDeferred, TransferFails, TransferDone, TokenDone, DispatchDone, IterationDone
  <2>2. CASE \E g \in SignalNo : QueueSignal(g)
    BY <2>2 DEF QueueSignal
  <2>3. CASE \E s \in Source : ReadFrame(s) \/ ReadFails(s) \/ \E o \in OwnerIds : ReadRemoves(s, o)
    BY <2>3 DEF ReadFrame, ReadFails, ReadRemoves
  <2>4. CASE DrainTarget
    BY <2>4 DEF DrainTarget
  <2>5. CASE RunCallback
    BY <2>5 DEF RunCallback
  <2>. QED  BY <1>4, <2>1, <2>2, <2>3, <2>4, <2>5 DEF LoopStep
<1>5. CASE PollExpires
  BY <1>5 DEF PollExpires
<1>. QED  BY <1>1, <1>2, <1>3, <1>4, <1>5 DEF Next

(***************************************************************************)
(* A caught signal stays in the pipe, in the root's queue or in the batch  *)
(* until run_once hands it back: no failure, removal or drain in between   *)
(* loses it (transfer's ?, remove_owner, dispatch_signals).                *)
(***************************************************************************)
THEOREM SignalsAreKept == Spec => SignalsKept
<1>1. PumpInv /\ [Next]_vars =>
        [\A g \in caught : SignalHeld(g) =>
           SignalHeld(g)' \/ (mode # "once" /\ Signal(g) \in Range(batch))]_vars
  <2>. SUFFICES ASSUME PumpInv, [Next]_vars, NEW g \in caught, SignalHeld(g),
                       ~(mode # "once" /\ Signal(g) \in Range(batch))
                PROVE  SignalHeld(g)'
    OBVIOUS
  <2>1. /\ returned \subseteq returned'
        /\ \/ raised \subseteq raised'
           \/ \E h \in SignalNo : raised' = raised \ {h} /\ MQ!Put(Root, Signal(h))
        /\ \/ batch' = batch \/ batch = <<>>
           \/ batch # <<>> /\ batch' = Tail(batch)
              /\ returned' = returned \union HandedBack(Head(batch))
    BY SignalSteps DEF PumpInv
  <2>2. CASE g \in returned
    BY <2>1, <2>2 DEF SignalHeld
  <2>3. CASE g \in raised
    <3>1. ASSUME NEW h \in SignalNo, MQ!Put(Root, Signal(h)) PROVE Signal(h) \in Queued'
      <4>1. MQP!IndInv /\ Signal(h) \in Event
        BY EventForms DEF PumpInv, Flow
      <4>2. nextEvent \in DOMAIN events' /\ events'[nextEvent] = Signal(h)
        BY <3>1, <4>1, PutDoes
      <4>. QED  BY <4>2 DEF Queued
    <3>. QED  BY <2>1, <2>3, <3>1 DEF SignalHeld
  <2>4. CASE Signal(g) \in Queued
    <3>1. PICK id \in DOMAIN events : events[id] = Signal(g)
      BY <2>4 DEF Queued
    <3>2. origins[id] = Root
      BY <3>1, EventForms DEF PumpInv, Flow, Faithful
    <3>3. Root \in Live'
      <4>1. MQP!TypeOK'
        BY PumpStep DEF PumpInv, Flow, MQP!IndInv
      <4>. QED  BY <4>1 DEF MQP!TypeOK, MQP!Live, MQP!Root, Live, MQ!Live, Root, MQ!Root
    <3>. QED  BY <3>1, <3>2, <3>3, QueuedKept DEF SignalHeld
  <2>5. CASE Signal(g) \in Range(batch)
    <3>1. batch \in Seq(Event) /\ mode = "once"
      BY <2>5 DEF PumpInv, Flow, Shape
    <3>2. CASE batch' = batch
      BY <2>5, <3>2 DEF SignalHeld
    <3>3. CASE batch # <<>> /\ batch' = Tail(batch)
               /\ returned' = returned \union HandedBack(Head(batch))
      <4>1. PICK i \in DOMAIN batch : batch[i] = Signal(g)
        BY <2>5 DEF Range
      <4>2. CASE i = 1
        <5>1. Head(batch) = Signal(g)
          BY <3>1, <3>3, <4>1, <4>2
        <5>2. HandedBack(Head(batch)) = {g}
          BY <3>1, <5>1, EventForms DEF HandedBack
        <5>. QED  BY <3>3, <5>2 DEF SignalHeld
      <4>3. CASE i # 1
        <5>1. i - 1 \in DOMAIN batch' /\ batch'[i - 1] = Signal(g)
          BY <3>1, <3>3, <4>1, <4>3
        <5>. QED  BY <5>1 DEF SignalHeld, Range
      <4>. QED  BY <4>2, <4>3
    <3>4. batch # <<>>
      BY <2>5 DEF Range
    <3>. QED  BY <2>1, <3>2, <3>3, <3>4
  <2>. QED  BY <2>2, <2>3, <2>4, <2>5 DEF SignalHeld
<1>. QED  BY PumpInit, PumpStep, <1>1, PTL DEF Spec, SignalsKept

-----------------------------------------------------------------------------
(* The poll: an edge that was reported is due until it is dispatched *)

Due == IF pc = "transfer" THEN Range(Tail(ready)) ELSE Range(ready)
Told ==
  /\ inbox.order # <<>> => WAKE \in edge \union Due \/ \E t \in Poster : poster[t] = "pushed"
  /\ \A s \in Source \ Failing : frames[s] > 0 => s \in edge \union Due
  /\ raised # {} => SIGNAL \in edge \union Due
Polled ==
  /\ ready \in Seq(Token) /\ Len(ready) <= EventCap
  /\ edge \subseteq Token /\ IsFiniteSet(edge)
  /\ poster \in [Poster -> {"idle", "pushed"}] /\ frames \in [Source -> Nat]
  /\ pc \in {"idle", "top", "poll", "drain", "callbacks"} => ready = <<>>
  /\ pc = "transfer" => ready # <<>> /\ Head(ready) = WAKE
  /\ pc \in {"idle", "top", "poll", "dispatch", "transfer", "drain", "callbacks"}

\* An error leaves the iteration with polled edges not yet dispatched.
LosesEdges ==
  /\ TransferFails \/ \E s \in Source : ReadFails(s)
  /\ Tail(ready) # <<>>

LEMMA RangeOfTail ==
  ASSUME NEW T, NEW s \in Seq(T), s # <<>>
  PROVE  /\ Range(s) = {Head(s)} \union Range(Tail(s)) /\ Tail(s) \in Seq(T)
         /\ Len(Tail(s)) \in Nat /\ Len(Tail(s)) < Len(s) /\ Len(s) \in Nat
<1>1. /\ Len(s) \in Nat \ {0} /\ DOMAIN s = 1..Len(s) /\ Tail(s) \in Seq(T)
      /\ Len(Tail(s)) = Len(s) - 1 /\ DOMAIN Tail(s) = 1..(Len(s) - 1)
      /\ Head(s) = s[1] /\ \A i \in 1..(Len(s) - 1) : Tail(s)[i] = s[i + 1]
  OBVIOUS
<1>2. Range(s) \subseteq {Head(s)} \union Range(Tail(s))
  <2>1. ASSUME NEW i \in DOMAIN s PROVE s[i] \in {Head(s)} \union Range(Tail(s))
    <3>1. CASE i = 1
      BY <1>1, <3>1
    <3>2. CASE i # 1
      <4>1. i - 1 \in DOMAIN Tail(s) /\ Tail(s)[i - 1] = s[i]
        BY <1>1, <3>2
      <4>. QED  BY <4>1 DEF Range
    <3>. QED  BY <3>1, <3>2
  <2>. QED  BY <2>1 DEF Range
<1>3. {Head(s)} \union Range(Tail(s)) \subseteq Range(s)
  <2>1. 1 \in DOMAIN s /\ \A i \in DOMAIN Tail(s) : i + 1 \in DOMAIN s
    BY <1>1
  <2>. QED  BY <1>1, <2>1 DEF Range
<1>. QED  BY <1>1, <1>2, <1>3

(* What a poll reports comes out in some order, and all of it. *)
LEMMA ReportedForms ==
  ASSUME Polled, NEW R \in Reported, NEW r \in SetToSeqs(R)
  PROVE  Range(r) = R /\ r \in Seq(Token) /\ Len(r) <= EventCap /\ IsFiniteSet(edge \ R)
<1>1. R \subseteq edge /\ IsFiniteSet(R) /\ Cardinality(R) \in Nat /\ Cardinality(edge) \in Nat
      /\ IsFiniteSet(edge \ R)
  BY FS_Subset, FS_CardinalityType DEF Polled, Reported
<1>2. Cardinality(R) <= EventCap
  <2>1. Cardinality(R) = IF Cardinality(edge) <= EventCap THEN Cardinality(edge) ELSE EventCap
    BY DEF Reported
  <2>. QED  BY <1>1, <2>1, TokensAssumption
<1>. DEFINE n == Cardinality(R)
<1>3. r \in [1..n -> R] /\ \A i, j \in 1..n : i # j => r[i] # r[j]
  BY DEF SetToSeqs
<1>4. r \in Injection(1..n, R)
  BY <1>3 DEF Injection, IsInjective
<1>5. IsFiniteSet(1..n) /\ Cardinality(1..n) = n
  BY <1>1, FS_Interval
<1>6. r \in Surjection(1..n, R)
  BY <1>1, <1>4, <1>5, FS_Injection
<1>7. Range(r) = R
  BY <1>3, <1>6 DEF Surjection, Range
<1>8. r \in Seq(Token) /\ Len(r) = n
  BY <1>1, <1>3 DEF Polled
<1>. QED  BY <1>1, <1>2, <1>7, <1>8

LEMMA ToldInit == Init => Polled /\ Told
<1>. SUFFICES ASSUME Init PROVE Polled /\ Told
  OBVIOUS
<1>1. Polled
  BY FS_EmptySet, TokensAssumption DEF Init, Polled
<1>2. Told
  BY DEF Init, Told, NoWork
<1>. QED  BY <1>1, <1>2

(* Steps beside the dispatch: new work comes with an edge or its poster. *)
LEMMA ProduceTold ==
  ASSUME Polled, Told, Produce
  PROVE  Polled' /\ Told'
<1>. USE DEF postVars, kernelVars, stopVars, loopVars
<1>1. /\ pc' = pc /\ ready' = ready /\ Due' = Due
      /\ edge \subseteq edge'
  BY DEF Produce, PushDeferred, WakeAfterPush, FrameArrives, SignalArrives, StoreStop,
         WakeAfterStop, Due
<1>2. /\ edge' \subseteq Token /\ IsFiniteSet(edge')
      /\ poster' \in [Poster -> {"idle", "pushed"}] /\ frames' \in [Source -> Nat]
  <2>1. \A x : IsFiniteSet(edge \union {x})
    BY FS_AddElement DEF Polled
  <2>2. \A t \in Poster, o \in OwnerIds : PushDeferred(t, o) =>
          edge' = edge /\ frames' = frames /\ poster' \in [Poster -> {"idle", "pushed"}]
    BY DEF PushDeferred, Polled
  <2>3. \A t \in Poster : WakeAfterPush(t) =>
          edge' = edge \union {WAKE} /\ frames' = frames /\ poster' \in [Poster -> {"idle", "pushed"}]
    BY DEF WakeAfterPush, Wake, Polled
  <2>4. \A s \in Source : FrameArrives(s) =>
          edge' = edge \union {s} /\ poster' = poster /\ frames' \in [Source -> Nat]
    BY DEF FrameArrives, Polled
  <2>5. \A g \in SignalNo : SignalArrives(g) =>
          edge' = edge \union {SIGNAL} /\ poster' = poster /\ frames' = frames
    BY DEF SignalArrives
  <2>6. StoreStop \/ WakeAfterStop =>
          (edge' = edge \/ edge' = edge \union {WAKE}) /\ poster' = poster /\ frames' = frames
    BY DEF StoreStop, WakeAfterStop, Wake
  <2>7. WAKE \in Token /\ SIGNAL \in Token /\ Source \subseteq Token
    BY DEF Token
  <2>8. edge' = edge \/ \E x \in Token : edge' = edge \union {x}
    BY <2>2, <2>3, <2>4, <2>5, <2>6, <2>7 DEF Produce
  <2>9. edge \subseteq Token /\ IsFiniteSet(edge)
    BY DEF Polled
  <2>10. edge' \subseteq Token /\ IsFiniteSet(edge')
    BY <2>1, <2>8, <2>9
  <2>11. poster' \in [Poster -> {"idle", "pushed"}]
    BY <2>2, <2>3, <2>4, <2>5, <2>6 DEF Produce, Polled
  <2>12. frames' \in [Source -> Nat]
    BY <2>2, <2>3, <2>4, <2>5, <2>6 DEF Produce, Polled
  <2>. QED  BY <2>10, <2>11, <2>12
<1>3. Polled'
  BY <1>1, <1>2 DEF Polled
<1>4. inbox'.order # <<>> => WAKE \in edge' \union Due \/ \E t \in Poster : poster'[t] = "pushed"
  <2>1. ASSUME NEW t \in Poster, NEW o \in OwnerIds, PushDeferred(t, o)
        PROVE  poster'[t] = "pushed"
    BY <2>1 DEF PushDeferred, Polled
  <2>2. ASSUME NEW t \in Poster, WakeAfterPush(t)
        PROVE  WAKE \in edge'
    BY <2>2 DEF WakeAfterPush, Wake
  <2>3. ASSUME NEW s, FrameArrives(s) \/ SignalArrives(s) \/ StoreStop \/ WakeAfterStop
        PROVE  inbox' = inbox /\ poster' = poster
    BY <2>3 DEF FrameArrives, SignalArrives, StoreStop, WakeAfterStop
  <2>. QED  BY <1>1, <2>1, <2>2, <2>3 DEF Produce, Told
<1>5. ASSUME NEW s \in Source \ Failing, frames'[s] > 0
      PROVE  s \in edge' \union Due
  <2>1. ASSUME NEW c \in Source, FrameArrives(c)
        PROVE  c \in edge' /\ \A q \in Source : q # c => frames'[q] = frames[q]
    BY <2>1 DEF FrameArrives, Polled
  <2>2. ASSUME NEW t, NEW o, PushDeferred(t, o) \/ WakeAfterPush(t) \/ SignalArrives(t)
                             \/ StoreStop \/ WakeAfterStop
        PROVE  frames' = frames
    BY <2>2 DEF PushDeferred, WakeAfterPush, SignalArrives, StoreStop, WakeAfterStop
  <2>. QED  BY <1>1, <1>5, <2>1, <2>2 DEF Produce, Told
<1>6. raised' # {} => SIGNAL \in edge' \union Due
  <2>1. ASSUME NEW g, SignalArrives(g)
        PROVE  SIGNAL \in edge'
    BY <2>1 DEF SignalArrives
  <2>2. ASSUME NEW t, NEW o, PushDeferred(t, o) \/ WakeAfterPush(t) \/ FrameArrives(t)
                             \/ StoreStop \/ WakeAfterStop
        PROVE  raised' = raised
    BY <2>2 DEF PushDeferred, WakeAfterPush, FrameArrives, StoreStop, WakeAfterStop
  <2>. QED  BY <1>1, <2>1, <2>2 DEF Produce, Told
<1>7. Told'
  BY <1>1, <1>4, <1>5, <1>6 DEF Told
<1>. QED  BY <1>3, <1>7

(* Steps that leave the inbox, the sources, the pipe and the edges to report alone. *)
Settled == UNCHANGED <<inbox, poster, frames, raised, edge>>
LEMMA SettledTold ==
  ASSUME Polled, Told, Settled, Due \subseteq Due',
         ready' \in Seq(Token), Len(ready') <= EventCap,
         pc' \in {"idle", "top", "poll", "drain", "callbacks"} => ready' = <<>>,
         pc' = "transfer" => ready' # <<>> /\ Head(ready') = WAKE,
         pc' \in {"idle", "top", "poll", "dispatch", "transfer", "drain", "callbacks"}
  PROVE  Polled' /\ Told'
<1>1. Polled'
  BY DEF Polled, Settled
<1>2. Told'
  BY DEF Told, Settled
<1>. QED  BY <1>1, <1>2

LEMMA LoopTold ==
  ASSUME Polled, Told, LoopStep, ~LosesEdges
  PROVE  Polled' /\ Told'
<1>. USE DEF postVars, kernelVars, stopVars, loopVars
<1>1. /\ ready \in Seq(Token) /\ Len(ready) <= EventCap
      /\ pc \in {"idle", "top", "poll", "drain", "callbacks"} => ready = <<>>
      /\ pc = "transfer" => ready # <<>> /\ Head(ready) = WAKE
      /\ poster \in [Poster -> {"idle", "pushed"}] /\ frames \in [Source -> Nat]
  BY DEF Polled
<1>2. EventCap \in Nat /\ Len(<<>>) <= EventCap /\ <<>> \in Seq(Token)
  BY TokensAssumption
<1>3. ready # <<>> => /\ Range(ready) = {Head(ready)} \union Range(Tail(ready))
                      /\ Tail(ready) \in Seq(Token) /\ Len(Tail(ready)) <= EventCap
  <2>1. ASSUME ready # <<>>
        PROVE  /\ Range(ready) = {Head(ready)} \union Range(Tail(ready)) /\ Tail(ready) \in Seq(Token)
               /\ Len(Tail(ready)) \in Nat /\ Len(Tail(ready)) < Len(ready) /\ Len(ready) \in Nat
    BY <1>1, <2>1, RangeOfTail
  <2>. QED  BY <1>1, <1>2, <2>1
<1>4. Range(<<>>) = {}
  BY NothingAscending
<1>5. CASE Returns \/ Iterates \/ TargetUnknown \/ DispatchDone \/ IterationDone \/ DrainTarget
           \/ RunCallback
  <2>1. /\ Settled /\ ready' = ready /\ ready = <<>> /\ pc # "transfer" /\ pc' # "transfer"
        /\ pc' \in {"idle", "top", "poll", "dispatch", "transfer", "drain", "callbacks"}
    <3>1. Returns \/ Iterates => /\ Settled /\ ready' = ready /\ pc = "top"
                                 /\ pc' \in {"idle", "poll"}
      BY DEF Returns, Iterates, Goto, Settled
    <3>2. TargetUnknown => /\ Settled /\ ready' = ready /\ pc \in {"poll", "drain"} /\ pc' = "idle"
      BY DEF TargetUnknown, Goto, Settled
    <3>3. DispatchDone => /\ Settled /\ ready' = ready /\ pc = "dispatch" /\ ready = <<>>
                          /\ pc' = "drain"
      BY DEF DispatchDone, Goto, Settled
    <3>4. IterationDone => /\ Settled /\ ready' = ready /\ pc = "callbacks" /\ pc' \in {"idle", "top"}
      BY DEF IterationDone, Goto, Settled
    <3>5. DrainTarget => /\ Settled /\ ready' = ready /\ pc = "drain" /\ pc' = "callbacks"
      BY DEF DrainTarget, Goto, Settled
    <3>6. RunCallback => /\ Settled /\ ready' = ready /\ pc = "callbacks" /\ pc' = "callbacks"
      BY DEF RunCallback, Settled
    <3>. QED  BY <1>1, <1>5, <3>1, <3>2, <3>3, <3>4, <3>5, <3>6
  <2>2. Due' = Due
    BY <2>1 DEF Due
  <2>. QED  BY <1>1, <2>1, <2>2, SettledTold
<1>6. CASE PollReturns
  <2>1. PICK R \in Reported : ready' \in SetToSeqs(R) /\ edge' = edge \ R
    BY <1>6 DEF PollReturns
  <2>2. /\ Range(ready') = R /\ ready' \in Seq(Token) /\ Len(ready') <= EventCap
        /\ IsFiniteSet(edge') /\ R \subseteq edge
    BY <2>1, ReportedForms DEF Reported
  <2>3. /\ pc = "poll" /\ pc' = "dispatch" /\ UNCHANGED <<inbox, poster, frames, raised>>
    BY <1>6 DEF PollReturns, Goto
  <2>4. edge' \union Due' = edge \union Due
    BY <1>1, <1>4, <2>1, <2>2, <2>3 DEF Due
  <2>5. Polled'
    BY <2>1, <2>2, <2>3 DEF Polled
  <2>6. Told'
    BY <2>3, <2>4 DEF Told
  <2>. QED  BY <2>5, <2>6
<1>7. CASE TakeInbox
  <2>1. /\ pc = "dispatch" /\ pc' = "transfer" /\ ready # <<>> /\ Head(ready) = WAKE
        /\ ready' = ready /\ inbox' = NoWork /\ UNCHANGED <<poster, frames, raised, edge>>
    BY <1>7 DEF TakeInbox, Goto
  <2>2. Due = {WAKE} \union Due'
    BY <1>3, <2>1 DEF Due
  <2>3. inbox'.order = <<>>
    BY <2>1 DEF NoWork
  <2>4. SIGNAL # WAKE /\ \A s \in Source : s # WAKE
    BY TokensAssumption
  <2>5. Polled'
    BY <2>1 DEF Polled
  <2>6. Told'
    BY <2>1, <2>2, <2>3, <2>4 DEF Told
  <2>. QED  BY <2>5, <2>6
<1>8. CASE TransferFast \/ TransferDeferred
  <2>1. Settled /\ ready' = ready /\ pc' = pc /\ pc = "transfer"
    BY <1>8 DEF TransferFast, TransferDeferred, Settled
  <2>2. Due' = Due
    BY <2>1 DEF Due
  <2>. QED  BY <1>1, <2>1, <2>2, SettledTold
<1>9. CASE TransferFails
  <2>1. Settled /\ ready' = <<>> /\ pc' = "idle" /\ pc = "transfer" /\ Tail(ready) = <<>>
    BY <1>9 DEF TransferFails, Settled, Goto, LosesEdges
  <2>2. Due' = Due
    BY <1>4, <2>1 DEF Due
  <2>. QED  BY <1>2, <2>1, <2>2, SettledTold
<1>10. CASE TransferDone
  <2>1. Settled /\ ready' = Tail(ready) /\ pc' = "dispatch" /\ pc = "transfer"
    BY <1>10 DEF TransferDone, Settled, Goto
  <2>2. Due' = Due
    BY <2>1 DEF Due
  <2>. QED  BY <1>1, <1>3, <2>1, <2>2, SettledTold
<1>11. CASE \E g \in SignalNo : QueueSignal(g)
  <2>1. /\ ready' = ready /\ pc' = pc /\ raised' \subseteq raised
        /\ UNCHANGED <<inbox, poster, frames, edge>>
    BY <1>11 DEF QueueSignal
  <2>2. Due' = Due
    BY <2>1 DEF Due
  <2>. QED  BY <2>1, <2>2 DEF Polled, Told
<1>12. CASE \E s \in Source : ReadFrame(s) \/ \E o \in OwnerIds : ReadRemoves(s, o)
  <2>1. PICK s \in Source : ReadFrame(s) \/ \E o \in OwnerIds : ReadRemoves(s, o)
    BY <1>12
  <2>2. /\ ready' = ready /\ pc' = pc /\ frames[s] > 0 /\ frames' = [frames EXCEPT ![s] = @ - 1]
        /\ UNCHANGED <<inbox, poster, raised, edge>>
    BY <2>1 DEF ReadFrame, ReadRemoves
  <2>3. frames' \in [Source -> Nat] /\ \A q \in Source : frames'[q] > 0 => frames[q] > 0
    BY <1>1, <2>2
  <2>4. Due' = Due
    BY <2>2 DEF Due
  <2>5. Polled'
    BY <2>2, <2>3 DEF Polled
  <2>6. Told'
    BY <2>2, <2>3, <2>4 DEF Told
  <2>. QED  BY <2>5, <2>6
<1>13. CASE \E s \in Source : ReadFails(s)
  <2>1. PICK s \in Source : ReadFails(s)
    BY <1>13
  <2>2. /\ Settled /\ s \in Failing /\ pc = "dispatch" /\ pc' = "idle" /\ ready # <<>>
        /\ Head(ready) = s /\ ready' = <<>> /\ Tail(ready) = <<>>
    BY <2>1 DEF ReadFails, Goto, Settled, LosesEdges
  <2>3. Due = {s} /\ Due' = {}
    BY <1>3, <1>4, <2>2 DEF Due
  <2>4. s # WAKE /\ s # SIGNAL
    BY TokensAssumption
  <2>5. Polled'
    BY <1>2, <2>2 DEF Polled, Settled
  <2>6. Told'
    BY <2>2, <2>3, <2>4 DEF Told, Settled
  <2>. QED  BY <2>5, <2>6
<1>14. CASE TokenDone
  <2>1. /\ Settled /\ pc = "dispatch" /\ pc' = pc /\ ready # <<>> /\ ready' = Tail(ready)
        /\ Head(ready) # WAKE /\ Drained(Head(ready))
    BY <1>14 DEF TokenDone, Settled
  <2>2. Due = {Head(ready)} \union Due'
    BY <1>3, <2>1 DEF Due
  <2>3. SIGNAL \notin Source
    BY TokensAssumption
  <2>4. \A s \in Source : s = Head(ready) => frames[s] = 0
    BY <2>1, <2>3 DEF Drained
  <2>5. Head(ready) = SIGNAL => raised = {}
    BY <2>1 DEF Drained
  <2>6. Polled'
    BY <1>3, <2>1 DEF Polled, Settled
  <2>7. Told'
    BY <2>1, <2>2, <2>4, <2>5 DEF Told, Settled
  <2>. QED  BY <2>6, <2>7
<1>. QED  BY <1>5, <1>6, <1>7, <1>8, <1>9, <1>10, <1>11, <1>12, <1>13, <1>14 DEF LoopStep

LEMMA ToldStep == Polled /\ Told /\ [Next]_vars /\ ~LosesEdges => Polled' /\ Told'
<1>. SUFFICES ASSUME Polled, Told, [Next]_vars, ~LosesEdges PROVE Polled' /\ Told'
  OBVIOUS
<1>. USE DEF postVars, kernelVars, stopVars, loopVars
<1>1. CASE UNCHANGED vars
  BY <1>1 DEF vars, Polled, Told, Due
<1>2. CASE Host
  <2>1. CASE \E o \in OwnerIds : PushFast(o)
    <3>1. /\ pc = "idle" /\ edge' = edge \union {WAKE}
          /\ UNCHANGED <<pc, ready, poster, frames, raised>>
      BY <2>1 DEF PushFast, Wake
    <3>2. IsFiniteSet(edge') /\ edge' \subseteq Token /\ Due' = Due
      BY <3>1, FS_AddElement DEF Polled, Due, Token
    <3>. QED  BY <3>1, <3>2 DEF Polled, Told
  <2>2. CASE \E o \in OwnerIds : HostChild(o) \/ HostRemove(o)
    <3>1. Settled /\ UNCHANGED <<pc, ready>>
      BY <2>2 DEF HostChild, HostRemove, Settled
    <3>. QED  BY <3>1 DEF Polled, Told, Due, Settled
  <2>3. CASE \E o \in OwnerIds, m \in Modes : HostPumps(m, o)
    <3>1. Settled /\ pc = "idle" /\ pc' = "top" /\ ready' = ready
      BY <2>3 DEF HostPumps, Settled
    <3>. QED  BY <3>1 DEF Polled, Told, Due, Settled
  <2>. QED  BY <1>2, <2>1, <2>2, <2>3 DEF Host
<1>3. CASE PollExpires
  <2>1. Settled /\ pc = "poll" /\ pc' = "dispatch" /\ ready' = ready
    BY <1>3 DEF PollExpires, Goto, Settled
  <2>. QED  BY <2>1 DEF Polled, Told, Due, Settled
<1>. QED  BY <1>1, <1>2, <1>3, ProduceTold, LoopTold DEF Next

(***************************************************************************)
(* The loop never blocks in poll over something that waits, as long as no  *)
(* error drops edges a poll has reported (Reactor::poll, dispatch_ready).  *)
(***************************************************************************)
THEOREM NothingIsStranded == Spec /\ [][~LosesEdges]_vars => []NothingStranded
<1>1. Polled /\ Told => NothingStranded
  <2>1. Polled /\ Told /\ pc = "poll" => Due = {}
    BY NothingAscending DEF Polled, Due
  <2>. QED  BY <2>1 DEF NothingStranded, Told
<1>2. Polled /\ Told /\ [Next]_vars /\ [~LosesEdges]_vars => Polled' /\ Told'
  <2>1. UNCHANGED vars => ~LosesEdges
    BY DEF vars, loopVars, LosesEdges, TransferFails, ReadFails, Goto
  <2>. QED  BY <2>1, ToldStep
<1>. QED  BY ToldInit, <1>1, <1>2, PTL DEF Spec

-----------------------------------------------------------------------------
(* While owners are not removed *)

AllLive == ~Removes => Live = 0..(nextOwner - 1)

LEMMA AllLiveInit == Init => AllLive
<1>. SUFFICES ASSUME Init PROVE AllLive
  OBVIOUS
<1>1. nextOwner = 1 /\ entries = [q \in {Root} |-> <<>>]
  BY DEF Init, MQ!Init, Root
<1>2. Live = {0}
  BY <1>1 DEF Live, MQ!Live, Root, MQ!Root
<1>. QED  BY <1>1, <1>2 DEF AllLive

LEMMA AllLiveStep == PumpInv /\ AllLive /\ [Next]_vars => AllLive'
<1>. SUFFICES ASSUME PumpInv, ~Removes, Live = 0..(nextOwner - 1), [Next]_vars
              PROVE  Live' = 0..(nextOwner' - 1)
  BY DEF AllLive
<1>1. MQP!IndInv /\ StepKind /\ Flow
  BY StepKinds DEF PumpInv, Flow
<1>2. nextOwner \in Nat
  BY <1>1, Pending
<1>3. UNCHANGED queueVars => Live' = Live /\ nextOwner' = nextOwner
  BY DEF queueVars, Live, MQ!Live
<1>4. ASSUME NEW o, Adds(o)
      PROVE  Live' = 0..(nextOwner' - 1)
  <2>1. nextOwner' = nextOwner + 1 /\ Live' = Live \union {nextOwner}
    BY <1>1, <1>4, ChildDoes DEF Adds
  <2>. QED  BY <1>2, <2>1
<1>5. ASSUME NEW o, Drains(o)
      PROVE  Live' = Live /\ nextOwner' = nextOwner
  BY <1>1, <1>5, DrainDoes DEF Drains
<1>6. ASSUME NEW o, NEW e, MQ!Put(o, e)
      PROVE  Live' = Live /\ nextOwner' = nextOwner
  BY <1>6 DEF MQ!Put, Live, MQ!Live
<1>. QED  BY <1>1, <1>3, <1>4, <1>5, <1>6
          DEF StepKind, Quiet, Takes, RunsFast, Forwards, Drops, Calls, Pushes, Notes, Removal

\* No put is refused.
LEMMA NoneRefused ==
  ASSUME PumpInv, AllLive, ~Removes, taken.order # <<>>
  PROVE  NextOwner(taken) \in Live
<1>1. /\ NextWork(taken) \in DOMAIN post /\ post[NextWork(taken)].owner = NextOwner(taken)
      /\ NextOwner(taken) \in OwnerIds
  BY NextForms DEF PumpInv
<1>2. NextOwner(taken) < nextOwner /\ nextOwner \in Nat
  BY <1>1, PostForms, Pending DEF PumpInv, Flow
<1>. QED  BY <1>1, <1>2, EnoughIds DEF AllLive, OwnerIds

(***************************************************************************)
(* The two settings in which no error can drop a polled edge: a poll that  *)
(* reports one edge at a time, or callbacks that do not fail and owners    *)
(* that stay.  The edge-triggered poll then strands nothing.               *)
(***************************************************************************)
THEOREM PollStrandsNothing ==
  ASSUME EventCap = 1 \/ (Failing = {} /\ ~Removes)
  PROVE  Spec => []NothingStranded
<1>1. Polled /\ PumpInv /\ AllLive => ~LosesEdges
  <2>. SUFFICES ASSUME Polled, PumpInv, AllLive, LosesEdges PROVE FALSE
    OBVIOUS
  <2>1. CASE EventCap = 1
    <3>1. ready # <<>> /\ Tail(ready) # <<>> /\ ready \in Seq(Token) /\ Len(ready) <= 1
      BY <2>1 DEF LosesEdges, TransferFails, ReadFails, Polled
    <3>. QED  BY <3>1
  <2>2. CASE Failing = {} /\ ~Removes
    <3>1. taken.order # <<>> /\ NextOwner(taken) \notin Live
      BY <2>2 DEF LosesEdges, TransferFails, ReadFails
    <3>. QED  BY <2>2, <3>1, NoneRefused
  <2>. QED  BY <2>1, <2>2
<1>2. Polled /\ Told /\ PumpInv /\ AllLive /\ [Next]_vars => (Polled /\ Told)'
  BY <1>1, ToldStep
<1>3. Polled /\ Told => NothingStranded
  <2>1. Polled /\ Told /\ pc = "poll" => Due = {}
    BY NothingAscending DEF Polled, Due
  <2>. QED  BY <2>1 DEF NothingStranded, Told
<1>. QED  BY ToldInit, PumpInit, AllLiveInit, PumpStep, AllLiveStep, <1>2, <1>3, PTL DEF Spec

LEMMA PoppedWork ==
  ASSUME Flow, taken.order # <<>>
  PROVE  WorkOf(taken) \subseteq WorkOf(Popped(taken, NextOwner(taken))) \union {NextWork(taken)}
<1>. DEFINE o == NextOwner(taken)
            s == taken.channels[o]
<1>1. /\ s \in Seq(Nat) /\ s # <<>> /\ Head(s) = NextWork(taken) /\ o \in OwnerIds
      /\ Popped(taken, o).channels[o] = Tail(s)
  BY NextForms
<1>2. taken.channels \in [OwnerIds -> Seq(Nat)]
      /\ Popped(taken, o).channels = [taken.channels EXCEPT ![o] = Tail(@)]
  BY DEF Flow, Shape, Works, Popped
<1>3. \A c \in OwnerIds : c # o => Popped(taken, o).channels[c] = taken.channels[c]
  BY <1>2
<1>. HIDE DEF o, s
<1>4. Range(s) = {Head(s)} \union Range(Tail(s))
  BY <1>1, RangeOfTail
<1>5. ASSUME NEW c \in OwnerIds
      PROVE  Range(taken.channels[c]) \subseteq Range(Popped(taken, o).channels[c]) \union {NextWork(taken)}
  BY <1>1, <1>3, <1>4 DEF s
<1>. QED  BY <1>5 DEF WorkOf, o

(***************************************************************************)
(* As long as no owner is removed, posted work is executed or on its way:  *)
(* what fails, and who waits for which owner, does not matter.             *)
(***************************************************************************)
THEOREM NoWorkLost ==
  ASSUME ~Removes
  PROVE  Spec => []WorkConserved
<1>1. Init => WorkConserved
  BY DEF Init, WorkConserved
<1>2. PumpInv /\ AllLive /\ WorkConserved /\ [Next]_vars => WorkConserved'
  <2>. DEFINE Kept(n) == \/ n \in WorkOf(inbox) \union WorkOf(taken) \union Range(done)
                         \/ Post(n) \in Queued \union Range(batch)
  <2>. SUFFICES ASSUME PumpInv, AllLive, WorkConserved, [Next]_vars, NEW n \in 1..Len(post')
                PROVE  Kept(n)'
    BY DEF WorkConserved
  <2>1. Flow /\ StepKind /\ MQP!IndInv /\ AllLive' /\ PumpInv'
    BY StepKinds, AllLiveStep, PumpStep DEF PumpInv, Flow
  <2>2. DOMAIN post = 1..Len(post) /\ Len(post) \in Nat /\ done \in Seq(Nat) /\ batch \in Seq(Event)
    BY <2>1 DEF Flow, Shape
  <2>3. /\ nextOwner \in Nat /\ Live = 0..(nextOwner - 1)
        /\ \A id \in DOMAIN events : origins[id] \in Live
    BY <2>1, Pending DEF AllLive
  <2>4. Live \subseteq Live'
    <3>1. Live' = 0..(nextOwner' - 1)
      BY <2>1 DEF AllLive
    <3>2. nextOwner' = nextOwner \/ nextOwner' = nextOwner + 1
      <4>1. ASSUME NEW o, Adds(o) PROVE nextOwner' = nextOwner + 1
        BY <2>1, <4>1, ChildDoes DEF Adds
      <4>2. ASSUME NEW o, NEW e, MQ!Put(o, e) PROVE nextOwner' = nextOwner
        BY <4>2 DEF MQ!Put
      <4>3. ASSUME NEW o, Drains(o) PROVE nextOwner' = nextOwner
        BY <2>1, <4>3, DrainDoes DEF Drains
      <4>. QED  BY <2>1, <4>1, <4>2, <4>3 DEF StepKind, Quiet, Takes, RunsFast, Forwards, Drops,
                     Calls, Pushes, Notes, Removal, queueVars
    <3>. QED  BY <2>3, <3>1, <3>2
  <2>5. Post(n) \in Queued => Post(n) \in Queued' \union Range(batch')
    BY <2>3, <2>4, QueuedKept DEF Queued
  <2>6. n \in 1..Len(post) => Kept(n)
    <3>1. ASSUME n \in 1..Len(post) PROVE post[n].owner \in Live
      <4>1. post[n].owner \in OwnerIds /\ post[n].owner < nextOwner
        BY <2>1, <2>2, <3>1, PostForms DEF Flow
      <4>. QED  BY <2>3, <4>1, EnoughIds DEF OwnerIds
    <3>. QED  BY <3>1 DEF WorkConserved
  <2>7. CASE \E o \in OwnerIds : Pushes(o, TRUE) \/ Pushes(o, FALSE)
    <3>1. PICK o \in OwnerIds : /\ inbox' = PushedWork(inbox, o, Len(post) + 1)
                               /\ Len(post') = Len(post) + 1
                               /\ taken' = taken /\ done' = done /\ batch' = batch
      BY <2>2, <2>7 DEF Pushes
    <3>2. inbox.channels \in [OwnerIds -> Seq(Nat)]
      BY <2>1 DEF Flow, Shape, Works
    <3>3. \A c \in OwnerIds : inbox'.channels[c] = IF c = o THEN Append(inbox.channels[c], Len(post) + 1)
                                                           ELSE inbox.channels[c]
      BY <3>1, <3>2 DEF PushedWork
    <3>4. \A c \in OwnerIds : Range(inbox'.channels[c])
            = IF c = o THEN Range(inbox.channels[c]) \union {Len(post) + 1} ELSE Range(inbox.channels[c])
      <4>1. \A c \in OwnerIds : inbox.channels[c] \in Seq(Nat)
        BY <3>2
      <4>2. Len(post) + 1 \in Nat
        BY <2>2
      <4>3. \A c \in OwnerIds : Range(Append(inbox.channels[c], Len(post) + 1))
              = Range(inbox.channels[c]) \union {Len(post) + 1}
        BY <4>1, <4>2, AppendAscending
      <4>. QED  BY <3>3, <4>3
    <3>5. WorkOf(inbox) \subseteq WorkOf(inbox') /\ Len(post) + 1 \in WorkOf(inbox')
      BY <3>4 DEF WorkOf
    <3>6. n \in 1..Len(post) \/ n = Len(post) + 1
      BY <2>2, <3>1
    <3>. QED  BY <2>5, <2>6, <3>1, <3>5, <3>6
  <2>8. ~(\E o \in OwnerIds : Pushes(o, TRUE) \/ Pushes(o, FALSE)) => post' = post
    BY <2>1 DEF StepKind, Quiet, Takes, RunsFast, Forwards, Drops, Calls, Notes, Adds, Removal,
                Drains, OffPath
  <2>. SUFFICES ASSUME post' = post, Kept(n) PROVE Kept(n)'
    BY <2>6, <2>7, <2>8
  <2>9. CASE Quiet \/ (\E e \in Event : Notes(e)) \/ \E o : Adds(o) \/ Removal(o)
    <3>1. UNCHANGED OffPath
      BY <2>9 DEF Quiet, Notes, Adds, Removal
    <3>. QED  BY <2>5, <3>1 DEF OffPath
  <2>10. CASE Takes
    <3>1. WorkOf(taken) = {}
      BY <2>10, NoWorkForms DEF Takes, WorkOf
    <3>. QED  BY <2>5, <2>10, <3>1 DEF Takes
  <2>11. CASE RunsFast
    <3>1. /\ taken.order # <<>> /\ inbox' = inbox /\ batch' = batch
          /\ done' = Append(done, NextWork(taken)) /\ taken' = Popped(taken, NextOwner(taken))
      BY <2>11 DEF RunsFast
    <3>2. Range(done') = Range(done) \union {NextWork(taken)}
      BY <2>1, <2>2, <3>1, NextForms, AppendAscending
    <3>. QED  BY <2>1, <2>5, <3>1, <3>2, PoppedWork
  <2>12. CASE Forwards
    <3>1. /\ taken.order # <<>> /\ inbox' = inbox /\ batch' = batch /\ done' = done
          /\ taken' = Popped(taken, NextOwner(taken))
          /\ MQ!Put(NextOwner(taken), Post(NextWork(taken)))
      BY <2>12 DEF Forwards
    <3>2. Post(NextWork(taken)) \in Event
      BY <2>1, <3>1, NextForms, EventForms
    <3>3. nextEvent \in DOMAIN events' /\ events'[nextEvent] = Post(NextWork(taken))
      BY <2>1, <3>1, <3>2, PutDoes
    <3>4. Post(NextWork(taken)) \in Queued'
      BY <3>3 DEF Queued
    <3>. QED  BY <2>1, <2>5, <3>1, <3>4, PoppedWork
  <2>13. CASE Drops
    <3>1. taken.order = <<>>
      BY <2>13, NoneRefused DEF Drops
    <3>2. \A o \in OwnerIds : taken.channels[o] = <<>>
      BY <2>1, <3>1, MatchedEmpty DEF Flow, Shape
    <3>3. WorkOf(taken) = {}
      BY <3>2, NothingAscending DEF WorkOf
    <3>. QED  BY <2>5, <2>13, <3>3 DEF Drops
  <2>14. CASE \E o : Drains(o)
    <3>1. batch = <<>> /\ UNCHANGED <<inbox, taken, done>>
      BY <2>14 DEF Drains
    <3>2. Range(batch) = {}
      BY <3>1, NothingAscending
    <3>. QED  BY <2>5, <3>1, <3>2
  <2>15. CASE Calls
    <3>1. /\ batch # <<>> /\ batch' = Tail(batch) /\ inbox' = inbox /\ taken' = taken
          /\ done' = IF Head(batch).kind = "post" THEN Append(done, Head(batch).n) ELSE done
      BY <2>15 DEF Calls
    <3>2. Range(batch) = {Head(batch)} \union Range(batch')
      BY <2>2, <3>1, RangeOfTail
    <3>3. Head(batch) \in Event
      BY <2>2, <3>1
    <3>4. Head(batch).kind = "post" => Range(done') = Range(done) \union {Head(batch).n}
      BY <2>2, <3>1, <3>3, EventForms, AppendAscending
    <3>5. Range(done) \subseteq Range(done')
      BY <3>1, <3>4
    <3>6. Head(batch) = Post(n) => n \in Range(done')
      BY <3>4, EventForms
    <3>. QED  BY <2>5, <3>1, <3>2, <3>5, <3>6
  <2>. QED  BY <2>1, <2>7, <2>9, <2>10, <2>11, <2>12, <2>13, <2>14, <2>15 DEF StepKind
<1>. QED  BY PumpInit, PumpStep, AllLiveInit, AllLiveStep, <1>1, <1>2, PTL DEF Spec
=============================================================================
