--------------------------- MODULE ServerTurnProofs ---------------------------
(***************************************************************************)
(* Proofs about ServerTurn, for any number of peers, any mixture of        *)
(* requests and all bounds.                                                *)
(*                                                                         *)
(* A stream is what a peer received last followed by what its queue holds. *)
(* Every step leaves it alone, drops frames from its front, or appends     *)
(* what one new turn wrote; the frames of one turn are in order among      *)
(* themselves (WrittenInOrder) and follow those of all earlier turns       *)
(* (Appended).                                                             *)
(*                                                                         *)
(* For the answers each connected client has an account (Balanced): the    *)
(* answers it received, those in its queue and its requests not read yet   *)
(* are, in this order, the requests it sent.                               *)
(***************************************************************************)
EXTENDS ServerTurn, FiniteSetTheorems, FunctionTheorems, TLAPS

FrameKinds == {"event", "redraw", "response"}
Frames == [turn : Nat, kind : FrameKinds, re : Nat]
Requests == [kind : Kinds, re : Nat]

(* No frame is of a turn to come; those of one turn share its number. *)
UpTo(frames, k) == \A n \in DOMAIN frames : frames[n].turn <= k
Of(frames, k) == \A n \in DOMAIN frames : frames[n].turn = k

(* What the handlers rely on: an armed stream has a frame to write. *)
Shapes ==
  /\ peers \subseteq Peers /\ armed \subseteq peers
  /\ turns \in Nat
  /\ asked \in [Clients -> Nat]
  /\ inbox \in [Clients -> Seq(Requests)]
  /\ queue \in [Peers -> Seq(Frames)]
  /\ got \in [Peers -> Seq(Frames)]
  /\ \A p \in Peers : Len(got[p]) <= 1
  /\ \A p \in armed : queue[p] # <<>>

Past == \A p \in Peers : UpTo(Stream(p), turns)

TurnInv == Shapes /\ Past /\ InTurnOrder

----------------------------------------------------------------------------
(* What a turn writes after all earlier turns keeps a stream in order. *)
LEMMA Appended ==
  ASSUME NEW k \in Nat, NEW s \in Seq(Frames), NEW t \in Seq(Frames),
         InOrder(s), UpTo(s, k), InOrder(t), Of(t, k + 1)
  PROVE  InOrder(s \o t) /\ UpTo(s \o t, k + 1)
<1>1. ASSUME NEW n \in DOMAIN (s \o t)
      PROVE  \/ n \in DOMAIN s /\ (s \o t)[n] = s[n]
             \/ n - Len(s) \in DOMAIN t /\ n > Len(s) /\ (s \o t)[n] = t[n - Len(s)]
  OBVIOUS
<1>2. ASSUME NEW n \in DOMAIN s
      PROVE  s[n].turn \in Nat /\ s[n].turn <= k
  <2>1. s[n] \in Frames
    OBVIOUS
  <2>. QED  BY <2>1 DEF Frames, UpTo
<1>3. ASSUME NEW n \in DOMAIN t
      PROVE  t[n].turn = k + 1
  BY DEF Of
<1>4. ASSUME NEW n \in DOMAIN (s \o t)
      PROVE  (s \o t)[n].turn <= k + 1
  <2>1. CASE n \in DOMAIN s /\ (s \o t)[n] = s[n]
    <3>1. s[n].turn \in Nat /\ s[n].turn <= k
      BY <2>1, <1>2
    <3>. QED  BY <2>1, <3>1
  <2>2. CASE n - Len(s) \in DOMAIN t /\ (s \o t)[n] = t[n - Len(s)]
    BY <2>2, <1>3
  <2>. QED  BY <2>1, <2>2, <1>1
<1>5. ASSUME NEW m \in DOMAIN (s \o t), NEW n \in DOMAIN (s \o t), m < n
      PROVE  Precedes((s \o t)[m], (s \o t)[n])
  <2>. DEFINE i == m - Len(s)
              j == n - Len(s)
  <2>1. CASE n \in DOMAIN s /\ (s \o t)[n] = s[n]
    <3>1. m \in DOMAIN s /\ (s \o t)[m] = s[m]
      BY <1>5, <2>1
    <3>. QED  BY <3>1, <2>1, <1>5 DEF InOrder
  <2>2. CASE m \in DOMAIN s /\ (s \o t)[m] = s[m] /\ j \in DOMAIN t /\ (s \o t)[n] = t[j]
    <3>1. s[m].turn \in Nat /\ s[m].turn <= k
      BY <2>2, <1>2
    <3>2. t[j].turn = k + 1
      BY <2>2, <1>3
    <3>. HIDE DEF j
    <3>. QED  BY <3>1, <3>2, <2>2 DEF Precedes
  <2>3. CASE i \in DOMAIN t /\ (s \o t)[m] = t[i] /\ j \in DOMAIN t /\ (s \o t)[n] = t[j]
    <3>1. i < j
      BY <1>5
    <3>. HIDE DEF i, j
    <3>. QED  BY <3>1, <2>3 DEF InOrder
  <2>. QED  BY <2>1, <2>2, <2>3, <1>1
<1>. QED  BY <1>4, <1>5 DEF InOrder, UpTo

(* Dropping the frame received last keeps it in order, too. *)
LEMMA Forwarded ==
  ASSUME NEW k \in Nat, NEW g \in Seq(Frames), NEW s \in Seq(Frames), s # <<>>, Len(g) <= 1,
         InOrder(g \o s), UpTo(g \o s, k)
  PROVE  /\ InOrder(<<Head(s)>> \o Tail(s)) /\ UpTo(<<Head(s)>> \o Tail(s), k)
         /\ InOrder(g) /\ UpTo(g, k)
<1>1. <<Head(s)>> \o Tail(s) = s
  OBVIOUS
<1>2. \A n \in DOMAIN s : n + Len(g) \in DOMAIN (g \o s) /\ (g \o s)[n + Len(g)] = s[n]
  OBVIOUS
<1>3. \A n \in DOMAIN g : n \in DOMAIN (g \o s) /\ (g \o s)[n] = g[n]
  OBVIOUS
<1>4. UpTo(s, k) /\ UpTo(g, k)
  BY <1>2, <1>3 DEF UpTo
<1>5. ASSUME NEW m \in DOMAIN s, NEW n \in DOMAIN s, m < n
      PROVE  Precedes(s[m], s[n])
  <2>1. m + Len(g) < n + Len(g)
    BY <1>5
  <2>. QED  BY <2>1, <1>2 DEF InOrder
<1>6. InOrder(g)
  BY <1>3 DEF InOrder
<1>. QED  BY <1>1, <1>4, <1>5, <1>6 DEF InOrder

(* The queue removed with its peer: what was received stays in order. *)
LEMMA Emptied ==
  ASSUME NEW k \in Nat, NEW g \in Seq(Frames), NEW s \in Seq(Frames),
         InOrder(g \o s), UpTo(g \o s, k)
  PROVE  InOrder(g \o <<>>) /\ UpTo(g \o <<>>, k)
<1>1. \A n \in DOMAIN g : n \in DOMAIN (g \o s) /\ (g \o s)[n] = g[n]
  OBVIOUS
<1>2. g \o <<>> = g
  OBVIOUS
<1> QED BY <1>1, <1>2 DEF InOrder, UpTo

LEMMA Associative ==
  ASSUME NEW s \in Seq(Frames), NEW t \in Seq(Frames), NEW u \in Seq(Frames)
  PROVE  s \o (t \o u) = (s \o t) \o u
OBVIOUS

LEMMA Later ==
  ASSUME NEW k \in Nat, NEW s \in Seq(Frames), UpTo(s, k)
  PROVE  UpTo(s, k + 1)
<1>1. ASSUME NEW n \in DOMAIN s
      PROVE  s[n].turn <= k + 1
  <2>1. s[n] \in Frames
    OBVIOUS
  <2>. QED  BY <2>1 DEF UpTo, Frames
<1>. QED  BY <1>1 DEF UpTo

(* Two parts of one turn, of different kinds, the second without events. *)
OfKinds(frames, K) == \A n \in DOMAIN frames : frames[n].kind \in K
Part(frames, k, K) == frames \in Seq(Frames) /\ InOrder(frames) /\ Of(frames, k) /\ OfKinds(frames, K)
LEMMA Joined ==
  ASSUME NEW k \in Nat, NEW K, NEW L, K \intersect L = {}, "event" \notin L,
         NEW s, NEW t, Part(s, k, K), Part(t, k, L)
  PROVE  Part(s \o t, k, K \union L)
<1>0. s \in Seq(Frames) /\ t \in Seq(Frames)
  BY DEF Part
<1>1. ASSUME NEW n \in DOMAIN (s \o t)
      PROVE  \/ n \in DOMAIN s /\ (s \o t)[n] = s[n]
             \/ n - Len(s) \in DOMAIN t /\ n > Len(s) /\ (s \o t)[n] = t[n - Len(s)]
  BY <1>0
<1>2. ASSUME NEW n \in DOMAIN s
      PROVE  s[n].turn = k /\ s[n].kind \in K
  BY DEF Part, Of, OfKinds
<1>3. ASSUME NEW n \in DOMAIN t
      PROVE  t[n].turn = k /\ t[n].kind \in L
  BY DEF Part, Of, OfKinds
<1>4. ASSUME NEW n \in DOMAIN (s \o t)
      PROVE  (s \o t)[n].turn = k /\ (s \o t)[n].kind \in K \union L
  BY <1>1, <1>2, <1>3
<1>5. ASSUME NEW m \in DOMAIN (s \o t), NEW n \in DOMAIN (s \o t), m < n
      PROVE  Precedes((s \o t)[m], (s \o t)[n])
  <2>. DEFINE i == m - Len(s)
              j == n - Len(s)
  <2>1. CASE n \in DOMAIN s /\ (s \o t)[n] = s[n]
    <3>1. m \in DOMAIN s /\ (s \o t)[m] = s[m]
      BY <1>0, <1>5, <2>1
    <3>. QED  BY <3>1, <2>1, <1>5 DEF Part, InOrder
  <2>2. CASE m \in DOMAIN s /\ (s \o t)[m] = s[m] /\ j \in DOMAIN t /\ (s \o t)[n] = t[j]
    <3>. HIDE DEF j
    <3>. QED  BY <2>2, <1>2, <1>3 DEF Precedes
  <2>3. CASE i \in DOMAIN t /\ (s \o t)[m] = t[i] /\ j \in DOMAIN t /\ (s \o t)[n] = t[j]
    <3>1. i < j
      BY <1>0, <1>5
    <3>. HIDE DEF i, j
    <3>. QED  BY <3>1, <2>3 DEF Part, InOrder
  <2>. QED  BY <2>1, <2>2, <2>3, <1>1
<1>6. s \o t \in Seq(Frames)
  BY <1>0
<1>. QED  BY <1>4, <1>5, <1>6 DEF Part, InOrder, Of, OfKinds

LEMMA SinglePart ==
  ASSUME NEW k \in Nat, NEW kind \in FrameKinds, NEW re \in Nat
  PROVE  /\ Part(<<>>, k, {kind})
         /\ Part(<<[turn |-> k, kind |-> kind, re |-> re]>>, k, {kind})
BY DEF Part, InOrder, Of, OfKinds, Frames

(* What a turn writes to one client is made of these. *)
LEMMA AnnouncedPart ==
  ASSUME turns \in Nat, NEW to, NEW events
  PROVE  Part(Announced(events, to), turns + 1, {"event"})
<1>. DEFINE k == turns + 1
            s == Announced(events, to)
<1>0. k \in Nat /\ 0 \in Nat /\ "event" \in FrameKinds
  BY DEF FrameKinds, Requests
<1>1. s = <<>> \/ s = <<[turn |-> k, kind |-> "event", re |-> 0]>>
  BY DEF Announced, Frame
<1>. HIDE DEF k, s
<1>2. Part(<<>>, k, {"event"}) /\ Part(<<[turn |-> k, kind |-> "event", re |-> 0]>>, k, {"event"})
  BY <1>0, SinglePart
<1>3. Part(s, k, {"event"})
  BY <1>1, <1>2
<1>. QED  BY <1>3 DEF s, k

LEMMA RedrawnPart ==
  ASSUME turns \in Nat, NEW to, NEW drawn
  PROVE  Part(Redrawn(drawn, to), turns + 1, {"redraw"})
<1>. DEFINE k == turns + 1
            s == Redrawn(drawn, to)
<1>0. k \in Nat /\ 0 \in Nat /\ "redraw" \in FrameKinds
  BY DEF FrameKinds, Requests
<1>1. s = <<>> \/ s = <<[turn |-> k, kind |-> "redraw", re |-> 0]>>
  BY DEF Redrawn, Frame
<1>. HIDE DEF k, s
<1>2. Part(<<>>, k, {"redraw"}) /\ Part(<<[turn |-> k, kind |-> "redraw", re |-> 0]>>, k, {"redraw"})
  BY <1>0, SinglePart
<1>3. Part(s, k, {"redraw"})
  BY <1>1, <1>2
<1>. QED  BY <1>3 DEF s, k

LEMMA AnswerPart ==
  ASSUME turns \in Nat, NEW c, NEW to, NEW request \in Requests
  PROVE  Part(Answer(c, request, to), turns + 1, {"response"})
<1>. DEFINE k == turns + 1
            s == Answer(c, request, to)
<1>0. k \in Nat /\ request.re \in Nat /\ "response" \in FrameKinds
  BY DEF FrameKinds, Requests
<1>1. s = <<>> \/ s = <<[turn |-> k, kind |-> "response", re |-> request.re]>>
  BY DEF Answer, Frame
<1>. HIDE DEF k, s
<1>2. Part(<<>>, k, {"response"}) /\ Part(<<[turn |-> k, kind |-> "response", re |-> request.re]>>, k, {"response"})
  BY <1>0, SinglePart
<1>3. Part(s, k, {"response"})
  BY <1>1, <1>2
<1>. QED  BY <1>3 DEF s, k

(* A turn writes a client its events, then the redraw and the answer, the   *)
(* answer last unless it is the one to nvim_ui_attach.                     *)
LEMMA WrittenInOrder ==
  ASSUME turns \in Nat, NEW c, NEW to, NEW request \in Requests, NEW events, NEW drawn
  PROVE  Part(Written(c, request, events, drawn, to), turns + 1, FrameKinds)
<1>. DEFINE k == turns + 1
            E == Announced(events, to)
            R == Redrawn(drawn, to)
            A == Answer(c, request, to)
<1>1. k \in Nat /\ Part(E, k, {"event"}) /\ Part(R, k, {"redraw"}) /\ Part(A, k, {"response"})
  BY AnnouncedPart, RedrawnPart, AnswerPart
<1>2. Written(c, request, events, drawn, to) \in {E \o (A \o R), E \o (R \o A)}
  BY DEF Written
<1>. HIDE DEF k, E, R, A
<1>3. Part(A \o R, k, {"response"} \union {"redraw"}) /\ Part(R \o A, k, {"redraw"} \union {"response"})
  BY <1>1, Joined
<1>4. {"response"} \union {"redraw"} = {"redraw", "response"} /\ {"redraw"} \union {"response"} = {"redraw", "response"}
  OBVIOUS
<1>5. Part(A \o R, k, {"redraw", "response"}) /\ Part(R \o A, k, {"redraw", "response"})
  BY <1>3, <1>4
<1>6. /\ Part(E \o (A \o R), k, {"event"} \union {"redraw", "response"})
      /\ Part(E \o (R \o A), k, {"event"} \union {"redraw", "response"})
  BY <1>1, <1>5, Joined
<1>7. {"event"} \union {"redraw", "response"} = FrameKinds
  BY DEF FrameKinds
<1>. QED  BY <1>2, <1>6, <1>7 DEF k

(* The background tick writes events and redraws, and no answers. *)
LEMMA TickInOrder ==
  ASSUME turns \in Nat, NEW to, NEW events, NEW drawn
  PROVE  Part(Announced(events, to) \o Redrawn(drawn, to), turns + 1, FrameKinds)
<1>. DEFINE k == turns + 1
            E == Announced(events, to)
            R == Redrawn(drawn, to)
<1>1. k \in Nat /\ Part(E, k, {"event"}) /\ Part(R, k, {"redraw"})
  BY AnnouncedPart, RedrawnPart
<1>. HIDE DEF k, E, R
<1>2. Part(E \o R, k, {"event"} \union {"redraw"})
  BY <1>1, Joined
<1>3. {"event"} \union {"redraw"} \subseteq FrameKinds
  BY DEF FrameKinds
<1>4. Part(E \o R, k, FrameKinds)
  BY <1>2, <1>3 DEF Part, OfKinds
<1>. QED  BY <1>4 DEF k, E, R

----------------------------------------------------------------------------
(* What a step does to the streams: a turn appends to those of connected   *)
(* peers, and every other step appends nothing.                            *)
LEMMA TurnTaken ==
  ASSUME TurnInv, turns' = turns + 1, got' = got,
         NEW out, \A q \in Peers : Part(out[q], turns + 1, FrameKinds),
         queue' = [q \in Peers |-> IF q \in peers THEN queue[q] \o out[q] ELSE <<>>]
  PROVE  /\ Past' /\ InTurnOrder' /\ queue' \in [Peers -> Seq(Frames)]
         /\ \A q \in peers : queue[q] # <<>> => queue'[q] # <<>>
<1>1. turns \in Nat /\ peers \subseteq Peers
  BY DEF TurnInv, Shapes
<1>2. ASSUME NEW q \in Peers
      PROVE  /\ got[q] \in Seq(Frames) /\ queue[q] \in Seq(Frames) /\ out[q] \in Seq(Frames)
             /\ InOrder(got[q] \o queue[q]) /\ UpTo(got[q] \o queue[q], turns)
             /\ InOrder(out[q]) /\ Of(out[q], turns + 1)
  BY DEF TurnInv, Shapes, Past, InTurnOrder, Stream, Part
<1>3. ASSUME NEW q \in Peers
      PROVE  InOrder(got[q] \o queue'[q]) /\ UpTo(got[q] \o queue'[q], turns + 1)
  <2>1. CASE q \in peers
    <3>1. queue'[q] = queue[q] \o out[q]
      BY <2>1
    <3>2. got[q] \o (queue[q] \o out[q]) = (got[q] \o queue[q]) \o out[q]
      <4>1. got[q] \in Seq(Frames) /\ queue[q] \in Seq(Frames) /\ out[q] \in Seq(Frames)
        BY <1>2
      <4>. QED  BY ONLY <4>1, Associative
    <3>3. got[q] \o queue[q] \in Seq(Frames)
      BY <1>2
    <3>4. /\ InOrder((got[q] \o queue[q]) \o out[q])
          /\ UpTo((got[q] \o queue[q]) \o out[q], turns + 1)
      BY <1>1, <1>2, <3>3, Appended
    <3>5. /\ InOrder(got[q] \o (queue[q] \o out[q]))
          /\ UpTo(got[q] \o (queue[q] \o out[q]), turns + 1)
      BY ONLY <3>2, <3>4
    <3>. QED  BY ONLY <3>1, <3>5
  <2>2. CASE q \notin peers
    <3>1. InOrder(got[q] \o <<>>) /\ UpTo(got[q] \o <<>>, turns)
      BY <1>1, <1>2, Emptied
    <3>2. UpTo(got[q] \o <<>>, turns + 1)
      BY <1>1, <1>2, <3>1, Later
    <3>. QED  BY <2>2, <3>1, <3>2
  <2>. QED  BY <2>1, <2>2
<1>4. Past' /\ InTurnOrder'
  BY <1>3 DEF Past, InTurnOrder, Stream
<1>5. queue' \in [Peers -> Seq(Frames)]
  BY <1>2
<1>6. ASSUME NEW q \in peers, queue[q] # <<>>
      PROVE  queue'[q] # <<>>
  BY <1>1, <1>2, <1>6
<1>. QED  BY <1>4, <1>5, <1>6

LEMMA RemovedStreams ==
  ASSUME TurnInv, NEW ps, Removed(ps), UNCHANGED <<got, turns>>
  PROVE  /\ Past' /\ InTurnOrder' /\ queue' \in [Peers -> Seq(Frames)]
         /\ armed' \subseteq peers' /\ peers' \subseteq Peers
         /\ \A q \in armed' : queue'[q] # <<>>
<1>1. turns \in Nat /\ peers \subseteq Peers
  BY DEF TurnInv, Shapes
<1>2. ASSUME NEW q \in Peers
      PROVE  /\ got[q] \in Seq(Frames) /\ queue[q] \in Seq(Frames)
             /\ InOrder(got[q] \o queue[q]) /\ UpTo(got[q] \o queue[q], turns)
  BY DEF TurnInv, Shapes, Past, InTurnOrder, Stream
<1>3. ASSUME NEW q \in Peers
      PROVE  /\ InOrder(got[q] \o queue'[q]) /\ UpTo(got[q] \o queue'[q], turns)
             /\ queue'[q] \in Seq(Frames)
  <2>1. InOrder(got[q] \o <<>>) /\ UpTo(got[q] \o <<>>, turns)
    BY <1>1, <1>2, Emptied
  <2>2. queue'[q] = <<>> \/ queue'[q] = queue[q]
    BY DEF Removed
  <2>3. CASE queue'[q] = <<>>
    <3>1. <<>> \in Seq(Frames)
      OBVIOUS
    <3>. QED  BY ONLY <2>1, <2>3, <3>1
  <2>4. CASE queue'[q] = queue[q]
    BY ONLY <1>2, <2>4
  <2>. QED  BY <2>2, <2>3, <2>4
<1>4. Past' /\ InTurnOrder'
  BY <1>3 DEF Past, InTurnOrder, Stream
<1>5. queue' \in [Peers -> Seq(Frames)]
  BY <1>3 DEF Removed
<1>. QED  BY <1>1, <1>4, <1>5 DEF Removed, TurnInv, Shapes

LEMMA StreamsAlone ==
  ASSUME TurnInv, UNCHANGED <<queue, got, turns>>
  PROVE  Past' /\ InTurnOrder'
BY DEF TurnInv, Past, InTurnOrder, Stream

(* A turn of the primary channel leaves the streams of peers alone, but    *)
(* later turns have larger numbers.                                        *)
LEMMA StreamsAge ==
  ASSUME TurnInv, UNCHANGED <<queue, got>>, turns' = turns + 1
  PROVE  Past' /\ InTurnOrder'
<1>1. ASSUME NEW p \in Peers
      PROVE  UpTo(Stream(p), turns + 1) /\ Stream(p)' = Stream(p)
  <2>1. turns \in Nat /\ Stream(p) \in Seq(Frames) /\ UpTo(Stream(p), turns)
    BY DEF TurnInv, Shapes, Past, Stream
  <2>2. UpTo(Stream(p), turns + 1)
    BY <2>1, Later
  <2>3. Stream(p)' = Stream(p)
    BY DEF Stream
  <2>. QED  BY <2>2, <2>3
<1>2. Past'
  BY <1>1 DEF Past
<1>3. InTurnOrder'
  BY <1>1 DEF InTurnOrder, TurnInv
<1>. QED  BY <1>2, <1>3

----------------------------------------------------------------------------
LEMMA InitTurns == Init => TurnInv
<1>. SUFFICES ASSUME Init PROVE TurnInv
  OBVIOUS
<1>1. Shapes
  BY DEF Init, Shapes
<1>2. ASSUME NEW p \in Peers
      PROVE  Stream(p) = <<>>
  BY DEF Init, Stream
<1>3. Past /\ InTurnOrder
  BY <1>2 DEF Past, UpTo, InTurnOrder, InOrder
<1>. QED  BY <1>1, <1>3 DEF TurnInv

LEMMA StepTurns ==
  ASSUME TurnInv, [Next]_vars
  PROVE  TurnInv'
<1>. USE DEF clientVars, wireVars, stopVars
<1>1. ASSUME NEW c \in Clients, NEW kind \in Kinds, Ask(c, kind)
      PROVE  TurnInv'
  <2>1. [kind |-> kind, re |-> asked[c] + 1] \in Requests
    <3>1. asked[c] + 1 \in Nat
      BY DEF TurnInv, Shapes
    <3>. QED  BY <3>1 DEF Requests
  <2>2. Shapes'
    BY <1>1, <2>1 DEF Ask, TurnInv, Shapes
  <2>. QED  BY <1>1, <2>2, StreamsAlone DEF Ask, TurnInv
<1>2. ASSUME NEW c \in Clients, Close(c)
      PROVE  TurnInv'
  <2>1. Shapes'
    BY <1>2 DEF Close, TurnInv, Shapes
  <2>. QED  BY <1>2, <2>1, StreamsAlone DEF Close, TurnInv
<1>3. ASSUME NEW p \in Peers, Accept(p)
      PROVE  TurnInv'
  <2>1. Shapes'
    BY <1>3 DEF Accept, TurnInv, Shapes
  <2>. QED  BY <1>3, <2>1, StreamsAlone DEF Accept, TurnInv
<1>4. ASSUME NEW p \in Peers, PeerTurn(p)
      PROVE  TurnInv'
  <2>. DEFINE request == Head(inbox[p])
  <2>1. turns \in Nat /\ peers \subseteq Peers /\ p \in Clients /\ request \in Requests
    BY <1>4 DEF PeerTurn, TurnInv, Shapes, Clients
  <2>2. PICK events \in SUBSET Connected, drawn \in BOOLEAN, failing \in BOOLEAN :
          LET Out(c) == IF Answers(failing) THEN Written(p, request, events, drawn, c) ELSE <<>>
          IN queue' = [q \in Peers |-> IF q \in peers THEN queue[q] \o Out(q) ELSE <<>>]
    BY <1>4 DEF PeerTurn
  <2>. DEFINE out == [q \in Peers |-> Written(p, request, events, drawn, q)]
  <2>3. \A q \in Peers : Part(out[q], turns + 1, FrameKinds)
    BY <2>1, WrittenInOrder
  <2>4. queue' = [q \in Peers |-> IF q \in peers THEN queue[q] \o out[q] ELSE <<>>]
    BY <2>1, <2>2 DEF Answers
  <2>5. turns' = turns + 1 /\ got' = got /\ peers' = peers /\ asked' = asked
        /\ inbox' = [inbox EXCEPT ![p] = Tail(@)] /\ armed' = Interest(p, queue')
    BY <1>4 DEF PeerTurn
  <2>. HIDE DEF out
  <2>6. /\ Past' /\ InTurnOrder' /\ queue' \in [Peers -> Seq(Frames)]
        /\ \A q \in peers : queue[q] # <<>> => queue'[q] # <<>>
    BY <2>3, <2>4, <2>5, TurnTaken
  <2>7. armed' \subseteq peers /\ \A q \in armed' : queue'[q] # <<>>
    BY <2>1, <2>4, <2>5, <2>6 DEF Interest, TurnInv, Shapes
  <2>8. inbox' \in [Clients -> Seq(Requests)]
    BY <1>4, <2>1, <2>5 DEF TurnInv, Shapes, PeerTurn
  <2>9. Shapes'
    BY <2>1, <2>5, <2>6, <2>7, <2>8 DEF TurnInv, Shapes
  <2>. QED  BY <2>6, <2>9 DEF TurnInv
<1>5. ASSUME NEW p \in Peers, Dropped(p) \/ WriteFails(p)
      PROVE  TurnInv'
  <2>1. Removed({p}) /\ UNCHANGED <<got, turns, asked>> /\ inbox' = [inbox EXCEPT ![p] = <<>>]
    BY <1>5 DEF Dropped, WriteFails
  <2>2. Past' /\ InTurnOrder'
    BY <2>1, RemovedStreams
  <2>3. /\ queue' \in [Peers -> Seq(Frames)]
        /\ armed' \subseteq peers' /\ peers' \subseteq Peers
        /\ \A q \in armed' : queue'[q] # <<>>
    BY <2>1, RemovedStreams
  <2>4. <<>> \in Seq(Requests)
    OBVIOUS
  <2>5. inbox' \in [Clients -> Seq(Requests)]
    BY <2>1, <2>4 DEF TurnInv, Shapes
  <2>6. Shapes'
    BY <2>1, <2>3, <2>5 DEF TurnInv, Shapes
  <2>. QED  BY <2>2, <2>6 DEF TurnInv
<1>6. ASSUME NEW p \in Peers, Unheard(p)
      PROVE  TurnInv'
  <2>1. armed' = armed \union {q \in Peers : queue[q] # <<>> /\ q = p} /\ p \in peers
    BY <1>6 DEF Unheard, Interest
  <2>2. <<>> \in Seq(Requests)
    OBVIOUS
  <2>3. inbox' \in [Clients -> Seq(Requests)]
    BY <1>6, <2>2 DEF Unheard, TurnInv, Shapes
  <2>4. armed' \subseteq peers /\ \A q \in armed' : queue[q] # <<>>
    BY <2>1 DEF TurnInv, Shapes
  <2>5. UNCHANGED <<asked, peers, queue, got, turns>>
    BY <1>6 DEF Unheard
  <2>6. Shapes'
    BY <2>3, <2>4, <2>5 DEF TurnInv, Shapes
  <2>. QED  BY <1>6, <2>6, StreamsAlone DEF Unheard, TurnInv
<1>7. ASSUME NEW p \in Peers, Flush(p)
      PROVE  TurnInv'
  <2>1. /\ turns \in Nat /\ p \in armed /\ queue[p] # <<>>
        /\ queue \in [Peers -> Seq(Frames)] /\ got \in [Peers -> Seq(Frames)]
        /\ \A q \in Peers : Len(got[q]) <= 1
    BY <1>7 DEF Flush, TurnInv, Shapes
  <2>2. /\ got' = [got EXCEPT ![p] = <<Head(queue[p])>>] /\ queue' = [queue EXCEPT ![p] = Tail(@)]
        /\ armed' = IF Len(queue[p]) = 1 THEN armed \ {p} ELSE armed
        /\ UNCHANGED <<turns, peers, asked, inbox>>
    BY <1>7 DEF Flush
  <2>3. Head(queue[p]) \in Frames /\ Tail(queue[p]) \in Seq(Frames)
    BY <2>1
  <2>4. Len(queue[p]) # 1 => Tail(queue[p]) # <<>>
    <3>1. queue[p] \in Seq(Frames) /\ queue[p] # <<>>
      BY <2>1
    <3>2. Len(Tail(queue[p])) = Len(queue[p]) - 1
      BY ONLY <3>1
    <3>3. Len(queue[p]) \in Nat /\ Len(<<>>) = 0
      BY ONLY <3>1
    <3>4. Tail(queue[p]) = <<>> => Len(Tail(queue[p])) = 0
      BY ONLY <3>3
    <3>. QED  BY ONLY <3>2, <3>3, <3>4
  <2>5. Shapes'
    BY <2>1, <2>2, <2>3, <2>4 DEF TurnInv, Shapes
  <2>6. InOrder(got[p] \o queue[p]) /\ UpTo(got[p] \o queue[p], turns)
    BY DEF TurnInv, Past, InTurnOrder, Stream
  <2>7. InOrder(<<Head(queue[p])>> \o Tail(queue[p])) /\ UpTo(<<Head(queue[p])>> \o Tail(queue[p]), turns)
    BY <2>1, <2>6, Forwarded
  <2>8. ASSUME NEW q \in Peers
        PROVE  InOrder(got'[q] \o queue'[q]) /\ UpTo(got'[q] \o queue'[q], turns)
    <3>1. CASE q = p
      BY <2>1, <2>2, <2>7, <3>1
    <3>2. CASE q # p
      <4>1. got'[q] = got[q] /\ queue'[q] = queue[q]
        BY <2>1, <2>2, <3>2
      <4>. QED  BY <4>1 DEF TurnInv, Past, InTurnOrder, Stream
    <3>. QED  BY <3>1, <3>2
  <2>9. Past' /\ InTurnOrder'
    BY <2>2, <2>8 DEF Past, InTurnOrder, Stream
  <2>. QED  BY <2>5, <2>9 DEF TurnInv
<1>8. ASSUME StdioTurn
      PROVE  TurnInv'
  <2>1. UNCHANGED <<queue, got, peers, armed, asked>> /\ turns' = turns + 1 /\ inbox' = [inbox EXCEPT ![Stdio] = Tail(@)]
        /\ inbox[Stdio] # <<>> /\ Stdio \in Clients
    BY <1>8 DEF StdioTurn, Clients
  <2>2. Shapes'
    BY <2>1 DEF TurnInv, Shapes
  <2>. QED  BY <2>1, <2>2, StreamsAge DEF TurnInv
<1>9. ASSUME StdioEnds \/ TickQuits \/ TickExits
      PROVE  TurnInv'
  <2>1. UNCHANGED <<queue, got, turns, peers, armed, asked, inbox>>
    BY <1>9 DEF StdioEnds, TickQuits, TickExits
  <2>2. Shapes'
    BY <2>1 DEF TurnInv, Shapes
  <2>. QED  BY <2>1, <2>2, StreamsAlone DEF TurnInv
<1>10. ASSUME Tick
       PROVE  TurnInv'
  <2>1. turns \in Nat /\ peers \subseteq Peers /\ armed \subseteq peers
    BY DEF TurnInv, Shapes
  <2>2. PICK events \in SUBSET Connected, drawn \in BOOLEAN :
          queue' = [q \in Peers |-> IF q \in peers
                                    THEN queue[q] \o (Announced(events, q) \o Redrawn(drawn, q)) ELSE <<>>]
    BY <1>10 DEF Tick
  <2>. DEFINE out == [q \in Peers |-> Announced(events, q) \o Redrawn(drawn, q)]
  <2>3. \A q \in Peers : Part(out[q], turns + 1, FrameKinds)
    BY <2>1, TickInOrder
  <2>4. queue' = [q \in Peers |-> IF q \in peers THEN queue[q] \o out[q] ELSE <<>>]
    BY <2>1, <2>2
  <2>5. turns' = turns + 1 /\ UNCHANGED <<got, peers, armed, asked, inbox>>
    BY <1>10 DEF Tick
  <2>. HIDE DEF out
  <2>6. /\ Past' /\ InTurnOrder' /\ queue' \in [Peers -> Seq(Frames)]
        /\ \A q \in peers : queue[q] # <<>> => queue'[q] # <<>>
    BY <2>3, <2>4, <2>5, TurnTaken
  <2>7. Shapes'
    BY <2>1, <2>5, <2>6 DEF TurnInv, Shapes
  <2>. QED  BY <2>6, <2>7 DEF TurnInv
<1>11. ASSUME UNCHANGED vars
       PROVE  TurnInv'
  BY <1>11 DEF vars, TurnInv, Shapes, Past, InTurnOrder, Stream
<1>. QED  BY <1>1, <1>2, <1>3, <1>4, <1>5, <1>6, <1>7, <1>8, <1>9, <1>10, <1>11 DEF Next, PeerStep

(* A peer never gets a frame of an earlier turn after one of a later turn, *)
(* nor a buffer event of a turn after the answer of that turn.             *)
THEOREM TurnsInOrder == Spec => []InTurnOrder
<1>1. TurnInv /\ [Next]_vars => TurnInv'
  BY StepTurns
<1>2. TurnInv => InTurnOrder
  BY DEF TurnInv
<1>. QED  BY InitTurns, <1>1, <1>2, PTL DEF Spec
----------------------------------------------------------------------------
(* Counting the answers in a sequence of frames *)

Nth(s, n) == Cardinality({m \in AnswersIn(s) : m <= n})
Count(s) == Cardinality(AnswersIn(s))

LEMMA AnswersFinite ==
  ASSUME NEW s \in Seq(Frames)
  PROVE  /\ AnswersIn(s) \subseteq 1..Len(s) /\ Len(s) \in Nat
         /\ IsFiniteSet(AnswersIn(s)) /\ Count(s) \in Nat
         /\ \A n : IsFiniteSet({m \in AnswersIn(s) : m <= n}) /\ Nth(s, n) \in Nat
<1>1. Len(s) \in Nat /\ DOMAIN s = 1..Len(s)
  OBVIOUS
<1>2. IsFiniteSet(1..Len(s))
  BY <1>1, FS_Interval
<1>3. AnswersIn(s) \subseteq 1..Len(s)
  BY <1>1 DEF AnswersIn
<1>4. ASSUME NEW S \in SUBSET AnswersIn(s)
      PROVE  IsFiniteSet(S) /\ Cardinality(S) \in Nat
  <2>1. IsFiniteSet(S)
    BY <1>2, <1>3, FS_Subset
  <2>. QED  BY <2>1, FS_CardinalityType
<1>. QED  BY <1>1, <1>3, <1>4 DEF Count, Nth

LEMMA NoAnswers == AnswersIn(<<>>) = {} /\ Count(<<>>) = 0
BY FS_EmptySet DEF AnswersIn, Count

(* The answers of the second part come after those of the first. *)
LEMMA JoinedAnswers ==
  ASSUME NEW s \in Seq(Frames), NEW t \in Seq(Frames)
  PROVE  /\ s \o t \in Seq(Frames)
         /\ AnswersIn(s \o t) = AnswersIn(s) \union {Len(s) + i : i \in AnswersIn(t)}
         /\ \A n \in AnswersIn(s) : (s \o t)[n] = s[n]
         /\ \A i \in AnswersIn(t) : (s \o t)[Len(s) + i] = t[i]
<1>1. \A n \in DOMAIN s : n \in DOMAIN (s \o t) /\ (s \o t)[n] = s[n]
  OBVIOUS
<1>2. \A i \in DOMAIN t : Len(s) + i \in DOMAIN (s \o t) /\ (s \o t)[Len(s) + i] = t[i]
  OBVIOUS
<1>3. \A n \in DOMAIN (s \o t) : n \in DOMAIN s \/ \E i \in DOMAIN t : n = Len(s) + i
  <2>. TAKE n \in DOMAIN (s \o t)
  <2>1. n \in DOMAIN s \/ n - Len(s) \in DOMAIN t
    OBVIOUS
  <2>2. n - Len(s) \in DOMAIN t => n = Len(s) + (n - Len(s))
    OBVIOUS
  <2>. QED  BY <2>1, <2>2
<1>4. s \o t \in Seq(Frames)
  OBVIOUS
<1>. QED  BY <1>1, <1>2, <1>3, <1>4 DEF AnswersIn

Silent(s) == s \in Seq(Frames) /\ AnswersIn(s) = {}
Single(s, re) == s \in Seq(Frames) /\ \E i : AnswersIn(s) = {i} /\ s[i].re = re

LEMMA JoinedCounts ==
  ASSUME NEW s \in Seq(Frames), NEW t \in Seq(Frames), NEW re
  PROVE  /\ Silent(s) /\ Silent(t) => Silent(s \o t)
         /\ Silent(s) /\ Single(t, re) => Single(s \o t, re)
         /\ Single(s, re) /\ Silent(t) => Single(s \o t, re)
<1>. DEFINE u == s \o t
<1>1. /\ u \in Seq(Frames)
      /\ AnswersIn(u) = AnswersIn(s) \union {Len(s) + i : i \in AnswersIn(t)}
      /\ \A n \in AnswersIn(s) : u[n] = s[n]
      /\ \A i \in AnswersIn(t) : u[Len(s) + i] = t[i]
  BY JoinedAnswers, Zenon
<1>. HIDE DEF u
<1>2. ASSUME Silent(s), Silent(t) PROVE Silent(u)
  BY <1>1, <1>2 DEF Silent
<1>3. ASSUME Silent(s), Single(t, re) PROVE Single(u, re)
  <2>1. PICK i : AnswersIn(t) = {i} /\ t[i].re = re
    BY <1>3 DEF Single
  <2>2. AnswersIn(u) = {Len(s) + i} /\ u[Len(s) + i].re = re
    BY <1>1, <1>3, <2>1 DEF Silent
  <2>. QED  BY <1>1, <2>2 DEF Single
<1>4. ASSUME Single(s, re), Silent(t) PROVE Single(u, re)
  <2>1. PICK i : AnswersIn(s) = {i} /\ s[i].re = re
    BY <1>4 DEF Single
  <2>2. AnswersIn(u) = {i} /\ u[i].re = re
    BY <1>1, <1>4, <2>1 DEF Silent
  <2>. QED  BY <1>1, <2>2 DEF Single
<1>. QED  BY <1>2, <1>3, <1>4 DEF u

LEMMA SilentAppended ==
  ASSUME NEW s \in Seq(Frames), NEW t \in Seq(Frames), Silent(t)
  PROVE  /\ s \o t \in Seq(Frames) /\ Count(s \o t) = Count(s)
         /\ \A n \in AnswersIn(s \o t) : n \in AnswersIn(s) /\ (s \o t)[n] = s[n]
                                         /\ Nth(s \o t, n) = Nth(s, n)
<1>. DEFINE u == s \o t
<1>1. /\ u \in Seq(Frames)
      /\ AnswersIn(u) = AnswersIn(s) \union {Len(s) + i : i \in AnswersIn(t)}
      /\ \A n \in AnswersIn(s) : u[n] = s[n]
  BY JoinedAnswers, Zenon
<1>. HIDE DEF u
<1>2. AnswersIn(u) = AnswersIn(s)
  BY <1>1 DEF Silent
<1>3. Count(u) = Count(s) /\ \A n : Nth(u, n) = Nth(s, n)
  BY <1>2 DEF Count, Nth
<1>. QED  BY <1>1, <1>2, <1>3 DEF u

LEMMA SingleAppended ==
  ASSUME NEW s \in Seq(Frames), NEW t \in Seq(Frames), NEW re, Single(t, re)
  PROVE  /\ s \o t \in Seq(Frames) /\ Count(s \o t) = Count(s) + 1
         /\ \A n \in AnswersIn(s \o t) :
              \/ n \in AnswersIn(s) /\ (s \o t)[n] = s[n] /\ Nth(s \o t, n) = Nth(s, n)
              \/ (s \o t)[n].re = re /\ Nth(s \o t, n) = Count(s) + 1
<1>. DEFINE u == s \o t
<1>1. /\ u \in Seq(Frames)
      /\ AnswersIn(u) = AnswersIn(s) \union {Len(s) + i : i \in AnswersIn(t)}
      /\ \A n \in AnswersIn(s) : u[n] = s[n]
      /\ \A i \in AnswersIn(t) : u[Len(s) + i] = t[i]
  BY JoinedAnswers, Zenon
<1>2. PICK i : AnswersIn(t) = {i} /\ t[i].re = re
  BY DEF Single
<1>3. i \in 1..Len(t) /\ Len(t) \in Nat
  BY <1>2, AnswersFinite
<1>. DEFINE k == Len(s) + i
<1>. HIDE DEF u
<1>4. AnswersIn(s) \subseteq 1..Len(s) /\ Len(s) \in Nat /\ IsFiniteSet(AnswersIn(s))
  BY AnswersFinite
<1>5. AnswersIn(u) = AnswersIn(s) \union {k} /\ u[k].re = re
  BY <1>1, <1>2
<1>6. k \in Nat /\ k \notin AnswersIn(s) /\ \A n \in AnswersIn(s) : n \in Nat /\ n < k
  BY <1>3, <1>4
<1>. HIDE DEF k
<1>7. Count(u) = Count(s) + 1
  BY <1>4, <1>5, <1>6, FS_AddElement DEF Count
<1>8. {m \in AnswersIn(u) : m <= k} = AnswersIn(u)
  BY <1>5, <1>6
<1>9. Nth(u, k) = Count(s) + 1
  BY <1>7, <1>8 DEF Nth, Count
<1>10. ASSUME NEW n \in AnswersIn(s) PROVE Nth(u, n) = Nth(s, n)
  <2>1. {m \in AnswersIn(u) : m <= n} = {m \in AnswersIn(s) : m <= n}
    BY <1>5, <1>6
  <2>. QED  BY <2>1 DEF Nth
<1>. QED  BY <1>1, <1>5, <1>7, <1>9, <1>10 DEF u

(* A set of positions moved by one has as many members. *)
LEMMA MovedCount ==
  ASSUME NEW S, IsFiniteSet(S), S \subseteq Nat
  PROVE  Cardinality({n - 1 : n \in S}) = Cardinality(S)
<1>. DEFINE T == {n - 1 : n \in S}
            f == [n \in S |-> n - 1]
<1>1. f \in Bijection(S, T)
  <2>1. f \in [S -> T]
    OBVIOUS
  <2>2. \A m, n \in S : f[m] = f[n] => m = n
    OBVIOUS
  <2>3. \A k \in T : \E n \in S : f[n] = k
    OBVIOUS
  <2>. QED  BY <2>1, <2>2, <2>3, Fun_IsBij
<1>2. ExistsBijection(S, T)
  BY <1>1 DEF ExistsBijection
<1>. QED  BY <1>2, FS_Bijection

(* One frame less in front. *)
LEMMA TailCounts ==
  ASSUME NEW s \in Seq(Frames), s # <<>>
  PROVE  /\ Count(<<Head(s)>>) \in {0, 1}
         /\ Count(s) = Count(<<Head(s)>>) + Count(Tail(s))
         /\ \A n \in AnswersIn(Tail(s)) :
              /\ n + 1 \in AnswersIn(s) /\ Tail(s)[n] = s[n + 1]
              /\ Nth(s, n + 1) = Count(<<Head(s)>>) + Nth(Tail(s), n)
<1>. DEFINE h == Count(<<Head(s)>>)
            A == AnswersIn(s)
            B == AnswersIn(Tail(s))
<1>1. /\ Len(s) \in Nat /\ Len(s) > 0 /\ DOMAIN s = 1..Len(s) /\ DOMAIN Tail(s) = 1..(Len(s) - 1)
      /\ Tail(s) \in Seq(Frames) /\ \A n \in DOMAIN Tail(s) : Tail(s)[n] = s[n + 1]
      /\ Head(s) = s[1]
  OBVIOUS
<1>2. A \subseteq 1..Len(s) /\ IsFiniteSet(A) /\ B \subseteq 1..(Len(s) - 1)
  BY <1>1, AnswersFinite DEF AnswersIn
<1>3. \A n \in B : n + 1 \in A /\ Tail(s)[n] = s[n + 1]
  BY <1>1 DEF AnswersIn
<1>4. \A n \in A : n # 1 => n - 1 \in B
  BY <1>1 DEF AnswersIn
<1>5. h = IF 1 \in A THEN 1 ELSE 0
  <2>1. AnswersIn(<<Head(s)>>) = IF 1 \in A THEN {1} ELSE {}
    BY <1>1 DEF AnswersIn
  <2>. QED  BY <2>1, FS_EmptySet, FS_Singleton DEF Count
<1>. HIDE DEF h, A, B
<1>6. ASSUME NEW k \in Nat
      PROVE  Cardinality({m \in A : m <= k + 1}) = h + Cardinality({m \in B : m <= k})
  <2>. DEFINE C == {m \in A : m <= k + 1}
              D == {m \in B : m <= k}
  <2>1. IsFiniteSet(C)
    BY <1>2, FS_Subset
  <2>2. IsFiniteSet(C \ {1}) /\ Cardinality(C \ {1}) = IF 1 \in C THEN Cardinality(C) - 1 ELSE Cardinality(C)
    BY <2>1, FS_RemoveElement
  <2>3. 1 \in C <=> 1 \in A
    OBVIOUS
  <2>4. D = {n - 1 : n \in C \ {1}}
    <3>1. ASSUME NEW n \in C \ {1} PROVE n - 1 \in D
      <4>1. n \in A /\ n # 1 /\ n \in Nat /\ n <= k + 1
        BY <1>1, <1>2
      <4>. QED  BY <1>4, <4>1
    <3>2. ASSUME NEW m \in D PROVE m + 1 \in C \ {1} /\ m = (m + 1) - 1
      <4>1. m \in B /\ m \in Nat /\ m > 0 /\ m <= k
        BY <1>1, <1>2
      <4>. QED  BY <1>3, <4>1
    <3>. QED  BY <3>1, <3>2
  <2>5. C \ {1} \subseteq Nat
    <3>1. A \subseteq Nat
      BY <1>1, <1>2
    <3>. QED  BY <3>1
  <2>. HIDE DEF C, D
  <2>6. Cardinality(D) = Cardinality(C \ {1})
    BY <2>2, <2>4, <2>5, MovedCount
  <2>7. Cardinality(C) \in Nat
    BY <2>1, FS_CardinalityType
  <2>8. Cardinality(C) = h + Cardinality(D)
    BY <1>5, <2>2, <2>3, <2>6, <2>7
  <2>. QED  BY <2>8 DEF C, D
<1>7. Count(s) = h + Count(Tail(s))
  <2>1. {m \in A : m <= Len(s) + 1} = A /\ {m \in B : m <= Len(s)} = B
    <3>1. \A m \in A : m <= Len(s) + 1
      BY <1>1, <1>2
    <3>2. \A m \in B : m <= Len(s)
      BY <1>1, <1>2
    <3>. QED  BY <3>1, <3>2
  <2>2. Cardinality({m \in A : m <= Len(s) + 1}) = h + Cardinality({m \in B : m <= Len(s)})
    BY <1>1, <1>6
  <2>. QED  BY <2>1, <2>2 DEF A, B, Count
<1>8. ASSUME NEW n \in B PROVE Nth(s, n + 1) = h + Nth(Tail(s), n)
  <2>1. n \in Nat
    BY <1>1, <1>2
  <2>2. Cardinality({m \in A : m <= n + 1}) = h + Cardinality({m \in B : m <= n})
    BY <1>6, <2>1
  <2>. QED  BY <2>2 DEF A, B, Nth
<1>9. h \in {0, 1}
  BY <1>5
<1>. QED  BY <1>3, <1>7, <1>8, <1>9 DEF h, A, B

----------------------------------------------------------------------------
(* The account of one client: the frames queued for it, how many answers   *)
(* it received, its requests not read yet, and how many it sent.           *)
Balanced(q, a, unread, k) ==
  /\ \A n \in AnswersIn(q) : q[n].re = a + Nth(q, n)
  /\ a + Count(q) + Len(unread) = k
  /\ \A n \in DOMAIN unread : unread[n].re + Len(unread) = k + n
Account(q, a, unread, k) ==
  q \in Seq(Frames) /\ a \in Nat /\ unread \in Seq(Requests) /\ k \in Nat /\ Balanced(q, a, unread, k)

LEMMA Opened == Balanced(<<>>, 0, <<>>, 0)
BY NoAnswers DEF Balanced

LEMMA RequestSent ==
  ASSUME NEW q, NEW a, NEW unread, NEW k, Account(q, a, unread, k), NEW kind \in Kinds
  PROVE  Balanced(q, a, Append(unread, [kind |-> kind, re |-> k + 1]), k + 1)
<1>. DEFINE e == [kind |-> kind, re |-> k + 1]
            u == Append(unread, e)
<1>1. unread \in Seq(Requests) /\ a \in Nat /\ k \in Nat /\ Count(q) \in Nat
  BY AnswersFinite DEF Account
<1>2. e \in Requests /\ e.re = k + 1
  BY <1>1 DEF Requests
<1>. HIDE DEF e
<1>3. /\ Len(unread) \in Nat /\ Len(u) = Len(unread) + 1 /\ DOMAIN u = 1..(Len(unread) + 1)
      /\ \A n \in DOMAIN unread : u[n] = unread[n]
      /\ u[Len(unread) + 1] = e
  BY <1>1, <1>2
<1>4. DOMAIN unread = 1..Len(unread)
  BY <1>1
<1>5. \A n \in DOMAIN unread : unread[n].re \in Nat
  <2>1. \A n \in DOMAIN unread : unread[n] \in Requests
    BY <1>1
  <2>. QED  BY <2>1 DEF Requests
<1>. HIDE DEF u
<1>6. ASSUME NEW n \in DOMAIN u PROVE u[n].re + Len(u) = (k + 1) + n
  <2>1. CASE n \in DOMAIN unread
    <3>. DEFINE x == unread[n].re
                l == Len(unread)
    <3>1. x \in Nat /\ l \in Nat /\ k \in Nat /\ x + l = k + n
      BY <1>1, <1>3, <1>5, <2>1 DEF Account, Balanced
    <3>2. u[n].re = x /\ n \in Nat /\ Len(u) = l + 1
      BY <1>3, <1>4, <2>1
    <3>. HIDE DEF x, l
    <3>3. x + (l + 1) = (k + 1) + n
      BY ONLY <3>1, <3>2
    <3>. QED  BY <3>2, <3>3
  <2>2. CASE n = Len(unread) + 1
    BY <1>1, <1>2, <1>3, <2>2
  <2>. QED  BY <1>3, <1>4, <2>1, <2>2
<1>7. a + Count(q) + Len(u) = k + 1
  <2>. DEFINE m == Count(q)
              l == Len(unread)
              j == Len(u)
  <2>1. a + m + l = k
    BY DEF Account, Balanced
  <2>2. a \in Nat /\ m \in Nat /\ l \in Nat /\ k \in Nat /\ j = l + 1
    BY <1>1, <1>3
  <2>. HIDE DEF m, l, j
  <2>3. a + m + j = k + 1
    BY ONLY <2>1, <2>2
  <2>. QED  BY <2>3 DEF m, j
<1>. QED  BY <1>6, <1>7 DEF Account, Balanced, u, e

(* The request read next is the one to be answered next. *)
LEMMA RequestRead ==
  ASSUME NEW q, NEW a, NEW unread, NEW k, Account(q, a, unread, k), unread # <<>>
  PROVE  /\ Head(unread).re = a + Count(q) + 1
         /\ a + Count(q) + 1 + Len(Tail(unread)) = k
         /\ \A n \in DOMAIN Tail(unread) : Tail(unread)[n].re + Len(Tail(unread)) = k + n
<1>1. /\ unread \in Seq(Requests) /\ a \in Nat /\ k \in Nat /\ Count(q) \in Nat
      /\ a + Count(q) + Len(unread) = k
      /\ \A n \in DOMAIN unread : unread[n].re + Len(unread) = k + n
  BY AnswersFinite DEF Account, Balanced
<1>2. /\ Len(unread) \in Nat /\ Len(unread) > 0 /\ DOMAIN unread = 1..Len(unread)
      /\ Head(unread) = unread[1] /\ Len(Tail(unread)) = Len(unread) - 1
      /\ DOMAIN Tail(unread) = 1..(Len(unread) - 1)
      /\ \A n \in DOMAIN Tail(unread) : Tail(unread)[n] = unread[n + 1]
  BY <1>1
<1>3. \A n \in DOMAIN unread : unread[n].re \in Nat
  <2>1. \A n \in DOMAIN unread : unread[n] \in Requests
    BY <1>1
  <2>. QED  BY <2>1 DEF Requests
<1>4. Head(unread).re = a + Count(q) + 1
  <2>. DEFINE x == unread[1].re
              l == Len(unread)
              m == Count(q)
  <2>1. x \in Nat /\ x + l = k + 1 /\ Head(unread).re = x
    <3>1. 1 \in DOMAIN unread
      <4>. HIDE DEF x, m
      <4>. QED  BY <1>2
    <3>2. x \in Nat
      BY <1>3, <3>1, Zenon
    <3>3. x + l = k + 1
      BY <1>1, <3>1, Zenon
    <3>4. Head(unread).re = x
      BY <1>2, Zenon
    <3>. QED  BY <3>2, <3>3, <3>4, Zenon
  <2>2. a \in Nat /\ m \in Nat /\ l \in Nat /\ k \in Nat /\ a + m + l = k
    BY <1>1, <1>2
  <2>. HIDE DEF x, l, m
  <2>3. x = a + m + 1
    BY ONLY <2>1, <2>2
  <2>. QED  BY <2>1, <2>3 DEF m
<1>5. ASSUME NEW n \in DOMAIN Tail(unread)
      PROVE  Tail(unread)[n].re + Len(Tail(unread)) = k + n
  <2>1. n \in Nat /\ n + 1 \in DOMAIN unread
    BY <1>2
  <2>. DEFINE x == unread[n + 1].re
              l == Len(Tail(unread))
              j == Len(unread)
  <2>2. x \in Nat /\ x + j = k + (n + 1)
    BY <1>1, <1>3, <2>1, Zenon
  <2>3. Tail(unread)[n].re = x /\ l = j - 1
    BY <1>2, Zenon
  <2>4. k \in Nat /\ j \in Nat /\ n \in Nat
    BY <1>1, <1>2, <2>1, Zenon
  <2>. HIDE DEF x, l, j
  <2>5. x + l = k + n
    BY ONLY <2>2, <2>3, <2>4
  <2>. QED  BY <2>3, <2>5 DEF l
<1>. QED  BY <1>1, <1>2, <1>4, <1>5

LEMMA AnswerQueued ==
  ASSUME NEW q, NEW a, NEW unread, NEW k, Account(q, a, unread, k), unread # <<>>,
         NEW t \in Seq(Frames), Single(t, Head(unread).re)
  PROVE  Balanced(q \o t, a, Tail(unread), k)
<1>. DEFINE u == q \o t
            rest == Tail(unread)
            re == Head(unread).re
<1>1. /\ q \in Seq(Frames) /\ a \in Nat /\ k \in Nat /\ Count(q) \in Nat
      /\ \A n \in AnswersIn(q) : q[n].re = a + Nth(q, n)
  BY AnswersFinite DEF Account, Balanced
<1>2. /\ re = a + Count(q) + 1 /\ a + Count(q) + 1 + Len(rest) = k
      /\ \A n \in DOMAIN rest : rest[n].re + Len(rest) = k + n
  BY RequestRead
<1>. HIDE DEF re, rest
<1>3. Count(u) = Count(q) + 1
  BY <1>1, SingleAppended, Zenon DEF re
<1>4. \A n \in AnswersIn(u) :
        \/ n \in AnswersIn(q) /\ u[n] = q[n] /\ Nth(u, n) = Nth(q, n)
        \/ u[n].re = re /\ Nth(u, n) = Count(q) + 1
  BY <1>1, SingleAppended, Zenon DEF re
<1>. HIDE DEF u
<1>5. \A n \in AnswersIn(u) : u[n].re = a + Nth(u, n)
  BY <1>1, <1>2, <1>4
<1>6. a + Count(u) + Len(rest) = k
  BY <1>1, <1>2, <1>3
<1>. QED  BY <1>2, <1>5, <1>6 DEF Balanced, u, rest

LEMMA AnswerHandedOver ==
  ASSUME NEW a, NEW unread, NEW k, Account(<<>>, a, unread, k), unread # <<>>
  PROVE  Balanced(<<>>, a + 1, Tail(unread), k)
<1>. DEFINE none == <<>>
<1>0. a \in Nat
  BY DEF Account
<1>. HIDE DEF none
<1>1. /\ a + Count(none) + 1 + Len(Tail(unread)) = k /\ a \in Nat
      /\ \A n \in DOMAIN Tail(unread) : Tail(unread)[n].re + Len(Tail(unread)) = k + n
  <2>1. Account(none, a, unread, k)
    BY DEF none
  <2>. QED  BY <1>0, <2>1, RequestRead
<1>2. Len(Tail(unread)) \in Nat
  BY DEF Account
<1>3. (a + 1) + Count(<<>>) + Len(Tail(unread)) = k
  BY <1>1, <1>2, NoAnswers DEF none
<1>. QED  BY <1>1, <1>3, NoAnswers DEF Balanced

LEMMA OutputQueued ==
  ASSUME NEW q, NEW a, NEW unread, NEW k, Account(q, a, unread, k),
         NEW t \in Seq(Frames), Silent(t)
  PROVE  Balanced(q \o t, a, unread, k)
<1>. DEFINE u == q \o t
<1>1. q \in Seq(Frames) /\ \A n \in AnswersIn(q) : q[n].re = a + Nth(q, n)
  BY DEF Account, Balanced
<1>2. /\ Count(u) = Count(q)
      /\ \A n \in AnswersIn(u) : n \in AnswersIn(q) /\ u[n] = q[n] /\ Nth(u, n) = Nth(q, n)
  BY <1>1, SilentAppended, Zenon
<1>. HIDE DEF u
<1>3. \A n \in AnswersIn(u) : u[n].re = a + Nth(u, n)
  BY <1>1, <1>2
<1>. QED  BY <1>2, <1>3 DEF Account, Balanced, u

LEMMA FrameReceived ==
  ASSUME NEW q, NEW a, NEW unread, NEW k, Account(q, a, unread, k), q # <<>>
  PROVE  Balanced(Tail(q), a + Count(<<Head(q)>>), unread, k)
<1>. DEFINE t == Tail(q)
            h == Count(<<Head(q)>>)
<1>1. /\ q \in Seq(Frames) /\ a \in Nat /\ k \in Nat /\ Count(q) \in Nat /\ Len(unread) \in Nat
      /\ \A n \in AnswersIn(q) : q[n].re = a + Nth(q, n)
      /\ a + Count(q) + Len(unread) = k
  BY AnswersFinite DEF Account, Balanced
<1>2. /\ h \in {0, 1} /\ Count(q) = h + Count(t)
      /\ \A n \in AnswersIn(t) : /\ n + 1 \in AnswersIn(q) /\ t[n] = q[n + 1]
                                 /\ Nth(q, n + 1) = h + Nth(t, n)
  BY <1>1, TailCounts
<1>3. t \in Seq(Frames)
  BY <1>1
<1>. HIDE DEF t, h
<1>4. Count(t) \in Nat /\ \A n : Nth(t, n) \in Nat
  BY <1>3, AnswersFinite
<1>5. ASSUME NEW n \in AnswersIn(t) PROVE t[n].re = (a + h) + Nth(t, n)
  <2>1. t[n].re = a + (h + Nth(t, n))
    BY <1>1, <1>2
  <2>2. Nth(t, n) \in Nat
    BY <1>4
  <2>. QED  BY <1>1, <1>2, <2>1, <2>2
<1>6. (a + h) + Count(t) + Len(unread) = k
  BY <1>1, <1>2, <1>4
<1>. QED  BY <1>5, <1>6 DEF Account, Balanced, t, h

(* What a turn writes: the client that asked gets one answer, others none. *)
LEMMA WrittenAnswers ==
  ASSUME turns \in Nat, NEW c, NEW to, NEW request \in Requests, NEW events, NEW drawn
  PROVE  LET out == Written(c, request, events, drawn, to)
         IN /\ out \in Seq(Frames)
            /\ to = c => Single(out, request.re)
            /\ to # c => Silent(out)
<1>. DEFINE E == Announced(events, to)
            R == Redrawn(drawn, to)
            A == Answer(c, request, to)
            out == Written(c, request, events, drawn, to)
<1>1. E \in Seq(Frames) /\ R \in Seq(Frames) /\ A \in Seq(Frames)
  BY AnnouncedPart, RedrawnPart, AnswerPart DEF Part
<1>2. Silent(E) /\ Silent(R)
  BY <1>1, AnnouncedPart, RedrawnPart DEF Part, OfKinds, Silent, AnswersIn
<1>3. ASSUME to = c PROVE Single(A, request.re)
  <2>1. A = <<Frame("response", request.re)>>
    BY <1>3 DEF Answer
  <2>2. AnswersIn(A) = {1} /\ A[1].re = request.re
    BY <2>1 DEF AnswersIn, Frame
  <2>. QED  BY <1>1, <2>2 DEF Single
<1>4. ASSUME to # c PROVE Silent(A)
  <2>1. A = <<>>
    BY <1>4 DEF Answer
  <2>. QED  BY <2>1, <1>1, NoAnswers DEF Silent
<1>5. out = E \o (A \o R) \/ out = E \o (R \o A)
  BY DEF Written
<1>. HIDE DEF E, R, A, out
<1>. DEFINE AR == A \o R
            RA == R \o A
<1>6. AR \in Seq(Frames) /\ RA \in Seq(Frames)
  BY <1>1
<1>7. /\ to = c => Single(AR, request.re) /\ Single(RA, request.re)
      /\ to # c => Silent(AR) /\ Silent(RA)
  <2>. DEFINE re == request.re
  <2>1. to = c => Single(A, re)
    BY <1>3
  <2>. HIDE DEF re
  <2>2. to = c => Single(AR, re)
    BY <1>1, <1>2, <2>1, JoinedCounts, Zenon
  <2>3. to = c => Single(RA, re)
    BY <1>1, <1>2, <2>1, JoinedCounts, Zenon
  <2>4. to # c => Silent(AR) /\ Silent(RA)
    BY <1>1, <1>2, <1>4, JoinedCounts, Zenon
  <2>. QED  BY <2>2, <2>3, <2>4 DEF re
<1>. HIDE DEF AR, RA
<1>8. /\ to = c => Single(out, request.re)
      /\ to # c => Silent(out)
  <2>. DEFINE re == request.re
  <2>1. to = c => Single(AR, re) /\ Single(RA, re)
    BY <1>7
  <2>. HIDE DEF re
  <2>2. ASSUME to = c PROVE Single(E \o AR, re)
    <3>1. E \in Seq(Frames) /\ Silent(E) /\ AR \in Seq(Frames) /\ Single(AR, re)
      BY <1>1, <1>2, <1>6, <2>1, <2>2
    <3>. QED  BY ONLY <3>1, JoinedCounts, Zenon
  <2>3. ASSUME to = c PROVE Single(E \o RA, re)
    <3>1. E \in Seq(Frames) /\ Silent(E) /\ RA \in Seq(Frames) /\ Single(RA, re)
      BY <1>1, <1>2, <1>6, <2>1, <2>3
    <3>. QED  BY ONLY <3>1, JoinedCounts, Zenon
  <2>4. to # c => Silent(E \o AR) /\ Silent(E \o RA)
    BY <1>1, <1>2, <1>6, <1>7, JoinedCounts, Zenon
  <2>5. out = E \o AR \/ out = E \o RA
    BY <1>5 DEF AR, RA
  <2>. QED  BY <2>2, <2>3, <2>4, <2>5, Zenon DEF re
<1>9. out \in Seq(Frames)
  BY <1>8 DEF Single, Silent
<1>. QED  BY <1>8, <1>9 DEF out

LEMMA TickAnswersNothing ==
  ASSUME turns \in Nat, NEW to, NEW events, NEW drawn
  PROVE  /\ Announced(events, to) \o Redrawn(drawn, to) \in Seq(Frames)
         /\ Silent(Announced(events, to) \o Redrawn(drawn, to))
<1>. DEFINE E == Announced(events, to)
            R == Redrawn(drawn, to)
<1>1. E \in Seq(Frames) /\ R \in Seq(Frames)
  BY AnnouncedPart, RedrawnPart DEF Part
<1>2. Silent(E) /\ Silent(R)
  BY <1>1, AnnouncedPart, RedrawnPart DEF Part, OfKinds, Silent, AnswersIn
<1>. HIDE DEF E, R
<1>3. Silent(E \o R)
  BY <1>1, <1>2, JoinedCounts, Zenon
<1>. QED  BY <1>3 DEF E, R, Silent

LEMMA OneAnswer ==
  ASSUME NEW s, NEW re
  PROVE  /\ Single(s, re) => Cardinality(AnswersIn(s)) = 1
         /\ Silent(s) => Cardinality(AnswersIn(s)) = 0
BY FS_EmptySet, FS_Singleton DEF Single, Silent

----------------------------------------------------------------------------
(* The accounts of connected clients balance as long as the server is not  *)
(* to exit; a peer not connected yet has neither asked nor been answered.  *)
Known(c) == Balanced(Queued(c), answered[c], inbox[c], asked[c])
AnswerInv ==
  /\ answered \in [Clients -> Nat]
  /\ \A p \in Peers \ peers : queue[p] = <<>> /\ inbox[p] = <<>>
  /\ ~exiting =>
       /\ \A c \in Connected : Known(c)
       /\ \A p \in Peers \ peers : asked[p] = 0 => answered[p] = 0

LEMMA Accounts ==
  ASSUME TurnInv, AnswerInv, ~exiting, NEW c \in Connected
  PROVE  /\ c \in Clients /\ Account(Queued(c), answered[c], inbox[c], asked[c])
         /\ Queued(Stdio) = <<>> /\ Stdio \in Connected /\ Stdio \in Clients /\ Stdio \notin Peers
<1>1. Stdio \notin Peers /\ Stdio \in Clients /\ Stdio \in Connected /\ c \in Clients
  BY ServerTurnAssumption DEF Clients, Connected, TurnInv, Shapes
<1>2. Queued(c) \in Seq(Frames)
  <2>1. <<>> \in Seq(Frames)
    OBVIOUS
  <2>. QED  BY <2>1 DEF Queued, TurnInv, Shapes
<1>. QED  BY <1>1, <1>2 DEF Account, Known, AnswerInv, TurnInv, Shapes, Queued

LEMMA InitAnswers == Init => AnswerInv
<1>. SUFFICES ASSUME Init PROVE AnswerInv
  OBVIOUS
<1>1. Stdio \notin Peers /\ Stdio \in Clients
  BY ServerTurnAssumption DEF Clients
<1>2. Known(Stdio)
  BY <1>1, Opened DEF Init, Known, Queued
<1>. QED  BY <1>1, <1>2 DEF Init, AnswerInv, Connected, Clients

(* Peers that are removed had been answered at most what they asked. *)
LEMMA PeersRemoved ==
  ASSUME TurnInv, AnswerInv, NEW p \in peers, Removed({p}), inbox' = [inbox EXCEPT ![p] = <<>>],
         UNCHANGED <<asked, answered, exiting>>
  PROVE  AnswerInv'
<1>1. /\ peers \subseteq Peers /\ peers' = peers \ {p}
      /\ \A q \in Peers : queue'[q] = IF q = p THEN <<>> ELSE queue[q]
      /\ inbox \in [Clients -> Seq(Requests)] /\ Peers \subseteq Clients
  BY DEF Removed, TurnInv, Shapes, Clients
<1>2. \A q \in Peers \ peers' : queue'[q] = <<>> /\ inbox'[q] = <<>>
  BY <1>1 DEF AnswerInv
<1>3. ASSUME ~exiting', NEW c \in Connected' PROVE Known(c)'
  <2>1. c \in Connected /\ c # p /\ Known(c)
    BY <1>1, <1>3, ServerTurnAssumption DEF Connected, AnswerInv
  <2>2. Queued(c)' = Queued(c) /\ inbox'[c] = inbox[c]
    BY <1>1, <2>1 DEF Queued
  <2>. QED  BY <2>1, <2>2 DEF Known
<1>4. ASSUME ~exiting', NEW q \in Peers \ peers', asked'[q] = 0 PROVE answered'[q] = 0
  <2>1. CASE q = p
    <3>1. Account(Queued(p), answered[p], inbox[p], asked[p])
      BY <1>4, Accounts DEF Connected
    <3>2. answered[p] + Count(Queued(p)) + Len(inbox[p]) = 0 /\ answered[p] \in Nat
          /\ Queued(p) \in Seq(Frames) /\ inbox[p] \in Seq(Requests)
      BY <1>4, <2>1, <3>1 DEF Account, Balanced
    <3>3. Count(Queued(p)) \in Nat /\ Len(inbox[p]) \in Nat
      BY <3>2, AnswersFinite
    <3>4. answered[p] = 0
      BY <3>2, <3>3
    <3>. QED  BY <2>1, <3>4
  <2>2. CASE q # p
    BY <1>1, <1>4, <2>2 DEF AnswerInv
  <2>. QED  BY <2>1, <2>2
<1>. QED  BY <1>2, <1>3, <1>4 DEF AnswerInv

(* A request read from a peer puts its answer into the queue. *)
LEMMA PeerAnswered ==
  ASSUME TurnInv, AnswerInv, NEW p \in Peers, PeerTurn(p)
  PROVE  AnswerInv'
<1>. DEFINE request == Head(inbox[p])
<1>1. /\ turns \in Nat /\ peers \subseteq Peers /\ p \in peers /\ p \in Clients
      /\ inbox \in [Clients -> Seq(Requests)] /\ inbox[p] # <<>> /\ request \in Requests
      /\ ~exiting /\ Stdio \notin Peers /\ Stdio \in Clients
  BY ServerTurnAssumption DEF PeerTurn, TurnInv, Shapes, Clients
<1>2. PICK events \in SUBSET Connected, drawn \in BOOLEAN, failing \in BOOLEAN :
        LET Out(c) == IF Answers(failing) THEN Written(p, request, events, drawn, c) ELSE <<>>
        IN /\ queue' = [q \in Peers |-> IF q \in peers THEN queue[q] \o Out(q) ELSE <<>>]
           /\ Received(Stdio, Out(Stdio))
  BY DEF PeerTurn
<1>. DEFINE out == [c \in Clients |-> Written(p, request, events, drawn, c)]
<1>3. ASSUME NEW c \in Clients
      PROVE  out[c] \in Seq(Frames) /\ (c = p => Single(out[c], request.re)) /\ (c # p => Silent(out[c]))
  BY <1>1, WrittenAnswers
<1>4. /\ queue' = [q \in Peers |-> IF q \in peers THEN queue[q] \o out[q] ELSE <<>>]
      /\ Received(Stdio, out[Stdio])
  BY <1>1, <1>2 DEF Answers, Clients
<1>. HIDE DEF out
<1>5. answered' = answered
  <2>1. Cardinality(AnswersIn(out[Stdio])) = 0
    BY <1>1, <1>3, OneAnswer
  <2>. QED  BY <1>1, <1>4, <2>1 DEF Received, AnswerInv
<1>6. peers' = peers /\ asked' = asked /\ inbox' = [inbox EXCEPT ![p] = Tail(@)]
  BY DEF PeerTurn, clientVars
<1>7. ASSUME NEW c \in Connected PROVE Known(c)'
  <2>1. c \in Clients /\ Account(Queued(c), answered[c], inbox[c], asked[c])
        /\ Queued(Stdio) = <<>>
    BY <1>1, <1>7, Accounts
  <2>2. CASE c = p
    <3>1. Queued(c)' = Queued(c) \o out[c] /\ inbox'[c] = Tail(inbox[c])
      BY <1>1, <1>4, <1>6, <2>2 DEF Queued
    <3>2. Balanced(Queued(c) \o out[c], answered[c], Tail(inbox[c]), asked[c])
      BY <1>1, <1>3, <2>1, <2>2, AnswerQueued
    <3>. QED  BY <1>5, <1>6, <3>1, <3>2 DEF Known
  <2>3. CASE c # p /\ c \in peers
    <3>1. Queued(c)' = Queued(c) \o out[c]
      BY <1>1, <1>4, <1>6, <2>3 DEF Queued
    <3>3. inbox'[c] = inbox[c]
      BY <1>1, <1>6, <2>1, <2>3
    <3>2. Balanced(Queued(c) \o out[c], answered[c], inbox[c], asked[c])
      BY <1>3, <2>1, <2>3, OutputQueued
    <3>. QED  BY <1>5, <1>6, <3>1, <3>2, <3>3 DEF Known
  <2>4. CASE c = Stdio
    <3>1. Queued(c)' = Queued(c) /\ inbox'[c] = inbox[c]
      BY <1>1, <1>6, <2>4 DEF Queued
    <3>. QED  BY <1>5, <1>6, <2>1, <3>1 DEF Known, Account
  <2>. QED  BY <2>2, <2>3, <2>4 DEF Connected
<1>8. \A q \in Peers \ peers' : queue'[q] = <<>> /\ inbox'[q] = <<>>
  BY <1>1, <1>4, <1>6 DEF AnswerInv
<1>. QED  BY <1>1, <1>5, <1>6, <1>7, <1>8 DEF AnswerInv, Connected

LEMMA StdioAnswered ==
  ASSUME TurnInv, AnswerInv, StdioTurn
  PROVE  AnswerInv'
<1>. DEFINE request == Head(inbox[Stdio])
<1>1. /\ turns \in Nat /\ peers \subseteq Peers
      /\ inbox \in [Clients -> Seq(Requests)] /\ inbox[Stdio] # <<>>
      /\ ~exiting /\ Stdio \notin Peers /\ Stdio \in Clients
  BY ServerTurnAssumption DEF StdioTurn, TurnInv, Shapes, Clients
<1>2. request \in Requests
  BY <1>1
<1>3. PICK events \in SUBSET Connected, drawn \in BOOLEAN :
        Received(Stdio, Written(Stdio, request, events, drawn, Stdio))
  BY DEF StdioTurn
<1>4. Cardinality(AnswersIn(Written(Stdio, request, events, drawn, Stdio))) = 1
  BY <1>1, <1>2, WrittenAnswers, OneAnswer
<1>5. answered' = [answered EXCEPT ![Stdio] = @ + 1]
  BY <1>3, <1>4 DEF Received
<1>6. /\ peers' = peers /\ asked' = asked /\ queue' = queue
      /\ inbox' = [inbox EXCEPT ![Stdio] = Tail(@)]
  BY DEF StdioTurn, clientVars
<1>7. ASSUME NEW c \in Connected PROVE Known(c)'
  <2>1. /\ c \in Clients /\ Account(Queued(c), answered[c], inbox[c], asked[c])
        /\ Queued(Stdio) = <<>> /\ Queued(c)' = Queued(c)
    BY <1>1, <1>6, <1>7, Accounts DEF Queued
  <2>2. CASE c = Stdio
    <3>1. Balanced(<<>>, answered[c] + 1, Tail(inbox[c]), asked[c])
      BY <1>1, <2>1, <2>2, AnswerHandedOver
    <3>2. answered'[c] = answered[c] + 1 /\ inbox'[c] = Tail(inbox[c])
      BY <1>1, <1>5, <1>6, <2>2 DEF AnswerInv
    <3>. QED  BY <1>6, <2>1, <2>2, <3>1, <3>2 DEF Known
  <2>3. CASE c # Stdio
    <3>1. answered'[c] = answered[c] /\ inbox'[c] = inbox[c]
      BY <1>1, <1>5, <1>6, <2>1, <2>3 DEF AnswerInv
    <3>. QED  BY <1>6, <2>1, <3>1 DEF Known, Account
  <2>. QED  BY <2>2, <2>3
<1>8. answered' \in [Clients -> Nat]
  <2>1. answered \in [Clients -> Nat] /\ answered[Stdio] + 1 \in Nat
    BY <1>1 DEF AnswerInv
  <2>. QED  BY <1>5, <2>1
<1>9. \A q \in Peers \ peers' : queue'[q] = <<>> /\ inbox'[q] = <<>> /\ answered'[q] = answered[q]
  BY <1>1, <1>5, <1>6 DEF AnswerInv, Clients
<1>. QED  BY <1>1, <1>6, <1>7, <1>8, <1>9 DEF AnswerInv, Connected

LEMMA TickAnswered ==
  ASSUME TurnInv, AnswerInv, Tick
  PROVE  AnswerInv'
<1>1. /\ turns \in Nat /\ peers \subseteq Peers /\ ~exiting
      /\ Stdio \notin Peers /\ Stdio \in Clients
  BY ServerTurnAssumption DEF Tick, TurnInv, Shapes, Clients
<1>2. PICK events \in SUBSET Connected, drawn \in BOOLEAN :
        /\ queue' = [q \in Peers |-> IF q \in peers
                       THEN queue[q] \o (Announced(events, q) \o Redrawn(drawn, q)) ELSE <<>>]
        /\ Received(Stdio, Announced(events, Stdio) \o Redrawn(drawn, Stdio))
  BY DEF Tick
<1>. DEFINE out == [c \in Clients |-> Announced(events, c) \o Redrawn(drawn, c)]
<1>3. \A c \in Clients : out[c] \in Seq(Frames) /\ Silent(out[c])
  BY <1>1, TickAnswersNothing
<1>4. /\ queue' = [q \in Peers |-> IF q \in peers THEN queue[q] \o out[q] ELSE <<>>]
      /\ Received(Stdio, out[Stdio])
  BY <1>1, <1>2 DEF Clients
<1>. HIDE DEF out
<1>5. answered' = answered
  <2>1. Cardinality(AnswersIn(out[Stdio])) = 0
    BY <1>1, <1>3, OneAnswer
  <2>. QED  BY <1>1, <1>4, <2>1 DEF Received, AnswerInv
<1>6. UNCHANGED <<peers, asked, inbox, exiting>>
  BY DEF Tick, clientVars, stopVars
<1>7. ASSUME NEW c \in Connected PROVE Known(c)'
  <2>1. c \in Clients /\ Account(Queued(c), answered[c], inbox[c], asked[c])
    BY <1>1, <1>7, Accounts
  <2>2. CASE c \in peers
    <3>1. Queued(c)' = Queued(c) \o out[c]
      BY <1>1, <1>4, <2>2 DEF Queued
    <3>2. Balanced(Queued(c) \o out[c], answered[c], inbox[c], asked[c])
      BY <1>3, <2>1, OutputQueued
    <3>. QED  BY <1>5, <1>6, <3>1, <3>2 DEF Known
  <2>3. CASE c = Stdio
    <3>1. Queued(c)' = Queued(c)
      BY <1>1, <2>3 DEF Queued
    <3>. QED  BY <1>5, <1>6, <2>1, <3>1 DEF Known, Account
  <2>. QED  BY <2>2, <2>3 DEF Connected
<1>8. \A q \in Peers \ peers' : queue'[q] = <<>> /\ inbox'[q] = <<>>
  BY <1>1, <1>4, <1>6 DEF AnswerInv
<1>. QED  BY <1>5, <1>6, <1>7, <1>8 DEF AnswerInv, Connected

(* The kernel takes a frame of a peer's queue. *)
LEMMA FrameFlushed ==
  ASSUME TurnInv, AnswerInv, NEW p \in Peers, Flush(p)
  PROVE  AnswerInv'
<1>1. /\ p \in peers /\ peers \subseteq Peers /\ queue[p] # <<>> /\ queue \in [Peers -> Seq(Frames)]
      /\ Peers \subseteq Clients /\ Stdio \notin Peers
  BY ServerTurnAssumption DEF Flush, TurnInv, Shapes, Clients
<1>2. /\ answered' = [answered EXCEPT ![p] = @ + Count(<<Head(queue[p])>>)]
      /\ queue' = [queue EXCEPT ![p] = Tail(@)]
      /\ UNCHANGED <<asked, inbox, peers, exiting>>
  BY DEF Flush, Received, Count, clientVars, stopVars
<1>3. Count(<<Head(queue[p])>>) \in Nat
  <2>1. queue[p] \in Seq(Frames)
    BY <1>1
  <2>2. Count(<<Head(queue[p])>>) \in {0, 1}
    BY <1>1, <2>1, TailCounts
  <2>. QED  BY <2>2
<1>4. answered' \in [Clients -> Nat]
  BY <1>1, <1>2, <1>3 DEF AnswerInv
<1>5. ASSUME ~exiting, NEW c \in Connected PROVE Known(c)'
  <2>1. c \in Clients /\ Account(Queued(c), answered[c], inbox[c], asked[c])
    BY <1>5, Accounts
  <2>2. CASE c = p
    <3>1. Queued(c) = queue[p] /\ Queued(c)' = Tail(queue[p])
          /\ answered'[c] = answered[c] + Count(<<Head(queue[p])>>)
      BY <1>1, <1>2, <2>1, <2>2 DEF Queued, AnswerInv
    <3>2. Balanced(Tail(queue[p]), answered[c] + Count(<<Head(queue[p])>>), inbox[c], asked[c])
      BY <1>1, <2>1, <3>1, FrameReceived
    <3>. QED  BY <1>2, <3>1, <3>2 DEF Known
  <2>3. CASE c # p
    <3>1. Queued(c)' = Queued(c) /\ answered'[c] = answered[c]
      BY <1>1, <1>2, <2>1, <2>3 DEF Queued, AnswerInv
    <3>. QED  BY <1>2, <2>1, <3>1 DEF Known, Account
  <2>. QED  BY <2>2, <2>3
<1>6. \A q \in Peers \ peers' : queue'[q] = <<>> /\ inbox'[q] = <<>> /\ answered'[q] = answered[q]
  BY <1>1, <1>2 DEF AnswerInv
<1>. QED  BY <1>2, <1>4, <1>5, <1>6 DEF AnswerInv, Connected

LEMMA StepAnswers ==
  ASSUME TurnInv, AnswerInv, [Next]_vars
  PROVE  AnswerInv'
<1>. USE DEF clientVars, wireVars, stopVars
<1>0. /\ Stdio \notin Peers /\ Stdio \in Clients /\ Peers \subseteq Clients /\ peers \subseteq Peers
      /\ asked \in [Clients -> Nat] /\ inbox \in [Clients -> Seq(Requests)]
  BY ServerTurnAssumption DEF Clients, TurnInv, Shapes
<1>1. ASSUME NEW c \in Clients, NEW kind \in Kinds, Ask(c, kind)
      PROVE  AnswerInv'
  <2>1. /\ c \in Connected /\ UNCHANGED <<queue, answered, peers, exiting>>
        /\ asked' = [asked EXCEPT ![c] = @ + 1]
        /\ inbox' = [inbox EXCEPT ![c] = Append(@, [kind |-> kind, re |-> asked[c] + 1])]
    BY <1>1 DEF Ask
  <2>2. ASSUME ~exiting, NEW d \in Connected PROVE Known(d)'
    <3>1. d \in Clients /\ Account(Queued(d), answered[d], inbox[d], asked[d])
          /\ Queued(d)' = Queued(d)
      BY <2>1, <2>2, Accounts DEF Queued
    <3>2. CASE d = c
      <4>1. Balanced(Queued(d), answered[d], Append(inbox[d], [kind |-> kind, re |-> asked[d] + 1]),
                     asked[d] + 1)
        BY <3>1, RequestSent
      <4>2. /\ inbox'[d] = Append(inbox[d], [kind |-> kind, re |-> asked[d] + 1])
            /\ asked'[d] = asked[d] + 1
        BY <1>0, <2>1, <3>2
      <4>. QED  BY <2>1, <3>1, <4>1, <4>2 DEF Known
    <3>3. CASE d # c
      <4>1. inbox'[d] = inbox[d] /\ asked'[d] = asked[d]
        BY <1>0, <2>1, <3>1, <3>3
      <4>. QED  BY <2>1, <3>1, <4>1 DEF Known, Account
    <3>. QED  BY <3>2, <3>3
  <2>3. \A q \in Peers \ peers : q # c /\ inbox'[q] = inbox[q] /\ asked'[q] = asked[q]
    BY <1>0, <2>1 DEF Connected
  <2>. QED  BY <2>1, <2>2, <2>3 DEF AnswerInv, Connected
<1>2. ASSUME NEW p \in Peers, Accept(p)
      PROVE  AnswerInv'
  <2>1. /\ peers' = peers \union {p} /\ p \notin peers /\ asked[p] = 0
        /\ UNCHANGED <<queue, answered, inbox, asked, exiting>>
    BY <1>2 DEF Accept
  <2>2. ASSUME ~exiting, NEW c \in Connected' PROVE Known(c)'
    <3>1. Known(c)' <=> Known(c)
      BY <2>1 DEF Known, Queued
    <3>2. CASE c = p
      <4>1. Queued(p) = <<>> /\ inbox[p] = <<>> /\ answered[p] = 0
        BY <2>1, <2>2 DEF Queued, AnswerInv
      <4>. QED  BY <2>1, <3>1, <3>2, <4>1, Opened DEF Known
    <3>3. CASE c # p
      BY <2>1, <2>2, <3>1, <3>3 DEF Connected, AnswerInv
    <3>. QED  BY <3>2, <3>3
  <2>. QED  BY <2>1, <2>2 DEF AnswerInv
<1>3. ASSUME NEW p \in Peers, Dropped(p) \/ WriteFails(p)
      PROVE  AnswerInv'
  <2>1. /\ p \in peers /\ Removed({p}) /\ inbox' = [inbox EXCEPT ![p] = <<>>]
        /\ UNCHANGED <<asked, answered, exiting>>
    BY <1>3 DEF Dropped, WriteFails, TurnInv, Shapes
  <2>. QED  BY <2>1, PeersRemoved
<1>4. ASSUME NEW p \in Peers, Unheard(p)
      PROVE  AnswerInv'
  <2>1. /\ exiting /\ exiting' /\ inbox' = [inbox EXCEPT ![p] = <<>>]
        /\ UNCHANGED <<asked, answered, peers, queue>>
    BY <1>4 DEF Unheard
  <2>2. \A q \in Peers : inbox'[q] = inbox[q] \/ inbox'[q] = <<>>
    BY <1>0, <2>1
  <2>. QED  BY <2>1, <2>2 DEF AnswerInv
<1>5. ASSUME \/ \E c \in Clients : Close(c)
             \/ StdioEnds \/ TickQuits \/ TickExits \/ UNCHANGED vars
      PROVE  AnswerInv'
  <2>0. exiting => exiting'
    BY <1>5, Zenon DEF Close, StdioEnds, TickQuits, TickExits, vars
  <2>1. UNCHANGED <<asked, inbox, answered, queue, peers>>
    BY <1>5 DEF Close, StdioEnds, TickQuits, TickExits, vars
  <2>2. \A c : Known(c)' <=> Known(c)
    BY <2>1 DEF Known, Queued
  <2>. QED  BY <2>0, <2>1, <2>2 DEF AnswerInv, Connected
<1>. QED  BY <1>1, <1>2, <1>3, <1>4, <1>5, PeerAnswered, FrameFlushed, StdioAnswered, TickAnswered
          DEF Next, PeerStep

(***************************************************************************)
(* Until the server is to exit, each connected client has its requests     *)
(* answered in the order it sent them, each once: those answered, those    *)
(* whose answer is queued and those not read yet are all it asked.         *)
(* (A turn answers last, also when a listener fails: server.rs.)           *)
(***************************************************************************)
THEOREM RequestsAnsweredOnce == Spec => []AnsweredOnce
<1>1. TurnInv /\ [Next]_vars => TurnInv'
  BY StepTurns
<1>2. TurnInv /\ AnswerInv /\ [Next]_vars => AnswerInv'
  BY StepAnswers
<1>3. AnswerInv => AnsweredOnce
  BY DEF AnswerInv, AnsweredOnce, Known, Balanced, Nth, Count, Connected
<1>. QED  BY InitTurns, InitAnswers, <1>1, <1>2, <1>3, PTL DEF Spec
=============================================================================
