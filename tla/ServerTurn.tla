------------------------------ MODULE ServerTurn ------------------------------
(***************************************************************************)
(* crates/oxvim server.rs: how an embedded server moves requests and       *)
(* answers.                                                                *)
(*                                                                         *)
(* A request is one turn of the thread: it is dispatched, the buffer       *)
(* callbacks and mode transitions it caused are drained, and what that     *)
(* wrote is handed to the transports, events first and the response last.  *)
(* Requests come over the primary channel, read from stdin, or from peers, *)
(* whose streams live on a loop of their own that a timer of the main loop *)
(* pumps.  Another timer is the background tick, which writes what jobs    *)
(* and scheduled callbacks caused.  A stream keeps frames in a queue that  *)
(* its loop writes out once it is registered for writing.                  *)
(*                                                                         *)
(* What a dispatch does is left open: any client may get buffer events,    *)
(* and the screen may be redrawn, on every UI.  Frames carry the number of *)
(* their turn.                                                             *)
(***************************************************************************)
EXTENDS Naturals, Sequences, FiniteSets

CONSTANTS
  Peers,     \* clients of the listening sockets
  Stdio,     \* the client of the primary channel
  Kinds,     \* kinds of requests they send
  MaxTurns,  \* bound: turns after which no background tick writes
  MaxAsked,  \* bound: requests of a peer
  MaxStdio   \* bound: requests of the primary client

ASSUME ServerTurnAssumption ==
  /\ Stdio \notin Peers
  /\ Kinds \subseteq {"call", "ui_attach", "quit", "malformed"}

Clients == Peers \union {Stdio}

VARIABLES
  asked,    \* requests a client has sent
  inbox,    \* its requests not read yet
  closed,   \* clients that hung up
  peers,    \* peers the runtime knows
  uis,      \* ui_channels
  queue,    \* WriteQueue of a peer's stream
  armed,    \* streams registered for writing
  got,      \* the frame a peer received last, if any
  answered, \* history: answers it received
  turns,    \* turns taken
  exiting, ended,
  lost      \* history: frames of connected peers no transport took

clientVars == <<asked, closed>>
wireVars == <<queue, armed, got, answered>>
stopVars == <<exiting, ended>>
vars == <<clientVars, wireVars, stopVars, inbox, peers, uis, turns, lost>>

Connected == peers \union {Stdio}

Frame(kind, re) == [turn |-> turns + 1, kind |-> kind, re |-> re]

AnswersIn(frames) == {n \in DOMAIN frames : frames[n].kind = "response"}
Received(c, frames) == answered' = [answered EXCEPT ![c] = @ + Cardinality(AnswersIn(frames))]

(* What a turn writes, channel by channel: events for some clients, and    *)
(* redraws for all UIs or for none.                                        *)
Announced(events, to) == IF to \in events THEN <<Frame("event", 0)>> ELSE <<>>
Redrawn(drawn, to) == IF drawn /\ to \in uis' THEN <<Frame("redraw", 0)>> ELSE <<>>
Answer(c, request, to) == IF to = c THEN <<Frame("response", request.re)>> ELSE <<>>

AnswerFirst(c, request, events, drawn, to) ==   \* mutant
  Answer(c, request, to) \o Announced(events, to) \o Redrawn(drawn, to)

(* A client understands redraws only after the answer to nvim_ui_attach.   *)
Written(c, request, events, drawn, to) ==
  Announced(events, to)
  \o IF request.kind = "ui_attach" THEN Answer(c, request, to) \o Redrawn(drawn, to)
                                   ELSE Redrawn(drawn, to) \o Answer(c, request, to)

WithUi(c, request) == IF request.kind = "ui_attach" THEN uis \union {c} ELSE uis

(* remove_peer: the stream goes with all it had queued; a UI stays.        *)
Removed(ps) ==
  /\ peers' = peers \ ps
  /\ queue' = [p \in Peers |-> IF p \in ps THEN <<>> ELSE queue[p]]
  /\ armed' = armed \ ps

----------------------------------------------------------------------------
(* Clients. *)

Ask(c, kind) ==
  /\ ~ended /\ c \in Connected \ closed /\ asked[c] < IF c = Stdio THEN MaxStdio ELSE MaxAsked
  /\ asked' = [asked EXCEPT ![c] = @ + 1]
  /\ inbox' = [inbox EXCEPT ![c] = Append(@, [kind |-> kind, re |-> asked[c] + 1])]
  /\ UNCHANGED <<closed, wireVars, stopVars, peers, uis, turns, lost>>

(* A peer hangs up, the primary client closes stdin. *)
Close(c) ==
  /\ ~ended /\ c \in Connected \ closed
  /\ closed' = closed \union {c}
  /\ UNCHANGED <<asked, wireVars, stopVars, inbox, peers, uis, turns, lost>>

----------------------------------------------------------------------------
(* The loop of the streams, pumped by a timer of the main loop. *)

Accept(p) ==
  /\ ~ended /\ p \notin peers \union closed /\ asked[p] = 0
  /\ peers' = peers \union {p}
  /\ UNCHANGED <<clientVars, wireVars, stopVars, inbox, uis, turns, lost>>

Unregistered(p, waiting) == armed   \* mutant

(* A write registers its stream, and so does whatever a peer sends. *)
Interest(p, waiting) ==
  armed \union {q \in Peers : waiting[q] # <<>> /\ (q = p \/ waiting[q] # queue[q])}

AnswersIfWell(failing) == ~failing   \* mutant

(* A failing listener is reported and does not keep the answer back. *)
Answers(failing) == TRUE

PeerTurn(p) ==
  /\ ~ended /\ ~exiting /\ p \in peers /\ inbox[p] # <<>>
  /\ Head(inbox[p]).kind # "malformed"
  /\ turns' = turns + 1
  /\ inbox' = [inbox EXCEPT ![p] = Tail(@)]
  /\ uis' = WithUi(p, Head(inbox[p]))
  /\ exiting' = (Head(inbox[p]).kind = "quit")
  /\ \E events \in SUBSET Connected, drawn, failing \in BOOLEAN :
       LET Out(c) == IF Answers(failing)
                     THEN Written(p, Head(inbox[p]), events, drawn, c)
                     ELSE <<>>
       IN /\ queue' = [q \in Peers |-> IF q \in peers THEN queue[q] \o Out(q) ELSE <<>>]
          /\ armed' = Interest(p, queue')
          /\ Received(Stdio, Out(Stdio))
  /\ UNCHANGED <<clientVars, peers, got, ended, lost>>

(* Bytes that decode to nothing, or the end of the stream: remove_peer. *)
Dropped(p) ==
  /\ ~ended /\ p \in peers
  /\ \/ inbox[p] # <<>> /\ Head(inbox[p]).kind = "malformed"
     \/ inbox[p] = <<>> /\ p \in closed
  /\ Removed({p})
  /\ inbox' = [inbox EXCEPT ![p] = <<>>]
  /\ UNCHANGED <<clientVars, stopVars, got, answered, uis, turns, lost>>

(* After a quit was recorded a readiness batch leaves its requests alone. *)
Unheard(p) ==
  /\ ~ended /\ exiting /\ p \in peers /\ inbox[p] # <<>>
  /\ inbox' = [inbox EXCEPT ![p] = <<>>]
  /\ armed' = Interest(p, queue)
  /\ UNCHANGED <<clientVars, stopVars, peers, uis, queue, got, answered, turns, lost>>

(* drive_writes, frame by frame: the kernel may take any number at once. *)
Flush(p) ==
  /\ ~ended /\ p \in armed /\ p \notin closed
  /\ got' = [got EXCEPT ![p] = <<Head(queue[p])>>] /\ Received(p, <<Head(queue[p])>>)
  /\ queue' = [queue EXCEPT ![p] = Tail(@)]
  /\ armed' = IF Len(queue[p]) = 1 THEN armed \ {p} ELSE armed
  /\ UNCHANGED <<clientVars, stopVars, inbox, peers, uis, turns, lost>>

(* A write that fails completes with an error, and the peer is removed. *)
WriteFails(p) ==
  /\ ~ended /\ p \in armed /\ p \in closed
  /\ Removed({p})
  /\ inbox' = [inbox EXCEPT ![p] = <<>>]
  /\ UNCHANGED <<clientVars, stopVars, got, answered, uis, turns, lost>>

----------------------------------------------------------------------------
(* The primary channel and the background tick, on the main loop. *)

(* bind_stdio: frames of other channels are taken and written nowhere.  An *)
(* error of a listener ends the server once the answer is out.             *)
StdioTurn ==
  /\ ~ended /\ ~exiting /\ inbox[Stdio] # <<>> /\ Head(inbox[Stdio]).kind # "malformed"
  /\ turns' = turns + 1
  /\ inbox' = [inbox EXCEPT ![Stdio] = Tail(@)]
  /\ uis' = WithUi(Stdio, Head(inbox[Stdio]))
  /\ exiting' = (Head(inbox[Stdio]).kind = "quit")
  /\ \E events \in SUBSET Connected, drawn, failing \in BOOLEAN :
       LET Out(c) == Written(Stdio, Head(inbox[Stdio]), events, drawn, c)
       IN /\ Received(Stdio, Out(Stdio))
          /\ lost' = lost \union {p \in peers : Out(p) # <<>>}
          /\ ended' = (failing \/ exiting')
  /\ UNCHANGED <<clientVars, peers, queue, armed, got>>

(* End of stdin, bytes that do not decode, or a quit recorded meanwhile. *)
StdioEnds ==
  /\ ~ended
  /\ \/ inbox[Stdio] = <<>> /\ Stdio \in closed
     \/ inbox[Stdio] # <<>> /\ (exiting \/ Head(inbox[Stdio]).kind = "malformed")
  /\ exiting' = (exiting \/ inbox[Stdio] = <<>>)
  /\ ended' = TRUE
  /\ UNCHANGED <<clientVars, wireVars, inbox, peers, uis, turns, lost>>

(* poll_background writes to peers through a loop that holds no stream, so *)
(* no stream is registered for writing.                                    *)
Tick ==
  /\ ~ended /\ ~exiting /\ turns < MaxTurns
  /\ turns' = turns + 1 /\ uis' = uis
  /\ \E events \in SUBSET Connected, drawn \in BOOLEAN :
       LET Out(c) == Announced(events, c) \o Redrawn(drawn, c)
       IN /\ queue' = [q \in Peers |-> IF q \in peers THEN queue[q] \o Out(q) ELSE <<>>]
          /\ Received(Stdio, Out(Stdio))
  /\ UNCHANGED <<clientVars, stopVars, inbox, peers, armed, got, lost>>

(* A job or a scheduled callback that quits ends the server within a tick. *)
TickQuits ==
  /\ ~ended /\ ~exiting /\ turns < MaxTurns
  /\ exiting' = TRUE /\ ended' = TRUE
  /\ UNCHANGED <<clientVars, wireVars, inbox, peers, uis, turns, lost>>

(* The tick of a server that is to exit stops the main loop. *)
TickExits ==
  /\ ~ended /\ exiting
  /\ ended' = TRUE
  /\ UNCHANGED <<clientVars, wireVars, inbox, peers, uis, turns, exiting, lost>>

----------------------------------------------------------------------------
Init ==
  /\ asked = [c \in Clients |-> 0] /\ inbox = [c \in Clients |-> <<>>] /\ closed = {}
  /\ peers = {} /\ uis = {} /\ queue = [p \in Peers |-> <<>>] /\ armed = {}
  /\ got = [p \in Peers |-> <<>>] /\ answered = [c \in Clients |-> 0] /\ turns = 0
  /\ exiting = FALSE /\ ended = FALSE /\ lost = {}

PeerStep(p) == PeerTurn(p) \/ Dropped(p) \/ Unheard(p)

Next ==
  \/ \E c \in Clients, kind \in Kinds : Ask(c, kind)
  \/ \E c \in Clients : Close(c)
  \/ \E p \in Peers : Accept(p) \/ PeerStep(p) \/ Flush(p) \/ WriteFails(p)
  \/ StdioTurn \/ StdioEnds \/ Tick \/ TickQuits \/ TickExits

(* Both timers of the main loop repeat: the streams are served whenever    *)
(* they are ready, and a tick comes.                                       *)
Fairness ==
  /\ \A p \in Peers : WF_vars(PeerStep(p)) /\ WF_vars(Flush(p)) /\ WF_vars(WriteFails(p))
  /\ WF_vars(TickExits)
Spec == Init /\ [][Next]_vars /\ Fairness

----------------------------------------------------------------------------
Queued(c) == IF c \in Peers THEN queue[c] ELSE <<>>
Stream(p) == got[p] \o queue[p]

Precedes(f, g) ==
  f.turn < g.turn \/ (f.turn = g.turn /\ f.kind # g.kind /\ g.kind # "event")
InOrder(frames) == \A m, n \in DOMAIN frames : m < n => Precedes(frames[m], frames[n])

(* A peer sees the turns of the server in their order, also those whose    *)
(* frames were queued for a while, and of each turn the buffer events      *)
(* before the answer: a call never looks complete with its events to come. *)
InTurnOrder == \A p \in Peers : InOrder(Stream(p))

(* Every request the server has read was answered once, in the order the   *)
(* client asked, whether or not a listener failed, unless the client was   *)
(* removed or the request came after a quit.                               *)
AnsweredOnce ==
  \A c \in peers \union {Stdio} : ~exiting =>
    LET coming == AnswersIn(Queued(c))
    IN /\ \A n \in coming :
            Queued(c)[n].re = answered[c] + Cardinality({m \in coming : m <= n})
       /\ answered[c] + Cardinality(coming) + Len(inbox[c]) = asked[c]

(* A request of a peer is answered and the answer reaches it, however much *)
(* background output waits in its queue, unless one of them goes away.     *)
Unanswered(p) == inbox[p] # <<>> \/ AnswersIn(queue[p]) # {}
AnswersArrive == \A p \in Peers : Unanswered(p) ~> ~Unanswered(p) \/ ended

----------------------------------------------------------------------------
(* Claims of comments that the code does not keep. *)

(* "Peers live on the accept loop, so their writes go through it": what    *)
(* the background tick writes to a peer reaches it.                        *)
BackgroundArrives == \A p \in Peers : queue[p] # <<>> ~> queue[p] = <<>> \/ ended

(* "grouped by channel until the owning transport turn flushes them": no   *)
(* frame of a connected client is taken and not written.                   *)
NothingDropped == lost = {}

(* "representing attached UIs" (nvim_list_uis): a UI is attached by a      *)
(* client that is connected.                                               *)
UisConnected == uis \subseteq Connected
=============================================================================
