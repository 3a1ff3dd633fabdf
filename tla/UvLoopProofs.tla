---------------------------- MODULE UvLoopProofs ----------------------------
(***************************************************************************)
(* Proofs about UvLoop, for every set of handles, every way of nesting and *)
(* every bound: a stop ends the run it was asked of, a close is delivered  *)
(* once, an async send is not forgotten, and where no timer callback runs  *)
(* the loop again only what is still current fires.                        *)
(***************************************************************************)
EXTENDS UvLoop, FiniteSetTheorems, FunctionTheorems, SequenceTheorems, TLAPS

-----------------------------------------------------------------------------
(* The stack as a sequence *)

IsStack(s) == s \in Seq(Range(s))

LEMMA StackPushed ==
  ASSUME NEW s, IsStack(s), NEW f
  PROVE  LET t == Append(s, f)
         IN  /\ IsStack(t) /\ Len(t) = Len(s) + 1 /\ t[Len(t)] = f /\ t # <<>>
             /\ \A i \in 1..Len(s) : t[i] = s[i]
<1>. DEFINE t == Append(s, f)
            T == Range(s) \union {f}
<1>1. s \in Seq(T) /\ f \in T
  BY SeqMonotonic DEF IsStack
<1>2. t \in Seq(T) /\ Len(t) = Len(s) + 1 /\ t[Len(t)] = f /\ \A i \in 1..Len(s) : t[i] = s[i]
  BY <1>1, SMT
<1>3. Len(s) \in Nat
  BY <1>1, SMT
<1>4. t # <<>>
  BY <1>2, <1>3, SMT
<1>5. IsStack(t)
  BY <1>2, SeqOfRange DEF IsStack
<1>. QED  BY <1>2, <1>4, <1>5

LEMMA StackPopped ==
  ASSUME NEW s, IsStack(s), s # <<>>
  PROVE  /\ Len(s) \in Nat /\ Len(s) >= 1 /\ IsStack(Front(s)) /\ Len(Front(s)) = Len(s) - 1
         /\ \A i \in 1..(Len(s) - 1) : Front(s)[i] = s[i]
<1>1. Len(s) \in Nat /\ Len(s) >= 1
  BY SMT DEF IsStack
<1>2. Front(s) \in Seq(Range(s)) /\ Len(Front(s)) = Len(s) - 1
      /\ \A i \in 1..(Len(s) - 1) : Front(s)[i] = s[i]
  <2>. DEFINE T == Range(s)
              n == Len(s) - 1
              u == SubSeq(s, 1, n)
  <2>1. s \in Seq(T)
    BY DEF IsStack
  <2>2. 1 \in Int /\ n \in Int /\ n >= 0
    BY <1>1, SMT
  <2>3. \A i \in 1..n : s[i] \in T
    <3>1. \A i \in 1..n : i \in 1..Len(s)
      BY <1>1, SMT
    <3>. QED  BY <2>1, <3>1, ElementOfSeq
  <2>4. /\ u \in Seq(T) /\ Len(u) = IF 1 <= n THEN n - 1 + 1 ELSE 0
        /\ \A i \in 1..(n - 1 + 1) : u[i] = s[1 + i - 1]
    <3>. HIDE DEF T, n
    <3>. QED  BY <2>2, <2>3, SubSeqProperties
  <2>. HIDE DEF T, u
  <2>5. n - 1 + 1 = n /\ \A i \in 1..n : 1 + i - 1 = i
    BY <1>1, SMT
  <2>7. Len(u) = n
    <3>1. Len(u) = IF 1 <= n THEN n - 1 + 1 ELSE 0
      BY <2>4
    <3>. HIDE DEF n
    <3>. QED  BY <2>2, <3>1, SMT
  <2>6. \A i \in 1..n : u[i] = s[i]
    <3>. HIDE DEF n
    <3>. QED  BY <2>4, <2>5
  <2>. QED  BY <2>4, <2>6, <2>7 DEF Front, T, u
<1>3. IsStack(Front(s))
  BY <1>2, SeqOfRange DEF IsStack
<1>. QED  BY <1>1, <1>2, <1>3

LEMMA TopReplaced ==
  ASSUME NEW s, IsStack(s), s # <<>>, NEW f
  PROVE  LET t == Append(Front(s), f)
         IN  /\ IsStack(t) /\ Len(t) = Len(s) /\ t[Len(s)] = f /\ t # <<>>
             /\ \A i \in 1..(Len(s) - 1) : t[i] = s[i]
<1>1. /\ Len(s) \in Nat /\ Len(s) >= 1 /\ IsStack(Front(s)) /\ Len(Front(s)) = Len(s) - 1
      /\ \A i \in 1..(Len(s) - 1) : Front(s)[i] = s[i]
  BY StackPopped
<1>. DEFINE t == Append(Front(s), f)
<1>2. /\ IsStack(t) /\ Len(t) = Len(Front(s)) + 1 /\ t[Len(t)] = f /\ t # <<>>
      /\ \A i \in 1..Len(Front(s)) : t[i] = Front(s)[i]
  BY <1>1, StackPushed
<1>. QED  BY <1>1, <1>2, SMT

-----------------------------------------------------------------------------
(* A stop ends the run it was asked of *)

Fields == {"mode", "pc", "forced", "batch", "due", "call", "asked"}
Framed == IsStack(stack) /\ \A i \in 1..Len(stack) : DOMAIN stack[i] = Fields
StopStands == stack # <<>> /\ Top.asked => stop

\* The innermost run takes a step of its own: what it was asked stays, and it
\* begins another turn only while nobody asked to stop.
TopSteps ==
  /\ stack # <<>> /\ UNCHANGED stop
  /\ \E f : /\ stack' = ReplaceTop(f) /\ DOMAIN f = DOMAIN Top /\ f.asked = Top.asked
            /\ (Top.pc = "again" /\ f.pc = "timers" => ~stop)

LEMMA TopFrame ==
  ASSUME Framed, stack # <<>>
  PROVE  /\ DOMAIN Top = Fields /\ Len(stack) \in 1..Len(stack)
         /\ Top = stack[Len(stack)]
<1>1. Len(stack) \in Nat /\ Len(stack) >= 1
  BY StackPopped DEF Framed
<1>2. Len(stack) \in 1..Len(stack)
  BY <1>1, SMT
<1>. QED  BY <1>2 DEF Framed, Top, Last

LEMMA KeepsFields ==
  ASSUME NEW f, DOMAIN f = Fields, NEW v
  PROVE  /\ DOMAIN [f EXCEPT !.pc = v] = Fields /\ [f EXCEPT !.pc = v].asked = f.asked
         /\ [f EXCEPT !.pc = v].pc = v
         /\ DOMAIN [f EXCEPT !.call = v] = Fields /\ [f EXCEPT !.call = v].asked = f.asked
         /\ [f EXCEPT !.call = v].pc = f.pc
         /\ DOMAIN [f EXCEPT !.due = v] = Fields /\ [f EXCEPT !.due = v].asked = f.asked
         /\ [f EXCEPT !.due = v].pc = f.pc
         /\ DOMAIN [f EXCEPT !.batch = v] = Fields /\ [f EXCEPT !.batch = v].asked = f.asked
         /\ [f EXCEPT !.batch = v].pc = f.pc
         /\ DOMAIN [f EXCEPT !.forced = v] = Fields /\ [f EXCEPT !.forced = v].asked = f.asked
         /\ [f EXCEPT !.forced = v].pc = f.pc
         /\ DOMAIN [f EXCEPT !.asked = v] = Fields /\ [f EXCEPT !.asked = v].asked = v
BY DEF Fields

\* What a step of the loop thread does to the stack: nothing, a step of the
\* innermost run, or the end of that run.
LEMMA LoopStepKinds ==
  ASSUME Framed, LoopStep
  PROVE  \/ UNCHANGED <<stack, stop>>
         \/ TopSteps
         \/ stack # <<>> /\ stack' = Outer
<1>1. stack # <<>> => DOMAIN Top = Fields
  BY TopFrame
<1>. DEFINE f == Top
<1>2. CASE BeginTurn
  <2>. DEFINE g == [f EXCEPT !.pc = "timers", !.forced = stop \/ f.mode = "nowait",
                            !.batch = Collected(DueTimers), !.due = closeNext]
  <2>1. stack # <<>> /\ UNCHANGED stop /\ stack' = ReplaceTop(g) /\ TurnAhead
    BY <1>2 DEF BeginTurn, AtHead, Running
  <2>2. DOMAIN g = DOMAIN f /\ g.asked = f.asked
    BY <1>1, <2>1 DEF Fields
  <2>3. Top.pc = "again" => ~stop
    BY <2>1 DEF TurnAhead
  <2>. QED  BY <2>1, <2>2, <2>3 DEF TopSteps
<1>3. CASE EndRun
  BY <1>3 DEF EndRun, AtHead, Running
<1>4. CASE FireCollected
  <2>1. PICK i \in FirstFiring(f.batch) :
          stack' = ReplaceTop([f EXCEPT !.call = Call(f.batch[i][1]),
                                        !.batch = SubSeq(f.batch, i + 1, Len(f.batch))])
    BY <1>4 DEF FireCollected
  <2>. DEFINE g == [f EXCEPT !.call = Call(f.batch[i][1]),
                            !.batch = SubSeq(f.batch, i + 1, Len(f.batch))]
  <2>2. stack # <<>> /\ UNCHANGED stop /\ f.pc # "again"
    BY <1>4 DEF FireCollected, Running, loopVars
  <2>3. DOMAIN g = DOMAIN f /\ g.asked = f.asked /\ g.pc = f.pc
    BY <1>1, <2>2 DEF Fields
  <2>. QED  BY <2>1, <2>2, <2>3 DEF TopSteps
<1>5. CASE RunCompletion
  <2>1. /\ stack # <<>> /\ UNCHANGED stop /\ f.pc # "again"
        /\ stack' = ReplaceTop([f EXCEPT !.call = [NoCall EXCEPT !.id = "work"]])
    BY <1>5 DEF RunCompletion, Running, loopVars
  <2>. QED  BY <1>1, <2>1, KeepsFields DEF TopSteps
<1>6. CASE CollectSources
  <2>1. /\ stack # <<>> /\ UNCHANGED stop /\ f.pc # "again"
        /\ stack' = ReplaceTop([f EXCEPT !.pc = IF f.pc = "work" THEN "deliver" ELSE "deliver2"])
    BY <1>6 DEF CollectSources, Running
  <2>. QED  BY <1>1, <2>1, KeepsFields DEF TopSteps
<1>7. CASE Deliver
  <2>1. stack # <<>> /\ UNCHANGED stop /\ f.pc # "again"
    BY <1>7 DEF Deliver, Running
  <2>2. \/ stack' = ReplaceTop([f EXCEPT !.call = Call(Head(queue)[1])])
        \/ stack' = stack
    BY <1>7 DEF Deliver
  <2>. QED  BY <1>1, <2>1, <2>2, KeepsFields DEF TopSteps
<1>8. CASE FireClose
  <2>. DEFINE g == [f EXCEPT !.due = Tail(f.due), !.call = [NoCall EXCEPT !.id = Head(f.due)]]
  <2>1. stack # <<>> /\ UNCHANGED stop /\ f.pc # "again"
    BY <1>8 DEF FireClose, Running, loopVars
  <2>2. \/ stack' = ReplaceTop(g)
        \/ stack' = ReplaceTop([f EXCEPT !.due = Tail(f.due)])
    BY <1>8 DEF FireClose
  <2>3. DOMAIN g = DOMAIN f /\ g.asked = f.asked /\ g.pc = f.pc
    BY <1>1, <2>1 DEF Fields
  <2>. QED  BY <1>1, <2>1, <2>2, <2>3, KeepsFields DEF TopSteps
<1>9. CASE CallbackReturns
  <2>1. /\ stack # <<>> /\ UNCHANGED stop
        /\ stack' = ReplaceTop([f EXCEPT !.call = NoCall])
    BY <1>9 DEF CallbackReturns, InCallback, loopVars
  <2>2. [f EXCEPT !.call = NoCall].pc = f.pc
    BY <1>1, <2>1, KeepsFields
  <2>. QED  BY <1>1, <2>1, <2>2, KeepsFields DEF TopSteps
<1>10. CASE Advance
  <2>1. stack # <<>> /\ UNCHANGED stop /\ f.pc # "again"
    BY <1>10 DEF Advance, Running, Exhausted, loopVars
  <2>2. PICK i \in DOMAIN Rest(f.pc) :
          stack' = ReplaceTop([f EXCEPT !.pc = Rest(f.pc)[i], !.batch = BatchOf(Rest(f.pc)[i])])
    BY <1>10 DEF Advance
  <2>. DEFINE g == [f EXCEPT !.pc = Rest(f.pc)[i], !.batch = BatchOf(Rest(f.pc)[i])]
  <2>3. DOMAIN g = DOMAIN f /\ g.asked = f.asked
    BY <1>1, <2>1 DEF Fields
  <2>. QED  BY <2>1, <2>2, <2>3 DEF TopSteps
<1>11. CASE Poll
  <2>1. /\ stack # <<>> /\ UNCHANGED stop /\ f.pc # "again"
        /\ stack' = ReplaceTop([f EXCEPT !.pc = "work2"])
    BY <1>11 DEF Poll, Polling, Running, loopVars
  <2>. QED  BY <1>1, <2>1, KeepsFields DEF TopSteps
<1>. QED
  BY <1>2, <1>3, <1>4, <1>5, <1>6, <1>7, <1>8, <1>9, <1>10, <1>11 DEF LoopStep

LEMMA RunPushes ==
  ASSUME NEW m, Framed, stack' = Append(stack, Frame(m))
  PROVE  Framed' /\ stack' # <<>> /\ Len(stack') = Len(stack) + 1 /\ Last(stack') = Frame(m)
<1>1. /\ IsStack(stack') /\ Len(stack') = Len(stack) + 1 /\ stack'[Len(stack')] = Frame(m)
      /\ stack' # <<>> /\ \A i \in 1..Len(stack) : stack'[i] = stack[i]
  BY StackPushed DEF Framed
<1>2. DOMAIN Frame(m) = Fields
  BY DEF Frame, Fields
<1>3. ASSUME NEW i \in 1..Len(stack')
      PROVE  DOMAIN stack'[i] = Fields
  <2>1. Len(stack) \in Nat
    BY SMT DEF Framed, IsStack
  <2>2. i \in 1..Len(stack) \/ i = Len(stack')
    BY <1>1, <2>1, SMT
  <2>. QED  BY <1>1, <1>2, <2>2 DEF Framed
<1>. QED  BY <1>1, <1>3 DEF Framed, Last

LEMMA TopTaken ==
  ASSUME Framed, stack # <<>>, NEW f, DOMAIN f = Fields, stack' = ReplaceTop(f)
  PROVE  /\ Framed' /\ stack' # <<>> /\ Len(stack') = Len(stack) /\ Top' = f
         /\ \A i \in 1..(Len(stack) - 1) : stack'[i] = stack[i]
<1>1. /\ IsStack(stack') /\ Len(stack') = Len(stack) /\ stack'[Len(stack)] = f
      /\ stack' # <<>> /\ \A i \in 1..(Len(stack) - 1) : stack'[i] = stack[i]
  BY TopReplaced DEF Framed, ReplaceTop
<1>2. ASSUME NEW i \in 1..Len(stack')
      PROVE  DOMAIN stack'[i] = Fields
  <2>1. Len(stack) \in Nat
    BY SMT DEF Framed, IsStack
  <2>2. i \in 1..(Len(stack) - 1) \/ i = Len(stack)
    BY <1>1, <2>1, SMT
  <2>3. i \in 1..Len(stack)
    BY <1>1
  <2>. QED  BY <1>1, <2>2, <2>3 DEF Framed
<1>. QED  BY <1>1, <1>2 DEF Framed, Top, Last

\* The outer run goes on where its callback left it, with no stop asked of it.
LEMMA RunPops ==
  ASSUME Framed, stack # <<>>, stack' = Outer
  PROVE  /\ Framed' /\ Len(stack') = Len(stack) - 1 /\ Len(stack) \in Nat \ {0}
         /\ (stack' # <<>> => Top'.asked = FALSE)
         /\ \A i \in 1..Len(stack') : /\ stack'[i].due = stack[i].due /\ stack'[i].pc = stack[i].pc
                                       /\ stack'[i].call = stack[i].call
                                       /\ stack'[i].batch = stack[i].batch
<1>. DEFINE n == Len(stack) - 1
            s == Front(stack)
<1>1. /\ Len(stack) \in Nat /\ Len(stack) >= 1 /\ IsStack(s) /\ Len(s) = n
      /\ \A i \in 1..n : s[i] = stack[i]
  BY StackPopped DEF Framed
<1>2. \A i \in 1..n : DOMAIN stack[i] = Fields
  BY <1>1, SMT DEF Framed
<1>3. CASE Len(stack) = 1
  <2>1. stack' = <<>>
    BY <1>3 DEF Outer
  <2>2. IsStack(<<>>) /\ Len(<<>>) = 0
    BY DEF IsStack
  <2>3. 1..0 = {}
    BY SMT
  <2>. QED  BY <1>1, <1>3, <2>1, <2>2, <2>3, SMT DEF Framed
<1>4. CASE Len(stack) # 1
  <2>. DEFINE t == [s EXCEPT ![n] = [s[n] EXCEPT !.asked = FALSE]]
  <2>1. stack' = t
    BY <1>4 DEF Outer
  <2>2. n \in 1..n /\ n # 0
    BY <1>1, <1>4, SMT
  <2>3. s \in Seq(Range(s)) /\ DOMAIN s = 1..n
    BY <1>1, LenProperties DEF IsStack
  <2>4. /\ DOMAIN t = 1..n /\ t[n] = [s[n] EXCEPT !.asked = FALSE]
        /\ \A i \in 1..n : i # n => t[i] = s[i]
    BY <2>2, <2>3
  <2>5. /\ DOMAIN t[n] = Fields /\ t[n].asked = FALSE
        /\ t[n].due = stack[n].due /\ t[n].pc = stack[n].pc /\ t[n].call = stack[n].call
        /\ t[n].batch = stack[n].batch
    BY <1>1, <1>2, <2>2, <2>4 DEF Fields
  <2>6. t \in Seq(Range(t)) /\ Len(t) = n
    <3>1. t = [i \in 1..n |-> t[i]]
      BY <2>3
    <3>2. \A i \in 1..n : t[i] \in Range(t)
      BY <2>4 DEF Range
    <3>3. n \in Nat
      BY <1>1, SMT
    <3>. HIDE DEF t
    <3>4. t \in Seq(Range(t))
      BY <3>1, <3>2, <3>3, SeqDef
    <3>. QED  BY <2>4, <3>3, <3>4, LenProperties, SMT
  <2>7. \A i \in 1..n : /\ DOMAIN t[i] = Fields /\ t[i].due = stack[i].due /\ t[i].pc = stack[i].pc
                        /\ t[i].call = stack[i].call /\ t[i].batch = stack[i].batch
    BY <1>1, <1>2, <2>4, <2>5
  <2>. HIDE DEF t, n
  <2>8. Framed'
    BY <2>1, <2>6, <2>7 DEF Framed, IsStack
  <2>9. Top' = t[n]
    BY <2>1, <2>6 DEF Top, Last
  <2>. QED  BY <1>1, <2>1, <2>5, <2>6, <2>7, <2>8, <2>9 DEF n
<1>. QED  BY <1>3, <1>4

StopInv == Framed /\ StopStands

\* What any step does to the stack and to the stop request.
StackKinds ==
  \/ UNCHANGED <<stack, stop>>
  \/ TopSteps
  \/ stack # <<>> /\ stack' = Outer
  \/ StopLoop
  \/ \E m \in Mode : Run(m)

LEMMA StepKinds ==
  ASSUME Framed, [Next]_vars
  PROVE  StackKinds
<1>1. CASE HandleCalls
  <2>. SUFFICES ASSUME ~StopLoop
                PROVE  UNCHANGED <<stack, stop>>
    BY DEF StackKinds
  <2>. QED
    BY <1>1 DEF HandleCalls, TimerStart, Again, PhaseStart, SignalStart, Send, Stop, Close, SetRef,
                Submit, Changes, loopVars
<1>2. CASE Environment
  BY <1>2 DEF Environment, SenderStores, SenderWakes, WorkerPosts, SignalRaised, Elapses, External,
              loopVars, StackKinds
<1>3. CASE LoopStep
  BY <1>3, LoopStepKinds DEF StackKinds
<1>4. CASE PollFails
  BY <1>4 DEF PollFails, Polling, Running, StackKinds
<1>5. CASE \E m \in Mode : Run(m)
  BY <1>5 DEF StackKinds
<1>6. CASE UNCHANGED vars
  BY <1>6 DEF vars, loopVars, StackKinds
<1>. QED  BY <1>1, <1>2, <1>3, <1>4, <1>5, <1>6 DEF Next

LEMMA StopInvInit == Init => StopInv
<1>. SUFFICES ASSUME Init
              PROVE  StopInv
  OBVIOUS
<1>1. stack = <<>>
  BY DEF Init
<1>2. IsStack(<<>>) /\ Len(<<>>) = 0
  BY DEF IsStack
<1>3. 1..0 = {}
  BY SMT
<1>. QED  BY <1>1, <1>2, <1>3 DEF StopInv, Framed, StopStands

LEMMA StopInvNext == StopInv /\ [Next]_vars => StopInv'
<1>. SUFFICES ASSUME StopInv, [Next]_vars
              PROVE  Framed' /\ StopStands'
  BY DEF StopInv
<1>. USE DEF StopInv
<1>1. StackKinds
  BY StepKinds
<1>2. CASE UNCHANGED <<stack, stop>>
  BY <1>2 DEF Framed, StopStands, Top
<1>3. CASE TopSteps
  <2>1. PICK f : stack' = ReplaceTop(f) /\ DOMAIN f = DOMAIN Top /\ f.asked = Top.asked
    BY <1>3 DEF TopSteps
  <2>2. stack # <<>> /\ stop' = stop
    BY <1>3 DEF TopSteps
  <2>3. DOMAIN f = Fields
    BY <2>1, <2>2, TopFrame
  <2>4. Framed' /\ Top' = f
    BY <2>1, <2>2, <2>3, TopTaken
  <2>. QED  BY <2>1, <2>2, <2>4 DEF StopStands
<1>4. CASE stack # <<>> /\ stack' = Outer
  BY <1>4, RunPops DEF StopStands
<1>5. CASE StopLoop
  <2>1. stop' = TRUE
    BY <1>5 DEF StopLoop
  <2>2. CASE stack = <<>>
    BY <1>5, <2>1, <2>2 DEF StopLoop, Framed, StopStands
  <2>3. CASE stack # <<>>
    <3>1. stack' = ReplaceTop([Top EXCEPT !.asked = TRUE])
      BY <1>5, <2>3 DEF StopLoop
    <3>2. DOMAIN [Top EXCEPT !.asked = TRUE] = Fields
      BY <2>3, TopFrame, KeepsFields
    <3>. QED  BY <2>1, <2>3, <3>1, <3>2, TopTaken DEF StopStands
  <2>. QED  BY <2>2, <2>3
<1>6. CASE \E m \in Mode : Run(m)
  <2>1. PICK m \in Mode : stack' = Append(stack, Frame(m))
    BY <1>6 DEF Run
  <2>2. Framed' /\ Top' = Frame(m)
    BY <2>1, RunPushes DEF Top
  <2>3. Frame(m).asked = FALSE
    BY DEF Frame
  <2>. QED  BY <2>2, <2>3 DEF StopStands
<1>. QED  BY <1>1, <1>2, <1>3, <1>4, <1>5, <1>6 DEF StackKinds

\* A run whose callback asked it to stop keeps the request until the run ends
\* or a run nested after it takes the request away, so it begins no new turn.
THEOREM StopsEndRun == Spec => StopEndsRun
<1>. DEFINE Ends == stack # <<>> /\ Top.asked /\ Len(stack') = Len(stack)
                    => ~(Top.pc = "again" /\ Last(stack').pc = "timers")
<1>1. ASSUME StopInv, [Next]_vars
      PROVE  Ends
  <2>. SUFFICES ASSUME stack # <<>>, Top.asked, Len(stack') = Len(stack),
                       Top.pc = "again", Last(stack').pc = "timers"
                PROVE  FALSE
    OBVIOUS
  <2>. USE DEF StopInv
  <2>1. StackKinds
    BY <1>1, StepKinds
  <2>2. stop
    BY <1>1 DEF StopStands
  <2>3. CASE UNCHANGED <<stack, stop>>
    <3>1. Top.pc = "timers"
      BY <2>3 DEF Top
    <3>. QED  BY <3>1
  <2>4. CASE TopSteps
    <3>1. PICK f : /\ stack' = ReplaceTop(f) /\ DOMAIN f = DOMAIN Top
                   /\ (Top.pc = "again" /\ f.pc = "timers" => ~stop)
      BY <2>4 DEF TopSteps
    <3>2. Top' = f
      BY <1>1, <3>1, TopFrame, TopTaken
    <3>. QED  BY <2>2, <3>1, <3>2 DEF Top
  <2>5. CASE stack # <<>> /\ stack' = Outer
    <3>1. Len(stack') = Len(stack) - 1 /\ Len(stack) \in Nat
      BY <1>1, <2>5, RunPops
    <3>. QED  BY <3>1, SMT
  <2>6. CASE StopLoop
    <3>1. stack' = ReplaceTop([Top EXCEPT !.asked = TRUE])
      BY <2>6 DEF StopLoop
    <3>2. DOMAIN [Top EXCEPT !.asked = TRUE] = Fields /\ [Top EXCEPT !.asked = TRUE].pc = Top.pc
      BY <1>1, TopFrame DEF Fields
    <3>3. Top' = [Top EXCEPT !.asked = TRUE]
      BY <1>1, <3>1, <3>2, TopTaken
    <3>4. Top'.pc = "again"
      BY <3>2, <3>3
    <3>. QED  BY <3>4 DEF Top
  <2>7. CASE \E m \in Mode : Run(m)
    <3>1. PICK m \in Mode : stack' = Append(stack, Frame(m))
      BY <2>7 DEF Run
    <3>2. Len(stack') = Len(stack) + 1 /\ Len(stack) \in Nat
      BY <1>1, <3>1, RunPushes, SMT DEF Framed, IsStack
    <3>. QED  BY <3>2, SMT
  <2>. QED  BY <2>1, <2>3, <2>4, <2>5, <2>6, <2>7 DEF StackKinds
<1>. QED  BY <1>1, StopInvInit, StopInvNext, PTL DEF Spec, StopEndsRun

-----------------------------------------------------------------------------
(* A close is asked for once and delivered once *)

AtRest == {"enter", "again"}
DueInv == \A i \in 1..Len(stack) : /\ stack[i].due \in Seq(Handle)
                                   /\ (stack[i].pc \in AtRest => stack[i].due = <<>>)
Once == \A x \in Handle : \A p, q \in Places(x) : p = q
Known == DOMAIN h = Handle /\ \A x \in Handle : "closing" \in DOMAIN h[x]
Marked == \A x \in Handle : Places(x) # {} => h[x].closing
RegistryInv == handles \in Seq(Handle) /\ IsInjective(handles)
CloseInv == Framed /\ closeNext \in Seq(Handle) /\ DueInv /\ Once /\ Known /\ Marked /\ RegistryInv

\* What any step does to the closes that are waiting.
LeavesDue ==
  /\ UNCHANGED closeNext
  /\ \/ UNCHANGED stack
     \/ /\ stack # <<>>
        /\ \E f : /\ stack' = ReplaceTop(f) /\ DOMAIN f = Fields /\ f.due = Top.due
                  /\ (f.pc \in AtRest => f.pc = Top.pc \/ f.due = <<>>)
Pushes == UNCHANGED closeNext /\ \E m \in Mode : stack' = Append(stack, Frame(m))
Pops == /\ UNCHANGED closeNext /\ stack # <<>> /\ stack' = Outer
        /\ (Top.due = <<>> \/ Top.pc = "poll")
CloseKinds == LeavesDue \/ Pushes \/ Pops \/ (\E x \in Handle : Close(x)) \/ BeginTurn \/ FireClose

LEMMA KeepsDueField ==
  ASSUME NEW f, DOMAIN f = Fields, NEW v
  PROVE  /\ [f EXCEPT !.pc = v].due = f.due /\ [f EXCEPT !.call = v].due = f.due
         /\ [f EXCEPT !.asked = v].due = f.due /\ [f EXCEPT !.asked = v].pc = f.pc
BY DEF Fields

LEMMA TopLeavesDue ==
  ASSUME stack # <<>>, UNCHANGED closeNext, NEW g, stack' = ReplaceTop(g), DOMAIN g = Fields,
         g.due = Top.due, g.pc = Top.pc \/ g.pc \notin AtRest
  PROVE  CloseKinds
BY DEF LeavesDue, CloseKinds

LEMMA LoopCloseKinds ==
  ASSUME Framed, DueInv, LoopStep
  PROVE  CloseKinds
<1>1. stack # <<>> => DOMAIN Top = Fields
  BY TopFrame
<1>. DEFINE f == Top
<1>2. CASE BeginTurn
  BY <1>2 DEF CloseKinds
<1>3. CASE EndRun
  <2>1. stack # <<>> /\ stack' = Outer /\ UNCHANGED closeNext
    BY <1>3 DEF EndRun, AtHead, Running
  <2>2. CASE f.pc \in AtRest
    <3>1. Len(stack) \in 1..Len(stack) /\ f = stack[Len(stack)]
      BY <2>1, TopFrame
    <3>. QED  BY <2>1, <2>2, <3>1 DEF DueInv, Pops, CloseKinds
  <2>3. CASE f.pc \notin AtRest
    <3>1. Exhausted /\ LastTurn
      BY <1>3, <2>3 DEF EndRun, AtHead, AtRest
    <3>2. f.due = <<>>
      BY <3>1 DEF Exhausted, LastTurn
    <3>. QED  BY <2>1, <3>2 DEF Pops, CloseKinds
  <2>. QED  BY <2>2, <2>3
<1>4. CASE FireCollected
  <2>1. PICK i \in FirstFiring(f.batch) :
          stack' = ReplaceTop([f EXCEPT !.call = Call(f.batch[i][1]),
                                        !.batch = SubSeq(f.batch, i + 1, Len(f.batch))])
    BY <1>4 DEF FireCollected
  <2>. DEFINE g == [f EXCEPT !.call = Call(f.batch[i][1]),
                            !.batch = SubSeq(f.batch, i + 1, Len(f.batch))]
  <2>2. stack # <<>> /\ UNCHANGED closeNext
    BY <1>4 DEF FireCollected, Running, loopVars
  <2>3. DOMAIN g = Fields /\ g.due = f.due /\ g.pc = f.pc
    BY <1>1, <2>2 DEF Fields
  <2>. QED  BY <2>1, <2>2, <2>3, TopLeavesDue
<1>5. CASE RunCompletion
  <2>. DEFINE g == [f EXCEPT !.call = [NoCall EXCEPT !.id = "work"]]
  <2>1. stack # <<>> /\ UNCHANGED closeNext /\ stack' = ReplaceTop(g)
    BY <1>5 DEF RunCompletion, Running, loopVars
  <2>2. DOMAIN g = Fields /\ g.due = f.due /\ g.pc = f.pc
    BY <1>1, <2>1, KeepsFields, KeepsDueField
  <2>. QED  BY <2>1, <2>2, TopLeavesDue
<1>6. CASE CollectSources
  <2>. DEFINE p == IF f.pc = "work" THEN "deliver" ELSE "deliver2"
  <2>1. stack # <<>> /\ UNCHANGED closeNext /\ stack' = ReplaceTop([f EXCEPT !.pc = p])
    BY <1>6 DEF CollectSources, Running
  <2>2. p \notin AtRest
    BY DEF AtRest
  <2>. HIDE DEF p
  <2>. DEFINE g == [f EXCEPT !.pc = p]
  <2>3. DOMAIN g = Fields /\ g.due = f.due /\ g.pc = p
    BY <1>1, <2>1, KeepsFields, KeepsDueField
  <2>. QED  BY <2>1, <2>2, <2>3, TopLeavesDue
<1>7. CASE Deliver
  <2>1. stack # <<>> /\ UNCHANGED closeNext
    BY <1>7 DEF Deliver, Running
  <2>. DEFINE g == [f EXCEPT !.call = Call(Head(queue)[1])]
  <2>2. stack' = ReplaceTop(g) \/ stack' = stack
    BY <1>7 DEF Deliver
  <2>3. CASE stack' = stack
    BY <2>1, <2>3 DEF LeavesDue, CloseKinds
  <2>4. CASE stack' = ReplaceTop(g)
    <3>1. DOMAIN g = Fields /\ g.due = f.due /\ g.pc = f.pc
      BY <1>1, <2>1, KeepsFields, KeepsDueField
    <3>. QED  BY <2>1, <2>4, <3>1, TopLeavesDue
  <2>. QED  BY <2>2, <2>3, <2>4
<1>8. CASE FireClose
  BY <1>8 DEF CloseKinds
<1>9. CASE CallbackReturns
  <2>. DEFINE g == [f EXCEPT !.call = NoCall]
  <2>1. stack # <<>> /\ UNCHANGED closeNext /\ stack' = ReplaceTop(g)
    BY <1>9 DEF CallbackReturns, InCallback, loopVars
  <2>2. DOMAIN g = Fields /\ g.due = f.due /\ g.pc = f.pc
    BY <1>1, <2>1, KeepsFields, KeepsDueField
  <2>. QED  BY <2>1, <2>2, TopLeavesDue
<1>10. CASE Advance
  <2>1. stack # <<>> /\ UNCHANGED closeNext /\ Exhausted
    BY <1>10 DEF Advance, Running, loopVars
  <2>2. PICK i \in DOMAIN Rest(f.pc) :
          stack' = ReplaceTop([f EXCEPT !.pc = Rest(f.pc)[i], !.batch = BatchOf(Rest(f.pc)[i])])
    BY <1>10 DEF Advance
  <2>. DEFINE g == [f EXCEPT !.pc = Rest(f.pc)[i], !.batch = BatchOf(Rest(f.pc)[i])]
  <2>3. DOMAIN g = Fields /\ g.due = f.due /\ g.pc = Rest(f.pc)[i]
    BY <1>1, <2>1 DEF Fields
  <2>4. CASE f.pc = "closes"
    BY <2>1, <2>2, <2>3, <2>4 DEF Exhausted, LeavesDue, CloseKinds
  <2>5. CASE f.pc # "closes"
    <3>1. f.pc \in {"timers", "idle", "prepare", "check", "deliver", "deliver2"}
      BY <2>1, <2>5 DEF Exhausted
    <3>2. Rest(f.pc)[i] \notin AtRest
      BY <3>1, <2>2, SMT DEF Rest, AtRest
    <3>. QED  BY <2>1, <2>2, <2>3, <3>2, TopLeavesDue
  <2>. QED  BY <2>4, <2>5
<1>11. CASE Poll
  <2>. DEFINE g == [f EXCEPT !.pc = "work2"]
  <2>1. stack # <<>> /\ UNCHANGED closeNext /\ stack' = ReplaceTop(g)
    BY <1>11 DEF Poll, Polling, Running, loopVars
  <2>2. DOMAIN g = Fields /\ g.due = f.due /\ g.pc = "work2"
    BY <1>1, <2>1, KeepsFields, KeepsDueField
  <2>3. "work2" \notin AtRest
    BY DEF AtRest
  <2>. QED  BY <2>1, <2>2, <2>3, TopLeavesDue
<1>. QED
  BY <1>2, <1>3, <1>4, <1>5, <1>6, <1>7, <1>8, <1>9, <1>10, <1>11 DEF LoopStep

LEMMA CloseStepKinds ==
  ASSUME Framed, DueInv, [Next]_vars
  PROVE  CloseKinds
<1>1. CASE HandleCalls
  <2>1. CASE \E x \in Handle : Close(x)
    BY <2>1 DEF CloseKinds
  <2>2. CASE StopLoop
    <3>1. UNCHANGED closeNext
      BY <2>2 DEF StopLoop
    <3>. DEFINE g == [Top EXCEPT !.asked = TRUE]
    <3>2. CASE stack = <<>>
      BY <2>2, <3>1, <3>2 DEF StopLoop, LeavesDue, CloseKinds
    <3>3. CASE stack # <<>>
      <4>1. stack' = ReplaceTop(g)
        BY <2>2, <3>3 DEF StopLoop
      <4>2. DOMAIN g = Fields /\ g.due = Top.due /\ g.pc = Top.pc
        BY <3>3, TopFrame, KeepsFields, KeepsDueField
      <4>. QED  BY <3>1, <3>3, <4>1, <4>2, TopLeavesDue
    <3>. QED  BY <3>2, <3>3
  <2>3. ASSUME ~StopLoop, ~\E x \in Handle : Close(x)
        PROVE  UNCHANGED <<stack, closeNext>>
    BY <1>1, <2>3 DEF HandleCalls, TimerStart, Again, PhaseStart, SignalStart, Send, Stop, SetRef,
                      Submit, Changes, loopVars
  <2>. QED  BY <2>1, <2>2, <2>3 DEF LeavesDue, CloseKinds
<1>2. CASE Environment
  <2>1. UNCHANGED <<stack, closeNext>>
    BY <1>2 DEF Environment, SenderStores, SenderWakes, WorkerPosts, SignalRaised, Elapses, External,
                loopVars
  <2>. QED  BY <2>1 DEF LeavesDue, CloseKinds
<1>3. CASE LoopStep
  BY <1>3, LoopCloseKinds
<1>4. CASE PollFails
  BY <1>4 DEF PollFails, Polling, Running, Pops, CloseKinds
<1>5. CASE \E m \in Mode : Run(m)
  <2>1. UNCHANGED closeNext /\ \E m \in Mode : stack' = Append(stack, Frame(m))
    BY <1>5 DEF Run, loopVars
  <2>. QED  BY <2>1 DEF Pushes, CloseKinds
<1>6. CASE UNCHANGED vars
  BY <1>6 DEF vars, loopVars, LeavesDue, CloseKinds
<1>. QED  BY <1>1, <1>2, <1>3, <1>4, <1>5, <1>6 DEF Next

\* Nothing ever opens a closing handle again.
KeepsClosing == Known' /\ \A x \in Handle : h[x].closing => h'[x].closing

LEMMA OneHandleChanges ==
  ASSUME Known, NEW y, NEW g, h' = [h EXCEPT ![y] = g],
         y \in Handle => "closing" \in DOMAIN g /\ (h[y].closing => g.closing)
  PROVE  KeepsClosing
<1>1. DOMAIN h' = Handle
  BY DEF Known
<1>2. ASSUME NEW x \in Handle
      PROVE  "closing" \in DOMAIN h'[x] /\ (h[x].closing => h'[x].closing)
  <2>1. CASE x = y
    BY <2>1 DEF Known
  <2>2. CASE x # y
    BY <2>2 DEF Known
  <2>. QED  BY <2>1, <2>2
<1>. QED  BY <1>1, <1>2 DEF KeepsClosing, Known

LEMMA ClosingKept ==
  ASSUME Known, [Next]_vars
  PROVE  KeepsClosing
<1>. USE DEF Known
<1>1. CASE UNCHANGED h
  BY <1>1 DEF KeepsClosing
<1>2. ASSUME NEW x \in Handle, NEW g, Changes(x, g), "closing" \in DOMAIN g, g.closing = h[x].closing
      PROVE  KeepsClosing
  BY <1>2, OneHandleChanges DEF Changes
<1>3. CASE HandleCalls
  <2>1. ASSUME NEW x \in Handle
        PROVE  /\ "closing" \in DOMAIN Installed(h[x]) /\ Installed(h[x]).closing = h[x].closing
               /\ "closing" \in DOMAIN Stopped(h[x]) /\ Stopped(h[x]).closing = h[x].closing
    BY DEF Installed, Stopped
  <2>2. ASSUME NEW t \in Timer, NEW zero \in BOOLEAN, NEW rep \in BOOLEAN, TimerStart(t, zero, rep)
        PROVE  KeepsClosing
    <3>. DEFINE g == [Installed(h[t]) EXCEPT !.due = zero, !.repeats = rep]
    <3>1. t \in Handle
      BY DEF Handle
    <3>2. "closing" \in DOMAIN g /\ g.closing = h[t].closing
      BY <2>1, <3>1
    <3>3. Changes(t, g)
      BY <2>2 DEF TimerStart
    <3>. QED  BY <1>2, <3>1, <3>2, <3>3
  <2>3. ASSUME NEW t \in Timer, Again(t)
        PROVE  KeepsClosing
    <3>. DEFINE g == [h[t] EXCEPT !.active = TRUE, !.due = FALSE,
                                  !.generation = NextGeneration(h[t].generation)]
    <3>1. t \in Handle
      BY DEF Handle
    <3>2. "closing" \in DOMAIN g /\ g.closing = h[t].closing
      BY <3>1
    <3>3. Changes(t, g)
      BY <2>3 DEF Again
    <3>. QED  BY <1>2, <3>1, <3>2, <3>3
  <2>4. ASSUME NEW p \in Phased, PhaseStart(p)
        PROVE  KeepsClosing
    <3>1. p \in Handle
      BY DEF Handle
    <3>. QED  BY <1>2, <2>1, <2>4, <3>1 DEF PhaseStart
  <2>5. ASSUME NEW s \in Signal, NEW once \in BOOLEAN, SignalStart(s, once)
        PROVE  KeepsClosing
    <3>. DEFINE g == [Installed(h[s]) EXCEPT !.oneshot = once]
    <3>1. s \in Handle
      BY DEF Handle
    <3>2. "closing" \in DOMAIN g /\ g.closing = h[s].closing
      BY <2>1, <3>1
    <3>3. Changes(s, g)
      BY <2>5 DEF SignalStart
    <3>. QED  BY <1>2, <3>1, <3>2, <3>3
  <2>6. ASSUME NEW a \in Async, Send(a)
        PROVE  KeepsClosing
    <3>. DEFINE g == [h[a] EXCEPT !.pending = TRUE]
    <3>1. h' = [h EXCEPT ![a] = g]
      BY <2>6 DEF Send
    <3>2. a \in Handle => "closing" \in DOMAIN g /\ g.closing = h[a].closing
      OBVIOUS
    <3>. QED  BY <3>1, <3>2, OneHandleChanges
  <2>7. ASSUME NEW x \in Handle, Stop(x)
        PROVE  KeepsClosing
    BY <1>2, <2>1, <2>7 DEF Stop
  <2>8. ASSUME NEW x \in Handle, Close(x)
        PROVE  KeepsClosing
    <3>1. h' = [h EXCEPT ![x] = Closing(h[x])]
      BY <2>8 DEF Close
    <3>2. "closing" \in DOMAIN Closing(h[x]) /\ Closing(h[x]).closing = TRUE
      BY DEF Closing
    <3>. QED  BY <3>1, <3>2, OneHandleChanges
  <2>9. ASSUME NEW x \in Unrefs, NEW b \in BOOLEAN, SetRef(x, b)
        PROVE  KeepsClosing
    <3>. DEFINE g == [h[x] EXCEPT !.referenced = b]
    <3>1. h' = [h EXCEPT ![x] = g]
      BY <2>9 DEF SetRef, Changes
    <3>2. x \in Handle => "closing" \in DOMAIN g /\ g.closing = h[x].closing
      OBVIOUS
    <3>. QED  BY <3>1, <3>2, OneHandleChanges
  <2>10. ASSUME Submit \/ StopLoop
         PROVE  KeepsClosing
    BY <1>1, <2>10 DEF Submit, StopLoop
  <2>. QED
    BY <1>3, <2>2, <2>3, <2>4, <2>5, <2>6, <2>7, <2>8, <2>9, <2>10 DEF HandleCalls
<1>4. CASE Environment
  <2>1. ASSUME NEW a \in Async, SenderStores(a)
        PROVE  KeepsClosing
    <3>. DEFINE g == [h[a] EXCEPT !.pending = TRUE]
    <3>1. h' = [h EXCEPT ![a] = g]
      BY <2>1 DEF SenderStores
    <3>2. a \in Handle => "closing" \in DOMAIN g /\ g.closing = h[a].closing
      OBVIOUS
    <3>. QED  BY <3>1, <3>2, OneHandleChanges
  <2>2. ASSUME NEW t \in Timer, Elapses(t)
        PROVE  KeepsClosing
    <3>. DEFINE g == [h[t] EXCEPT !.due = TRUE]
    <3>1. h' = [h EXCEPT ![t] = g]
      BY <2>2 DEF Elapses
    <3>2. t \in Handle => "closing" \in DOMAIN g /\ g.closing = h[t].closing
      OBVIOUS
    <3>. QED  BY <3>1, <3>2, OneHandleChanges
  <2>3. ASSUME SenderWakes \/ WorkerPosts \/ SignalRaised
        PROVE  KeepsClosing
    BY <1>1, <2>3 DEF SenderWakes, WorkerPosts, SignalRaised
  <2>. QED  BY <1>4, <2>1, <2>2, <2>3 DEF Environment
<1>5. CASE LoopStep
  <2>1. CASE FireCollected
    <3>1. PICK y : h' = [h EXCEPT ![y] = TakenSlot(h[y])]
      BY <2>1 DEF FireCollected
    <3>2. y \in Handle => "closing" \in DOMAIN TakenSlot(h[y]) /\ TakenSlot(h[y]).closing = h[y].closing
      BY DEF TakenSlot
    <3>. QED  BY <3>1, <3>2, OneHandleChanges
  <2>2. CASE CollectSources
    <3>. DEFINE sent == {a \in Async : Active(a) /\ h[a].pending}
    <3>1. h' = [a \in Handle |-> IF a \in sent THEN [h[a] EXCEPT !.pending = FALSE] ELSE h[a]]
      BY <2>2 DEF CollectSources
    <3>2. ASSUME NEW x \in Handle
          PROVE  "closing" \in DOMAIN h'[x] /\ h'[x].closing = h[x].closing
      <4>1. h'[x] = [h[x] EXCEPT !.pending = FALSE] \/ h'[x] = h[x]
        BY <3>1
      <4>. QED  BY <4>1
    <3>. QED  BY <3>1, <3>2 DEF KeepsClosing
  <2>3. CASE Deliver
    <3>1. \/ UNCHANGED h
          \/ \E y : h' = [h EXCEPT ![y] = [TakenSlot(h[y]) EXCEPT !.active = ~h[y].oneshot]]
      BY <2>3 DEF Deliver
    <3>2. ASSUME NEW y, h' = [h EXCEPT ![y] = [TakenSlot(h[y]) EXCEPT !.active = ~h[y].oneshot]]
          PROVE  KeepsClosing
      <4>. DEFINE g == [TakenSlot(h[y]) EXCEPT !.active = ~h[y].oneshot]
      <4>1. y \in Handle => "closing" \in DOMAIN g /\ g.closing = h[y].closing
        BY DEF TakenSlot
      <4>. QED  BY <3>2, <4>1, OneHandleChanges
    <3>. QED  BY <1>1, <3>1, <3>2
  <2>4. CASE CallbackReturns
    <3>. DEFINE c == Top.call
    <3>1. \/ UNCHANGED h
          \/ h' = [h EXCEPT ![c.id] = Rearmed(Restored(h[c.id], c), c)]
          \/ h' = [h EXCEPT ![c.id] = Restored(h[c.id], c)]
      BY <2>4 DEF CallbackReturns
    <3>2. c.id \in Handle => /\ "closing" \in DOMAIN Restored(h[c.id], c)
                             /\ Restored(h[c.id], c).closing = h[c.id].closing
      BY DEF Restored
    <3>3. c.id \in Handle => /\ "closing" \in DOMAIN Rearmed(Restored(h[c.id], c), c)
                             /\ Rearmed(Restored(h[c.id], c), c).closing = h[c.id].closing
      BY <3>2 DEF Rearmed
    <3>. QED  BY <1>1, <3>1, <3>2, <3>3, OneHandleChanges
  <2>5. ASSUME BeginTurn \/ EndRun \/ RunCompletion \/ FireClose \/ Advance \/ Poll
        PROVE  KeepsClosing
    BY <1>1, <2>5 DEF BeginTurn, EndRun, RunCompletion, FireClose, Advance, Poll
  <2>. QED  BY <1>5, <2>1, <2>2, <2>3, <2>4, <2>5 DEF LoopStep
<1>6. CASE PollFails \/ (\E m \in Mode : Run(m)) \/ UNCHANGED vars
  BY <1>1, <1>6 DEF PollFails, Run, vars
<1>. QED  BY <1>3, <1>4, <1>5, <1>6 DEF Next

LEMMA RegistryChanges ==
  ASSUME [Next]_vars, ~FireClose
  PROVE  UNCHANGED handles
<1>1. CASE HandleCalls
  BY <1>1 DEF HandleCalls, TimerStart, Again, PhaseStart, SignalStart, Send, Stop, Close, SetRef,
              Submit, StopLoop, Changes
<1>2. CASE Environment
  BY <1>2 DEF Environment, SenderStores, SenderWakes, WorkerPosts, SignalRaised, Elapses, External
<1>3. CASE LoopStep
  BY <1>3 DEF LoopStep, BeginTurn, EndRun, FireCollected, RunCompletion, CollectSources, Deliver,
              CallbackReturns, Advance, Poll
<1>4. CASE PollFails \/ (\E m \in Mode : Run(m)) \/ UNCHANGED vars
  BY <1>4 DEF PollFails, Run, vars
<1>. QED  BY <1>1, <1>2, <1>3, <1>4 DEF Next

\* fire_closes takes one handle out of the registry and keeps the others, once each.
LEMMA SwapRemoves ==
  ASSUME NEW T, NEW s \in Seq(T), IsInjective(s), NEW x \in Range(s)
  PROVE  /\ SwapRemove(s, x) \in Seq(T) /\ IsInjective(SwapRemove(s, x))
         /\ Range(SwapRemove(s, x)) = Range(s) \ {x}
<1>. DEFINE n == Len(s)
            i == CHOOSE j \in DOMAIN s : s[j] = x
            r == SwapRemove(s, x)
<1>1. DOMAIN s = 1..n /\ n \in Nat /\ \A j \in 1..n : s[j] \in T
  BY LenProperties, ElementOfSeq
<1>2. i \in 1..n /\ s[i] = x
  <2>1. \E j \in DOMAIN s : s[j] = x
    BY DEF Range
  <2>. QED  BY <1>1, <2>1
<1>3. s # <<>> /\ n >= 1 /\ n \in 1..n
  BY <1>1, <1>2, SMT
<1>4. \A j \in 1..(n - 1) : j \in 1..n /\ j # n
  <2>1. n \in Nat
    BY <1>1
  <2>. HIDE DEF n
  <2>. QED  BY <2>1, SMT
<1>5. IsStack(s)
  BY SeqOfRange DEF IsStack
<1>6. /\ Len(Front(s)) = n - 1 /\ IsStack(Front(s))
      /\ \A j \in 1..(n - 1) : Front(s)[j] = s[j]
  BY <1>3, <1>5, StackPopped
<1>7. DOMAIN Front(s) = 1..(n - 1)
  BY <1>6, LenProperties DEF IsStack
<1>. DEFINE from(j) == IF j = i THEN n ELSE j
<1>8. r = [j \in 1..(n - 1) |-> s[from(j)]]
  <2>1. CASE i = n
    <3>1. r = Front(s)
      BY <2>1 DEF SwapRemove
    <3>2. Front(s) = [j \in 1..(n - 1) |-> Front(s)[j]]
      BY <1>6, <1>7 DEF IsStack
    <3>3. \A j \in 1..(n - 1) : from(j) = j
      BY <1>4, <2>1
    <3>. QED  BY <1>6, <3>1, <3>2, <3>3
  <2>2. CASE i # n
    <3>1. r = [Front(s) EXCEPT ![i] = Last(s)]
      BY <2>2 DEF SwapRemove
    <3>2. r = [j \in 1..(n - 1) |-> IF j = i THEN s[n] ELSE Front(s)[j]]
      BY <1>6, <1>7, <3>1 DEF IsStack, Last
    <3>. QED  BY <1>6, <3>2
  <2>. QED  BY <2>1, <2>2
<1>. HIDE DEF r, i
<1>9. \A j \in 1..(n - 1) : from(j) \in 1..n /\ from(j) # i
  BY <1>3, <1>4
<1>10. DOMAIN r = 1..(n - 1) /\ \A j \in 1..(n - 1) : r[j] = s[from(j)]
  BY <1>8
<1>11. r \in Seq(T)
  <2>1. n - 1 \in Nat
    BY <1>1, <1>3, SMT
  <2>2. \A j \in 1..(n - 1) : s[from(j)] \in T
    BY <1>1, <1>9
  <2>. QED  BY <1>8, <2>1, <2>2, SeqDef
<1>12. IsInjective(r)
  <2>. SUFFICES ASSUME NEW a \in 1..(n - 1), NEW b \in 1..(n - 1), r[a] = r[b]
                PROVE  a = b
    BY <1>10 DEF IsInjective
  <2>1. from(a) = from(b)
    BY <1>1, <1>9, <1>10 DEF IsInjective
  <2>. QED  BY <1>1, <2>1, SMT
<1>13. x \notin Range(r)
  <2>. SUFFICES ASSUME NEW a \in 1..(n - 1), r[a] = x
                PROVE  FALSE
    BY <1>10 DEF Range
  <2>1. s[from(a)] = s[i]
    BY <1>2, <1>10
  <2>. QED  BY <1>1, <1>2, <1>9, <2>1 DEF IsInjective
<1>14. ASSUME NEW e \in Range(r)
       PROVE  e \in Range(s)
  <2>1. PICK a \in 1..(n - 1) : r[a] = e
    BY <1>10 DEF Range
  <2>. QED  BY <1>1, <1>9, <1>10, <2>1 DEF Range
<1>15. ASSUME NEW e \in Range(s), e # x
       PROVE  e \in Range(r)
  <2>1. PICK j \in 1..n : s[j] = e
    BY <1>1 DEF Range
  <2>2. j # i
    BY <1>2, <1>15, <2>1
  <2>3. /\ n \in Int /\ i \in 1..n /\ j \in 1..n
    BY <1>1, <1>2
  <2>4. \E a \in 1..(n - 1) : from(a) = j
    <3>1. CASE j = n
      <4>1. i \in 1..(n - 1)
        <5>. HIDE DEF n
        <5>. QED  BY <2>2, <2>3, <3>1, SMT
      <4>. QED  BY <3>1, <4>1
    <3>2. CASE j # n
      <4>1. j \in 1..(n - 1)
        <5>. HIDE DEF n
        <5>. QED  BY <2>3, <3>2, SMT
      <4>. QED  BY <2>2, <4>1
    <3>. QED  BY <3>1, <3>2
  <2>. QED  BY <1>10, <2>1, <2>4 DEF Range
<1>. QED  BY <1>11, <1>12, <1>13, <1>14, <1>15 DEF r

LEMMA RegistryKept ==
  ASSUME RegistryInv, [Next]_vars
  PROVE  RegistryInv'
<1>1. CASE UNCHANGED handles
  BY <1>1 DEF RegistryInv
<1>2. CASE FireClose
  <2>. DEFINE x == Head(Top.due)
  <2>1. UNCHANGED handles \/ (x \in Registered /\ handles' = SwapRemove(handles, x))
    BY <1>2 DEF FireClose
  <2>2. CASE x \in Registered /\ handles' = SwapRemove(handles, x)
    BY <2>2, SwapRemoves DEF RegistryInv, Registered
  <2>. QED  BY <1>1, <2>1, <2>2
<1>. QED  BY <1>1, <1>2, RegistryChanges

LEMMA CloseInvInit == Init => CloseInv
<1>. SUFFICES ASSUME Init
              PROVE  CloseInv
  OBVIOUS
<1>1. Framed /\ stack = <<>> /\ closeNext = <<>>
  BY StopInvInit DEF StopInv, Init
<1>2. DueInv
  <2>1. 1..Len(stack) = {}
    BY <1>1, SMT
  <2>. QED  BY <2>1 DEF DueInv
<1>3. \A x \in Handle : Places(x) = {}
  <2>1. Len(stack) = 0 /\ 0..0 = {0}
    BY <1>1, SMT
  <2>2. DOMAIN Closes(0) = {}
    BY <1>1, SMT DEF Closes
  <2>. QED  BY <2>1, <2>2 DEF Places
<1>4. Known
  <2>1. h = [x \in Handle |-> Fresh(x)]
    BY DEF Init
  <2>2. \A x \in Handle : "closing" \in DOMAIN Fresh(x)
    BY DEF Fresh
  <2>. QED  BY <2>1, <2>2 DEF Known
<1>5. RegistryInv
  <2>. DEFINE n == Cardinality(Handle)
  <2>1. PICK m \in Nat : ExistsBijection(1..m, Handle)
    BY UvAssumption, FS_NatBijection
  <2>2. m = n /\ n \in Nat
    BY <2>1, FS_CountingElements
  <2>3. \E f \in [1..n -> Handle] : IsInjective(f)
    BY <2>1, <2>2 DEF ExistsBijection, Bijection, Injection
  <2>4. handles \in [1..n -> Handle] /\ IsInjective(handles)
    BY <2>3 DEF Init, SetToSeq
  <2>. QED  BY <2>2, <2>4, SeqDef DEF RegistryInv
<1>6. closeNext \in Seq(Handle)
  BY <1>1
<1>. QED  BY <1>1, <1>2, <1>3, <1>4, <1>5, <1>6 DEF CloseInv, Once, Marked

\* x waits as the j-th close of the i-th run, or of close_next for i = 0.
Waits(i, j, x) == i \in 0..Len(stack) /\ j \in DOMAIN Closes(i) /\ Closes(i)[j] = x
Apart == \A x \in Handle : \A i, j, k, l : Waits(i, j, x) /\ Waits(k, l, x) => i = k /\ j = l

LEMMA PlacesWait ==
  /\ \A x, p : p \in Places(x) <=> \E i, j : Waits(i, j, x) /\ p = <<i, j>>
  /\ \A x, p : p \in Places(x)' <=> \E i, j : Waits(i, j, x)' /\ p = <<i, j>>
BY DEF Places, Waits

LEMMA OnceApart == (Once => Apart) /\ (Apart' => Once')
<1>1. ASSUME Once, NEW x \in Handle, NEW i, NEW j, NEW k, NEW l, Waits(i, j, x), Waits(k, l, x)
      PROVE  i = k /\ j = l
  <2>1. <<i, j>> \in Places(x) /\ <<k, l>> \in Places(x)
    BY <1>1, PlacesWait
  <2>2. <<i, j>> = <<k, l>>
    BY <1>1, <2>1 DEF Once
  <2>. QED  BY <2>2
<1>2. ASSUME Apart', NEW x \in Handle, NEW p \in Places(x)', NEW q \in Places(x)'
      PROVE  p = q
  <2>1. PICK i, j : Waits(i, j, x)' /\ p = <<i, j>>
    BY PlacesWait
  <2>2. PICK k, l : Waits(k, l, x)' /\ q = <<k, l>>
    BY PlacesWait
  <2>. QED  BY <1>2, <2>1, <2>2 DEF Apart
<1>. QED  BY <1>1, <1>2 DEF Apart, Once

\* What every step keeps: places stay apart, a new one belongs to a closing
\* handle, and one is given up only for a retired handle or by a failing poll.
Kept3(x) ==
  /\ \A i, j, k, l : Waits(i, j, x)' /\ Waits(k, l, x)' => i = k /\ j = l
  /\ (\E i, j : Waits(i, j, x)') => (\E i, j : Waits(i, j, x)) \/ h'[x].closing
  /\ (\E i, j : Waits(i, j, x)) => (\E i, j : Waits(i, j, x)') \/ x \notin Registered' \/ PollFailed
ClosesKept == closeNext' \in Seq(Handle) /\ DueInv' /\ \A x \in Handle : Kept3(x)

LEMMA SameWaits ==
  ASSUME Apart, NEW x \in Handle, \A i, j : Waits(i, j, x)' <=> Waits(i, j, x)
  PROVE  Kept3(x)
BY DEF Apart, Kept3

LEMMA CloseInvShape ==
  ASSUME CloseInv
  PROVE  /\ Framed /\ Apart /\ closeNext \in Seq(Handle) /\ Len(stack) \in Nat
         /\ \A i \in 1..Len(stack) : stack[i].due \in Seq(Handle)
         /\ \A i \in 0..Len(stack) : Closes(i) \in Seq(Handle)
<1>1. Framed /\ closeNext \in Seq(Handle) /\ DueInv
  BY DEF CloseInv
<1>2. Apart
  BY OnceApart DEF CloseInv
<1>3. Len(stack) \in Nat
  BY <1>1, SMT DEF Framed, IsStack
<1>4. ASSUME NEW i \in 0..Len(stack)
      PROVE  Closes(i) \in Seq(Handle)
  <2>1. i = 0 \/ i \in 1..Len(stack)
    BY <1>3, SMT
  <2>. QED  BY <1>1, <2>1 DEF Closes, DueInv
<1>. QED  BY <1>1, <1>2, <1>3, <1>4 DEF DueInv

LEMMA SameDue ==
  ASSUME CloseInv, UNCHANGED closeNext, Len(stack') = Len(stack),
         \A i \in 1..Len(stack) : stack'[i].due = stack[i].due
  PROVE  \A x \in Handle : Kept3(x)
<1>1. Len(stack) \in Nat /\ Apart
  BY CloseInvShape
<1>2. ASSUME NEW i \in 0..Len(stack)
      PROVE  Closes(i)' = Closes(i)
  <2>1. i = 0 \/ i \in 1..Len(stack)
    BY <1>1, SMT
  <2>. QED  BY <2>1 DEF Closes
<1>3. \A x \in Handle : \A i, j : Waits(i, j, x)' <=> Waits(i, j, x)
  BY <1>2 DEF Waits
<1>. QED  BY <1>1, <1>3, SameWaits

LEMMA LeftDue ==
  ASSUME CloseInv, LeavesDue
  PROVE  ClosesKept
<1>1. Framed /\ Len(stack) \in Nat /\ closeNext \in Seq(Handle) /\ DueInv
  BY CloseInvShape DEF CloseInv
<1>2. UNCHANGED closeNext
  BY DEF LeavesDue
<1>3. CASE UNCHANGED stack
  BY <1>1, <1>2, <1>3, SameDue DEF ClosesKept, DueInv
<1>4. CASE ~UNCHANGED stack
  <2>1. stack # <<>>
    BY <1>4 DEF LeavesDue
  <2>2. PICK f : /\ stack' = ReplaceTop(f) /\ DOMAIN f = Fields /\ f.due = Top.due
                 /\ (f.pc \in AtRest => f.pc = Top.pc \/ f.due = <<>>)
    BY <1>4 DEF LeavesDue
  <2>3. /\ Len(stack') = Len(stack) /\ Top' = f /\ \A i \in 1..(Len(stack) - 1) : stack'[i] = stack[i]
    BY <1>1, <2>1, <2>2, TopTaken
  <2>4. Len(stack) \in 1..Len(stack) /\ Top = stack[Len(stack)] /\ f = stack'[Len(stack)]
    BY <1>1, <2>1, <2>3, TopFrame DEF Top, Last
  <2>5. ASSUME NEW i \in 1..Len(stack)
        PROVE  i = Len(stack) \/ i \in 1..(Len(stack) - 1)
    BY <1>1, SMT
  <2>6. ASSUME NEW i \in 1..Len(stack)
        PROVE  /\ stack'[i].due = stack[i].due
               /\ (stack'[i].pc \in AtRest => stack'[i].due = <<>>)
    <3>1. CASE i = Len(stack)
      BY <1>1, <2>2, <2>4, <3>1 DEF DueInv
    <3>2. CASE i \in 1..(Len(stack) - 1)
      BY <1>1, <2>3, <3>2 DEF DueInv
    <3>. QED  BY <2>5, <3>1, <3>2
  <2>7. \A x \in Handle : Kept3(x)
    BY <1>2, <2>3, <2>6, SameDue
  <2>8. DueInv'
    BY <1>1, <2>3, <2>6 DEF DueInv
  <2>. QED  BY <1>1, <1>2, <2>7, <2>8 DEF ClosesKept
<1>. QED  BY <1>3, <1>4

LEMMA PushedDue ==
  ASSUME CloseInv, Pushes
  PROVE  ClosesKept
<1>. DEFINE n == Len(stack)
<1>1. Framed /\ n \in Nat /\ closeNext \in Seq(Handle) /\ DueInv /\ Apart
  BY CloseInvShape DEF CloseInv
<1>2. PICK m \in Mode : stack' = Append(stack, Frame(m))
  BY DEF Pushes
<1>3. UNCHANGED closeNext
  BY DEF Pushes
<1>4. /\ Len(stack') = n + 1 /\ stack'[n + 1] = Frame(m)
      /\ \A i \in 1..n : stack'[i] = stack[i]
  BY <1>1, <1>2, StackPushed DEF Framed
<1>5. Frame(m).due = <<>>
  BY DEF Frame
<1>6. ASSUME NEW i \in 1..Len(stack')
      PROVE  i = n + 1 \/ i \in 1..n
  BY <1>1, <1>4, SMT
<1>7. DueInv'
  <2>. SUFFICES ASSUME NEW i \in 1..Len(stack')
                PROVE  /\ stack'[i].due \in Seq(Handle)
                       /\ (stack'[i].pc \in AtRest => stack'[i].due = <<>>)
    BY DEF DueInv
  <2>1. CASE i = n + 1
    <3>1. stack'[i].due = <<>> /\ <<>> \in Seq(Handle)
      BY <1>4, <1>5, <2>1
    <3>. QED  BY <3>1
  <2>2. CASE i \in 1..n
    BY <1>1, <1>4, <2>2 DEF DueInv
  <2>. QED  BY <1>6, <2>1, <2>2
<1>8. ASSUME NEW x \in Handle, NEW i, NEW j
      PROVE  Waits(i, j, x)' <=> Waits(i, j, x)
  <2>1. i \in 0..(n + 1) <=> i \in 0..n \/ i = n + 1
    BY <1>1, SMT
  <2>2. n + 1 # 0 /\ n + 1 \notin 0..n
    BY <1>1, SMT
  <2>3. CASE i = n + 1
    <3>1. DOMAIN Closes(i)' = {}
      BY <1>4, <1>5, <2>2, <2>3, SMT DEF Closes
    <3>. QED  BY <2>2, <2>3, <3>1 DEF Waits
  <2>4. CASE i \in 0..n
    <3>1. i = 0 \/ i \in 1..n
      BY <1>1, <2>4, SMT
    <3>2. Closes(i)' = Closes(i)
      BY <1>3, <1>4, <3>1 DEF Closes
    <3>. QED  BY <1>4, <2>1, <2>4, <3>2 DEF Waits
  <2>. QED  BY <1>4, <2>1, <2>3, <2>4 DEF Waits
<1>. QED  BY <1>1, <1>3, <1>7, <1>8, SameWaits DEF ClosesKept

\* A run ends with nothing left to deliver, or its poll fails.
LEMMA PoppedDue ==
  ASSUME CloseInv, Pops
  PROVE  ClosesKept
<1>. DEFINE n == Len(stack)
<1>1. Framed /\ closeNext \in Seq(Handle) /\ DueInv /\ Apart
  BY CloseInvShape DEF CloseInv
<1>2. UNCHANGED closeNext /\ stack # <<>> /\ stack' = Outer
  BY DEF Pops
<1>3. /\ Len(stack') = n - 1 /\ n \in Nat \ {0}
      /\ \A i \in 1..(n - 1) : stack'[i].due = stack[i].due /\ stack'[i].pc = stack[i].pc
  BY <1>1, <1>2, RunPops
<1>4. /\ \A i \in 1..(n - 1) : i \in 1..n
      /\ \A i \in 0..n : i \in 0..(n - 1) \/ i = n
      /\ \A i \in 0..(n - 1) : (i = 0 \/ i \in 1..(n - 1)) /\ i \in 0..n
      /\ n - 1 < n /\ n # 0 /\ n \in 0..n
  BY <1>3, SMT
<1>5. DueInv'
  BY <1>1, <1>3, <1>4 DEF DueInv
<1>6. \A i \in 0..(n - 1) : Closes(i)' = Closes(i)
  BY <1>2, <1>3, <1>4 DEF Closes
<1>7. \A i, j, x : Waits(i, j, x)' <=> i \in 0..(n - 1) /\ Waits(i, j, x)
  BY <1>3, <1>4, <1>6 DEF Waits
<1>8. ASSUME NEW x \in Handle
      PROVE  Kept3(x)
  <2>1. CASE Top.pc = "poll"
    <3>1. PollFailed
      BY <1>2, <1>3, <1>4, <2>1 DEF PollFailed
    <3>. QED  BY <1>1, <1>7, <3>1 DEF Kept3, Apart
  <2>2. CASE Top.due = <<>>
    <3>1. Closes(n) = <<>>
      BY <1>4, <2>2 DEF Closes, Top, Last
    <3>2. DOMAIN Closes(n) = {}
      BY <3>1, SMT
    <3>3. \A i, j : Waits(i, j, x) => i \in 0..(n - 1)
      BY <1>4, <3>2 DEF Waits
    <3>. QED  BY <1>1, <1>7, <3>3, SameWaits
  <2>. QED  BY <2>1, <2>2 DEF Pops
<1>. QED  BY <1>1, <1>2, <1>5, <1>8 DEF ClosesKept

\* close takes the one place of a handle nobody closed before.
LEMMA AskedDue ==
  ASSUME CloseInv, NEW y \in Handle, Close(y)
  PROVE  ClosesKept
<1>. DEFINE n == Len(stack)
            m == Len(closeNext)
<1>1. Framed /\ n \in Nat /\ closeNext \in Seq(Handle) /\ DueInv /\ Apart /\ Known /\ Marked
  BY CloseInvShape DEF CloseInv
<1>2. /\ UNCHANGED stack /\ closeNext' = Append(closeNext, y)
      /\ h' = [h EXCEPT ![y] = Closing(h[y])] /\ ~h[y].closing
  BY DEF Close, Open
<1>3. h'[y].closing
  BY <1>1, <1>2 DEF Known, Closing
<1>4. \A i, j : ~Waits(i, j, y)
  <2>1. Places(y) = {}
    BY <1>1, <1>2 DEF Marked
  <2>. QED  BY <2>1, PlacesWait
<1>5. /\ closeNext' \in Seq(Handle) /\ DOMAIN closeNext' = 1..(m + 1) /\ DOMAIN closeNext = 1..m
      /\ closeNext'[m + 1] = y /\ m \in Nat
      /\ \A j \in 1..m : closeNext'[j] = closeNext[j]
  BY <1>1, <1>2, AppendProperties, LenProperties
<1>6. \A j : j \in 1..(m + 1) <=> j \in 1..m \/ j = m + 1
  BY <1>5, SMT
<1>7. m + 1 \notin 1..m /\ 0 \in 0..n
  BY <1>1, <1>5, SMT
<1>8. \A i, j, x : Waits(i, j, x)' <=> Waits(i, j, x) \/ (i = 0 /\ j = m + 1 /\ x = y)
  <2>. TAKE i, j, x
  <2>1. CASE i = 0
    BY <1>2, <1>5, <1>6, <1>7, <2>1 DEF Waits, Closes
  <2>2. CASE i # 0
    BY <1>2, <2>2 DEF Waits, Closes
  <2>. QED  BY <2>1, <2>2
<1>9. ASSUME NEW x \in Handle
      PROVE  Kept3(x)
  BY <1>1, <1>3, <1>4, <1>8 DEF Kept3, Apart
<1>10. DueInv'
  BY <1>1, <1>2 DEF DueInv
<1>. QED  BY <1>5, <1>9, <1>10 DEF ClosesKept

\* The closes asked for become those of the turn that begins, whose own are none.
LEMMA BegunDue ==
  ASSUME CloseInv, BeginTurn
  PROVE  ClosesKept
<1>. DEFINE n == Len(stack)
            f == Top
            g == [f EXCEPT !.pc = "timers", !.forced = stop \/ f.mode = "nowait",
                           !.batch = Collected(DueTimers), !.due = closeNext]
<1>1. Framed /\ n \in Nat /\ closeNext \in Seq(Handle) /\ DueInv /\ Apart
  BY CloseInvShape DEF CloseInv
<1>2. stack # <<>> /\ f.pc \in AtRest /\ stack' = ReplaceTop(g) /\ closeNext' = <<>>
  BY DEF BeginTurn, AtHead, Running, TakenCloses, AtRest
<1>3. DOMAIN f = Fields /\ n \in 1..n /\ f = stack[n]
  BY <1>1, <1>2, TopFrame
<1>4. DOMAIN g = Fields /\ g.due = closeNext /\ g.pc = "timers"
  BY <1>3 DEF Fields
<1>. HIDE DEF g
<1>5. Len(stack') = n /\ Top' = g /\ \A i \in 1..(n - 1) : stack'[i] = stack[i]
  BY <1>1, <1>2, <1>4, TopTaken
<1>6. stack'[n] = g
  BY <1>5 DEF Top, Last
<1>7. /\ \A i \in 1..n : i = n \/ i \in 1..(n - 1)
      /\ \A i \in 0..n : i = 0 \/ i = n \/ i \in 1..(n - 1)
      /\ \A i \in 1..(n - 1) : i \in 0..n /\ i # n /\ i # 0
      /\ n # 0 /\ n \in 0..n /\ 0 \in 0..n
  <2>1. n >= 1
    BY <1>1, <1>3, SMT
  <2>. HIDE DEF n
  <2>. QED  BY <1>1, <2>1, SMT
<1>8. DueInv'
  <2>. SUFFICES ASSUME NEW i \in 1..n
                PROVE  /\ stack'[i].due \in Seq(Handle)
                       /\ (stack'[i].pc \in AtRest => stack'[i].due = <<>>)
    BY <1>5 DEF DueInv
  <2>1. "timers" \notin AtRest
    BY DEF AtRest
  <2>2. CASE i = n
    BY <1>1, <1>4, <1>6, <2>1, <2>2
  <2>3. CASE i \in 1..(n - 1)
    BY <1>1, <1>5, <2>3 DEF DueInv
  <2>. QED  BY <1>7, <2>2, <2>3
<1>9. /\ Closes(n)' = closeNext /\ Closes(n) = <<>> /\ Closes(0) = closeNext /\ Closes(0)' = <<>>
      /\ \A i \in 1..(n - 1) : Closes(i)' = Closes(i)
  <2>1. stack[n].due = <<>>
    BY <1>1, <1>2, <1>3 DEF DueInv
  <2>. QED  BY <1>2, <1>4, <1>5, <1>6, <1>7, <2>1 DEF Closes
<1>10. DOMAIN <<>> = {}
  BY SMT
<1>11. \A i, j, x : Waits(i, j, x)' <=> \/ i \in 1..(n - 1) /\ Waits(i, j, x)
                                        \/ i = n /\ Waits(0, j, x)
  <2>. TAKE i, j, x
  <2>1. CASE i = 0
    BY <1>7, <1>9, <1>10, <2>1 DEF Waits
  <2>2. CASE i = n
    BY <1>5, <1>7, <1>9, <2>2 DEF Waits
  <2>3. CASE i \in 1..(n - 1)
    BY <1>5, <1>7, <1>9, <2>3 DEF Waits
  <2>. QED  BY <1>5, <1>7, <2>1, <2>2, <2>3 DEF Waits
<1>12. \A j, x : ~Waits(n, j, x)
  BY <1>9, <1>10 DEF Waits
<1>13. ASSUME NEW x \in Handle
       PROVE  Kept3(x)
  <2>1. ASSUME NEW i, NEW j, NEW k, NEW l, Waits(i, j, x)', Waits(k, l, x)'
        PROVE  i = k /\ j = l
    BY <1>1, <1>7, <1>11, <2>1 DEF Apart
  <2>2. ASSUME NEW i, NEW j, Waits(i, j, x)
        PROVE  \E k, l : Waits(k, l, x)'
    <3>1. i = 0 \/ i \in 1..(n - 1)
      BY <1>7, <1>12, <2>2 DEF Waits
    <3>. QED  BY <1>11, <2>2, <3>1
  <2>. QED  BY <1>11, <2>1, <2>2 DEF Kept3
<1>. QED  BY <1>2, <1>8, <1>13 DEF ClosesKept

\* The turn gives up one close, of a handle that leaves the registry.
LEMMA FiredDue ==
  ASSUME CloseInv, FireClose
  PROVE  ClosesKept
<1>. DEFINE n == Len(stack)
            d == Top.due
            y == Head(d)
            m == Len(d)
<1>1. Framed /\ n \in Nat /\ closeNext \in Seq(Handle) /\ DueInv /\ Apart /\ RegistryInv
  BY CloseInvShape DEF CloseInv
<1>2. stack # <<>> /\ Top.pc = "closes" /\ d # <<>> /\ UNCHANGED closeNext
  BY DEF FireClose, Running, loopVars
<1>3. DOMAIN Top = Fields /\ n \in 1..n /\ Top = stack[n]
  BY <1>1, <1>2, TopFrame
<1>4. PICK g : stack' = ReplaceTop(g) /\ DOMAIN g = Fields /\ g.due = Tail(d) /\ g.pc = "closes"
  <2>1. \/ stack' = ReplaceTop([Top EXCEPT !.due = Tail(d), !.call = [NoCall EXCEPT !.id = y]])
        \/ stack' = ReplaceTop([Top EXCEPT !.due = Tail(d)])
    BY DEF FireClose
  <2>2. ASSUME NEW v
        PROVE  LET e == [Top EXCEPT !.due = Tail(d), !.call = v]
               IN  DOMAIN e = Fields /\ e.due = Tail(d) /\ e.pc = "closes"
    BY <1>2, <1>3 DEF Fields
  <2>3. LET e == [Top EXCEPT !.due = Tail(d)]
        IN  DOMAIN e = Fields /\ e.due = Tail(d) /\ e.pc = "closes"
    BY <1>2, <1>3 DEF Fields
  <2>. QED  BY <2>1, <2>2, <2>3
<1>5. Len(stack') = n /\ Top' = g /\ \A i \in 1..(n - 1) : stack'[i] = stack[i]
  BY <1>1, <1>2, <1>4, TopTaken
<1>6. stack'[n] = g
  BY <1>5 DEF Top, Last
<1>7. /\ \A i \in 1..n : i = n \/ i \in 1..(n - 1)
      /\ \A i \in 0..n : i = n \/ i \in 0..(n - 1)
      /\ \A i \in 0..(n - 1) : i \in 0..n /\ i # n /\ (i = 0 \/ i \in 1..(n - 1))
      /\ n # 0 /\ n \in 0..n
  <2>1. n >= 1
    BY <1>1, <1>3, SMT
  <2>. HIDE DEF n
  <2>. QED  BY <1>1, <2>1, SMT
<1>8. d \in Seq(Handle)
  BY <1>1, <1>3 DEF DueInv
<1>. HIDE DEF d
<1>9. /\ y \in Handle /\ Tail(d) \in Seq(Handle) /\ m \in Nat \ {0} /\ d[1] = y
      /\ DOMAIN d = 1..m /\ DOMAIN Tail(d) = 1..(m - 1)
      /\ \A j \in 1..(m - 1) : Tail(d)[j] = d[j + 1]
  <2>1. /\ y \in Handle /\ Tail(d) \in Seq(Handle) /\ m \in Nat /\ m # 0
        /\ Len(Tail(d)) = m - 1 /\ \A j \in 1..(m - 1) : Tail(d)[j] = d[j + 1]
    BY <1>2, <1>8, HeadTailProperties, LenProperties, EmptySeq, SMT
  <2>2. d[1] = y
    BY DEF y
  <2>. QED  BY <1>8, <2>1, <2>2, LenProperties
<1>10. /\ \A j \in 1..(m - 1) : j + 1 \in 1..m /\ j \in Int
       /\ \A j \in 1..m : j = 1 \/ (j - 1 \in 1..(m - 1) /\ (j - 1) + 1 = j)
  BY <1>9, SMT
<1>11. y \notin Registered'
  <2>1. \/ y \in Registered /\ handles' = SwapRemove(handles, y)
        \/ y \notin Registered /\ UNCHANGED handles
    BY DEF FireClose, d
  <2>. QED  BY <1>1, <2>1, SwapRemoves DEF RegistryInv, Registered
<1>. HIDE DEF y
<1>12. DueInv'
  <2>. SUFFICES ASSUME NEW i \in 1..n
                PROVE  /\ stack'[i].due \in Seq(Handle)
                       /\ (stack'[i].pc \in AtRest => stack'[i].due = <<>>)
    BY <1>5 DEF DueInv
  <2>1. "closes" \notin AtRest
    BY DEF AtRest
  <2>2. CASE i = n
    BY <1>4, <1>6, <1>9, <2>1, <2>2
  <2>3. CASE i \in 1..(n - 1)
    BY <1>1, <1>5, <2>3 DEF DueInv
  <2>. QED  BY <1>7, <2>2, <2>3
<1>13. /\ Closes(n)' = Tail(d) /\ Closes(n) = d
       /\ \A i \in 0..(n - 1) : Closes(i)' = Closes(i)
  BY <1>2, <1>3, <1>4, <1>5, <1>6, <1>7 DEF Closes, d
<1>14. \A i, j, x : Waits(i, j, x)' <=> \/ i \in 0..(n - 1) /\ Waits(i, j, x)
                                        \/ i = n /\ j \in 1..(m - 1) /\ Waits(n, j + 1, x)
  <2>. TAKE i, j, x
  <2>1. CASE i = n
    <3>1. Waits(i, j, x)' <=> j \in 1..(m - 1) /\ Tail(d)[j] = x
      BY <1>5, <1>7, <1>9, <1>13, <2>1 DEF Waits
    <3>2. j \in 1..(m - 1) => (Waits(n, j + 1, x) <=> d[j + 1] = x)
      BY <1>7, <1>9, <1>10, <1>13 DEF Waits
    <3>. QED  BY <1>7, <1>9, <2>1, <3>1, <3>2
  <2>2. CASE i \in 0..(n - 1)
    BY <1>5, <1>7, <1>13, <2>2 DEF Waits
  <2>. QED  BY <1>5, <1>7, <2>1, <2>2 DEF Waits
<1>15. ASSUME NEW x \in Handle
       PROVE  Kept3(x)
  <2>1. ASSUME NEW i, NEW j, NEW k, NEW l, Waits(i, j, x)', Waits(k, l, x)'
        PROVE  i = k /\ j = l
    <3>1. CASE i = n /\ k = n
      <4>1. j \in 1..(m - 1) /\ l \in 1..(m - 1) /\ j + 1 = l + 1
        BY <1>1, <1>7, <1>14, <2>1, <3>1 DEF Apart
      <4>. QED  BY <1>10, <3>1, <4>1, SMT
    <3>. QED  BY <1>1, <1>7, <1>14, <2>1, <3>1 DEF Apart
  <2>2. ASSUME NEW i, NEW j, Waits(i, j, x)
        PROVE  (\E k, l : Waits(k, l, x)') \/ x \notin Registered'
    <3>1. CASE i = n
      <4>1. j \in 1..m /\ d[j] = x
        BY <1>9, <1>13, <2>2, <3>1 DEF Waits
      <4>2. CASE j = 1
        BY <1>9, <1>11, <4>1, <4>2
      <4>3. CASE j - 1 \in 1..(m - 1) /\ (j - 1) + 1 = j
        BY <1>14, <2>2, <3>1, <4>3
      <4>. QED  BY <1>10, <4>1, <4>2, <4>3
    <3>2. CASE i # n
      <4>1. i \in 0..(n - 1)
        BY <1>7, <2>2, <3>2 DEF Waits
      <4>2. Waits(i, j, x)'
        BY <1>14, <2>2, <4>1
      <4>. QED  BY <4>2
    <3>. QED  BY <3>1, <3>2
  <2>. QED  BY <1>14, <2>1, <2>2 DEF Kept3
<1>. QED  BY <1>1, <1>2, <1>12, <1>15 DEF ClosesKept

LEMMA ClosesKeptNext == CloseInv /\ [Next]_vars => ClosesKept
<1>. SUFFICES ASSUME CloseInv, [Next]_vars
              PROVE  ClosesKept
  OBVIOUS
<1>1. CloseKinds
  BY CloseStepKinds DEF CloseInv
<1>. QED  BY <1>1, LeftDue, PushedDue, PoppedDue, AskedDue, BegunDue, FiredDue DEF CloseKinds

LEMMA FramedNext == Framed /\ [Next]_vars => Framed'
<1>. SUFFICES ASSUME Framed, [Next]_vars
              PROVE  Framed'
  OBVIOUS
<1>1. StackKinds
  BY StepKinds
<1>2. CASE UNCHANGED <<stack, stop>>
  BY <1>2 DEF Framed
<1>3. CASE TopSteps
  <2>1. stack # <<>>
    BY <1>3 DEF TopSteps
  <2>2. PICK f : stack' = ReplaceTop(f) /\ DOMAIN f = Fields
    BY <1>3, <2>1, TopFrame DEF TopSteps
  <2>. QED  BY <2>1, <2>2, TopTaken
<1>4. CASE stack # <<>> /\ stack' = Outer
  BY <1>4, RunPops
<1>5. CASE StopLoop
  <2>1. CASE stack = <<>>
    BY <1>5, <2>1 DEF StopLoop, Framed
  <2>2. CASE stack # <<>>
    <3>. DEFINE g == [Top EXCEPT !.asked = TRUE]
    <3>1. stack' = ReplaceTop(g)
      BY <1>5, <2>2 DEF StopLoop
    <3>2. DOMAIN g = Fields
      BY <2>2, TopFrame, KeepsFields
    <3>. QED  BY <2>2, <3>1, <3>2, TopTaken
  <2>. QED  BY <2>1, <2>2
<1>6. CASE \E m \in Mode : Run(m)
  BY <1>6, RunPushes DEF Run
<1>. QED  BY <1>1, <1>2, <1>3, <1>4, <1>5, <1>6 DEF StackKinds

LEMMA CloseInvNext == CloseInv /\ [Next]_vars => CloseInv'
<1>. SUFFICES ASSUME CloseInv, [Next]_vars
              PROVE  CloseInv'
  OBVIOUS
<1>1. ClosesKept /\ Framed' /\ KeepsClosing /\ RegistryInv'
  BY ClosesKeptNext, FramedNext, ClosingKept, RegistryKept DEF CloseInv
<1>2. Once'
  <2>1. Apart'
    BY <1>1 DEF ClosesKept, Kept3, Apart
  <2>. QED  BY <2>1, OnceApart
<1>3. Marked'
  <2>. SUFFICES ASSUME NEW x \in Handle, Places(x)' # {}
                PROVE  h'[x].closing
    BY DEF Marked
  <2>1. \E i, j : Waits(i, j, x)'
    BY PlacesWait
  <2>2. (\E i, j : Waits(i, j, x)) \/ h'[x].closing
    BY <1>1, <2>1 DEF ClosesKept, Kept3
  <2>3. ASSUME NEW i, NEW j, Waits(i, j, x)
        PROVE  h[x].closing
    <3>1. Places(x) # {}
      BY <2>3, PlacesWait
    <3>. QED  BY <3>1 DEF CloseInv, Marked
  <2>. QED  BY <1>1, <2>2, <2>3 DEF KeepsClosing
<1>. QED  BY <1>1, <1>2, <1>3 DEF CloseInv, ClosesKept, KeepsClosing

\* Only a handle that nobody closed yet enters close_next, a turn takes the
\* whole of close_next after it has delivered its own, and a run ends with none:
\* so every close has one place, until its handle is retired or the poll fails.
THEOREM ClosesOnce == Spec => CloseOnce
<1>. DEFINE Step == \A x \in Handle :
              /\ \A p, q \in Places(x)' : p = q
              /\ (Places(x) # {} /\ Places(x)' = {} => x \notin Registered' \/ PollFailed)
<1>1. ASSUME CloseInv, CloseInv', [Next]_vars
      PROVE  Step
  <2>. SUFFICES ASSUME NEW x \in Handle
                PROVE  /\ \A p, q \in Places(x)' : p = q
                       /\ (Places(x) # {} /\ Places(x)' = {} => x \notin Registered' \/ PollFailed)
    OBVIOUS
  <2>1. \A p, q \in Places(x)' : p = q
    BY <1>1 DEF CloseInv, Once
  <2>2. ASSUME Places(x) # {}, Places(x)' = {}
        PROVE  x \notin Registered' \/ PollFailed
    <3>1. \E i, j : Waits(i, j, x)
      BY <2>2, PlacesWait
    <3>2. ~\E i, j : Waits(i, j, x)'
      BY <2>2, PlacesWait
    <3>3. Kept3(x)
      BY <1>1, ClosesKeptNext DEF ClosesKept
    <3>. QED  BY <3>1, <3>2, <3>3 DEF Kept3
  <2>. QED  BY <2>1, <2>2
<1>. QED  BY <1>1, CloseInvInit, CloseInvNext, PTL DEF Spec, CloseOnce

-----------------------------------------------------------------------------
(* A send is not forgotten *)

HandleFields == {"active", "closing", "referenced", "generation", "callback", "newest",
                 "repeats", "oneshot", "due", "pending"}
Records == DOMAIN h = Handle /\ \A x \in Handle : DOMAIN h[x] = HandleFields
SlotInv(a) ==
  /\ ~h[a].oneshot
  /\ (Open(a) => h[a].active)
  /\ (Open(a) /\ h[a].callback = 0 => OnStack(a))
CallsInv == \A i \in 1..Len(stack) : stack[i].call.id \in Registered => stack[i].call.ver # 0
OwedInv == \A a \in owed : a \in Async /\ Open(a)
SendState ==
  /\ Records /\ (\A a \in Async : SlotInv(a)) /\ CallsInv /\ OwedInv
  /\ IsStack(queue) /\ caught \in Nat
SendInv == CloseInv /\ SendState

\* What most steps do to the state of an async handle: nothing that matters here.
Same(a) == /\ h'[a].closing = h[a].closing /\ h'[a].active = h[a].active
           /\ h'[a].oneshot = h[a].oneshot /\ h'[a].callback = h[a].callback
           /\ (h[a].pending => h'[a].pending)
SendKept(a) == a \in owed /\ a \in owed' /\ Held(a) => Held(a)' \/ (OnStack(a) /\ OnStack(a)')

LEMMA AsyncHandle == \A a \in Async : a \in Handle /\ a \notin Timer /\ a \notin Phased /\ a \notin Signal
BY UvAssumption DEF Handle

LEMMA OneRecord ==
  ASSUME Records, NEW y, NEW g, h' = [h EXCEPT ![y] = g], y \in Handle => DOMAIN g = HandleFields
  PROVE  /\ Records' /\ (y \in Handle => h'[y] = g)
         /\ \A x \in Handle : x # y => h'[x] = h[x]
<1>1. DOMAIN h' = Handle
  BY DEF Records
<1>2. (y \in Handle => h'[y] = g) /\ \A x \in Handle : x # y => h'[x] = h[x]
  BY DEF Records
<1>3. ASSUME NEW x \in Handle
      PROVE  DOMAIN h'[x] = HandleFields
  BY <1>2 DEF Records
<1>. QED  BY <1>1, <1>2, <1>3 DEF Records

LEMMA OtherRecord ==
  ASSUME Records, NEW y \in Handle, y \notin Async, NEW g, h' = [h EXCEPT ![y] = g], DOMAIN g = HandleFields
  PROVE  Records' /\ \A a \in Async : Same(a)
<1>1. Records' /\ \A x \in Handle : x # y => h'[x] = h[x]
  BY OneRecord
<1>. QED  BY <1>1, AsyncHandle DEF Same

LEMMA SlotKept ==
  ASSUME NEW a, SlotInv(a), Same(a), a \in Registered' => a \in Registered, OnStack(a) => OnStack(a)'
  PROVE  SlotInv(a)'
BY DEF SlotInv, Same, Open

\* Calls of the interface, and steps of the environment.
LEMMA HandlesStill ==
  ASSUME Records, [Next]_vars,
         ~FireCollected, ~CollectSources, ~Deliver, ~CallbackReturns, ~\E x \in Handle : Close(x)
  PROVE  Records' /\ \A a \in Async : Same(a)
<1>. USE DEF Records
<1>1. CASE UNCHANGED h
  BY <1>1 DEF Same
<1>2. ASSUME NEW y, NEW g, h' = [h EXCEPT ![y] = g],
             y \in Handle => /\ DOMAIN g = HandleFields /\ g.closing = h[y].closing
                             /\ g.active = h[y].active /\ g.oneshot = h[y].oneshot
                             /\ g.callback = h[y].callback /\ (h[y].pending => g.pending)
      PROVE  Records' /\ \A a \in Async : Same(a)
  <2>1. Records' /\ (y \in Handle => h'[y] = g) /\ \A x \in Handle : x # y => h'[x] = h[x]
    BY <1>2, OneRecord
  <2>2. ASSUME NEW a \in Async
        PROVE  Same(a)
    <3>1. a \in Handle
      BY AsyncHandle
    <3>2. CASE a = y
      BY <1>2, <2>1, <3>1, <3>2 DEF Same
    <3>3. CASE a # y
      BY <2>1, <3>1, <3>3 DEF Same
    <3>. QED  BY <3>2, <3>3
  <2>. QED  BY <2>1, <2>2
<1>3. CASE HandleCalls
  <2>1. ASSUME NEW x \in Handle
        PROVE  DOMAIN Installed(h[x]) = HandleFields /\ DOMAIN Stopped(h[x]) = HandleFields
    BY DEF Installed, Stopped
  <2>2. ASSUME NEW t \in Timer, NEW zero \in BOOLEAN, NEW rep \in BOOLEAN, TimerStart(t, zero, rep)
        PROVE  Records' /\ \A a \in Async : Same(a)
    <3>. DEFINE g == [Installed(h[t]) EXCEPT !.due = zero, !.repeats = rep]
    <3>1. t \in Handle /\ t \notin Async
      BY AsyncHandle DEF Handle
    <3>2. DOMAIN g = HandleFields
      BY <2>1, <3>1
    <3>3. h' = [h EXCEPT ![t] = g]
      BY <2>2 DEF TimerStart, Changes
    <3>. QED  BY <3>1, <3>2, <3>3, OtherRecord
  <2>3. ASSUME NEW t \in Timer, Again(t)
        PROVE  Records' /\ \A a \in Async : Same(a)
    <3>. DEFINE g == [h[t] EXCEPT !.active = TRUE, !.due = FALSE,
                                  !.generation = NextGeneration(h[t].generation)]
    <3>1. t \in Handle /\ t \notin Async
      BY AsyncHandle DEF Handle
    <3>2. DOMAIN g = HandleFields
      BY <3>1
    <3>3. h' = [h EXCEPT ![t] = g]
      BY <2>3 DEF Again, Changes
    <3>. QED  BY <3>1, <3>2, <3>3, OtherRecord
  <2>4. ASSUME NEW p \in Phased, PhaseStart(p)
        PROVE  Records' /\ \A a \in Async : Same(a)
    <3>1. p \in Handle /\ p \notin Async
      BY AsyncHandle DEF Handle
    <3>2. h' = [h EXCEPT ![p] = Installed(h[p])]
      BY <2>4 DEF PhaseStart, Changes
    <3>. QED  BY <2>1, <3>1, <3>2, OtherRecord
  <2>5. ASSUME NEW s \in Signal, NEW once \in BOOLEAN, SignalStart(s, once)
        PROVE  Records' /\ \A a \in Async : Same(a)
    <3>. DEFINE g == [Installed(h[s]) EXCEPT !.oneshot = once]
    <3>1. s \in Handle /\ s \notin Async
      BY AsyncHandle DEF Handle
    <3>2. DOMAIN g = HandleFields
      BY <2>1, <3>1
    <3>3. h' = [h EXCEPT ![s] = g]
      BY <2>5 DEF SignalStart, Changes
    <3>. QED  BY <3>1, <3>2, <3>3, OtherRecord
  <2>6. ASSUME NEW y \in Async, Send(y)
        PROVE  Records' /\ \A a \in Async : Same(a)
    <3>. DEFINE g == [h[y] EXCEPT !.pending = TRUE]
    <3>1. h' = [h EXCEPT ![y] = g]
      BY <2>6 DEF Send
    <3>2. y \in Handle => /\ DOMAIN g = HandleFields /\ g.closing = h[y].closing
                          /\ g.active = h[y].active /\ g.oneshot = h[y].oneshot
                          /\ g.callback = h[y].callback /\ g.pending
      BY DEF HandleFields
    <3>. QED  BY <1>2, <3>1, <3>2
  <2>7. ASSUME NEW x \in Handle, Stop(x)
        PROVE  Records' /\ \A a \in Async : Same(a)
    <3>1. x \notin Async /\ h' = [h EXCEPT ![x] = Stopped(h[x])]
      BY <2>7 DEF Stop, Changes
    <3>. QED  BY <2>1, <3>1, OtherRecord
  <2>8. ASSUME NEW x \in Unrefs, NEW b \in BOOLEAN, SetRef(x, b)
        PROVE  Records' /\ \A a \in Async : Same(a)
    <3>. DEFINE g == [h[x] EXCEPT !.referenced = b]
    <3>1. h' = [h EXCEPT ![x] = g]
      BY <2>8 DEF SetRef, Changes
    <3>2. x \in Handle => /\ DOMAIN g = HandleFields /\ g.closing = h[x].closing
                          /\ g.active = h[x].active /\ g.oneshot = h[x].oneshot
                          /\ g.callback = h[x].callback /\ g.pending = h[x].pending
      BY DEF HandleFields
    <3>. QED  BY <1>2, <3>1, <3>2
  <2>9. ASSUME Submit \/ StopLoop
        PROVE  Records' /\ \A a \in Async : Same(a)
    BY <1>1, <2>9 DEF Submit, StopLoop
  <2>. QED  BY <1>3, <2>2, <2>3, <2>4, <2>5, <2>6, <2>7, <2>8, <2>9 DEF HandleCalls
<1>4. CASE Environment
  <2>1. ASSUME NEW y \in Async, SenderStores(y)
        PROVE  Records' /\ \A a \in Async : Same(a)
    <3>. DEFINE g == [h[y] EXCEPT !.pending = TRUE]
    <3>1. h' = [h EXCEPT ![y] = g]
      BY <2>1 DEF SenderStores
    <3>2. y \in Handle => /\ DOMAIN g = HandleFields /\ g.closing = h[y].closing
                          /\ g.active = h[y].active /\ g.oneshot = h[y].oneshot
                          /\ g.callback = h[y].callback /\ g.pending
      BY DEF HandleFields
    <3>. QED  BY <1>2, <3>1, <3>2
  <2>2. ASSUME NEW t \in Timer, Elapses(t)
        PROVE  Records' /\ \A a \in Async : Same(a)
    <3>. DEFINE g == [h[t] EXCEPT !.due = TRUE]
    <3>1. t \in Handle /\ t \notin Async
      BY AsyncHandle DEF Handle
    <3>2. h' = [h EXCEPT ![t] = g] /\ DOMAIN g = HandleFields
      BY <2>2, <3>1 DEF Elapses
    <3>. QED  BY <3>1, <3>2, OtherRecord
  <2>3. ASSUME SenderWakes \/ WorkerPosts \/ SignalRaised
        PROVE  UNCHANGED h
    BY <2>3 DEF SenderWakes, WorkerPosts, SignalRaised
  <2>. QED  BY <1>1, <1>4, <2>1, <2>2, <2>3 DEF Environment
<1>5. CASE LoopStep
  <2>1. UNCHANGED h
    BY <1>5 DEF LoopStep, BeginTurn, EndRun, RunCompletion, FireClose, Advance, Poll
  <2>. QED  BY <1>1, <2>1
<1>6. CASE PollFails \/ (\E m \in Mode : Run(m)) \/ UNCHANGED vars
  BY <1>1, <1>6 DEF PollFails, Run, vars
<1>. QED  BY <1>3, <1>4, <1>5, <1>6 DEF Next

\* What a step does to the callbacks under way: none begins or ends.
CallsStay ==
  /\ \A i \in 1..Len(stack) : \/ stack[i].call = NoCall
                              \/ i \in 1..Len(stack') /\ stack'[i].call = stack[i].call
  /\ \A i \in 1..Len(stack') : \/ stack'[i].call = NoCall
                               \/ i \in 1..Len(stack) /\ stack'[i].call = stack[i].call
CallBegins(c) ==
  /\ Running
  /\ \E f : stack' = ReplaceTop(f) /\ DOMAIN f = Fields /\ f.call = c

LEMMA StackIndex ==
  /\ IsStack(stack) => Len(stack) \in Nat /\ DOMAIN stack = 1..Len(stack)
  /\ IsStack(stack)' => Len(stack') \in Nat /\ DOMAIN stack' = 1..Len(stack')
BY LenProperties DEF IsStack

LEMMA NoCallIsNone == NoCall.id = NONE /\ NONE \notin Handle /\ "work" \notin Handle
BY UvAssumption DEF NoCall, NONE

LEMMA SameCalls ==
  ASSUME Framed, Framed', CallsStay, NEW a \in Async
  PROVE  OnStack(a) <=> OnStack(a)'
<1>1. a # NoCall.id
  BY AsyncHandle, NoCallIsNone
<1>2. DOMAIN stack = 1..Len(stack) /\ DOMAIN stack' = 1..Len(stack')
  BY StackIndex DEF Framed
<1>. QED  BY <1>1, <1>2 DEF OnStack, CallsStay

LEMMA TopOnly ==
  ASSUME Framed, stack # <<>>, NEW f, DOMAIN f = Fields, stack' = ReplaceTop(f)
  PROVE  /\ Framed' /\ Len(stack') = Len(stack) /\ Len(stack) \in 1..Len(stack)
         /\ stack'[Len(stack)] = f /\ stack[Len(stack)] = Top
         /\ \A i \in 1..Len(stack) : i = Len(stack) \/ stack'[i] = stack[i]
<1>. DEFINE n == Len(stack)
<1>1. n \in 1..n /\ Top = stack[n]
  BY TopFrame
<1>2. /\ Framed' /\ stack' # <<>> /\ Len(stack') = n /\ Top' = f
      /\ \A i \in 1..(n - 1) : stack'[i] = stack[i]
  BY TopTaken
<1>3. n \in Nat
  BY StackIndex DEF Framed
<1>4. \A i \in 1..n : i = n \/ i \in 1..(n - 1)
  <2>. HIDE DEF n
  <2>. QED  BY <1>3, SMT
<1>5. stack'[n] = f
  BY <1>2 DEF Top, Last
<1>. QED  BY <1>1, <1>2, <1>4, <1>5

LEMMA BegunCall ==
  ASSUME Framed, CallsInv, NEW c, CallBegins(c), Registered' \subseteq Registered,
         c.id \in Registered' => c.ver # 0
  PROVE  /\ Framed' /\ CallsInv'
         /\ \A a \in Async : OnStack(a)' <=> OnStack(a) \/ a = c.id
<1>1. PICK f : stack' = ReplaceTop(f) /\ DOMAIN f = Fields /\ f.call = c
  BY DEF CallBegins
<1>. DEFINE n == Len(stack)
<1>2. stack # <<>> /\ Top.call = NoCall
  BY DEF CallBegins, Running
<1>3. /\ Framed' /\ Len(stack') = n /\ n \in 1..n /\ stack'[n] = f /\ stack[n] = Top
      /\ \A i \in 1..n : i = n \/ stack'[i] = stack[i]
  BY <1>1, <1>2, TopOnly
<1>4. CallsInv'
  BY <1>1, <1>3 DEF CallsInv
<1>5. DOMAIN stack = 1..n /\ DOMAIN stack' = 1..n
  BY <1>3, StackIndex DEF Framed
<1>6. ASSUME NEW a \in Async
      PROVE  OnStack(a)' <=> OnStack(a) \/ a = c.id
  <2>1. a # NoCall.id
    BY AsyncHandle, NoCallIsNone
  <2>. QED  BY <1>1, <1>2, <1>3, <1>5, <2>1 DEF OnStack
<1>. QED  BY <1>3, <1>4, <1>6

LEMMA TopStays ==
  ASSUME Framed, stack # <<>>, NEW f, DOMAIN f = Fields, stack' = ReplaceTop(f), f.call = Top.call
  PROVE  CallsStay
<1>1. /\ Len(stack') = Len(stack) /\ Len(stack) \in 1..Len(stack)
      /\ stack'[Len(stack)] = f /\ stack[Len(stack)] = Top
      /\ \A i \in 1..Len(stack) : i = Len(stack) \/ stack'[i] = stack[i]
  BY TopOnly
<1>. QED  BY <1>1 DEF CallsStay

LEMMA PopStays ==
  ASSUME Framed, stack # <<>>, stack' = Outer, Top.call = NoCall
  PROVE  CallsStay
<1>. DEFINE n == Len(stack)
<1>1. n \in 1..n /\ Top = stack[n]
  BY TopFrame
<1>2. /\ Len(stack') = n - 1 /\ n \in Nat \ {0}
      /\ \A i \in 1..Len(stack') : stack'[i].call = stack[i].call
  BY RunPops
<1>3. /\ \A i \in 1..n : i = n \/ i \in 1..(n - 1)
      /\ \A i \in 1..(n - 1) : i \in 1..n
  <2>. HIDE DEF n
  <2>. QED  BY <1>2, SMT
<1>. QED  BY <1>1, <1>2, <1>3 DEF CallsStay

LEMMA PushStays ==
  ASSUME Framed, NEW m, stack' = Append(stack, Frame(m))
  PROVE  CallsStay
<1>. DEFINE n == Len(stack)
<1>1. /\ Len(stack') = n + 1 /\ stack'[Len(stack')] = Frame(m)
      /\ \A i \in 1..n : stack'[i] = stack[i]
  BY StackPushed DEF Framed
<1>2. n \in Nat
  BY StackIndex DEF Framed
<1>3. /\ \A i \in 1..(n + 1) : i = n + 1 \/ i \in 1..n
      /\ \A i \in 1..n : i \in 1..(n + 1)
  <2>. HIDE DEF n
  <2>. QED  BY <1>2, SMT
<1>4. Frame(m).call = NoCall
  BY DEF Frame
<1>. QED  BY <1>1, <1>3, <1>4 DEF CallsStay

LEMMA CallsStill ==
  ASSUME Framed, [Next]_vars,
         ~FireCollected, ~RunCompletion, ~Deliver, ~FireClose, ~CallbackReturns
  PROVE  CallsStay
<1>. DEFINE f == Top
<1>1. stack # <<>> => DOMAIN f = Fields
  BY TopFrame
<1>2. CASE UNCHANGED stack
  BY <1>2 DEF CallsStay
<1>3. CASE HandleCalls
  <2>1. CASE StopLoop
    <3>1. CASE stack = <<>>
      BY <1>2, <2>1, <3>1 DEF StopLoop
    <3>2. CASE stack # <<>>
      <4>. DEFINE g == [f EXCEPT !.asked = TRUE]
      <4>1. stack' = ReplaceTop(g)
        BY <2>1, <3>2 DEF StopLoop
      <4>2. DOMAIN g = Fields /\ g.call = f.call
        BY <1>1, <3>2 DEF Fields
      <4>. QED  BY <3>2, <4>1, <4>2, TopStays
    <3>. QED  BY <3>1, <3>2
  <2>2. ASSUME ~StopLoop
        PROVE  UNCHANGED stack
    BY <1>3, <2>2 DEF HandleCalls, TimerStart, Again, PhaseStart, SignalStart, Send, Stop, Close,
                      SetRef, Submit, Changes
  <2>. QED  BY <1>2, <2>1, <2>2
<1>4. CASE Environment
  <2>1. UNCHANGED stack
    BY <1>4 DEF Environment, SenderStores, SenderWakes, WorkerPosts, SignalRaised, Elapses, External
  <2>. QED  BY <1>2, <2>1
<1>5. CASE BeginTurn
  <2>. DEFINE g == [f EXCEPT !.pc = "timers", !.forced = stop \/ f.mode = "nowait",
                            !.batch = Collected(DueTimers), !.due = closeNext]
  <2>1. stack # <<>> /\ stack' = ReplaceTop(g)
    BY <1>5 DEF BeginTurn, AtHead, Running
  <2>2. DOMAIN g = Fields /\ g.call = f.call
    BY <1>1, <2>1 DEF Fields
  <2>. QED  BY <2>1, <2>2, TopStays
<1>6. CASE EndRun \/ PollFails
  <2>1. stack # <<>> /\ f.call = NoCall /\ stack' = Outer
    BY <1>6 DEF EndRun, AtHead, Running, PollFails, Polling
  <2>. QED  BY <2>1, PopStays
<1>7. CASE CollectSources
  <2>. DEFINE g == [f EXCEPT !.pc = IF f.pc = "work" THEN "deliver" ELSE "deliver2"]
  <2>1. stack # <<>> /\ stack' = ReplaceTop(g)
    BY <1>7 DEF CollectSources, Running
  <2>2. DOMAIN g = Fields /\ g.call = f.call
    BY <1>1, <2>1 DEF Fields
  <2>. QED  BY <2>1, <2>2, TopStays
<1>8. CASE Advance
  <2>1. PICK p, b : stack' = ReplaceTop([f EXCEPT !.pc = p, !.batch = b])
    BY <1>8 DEF Advance
  <2>. DEFINE g == [f EXCEPT !.pc = p, !.batch = b]
  <2>2. stack # <<>>
    BY <1>8 DEF Advance, Running
  <2>3. DOMAIN g = Fields /\ g.call = f.call
    BY <1>1, <2>2 DEF Fields
  <2>. QED  BY <2>1, <2>2, <2>3, TopStays
<1>9. CASE Poll
  <2>. DEFINE g == [f EXCEPT !.pc = "work2"]
  <2>1. stack # <<>> /\ stack' = ReplaceTop(g)
    BY <1>9 DEF Poll, Polling, Running
  <2>2. DOMAIN g = Fields /\ g.call = f.call
    BY <1>1, <2>1 DEF Fields
  <2>. QED  BY <2>1, <2>2, TopStays
<1>10. CASE \E m \in Mode : Run(m)
  <2>1. PICK m : stack' = Append(stack, Frame(m))
    BY <1>10 DEF Run
  <2>. QED  BY <2>1, PushStays
<1>11. CASE UNCHANGED vars
  BY <1>2, <1>11 DEF vars
<1>. QED
  BY <1>3, <1>4, <1>5, <1>6, <1>7, <1>8, <1>9, <1>10, <1>11 DEF Next, LoopStep

SendGood == SendState' /\ \A a \in Async : SendKept(a)

LEMMA CaughtKept ==
  ASSUME caught \in Nat, [Next]_vars
  PROVE  caught' \in Nat
<1>1. caught + 1 \in Nat
  BY SMT
<1>2. CASE HandleCalls
  BY <1>2 DEF HandleCalls, TimerStart, Again, PhaseStart, SignalStart, Send, Stop, Close, SetRef,
              Submit, StopLoop, Changes, ioVars
<1>3. CASE Environment
  BY <1>3 DEF Environment, SenderStores, SenderWakes, WorkerPosts, SignalRaised, Elapses, ioVars
<1>4. CASE LoopStep
  <2>1. CASE CollectSources
    <3>1. caught' = 0
      BY <2>1 DEF CollectSources
    <3>. QED  BY <3>1, SMT
  <2>2. CASE Poll
    BY <1>1, <2>2 DEF Poll, ReadsSources
  <2>3. ASSUME ~CollectSources, ~Poll
        PROVE  UNCHANGED caught
    BY <1>4, <2>3 DEF LoopStep, BeginTurn, EndRun, FireCollected, RunCompletion, Deliver, FireClose,
                      CallbackReturns, Advance, ioVars
  <2>. QED  BY <2>1, <2>2, <2>3
<1>5. CASE PollFails \/ (\E m \in Mode : Run(m)) \/ UNCHANGED vars
  BY <1>1, <1>5 DEF PollFails, Run, ReadsSources, vars, ioVars
<1>. QED  BY <1>2, <1>3, <1>4, <1>5 DEF Next

LEMMA QueueStill ==
  ASSUME [Next]_vars, ~CollectSources, ~Deliver
  PROVE  UNCHANGED queue
<1>1. CASE HandleCalls
  BY <1>1 DEF HandleCalls, TimerStart, Again, PhaseStart, SignalStart, Send, Stop, Close, SetRef,
              Submit, StopLoop, Changes, loopVars
<1>2. CASE Environment
  BY <1>2 DEF Environment, SenderStores, SenderWakes, WorkerPosts, SignalRaised, Elapses, External,
              loopVars
<1>3. CASE LoopStep
  BY <1>3 DEF LoopStep, BeginTurn, EndRun, FireCollected, RunCompletion, FireClose, CallbackReturns,
              Advance, Poll, loopVars
<1>4. CASE PollFails \/ (\E m \in Mode : Run(m)) \/ UNCHANGED vars
  BY <1>4 DEF PollFails, Run, vars, loopVars
<1>. QED  BY <1>1, <1>2, <1>3, <1>4 DEF Next

\* Only an open handle comes to be owed a callback.
LEMMA OwedGrows ==
  ASSUME [Next]_vars
  PROVE  owed' \subseteq owed \union {a \in Async : Open(a)}
<1>1. CASE HandleCalls
  BY <1>1 DEF HandleCalls, TimerStart, Again, PhaseStart, SignalStart, Send, Stop, Close, SetRef,
              Submit, StopLoop, Changes
<1>2. CASE Environment
  BY <1>2 DEF Environment, SenderStores, SenderWakes, WorkerPosts, SignalRaised, Elapses
<1>3. CASE LoopStep
  BY <1>3 DEF LoopStep, BeginTurn, EndRun, FireCollected, RunCompletion, CollectSources, Deliver,
              FireClose, CallbackReturns, Advance, Poll
<1>4. CASE PollFails \/ (\E m \in Mode : Run(m)) \/ UNCHANGED vars
  BY <1>4 DEF PollFails, Run, vars
<1>. QED  BY <1>1, <1>2, <1>3, <1>4 DEF Next

LEMMA RegistryShrinks ==
  ASSUME RegistryInv, [Next]_vars
  PROVE  Registered' \subseteq Registered /\ Registered \subseteq Handle
<1>1. CASE UNCHANGED handles
  BY <1>1 DEF Registered, RegistryInv, Range
<1>2. CASE FireClose
  <2>. DEFINE x == Head(Top.due)
  <2>1. UNCHANGED handles \/ (x \in Registered /\ handles' = SwapRemove(handles, x))
    BY <1>2 DEF FireClose
  <2>2. CASE x \in Registered /\ handles' = SwapRemove(handles, x)
    <3>1. Registered' = Registered \ {x}
      BY <2>2, SwapRemoves DEF RegistryInv, Registered
    <3>2. Registered \subseteq Handle
      BY LenProperties, ElementOfSeq DEF RegistryInv, Registered, Range
    <3>. QED  BY <3>1, <3>2
  <2>. QED  BY <1>1, <2>1, <2>2
<1>3. Registered \subseteq Handle
  BY LenProperties, ElementOfSeq DEF RegistryInv, Registered, Range
<1>. QED  BY <1>1, <1>2, <1>3, RegistryChanges

LEMMA SameCallsInv ==
  ASSUME CallsInv, CallsStay, Registered' \subseteq Registered, Registered \subseteq Handle
  PROVE  CallsInv'
<1>1. NoCall.id \notin Registered'
  BY NoCallIsNone
<1>. QED  BY <1>1 DEF CallsInv, CallsStay

\* Steps that begin and end no callback, close nothing and leave the queue alone.
LEMMA QuietSend ==
  ASSUME SendInv, [Next]_vars,
         ~FireCollected, ~RunCompletion, ~CollectSources, ~Deliver, ~FireClose, ~CallbackReturns,
         ~\E x \in Handle : Close(x)
  PROVE  SendGood
<1>. USE DEF SendInv, SendState
<1>1. Framed /\ Framed' /\ RegistryInv
  BY FramedNext DEF CloseInv
<1>2. Records' /\ \A a \in Async : Same(a)
  BY HandlesStill
<1>3. CallsStay /\ \A a \in Async : OnStack(a) <=> OnStack(a)'
  BY <1>1, CallsStill, SameCalls
<1>4. UNCHANGED <<queue, handles>>
  BY QueueStill, RegistryChanges
<1>5. Registered' = Registered /\ Registered \subseteq Handle
  BY <1>1, <1>4, RegistryShrinks DEF Registered, Range
<1>6. \A a \in Async : SlotInv(a)'
  BY <1>2, <1>3, <1>5, SlotKept
<1>7. CallsInv'
  BY <1>3, <1>5, SameCallsInv
<1>8. OwedInv'
  <2>1. owed' \subseteq owed \union {a \in Async : Open(a)}
    BY OwedGrows
  <2>. QED  BY <1>2, <1>5, <2>1 DEF OwedInv, Open, Same
<1>9. IsStack(queue)' /\ caught' \in Nat
  BY <1>4, CaughtKept DEF IsStack, Range
<1>10. \A a \in Async : SendKept(a)
  BY <1>2, <1>4 DEF SendKept, Held, Same
<1>. QED  BY <1>2, <1>6, <1>7, <1>8, <1>9, <1>10 DEF SendGood

\* A completion, or the close callback of a handle that left the registry, begins.
LEMMA BegunSend ==
  ASSUME SendInv, [Next]_vars, RunCompletion \/ FireClose
  PROVE  SendGood
<1>. USE DEF SendInv, SendState
<1>. DEFINE f == Top
            x == Head(f.due)
<1>1. Framed /\ Framed' /\ RegistryInv /\ Running /\ DOMAIN f = Fields
  BY FramedNext, TopFrame DEF CloseInv, RunCompletion, FireClose, Running
<1>2. UNCHANGED <<h, queue, owed, caught>>
  BY DEF RunCompletion, FireClose, loopVars, ioVars
<1>3. Registered' \subseteq Registered /\ Registered \subseteq Handle
  BY <1>1, RegistryShrinks
<1>4. CallsInv' /\ \A a \in Async : OnStack(a) => OnStack(a)'
  <2>1. CASE RunCompletion
    <3>. DEFINE c == [NoCall EXCEPT !.id = "work"]
                g == [f EXCEPT !.call = c]
    <3>1. stack' = ReplaceTop(g)
      BY <2>1 DEF RunCompletion
    <3>2. DOMAIN g = Fields /\ g.call = c /\ c.id = "work"
      BY <1>1, KeepsFields DEF Fields, NoCall
    <3>3. CallBegins(c)
      BY <1>1, <3>1, <3>2 DEF CallBegins
    <3>. QED  BY <1>1, <1>3, <3>2, <3>3, NoCallIsNone, BegunCall
  <2>2. CASE FireClose /\ x \in Registered
    <3>. DEFINE c == [NoCall EXCEPT !.id = x]
                g == [f EXCEPT !.due = Tail(f.due), !.call = c]
    <3>1. stack' = ReplaceTop(g) /\ handles' = SwapRemove(handles, x)
      BY <2>2 DEF FireClose
    <3>2. DOMAIN g = Fields /\ g.call = c /\ c.id = x
      BY <1>1 DEF Fields, NoCall
    <3>3. CallBegins(c)
      BY <1>1, <3>1, <3>2 DEF CallBegins
    <3>4. x \notin Registered'
      BY <1>1, <2>2, <3>1, SwapRemoves DEF RegistryInv, Registered
    <3>. QED  BY <1>1, <1>3, <3>2, <3>3, <3>4, BegunCall
  <2>3. CASE FireClose /\ x \notin Registered
    <3>. DEFINE g == [f EXCEPT !.due = Tail(f.due)]
    <3>1. stack' = ReplaceTop(g) /\ stack # <<>>
      BY <2>3 DEF FireClose, Running
    <3>2. DOMAIN g = Fields /\ g.call = f.call
      BY <1>1 DEF Fields
    <3>3. CallsStay
      BY <1>1, <3>1, <3>2, TopStays
    <3>. QED  BY <1>1, <1>3, <3>3, SameCallsInv, SameCalls
  <2>. QED  BY <2>1, <2>2, <2>3
<1>5. \A a \in Async : SlotInv(a)'
  <2>1. \A a \in Async : Same(a)
    BY <1>2 DEF Same
  <2>. QED  BY <1>3, <1>4, <2>1, SlotKept
<1>6. OwedInv'
  <2>. SUFFICES ASSUME NEW a \in owed
                PROVE  a \in Async /\ Open(a)'
    BY <1>2 DEF OwedInv
  <2>1. a \in Async /\ Open(a)
    BY DEF OwedInv
  <2>2. CASE UNCHANGED handles
    BY <1>2, <2>1, <2>2 DEF Open, Registered, Range
  <2>3. CASE FireClose /\ x \in Registered
    <3>1. x \in Handle /\ f.due # <<>> /\ f.due \in Seq(Handle) /\ f = stack[Len(stack)]
          /\ Len(stack) \in 1..Len(stack)
      BY <1>1, <1>3, <2>3, TopFrame DEF FireClose, Running, CloseInv, DueInv
    <3>2. Waits(Len(stack), 1, x)
      <4>1. Len(stack) # 0 /\ Len(stack) \in 0..Len(stack)
        BY <3>1, SMT
      <4>2. 1 \in DOMAIN f.due
        BY <3>1, LenProperties, EmptySeq, SMT
      <4>. QED  BY <3>1, <4>1, <4>2 DEF Waits, Closes
    <3>3. h[x].closing
      <4>1. Places(x) # {}
        BY <3>2, PlacesWait
      <4>. QED  BY <3>1, <4>1 DEF CloseInv, Marked
    <3>4. a # x
      BY <2>1, <3>3 DEF Open
    <3>5. Registered' = Registered \ {x}
      <4>1. handles' = SwapRemove(handles, x)
        BY <2>3 DEF FireClose
      <4>. QED  BY <1>1, <2>3, <4>1, SwapRemoves DEF RegistryInv, Registered
    <3>. QED  BY <1>2, <2>1, <3>4, <3>5 DEF Open
  <2>. QED  BY <2>1, <2>2, <2>3 DEF RunCompletion, FireClose
<1>7. Records' /\ IsStack(queue)' /\ caught' \in Nat
  BY <1>2 DEF Records, IsStack, Range
<1>8. \A a \in Async : SendKept(a)
  BY <1>2 DEF SendKept, Held
<1>. QED  BY <1>4, <1>5, <1>6, <1>7, <1>8 DEF SendGood

\* A close takes back what its handle is owed.
LEMMA ClosedSend ==
  ASSUME SendInv, [Next]_vars, NEW x \in Handle, Close(x)
  PROVE  SendGood
<1>. USE DEF SendInv, SendState
<1>1. /\ Framed /\ Framed' /\ RegistryInv /\ h' = [h EXCEPT ![x] = Closing(h[x])]
      /\ owed' = owed \ {x} /\ UNCHANGED <<handles, stack, queue, caught>>
  BY FramedNext DEF CloseInv, Close, ioVars
<1>2. Registered' = Registered /\ Registered \subseteq Handle
  BY <1>1, RegistryShrinks DEF Registered, Range
<1>. DEFINE g == Closing(h[x])
<1>3. /\ DOMAIN g = HandleFields /\ g.closing = TRUE /\ g.oneshot = h[x].oneshot
      /\ g.pending = h[x].pending
  BY DEF Closing, Records, HandleFields
<1>4. Records' /\ h'[x] = g /\ \A y \in Handle : y # x => h'[y] = h[y]
  BY <1>1, <1>3, OneRecord
<1>5. CallsInv' /\ \A a \in Async : OnStack(a)' <=> OnStack(a)
  BY <1>1, <1>2 DEF CallsInv, OnStack
<1>6. ASSUME NEW a \in Async
      PROVE  SlotInv(a)'
  <2>1. CASE a = x
    BY <1>3, <1>4, <2>1 DEF SlotInv, Open
  <2>2. CASE a # x
    <3>1. Same(a)
      BY <1>4, <2>2, AsyncHandle DEF Same
    <3>. QED  BY <1>2, <1>5, <3>1, SlotKept
  <2>. QED  BY <2>1, <2>2
<1>7. OwedInv'
  BY <1>1, <1>2, <1>4, AsyncHandle DEF OwedInv, Open
<1>8. ASSUME NEW a \in Async
      PROVE  SendKept(a)
  BY <1>1, <1>3, <1>4, AsyncHandle DEF SendKept, Held
<1>9. IsStack(queue)' /\ caught' \in Nat
  BY <1>1 DEF IsStack, Range
<1>. QED  BY <1>4, <1>5, <1>6, <1>7, <1>8, <1>9 DEF SendGood

\* A callback leaves its slot and begins.
LEMMA SlotTaken ==
  ASSUME SendInv, Framed', UNCHANGED handles, NEW x \in Handle, NEW g, h' = [h EXCEPT ![x] = g],
         CallBegins(Call(x)), h[x].callback # 0,
         DOMAIN g = HandleFields, g.closing = h[x].closing, g.oneshot = h[x].oneshot,
         g.pending = h[x].pending, x \in Async => g.active = h[x].active
  PROVE  /\ Records' /\ CallsInv' /\ \A a \in Async : SlotInv(a)' /\ h'[a].pending = h[a].pending
         /\ \A a \in Async : Open(a) => Open(a)'
<1>. USE DEF SendInv, SendState
<1>1. Records' /\ h'[x] = g /\ \A y \in Handle : y # x => h'[y] = h[y]
  <2>1. x \in Handle /\ Records /\ h' = [h EXCEPT ![x] = g] /\ DOMAIN g = HandleFields
    OBVIOUS
  <2>. QED  BY ONLY <2>1, OneRecord
<1>2. Registered' = Registered
  BY DEF Registered, Range
<1>3. CallsInv' /\ \A a \in Async : OnStack(a)' <=> OnStack(a) \/ a = x
  <2>1. Call(x).id = x /\ Call(x).ver = h[x].callback
    BY DEF Call
  <2>2. Framed
    BY DEF CloseInv
  <2>. QED  BY <1>2, <2>1, <2>2, BegunCall
<1>4. ASSUME NEW a \in Async
      PROVE  SlotInv(a)' /\ h'[a].pending = h[a].pending /\ (Open(a) => Open(a)')
  <2>1. CASE a = x
    BY <1>1, <1>2, <1>3, <2>1 DEF SlotInv, Open
  <2>2. CASE a # x
    <3>1. h'[a] = h[a]
      BY <1>1, <2>2, AsyncHandle
    <3>2. SlotInv(a)'
      BY <1>2, <1>3, <3>1, SlotKept DEF Same
    <3>. QED  BY <1>2, <3>1, <3>2 DEF Open
  <2>. QED  BY <2>1, <2>2
<1>. QED  BY <1>1, <1>3, <1>4

LEMMA FiredSend ==
  ASSUME SendInv, [Next]_vars, FireCollected
  PROVE  SendGood
<1>. USE DEF SendInv, SendState
<1>. DEFINE f == Top
<1>1. Framed /\ Framed' /\ RegistryInv /\ Running /\ DOMAIN f = Fields
  BY FramedNext, TopFrame DEF CloseInv, FireCollected, Running
<1>2. UNCHANGED <<handles, queue, owed, caught>>
  BY DEF FireCollected, loopVars, ioVars
<1>3. PICK i \in FirstFiring(f.batch) :
        /\ stack' = ReplaceTop([f EXCEPT !.call = Call(f.batch[i][1]),
                                         !.batch = SubSeq(f.batch, i + 1, Len(f.batch))])
        /\ h' = [h EXCEPT ![f.batch[i][1]] = TakenSlot(h[f.batch[i][1]])]
  BY DEF FireCollected
<1>. DEFINE x == f.batch[i][1]
            k == [f EXCEPT !.call = Call(x), !.batch = SubSeq(f.batch, i + 1, Len(f.batch))]
            g == TakenSlot(h[x])
<1>4. x \in Handle /\ h[x].callback # 0
  <2>1. Fires(f.batch[i])
    BY DEF FirstFiring
  <2>. QED  BY <1>1, <2>1, RegistryShrinks DEF Fires, StillCurrent, Active
<1>5. CallBegins(Call(x))
  <2>1. DOMAIN k = Fields /\ k.call = Call(x)
    BY <1>1 DEF Fields
  <2>. QED  BY <1>1, <1>3, <2>1 DEF CallBegins
<1>6. /\ DOMAIN g = HandleFields /\ g.closing = h[x].closing /\ g.oneshot = h[x].oneshot
      /\ g.pending = h[x].pending /\ g.active = h[x].active
  BY <1>4 DEF TakenSlot, Records, HandleFields
<1>7. h' = [h EXCEPT ![x] = g]
  BY <1>3
<1>. HIDE DEF x, g, k
<1>8. /\ Records' /\ CallsInv' /\ \A a \in Async : SlotInv(a)' /\ h'[a].pending = h[a].pending
      /\ \A a \in Async : Open(a) => Open(a)'
  BY <1>1, <1>2, <1>4, <1>5, <1>6, <1>7, SlotTaken
<1>9. OwedInv' /\ IsStack(queue)' /\ caught' \in Nat
  BY <1>2, <1>8 DEF OwedInv, IsStack, Range
<1>10. \A a \in Async : SendKept(a)
  BY <1>2, <1>8 DEF SendKept, Held
<1>. QED  BY <1>8, <1>9, <1>10 DEF SendGood

\* What is at the head of the queue is called, or its callback is under way already.
LEMMA DeliveredSend ==
  ASSUME SendInv, [Next]_vars, Deliver
  PROVE  SendGood
<1>. USE DEF SendInv, SendState
<1>. DEFINE f == Top
            x == Head(queue)[1]
            called == Delivered(Head(queue)) /\ h[x].callback # 0
            n == Len(queue)
<1>1. Framed /\ Framed' /\ RegistryInv /\ Running /\ DOMAIN f = Fields
  BY FramedNext, TopFrame DEF CloseInv, Deliver, Running
<1>2. UNCHANGED <<handles, caught>> /\ queue # <<>> /\ queue' = Tail(queue)
  BY DEF Deliver, ioVars
<1>3. Registered' = Registered /\ Registered \subseteq Handle
  BY <1>1, <1>2, RegistryShrinks DEF Registered, Range
<1>4. /\ n \in Nat /\ n # 0 /\ DOMAIN queue = 1..n /\ queue[1] = Head(queue)
      /\ queue' \in Seq(Range(queue)) /\ DOMAIN queue' = 1..(n - 1)
      /\ \A j \in 1..(n - 1) : queue'[j] = queue[j + 1]
  <2>1. queue \in Seq(Range(queue))
    BY DEF IsStack
  <2>2. /\ n \in Nat /\ n # 0 /\ DOMAIN queue = 1..n
        /\ Tail(queue) \in Seq(Range(queue)) /\ Len(Tail(queue)) = n - 1
        /\ \A j \in 1..(n - 1) : Tail(queue)[j] = queue[j + 1]
    BY <1>2, <2>1, HeadTailProperties, LenProperties, EmptySeq, SMT
  <2>. QED  BY <1>2, <2>2, LenProperties
<1>5. IsStack(queue)'
  BY <1>4, SeqOfRange DEF IsStack
<1>6. ASSUME NEW a, NEW j \in DOMAIN queue, queue[j][1] = a, a # x
      PROVE  \E k \in DOMAIN queue' : queue'[k][1] = a
  <2>1. j # 1
    BY <1>4, <1>6
  <2>2. j - 1 \in 1..(n - 1) /\ (j - 1) + 1 = j
    <3>. HIDE DEF n
    <3>. QED  BY <1>4, <1>6, <2>1, SMT
  <2>. QED  BY <1>4, <1>6, <2>2
<1>7. CASE called
  <2>. DEFINE k == [f EXCEPT !.call = Call(x)]
              g == [TakenSlot(h[x]) EXCEPT !.active = ~h[x].oneshot]
  <2>1. stack' = ReplaceTop(k) /\ h' = [h EXCEPT ![x] = g] /\ owed' = owed \ {x}
    BY <1>7 DEF Deliver
  <2>2. x \in Handle /\ h[x].callback # 0 /\ (x \in Async => Open(x))
    BY <1>3, <1>7 DEF Delivered, StillCurrent, Active, Open
  <2>3. CallBegins(Call(x))
    <3>1. DOMAIN k = Fields /\ k.call = Call(x)
      BY <1>1 DEF Fields
    <3>. QED  BY <1>1, <2>1, <3>1 DEF CallBegins
  <2>4. /\ DOMAIN g = HandleFields /\ g.closing = h[x].closing /\ g.oneshot = h[x].oneshot
        /\ g.pending = h[x].pending /\ g.active = ~h[x].oneshot
    BY <2>2 DEF TakenSlot, Records, HandleFields
  <2>5. x \in Async => g.active = h[x].active
    <3>1. x \in Async => ~h[x].oneshot /\ h[x].active
      BY <2>2 DEF SlotInv
    <3>. QED  BY <2>4, <3>1
  <2>. HIDE DEF g, k, x
  <2>6. /\ Records' /\ CallsInv' /\ \A a \in Async : SlotInv(a)' /\ h'[a].pending = h[a].pending
        /\ \A a \in Async : Open(a) => Open(a)'
    BY <1>1, <1>2, <2>1, <2>2, <2>3, <2>4, <2>5, SlotTaken
  <2>7. OwedInv'
    BY <2>1, <2>6 DEF OwedInv
  <2>8. ASSUME NEW a \in Async
        PROVE  SendKept(a)
    BY <1>6, <2>1, <2>6 DEF SendKept, Held
  <2>. QED  BY <1>2, <1>5, <2>6, <2>7, <2>8 DEF SendGood
<1>8. CASE ~called
  <2>1. UNCHANGED <<stack, h, owed>>
    BY <1>8 DEF Deliver
  <2>2. CallsInv' /\ \A a \in Async : OnStack(a)' <=> OnStack(a)
    BY <1>3, <2>1 DEF CallsInv, OnStack
  <2>3. Records' /\ OwedInv'
    BY <1>3, <2>1 DEF Records, OwedInv, Open
  <2>4. ASSUME NEW a \in Async
        PROVE  SlotInv(a)' /\ SendKept(a)
    <3>1. SlotInv(a)'
      BY <1>3, <2>1, <2>2, SlotKept DEF Same
    <3>2. CASE a \in owed /\ a = x
      <4>1. Open(a) /\ h[a].active
        BY <2>4, <3>2 DEF OwedInv, SlotInv
      <4>2. Delivered(Head(queue))
        BY <2>4, <3>2, <4>1 DEF Delivered, Active, Open
      <4>3. OnStack(a)
        BY <1>8, <2>4, <3>2, <4>1, <4>2 DEF SlotInv
      <4>. QED  BY <2>2, <2>4, <3>1, <4>3 DEF SendKept
    <3>3. CASE a # x
      <4>. HIDE DEF x
      <4>. QED  BY <1>6, <2>1, <3>1, <3>3 DEF SendKept, Held
    <3>. QED  BY <3>1, <3>2, <3>3 DEF SendKept
  <2>. QED  BY <1>2, <1>5, <2>2, <2>3, <2>4 DEF SendGood
<1>. QED  BY <1>7, <1>8

LEMMA Concatenated ==
  ASSUME NEW S, NEW T, NEW s \in Seq(S), NEW t \in Seq(T)
  PROVE  /\ IsStack(s \o t)
         /\ \A i \in DOMAIN s : i \in DOMAIN (s \o t) /\ (s \o t)[i] = s[i]
         /\ \A i \in DOMAIN t : Len(s) + i \in DOMAIN (s \o t) /\ (s \o t)[Len(s) + i] = t[i]
<1>. DEFINE U == S \union T
            m == Len(s)
            n == Len(t)
<1>1. s \in Seq(U) /\ t \in Seq(U)
  BY SeqMonotonic
<1>2. m \in Nat /\ n \in Nat /\ DOMAIN s = 1..m /\ DOMAIN t = 1..n
  BY LenProperties
<1>3. /\ s \o t \in Seq(U) /\ Len(s \o t) = m + n
      /\ \A i \in 1..(m + n) : (s \o t)[i] = IF i <= m THEN s[i] ELSE t[i - m]
  BY <1>1, ConcatProperties
<1>4. DOMAIN (s \o t) = 1..(m + n)
  BY <1>3, LenProperties
<1>5. /\ \A i \in 1..m : i \in 1..(m + n) /\ i <= m
      /\ \A i \in 1..n : m + i \in 1..(m + n) /\ ~(m + i <= m) /\ (m + i) - m = i
  <2>. HIDE DEF m, n
  <2>. QED  BY <1>2, SMT
<1>6. IsStack(s \o t)
  BY <1>3, SeqOfRange DEF IsStack
<1>. HIDE DEF m, n
<1>7. \A i \in 1..m : (s \o t)[i] = s[i]
  BY <1>3, <1>5
<1>8. \A i \in 1..n : (s \o t)[m + i] = t[i]
  BY <1>3, <1>5
<1>. QED  BY <1>2, <1>4, <1>5, <1>6, <1>7, <1>8 DEF m

\* Different positions have different ranks, no larger than their number.
LEMMA RanksDiffer ==
  ASSUME NEW n \in Nat, NEW K \in SUBSET (1..n)
  PROVE  /\ Cardinality(K) \in Nat
         /\ \A i \in K : Rank(K, i) \in 1..Cardinality(K)
         /\ \A i, j \in K : Rank(K, i) = Rank(K, j) => i = j
<1>. DEFINE Up(i) == {k \in K : k <= i}
<1>1. IsFiniteSet(K) /\ Cardinality(K) \in Nat
  <2>1. IsFiniteSet(1..n)
    BY FS_Interval, SMT
  <2>2. IsFiniteSet(K)
    BY <2>1, FS_Subset
  <2>. QED  BY <2>2, FS_CardinalityType
<1>2. ASSUME NEW i \in K
      PROVE  /\ IsFiniteSet(Up(i)) /\ Cardinality(Up(i)) \in 1..Cardinality(K)
  <2>1. Up(i) \in SUBSET K /\ i \in Up(i)
    BY SMT
  <2>. DEFINE U == Up(i)
  <2>2. IsFiniteSet(U) /\ Cardinality(U) <= Cardinality(K) /\ Cardinality(U) \in Nat
    BY <1>1, <2>1, FS_Subset, FS_CardinalityType
  <2>3. Cardinality(Up(i)) # 0
    BY <2>1, <2>2, FS_EmptySet
  <2>. QED  BY <1>1, <2>2, <2>3
<1>3. ASSUME NEW i \in K, NEW j \in K, i < j
      PROVE  Rank(K, i) # Rank(K, j)
  <2>. DEFINE U == Up(i)
              V == Up(j)
  <2>1. j \in V /\ j \notin U
    BY <1>3, SMT
  <2>2. \A k \in U : k \in V
    BY <1>3, SMT
  <2>3. U \in SUBSET V /\ U # V /\ IsFiniteSet(V)
    BY <1>2, <2>1, <2>2
  <2>4. Cardinality(U) # Cardinality(V)
    BY <2>3, FS_Subset
  <2>. QED  BY <2>4 DEF Rank
<1>4. \A i, j \in K : i < j \/ j < i \/ i = j
  BY SMT
<1>. QED  BY <1>1, <1>2, <1>3, <1>4 DEF Rank

\* What a phase or a swap collects: every active handle asked for, in a sequence.
LEMMA CollectedActive ==
  ASSUME RegistryInv, NEW S
  PROVE  /\ Collected(S) \in Seq(Range(Collected(S)))
         /\ \A x \in S : Active(x) => \E i \in DOMAIN Collected(S) : Collected(S)[i][1] = x
<1>. DEFINE out == {x \in Handle : x \notin S \/ ~Active(x)}
            K == Kept(handles, out)
            n == Cardinality(K)
            ids == Without(handles, out)
            c == Collected(S)
<1>1. Len(handles) \in Nat /\ DOMAIN handles = 1..Len(handles) /\ K \in SUBSET (1..Len(handles))
  BY LenProperties DEF RegistryInv, Kept
<1>2. /\ n \in Nat /\ \A i \in K : Rank(K, i) \in 1..n
      /\ \A i, j \in K : Rank(K, i) = Rank(K, j) => i = j
  BY <1>1, RanksDiffer
<1>3. ids = [m \in 1..n |-> handles[CHOOSE i \in K : Rank(K, i) = m]]
  BY DEF Without
<1>4. c = [m \in 1..n |-> <<ids[m], h[ids[m]].generation>>]
  BY <1>3 DEF Collected
<1>. HIDE DEF c
<1>5. c \in Seq(Range(c))
  <2>1. \A m \in 1..n : c[m] \in Range(c)
    BY <1>4 DEF Range
  <2>2. c = [m \in 1..n |-> c[m]]
    BY <1>4
  <2>. HIDE DEF n
  <2>. QED  BY <1>2, <2>1, <2>2, SeqDef
<1>6. ASSUME NEW x \in S, Active(x)
      PROVE  \E i \in DOMAIN c : c[i][1] = x
  <2>1. PICK i \in K : handles[i] = x
    BY <1>1, <1>6 DEF Active, Registered, Range, Kept
  <2>. DEFINE m == Rank(K, i)
  <2>2. m \in 1..n /\ (CHOOSE j \in K : Rank(K, j) = m) = i
    BY <1>2
  <2>3. ids[m] = x
    BY <1>3, <2>1, <2>2
  <2>. HIDE DEF ids, m, n
  <2>4. m \in DOMAIN c /\ c[m][1] = x
    BY <1>4, <2>2, <2>3
  <2>. QED  BY <2>4
<1>. QED  BY <1>5, <1>6 DEF c

LEMMA RepeatedIsSeq ==
  ASSUME NEW n \in Nat, NEW T, NEW s \in Seq(T)
  PROVE  Repeated(n, s) \in Seq(Range(Repeated(n, s)))
<1>. DEFINE m == n * Len(s)
            r == Repeated(n, s)
<1>1. m \in Nat
  <2>1. Len(s) \in Nat
    BY LenProperties
  <2>. QED  BY <2>1, SMT
<1>2. r = [i \in 1..m |-> s[((i - 1) % Len(s)) + 1]]
  BY DEF Repeated
<1>. HIDE DEF r, m
<1>3. \A i \in 1..m : r[i] \in Range(r)
  BY <1>2 DEF Range
<1>4. r = [i \in 1..m |-> r[i]]
  BY <1>2
<1>. QED  BY <1>1, <1>3, <1>4, SeqDef DEF r

\* A flag that is swapped out leaves an entry in the queue.
LEMMA CollectedSend ==
  ASSUME SendInv, [Next]_vars, CollectSources
  PROVE  SendGood
<1>. USE DEF SendInv, SendState
<1>. DEFINE sent == {a \in Async : Active(a) /\ h[a].pending}
            c == Collected(sent)
            r == Repeated(caught, Collected(Signal))
<1>1. /\ Framed /\ Framed' /\ RegistryInv /\ UNCHANGED <<handles, owed>>
      /\ queue' = (queue \o c) \o r
      /\ h' = [a \in Handle |-> IF a \in sent THEN [h[a] EXCEPT !.pending = FALSE] ELSE h[a]]
  BY FramedNext DEF CloseInv, CollectSources
<1>2. Registered' = Registered /\ Registered \subseteq Handle
  BY <1>1, RegistryShrinks DEF Registered, Range
<1>3. CallsStay
  BY <1>1, CallsStill DEF CollectSources, FireCollected, RunCompletion, Deliver, FireClose,
                          CallbackReturns, Running, InCallback
<1>4. CallsInv' /\ \A a \in Async : OnStack(a) <=> OnStack(a)'
  BY <1>1, <1>2, <1>3, SameCallsInv, SameCalls
<1>5. ASSUME NEW x \in Handle
      PROVE  /\ DOMAIN h'[x] = HandleFields /\ h'[x].closing = h[x].closing
             /\ h'[x].active = h[x].active /\ h'[x].oneshot = h[x].oneshot
             /\ h'[x].callback = h[x].callback
             /\ (x \notin sent => h'[x].pending = h[x].pending)
  <2>1. h'[x] = IF x \in sent THEN [h[x] EXCEPT !.pending = FALSE] ELSE h[x]
    BY <1>1
  <2>2. DOMAIN h[x] = HandleFields
    BY DEF Records
  <2>. QED  BY <2>1, <2>2 DEF HandleFields
<1>6. Records'
  BY <1>1, <1>5 DEF Records
<1>7. \A a \in Async : SlotInv(a)' /\ (Open(a) <=> Open(a)')
  BY <1>2, <1>4, <1>5, AsyncHandle DEF SlotInv, Open
<1>8. OwedInv' /\ caught' \in Nat
  BY <1>1, <1>7, CaughtKept DEF OwedInv
<1>9. queue \in Seq(Range(queue)) /\ c \in Seq(Range(c)) /\ r \in Seq(Range(r))
  <2>1. Collected(Signal) \in Seq(Range(Collected(Signal)))
    BY <1>1, CollectedActive
  <2>2. r \in Seq(Range(r))
    BY <2>1, RepeatedIsSeq
  <2>. QED  BY <1>1, <2>2, CollectedActive DEF IsStack
<1>. HIDE DEF c, r
<1>. DEFINE q == queue \o c
<1>10. /\ IsStack(q)
       /\ \A i \in DOMAIN queue : i \in DOMAIN q /\ q[i] = queue[i]
       /\ \A i \in DOMAIN c : Len(queue) + i \in DOMAIN q /\ q[Len(queue) + i] = c[i]
  BY <1>9, Concatenated
<1>. HIDE DEF q
<1>11. /\ IsStack(queue)'
       /\ \A i \in DOMAIN q : i \in DOMAIN queue' /\ queue'[i] = q[i]
  <2>1. q \in Seq(Range(q))
    BY <1>10 DEF IsStack
  <2>2. /\ IsStack(q \o r)
        /\ \A i \in DOMAIN q : i \in DOMAIN (q \o r) /\ (q \o r)[i] = q[i]
    BY <1>9, <2>1, Concatenated
  <2>3. queue' = q \o r
    BY <1>1 DEF q
  <2>. QED  BY <2>2, <2>3 DEF IsStack, Range
<1>12. ASSUME NEW a \in Async
       PROVE  SendKept(a)
  <2>. SUFFICES ASSUME a \in owed, Held(a)
                PROVE  Held(a)'
    BY DEF SendKept
  <2>1. Active(a)
    BY DEF OwedInv, SlotInv, Open, Active
  <2>2. CASE a \in sent
    <3>1. PICK i \in DOMAIN c : c[i][1] = a
      BY <1>1, <2>1, <2>2, CollectedActive DEF c
    <3>. QED  BY <1>10, <1>11, <3>1 DEF Held
  <2>3. CASE a \notin sent
    <3>1. ~h[a].pending
      BY <2>1, <2>3
    <3>2. PICK i \in DOMAIN queue : queue[i][1] = a
      BY <3>1 DEF Held
    <3>. QED  BY <1>10, <1>11, <3>2 DEF Held
  <2>. QED  BY <2>2, <2>3
<1>. QED  BY <1>4, <1>6, <1>7, <1>8, <1>11, <1>12 DEF SendGood

\* The slot a callback left is filled again when the callback returns.
LEMMA ReturnedSend ==
  ASSUME SendInv, [Next]_vars, CallbackReturns
  PROVE  SendGood
<1>. USE DEF SendInv, SendState
<1>. DEFINE f == Top
            c == f.call
            k == [f EXCEPT !.call = NoCall]
            n == Len(stack)
<1>1. /\ Framed /\ Framed' /\ RegistryInv /\ stack # <<>> /\ DOMAIN f = Fields
      /\ UNCHANGED <<handles, owed, queue, caught>> /\ stack' = ReplaceTop(k)
  BY FramedNext, TopFrame DEF CloseInv, CallbackReturns, InCallback, loopVars
<1>2. Registered' = Registered /\ Registered \subseteq Handle
  BY <1>1, RegistryShrinks DEF Registered, Range
<1>3. DOMAIN k = Fields /\ k.call = NoCall
  BY <1>1, KeepsFields DEF Fields
<1>4. /\ Len(stack') = n /\ n \in 1..n /\ stack'[n] = k /\ stack[n] = f
      /\ \A i \in 1..n : i = n \/ stack'[i] = stack[i]
  BY <1>1, <1>3, TopOnly
<1>5. CallsInv'
  <2>1. NoCall.id \notin Registered
    BY <1>2, NoCallIsNone
  <2>. QED  BY <1>2, <1>3, <1>4, <2>1 DEF CallsInv
<1>6. ASSUME NEW a \in Async, a # c.id, OnStack(a)
      PROVE  OnStack(a)'
  <2>1. DOMAIN stack = 1..n /\ DOMAIN stack' = 1..n
    BY <1>1, <1>4, StackIndex DEF Framed
  <2>2. PICK i \in 1..n : stack[i].call.id = a
    BY <1>6, <2>1 DEF OnStack
  <2>3. i # n
    BY <1>4, <1>6, <2>2
  <2>. QED  BY <1>4, <2>1, <2>2, <2>3 DEF OnStack
<1>7. c.id \in Registered => c.ver # 0
  BY <1>4 DEF CallsInv
<1>. DEFINE x == c.id
            g == IF x \in Timer THEN Rearmed(Restored(h[x], c), c) ELSE Restored(h[x], c)
<1>8. CASE x \notin Registered
  <2>1. UNCHANGED h
    BY <1>8 DEF CallbackReturns
  <2>2. \A a \in Async : SlotInv(a)'
    <3>. TAKE a \in Async
    <3>1. CASE a = x
      <4>1. ~Open(a)' /\ ~h'[a].oneshot
        BY <1>2, <1>8, <2>1, <3>1 DEF Open, SlotInv
      <4>. QED  BY <4>1 DEF SlotInv
    <3>2. CASE a # x
      <4>. HIDE DEF x
      <4>. QED  BY <1>2, <1>6, <2>1, <3>2, SlotKept DEF Same, x
    <3>. QED  BY <3>1, <3>2
  <2>3. OwedInv' /\ Records'
    BY <1>1, <1>2, <2>1 DEF OwedInv, Open, Records
  <2>4. IsStack(queue)' /\ caught' \in Nat
    BY <1>1 DEF IsStack, Range
  <2>5. \A a \in Async : SendKept(a)
    BY <1>1, <2>1 DEF SendKept, Held
  <2>. QED  BY <1>5, <2>2, <2>3, <2>4, <2>5 DEF SendGood
<1>9. CASE x \in Registered
  <2>1. h' = [h EXCEPT ![x] = g] /\ x \in Handle
    BY <1>2, <1>9 DEF CallbackReturns
  <2>2. /\ DOMAIN Restored(h[x], c) = HandleFields /\ Restored(h[x], c).closing = h[x].closing
        /\ Restored(h[x], c).oneshot = h[x].oneshot /\ Restored(h[x], c).pending = h[x].pending
        /\ Restored(h[x], c).active = h[x].active
        /\ (Restored(h[x], c).closing \/ Restored(h[x], c).callback # 0)
    BY <1>7, <1>9, <2>1 DEF Restored, Records, HandleFields
  <2>3. DOMAIN g = HandleFields
    BY <2>2 DEF Rearmed
  <2>4. x \in Async => g = Restored(h[x], c)
    BY AsyncHandle
  <2>. HIDE DEF g, c
  <2>5. Records' /\ h'[x] = g /\ \A y \in Handle : y # x => h'[y] = h[y]
    BY <2>1, <2>3, OneRecord
  <2>6. ASSUME NEW a \in Async
        PROVE  SlotInv(a)' /\ h'[a].pending = h[a].pending /\ (Open(a) => Open(a)')
    <3>1. CASE a = x
      <4>1. /\ h'[a].closing = h[a].closing /\ h'[a].oneshot = h[a].oneshot
            /\ h'[a].pending = h[a].pending /\ h'[a].active = h[a].active
            /\ (h'[a].closing \/ h'[a].callback # 0)
        BY <2>2, <2>4, <2>5, <2>6, <3>1
      <4>. QED  BY <1>2, <2>6, <4>1 DEF SlotInv, Open
    <3>2. CASE a # x
      <4>1. h'[a] = h[a]
        BY <2>5, <3>2, AsyncHandle
      <4>2. OnStack(a) => OnStack(a)'
        BY <1>6, <3>2
      <4>. HIDE DEF x
      <4>3. SlotInv(a)'
        BY <1>2, <4>1, <4>2, SlotKept DEF Same
      <4>. QED  BY <1>2, <4>1, <4>3 DEF Open
    <3>. QED  BY <3>1, <3>2
  <2>7. OwedInv'
    BY <1>1, <2>6 DEF OwedInv
  <2>8. IsStack(queue)' /\ caught' \in Nat
    BY <1>1 DEF IsStack, Range
  <2>9. \A a \in Async : SendKept(a)
    BY <1>1, <2>6 DEF SendKept, Held
  <2>. QED  BY <1>5, <2>5, <2>6, <2>7, <2>8, <2>9 DEF SendGood
<1>. QED  BY <1>8, <1>9

LEMMA SendInvInit == Init => SendInv
<1>. SUFFICES ASSUME Init
              PROVE  SendState
  BY CloseInvInit DEF SendInv
<1>1. h = [x \in Handle |-> Fresh(x)] /\ stack = <<>> /\ queue = <<>> /\ caught = 0 /\ owed = {}
  BY DEF Init
<1>2. Records
  BY <1>1 DEF Fresh, HandleFields, Records
<1>3. ASSUME NEW a \in Async
      PROVE  SlotInv(a)
  <2>1. h[a] = Fresh(a)
    BY <1>1, AsyncHandle
  <2>2. ~Fresh(a).oneshot /\ Fresh(a).active /\ Fresh(a).callback = 1
    BY DEF Fresh
  <2>3. 1 # 0
    BY SMT
  <2>. QED  BY <2>1, <2>2, <2>3 DEF SlotInv
<1>4. CallsInv
  <2>1. 1..Len(stack) = {}
    BY <1>1, SMT
  <2>. QED  BY <2>1 DEF CallsInv
<1>5. OwedInv /\ IsStack(queue) /\ caught \in Nat
  BY <1>1, SMT DEF OwedInv, IsStack
<1>. QED  BY <1>2, <1>3, <1>4, <1>5 DEF SendState

LEMMA SendInvNext == SendInv /\ [Next]_vars => SendGood
<1>. SUFFICES ASSUME SendInv, [Next]_vars
              PROVE  SendGood
  OBVIOUS
<1>. QED
  BY QuietSend, BegunSend, ClosedSend, FiredSend, DeliveredSend, CollectedSend, ReturnedSend

\* An open async handle has its callback in the slot or on the stack, so an entry
\* of the queue is called unless the callback is under way, and a flag is taken
\* down only to queue its handle: a send stays until a callback begins.
THEOREM SendsStay == Spec => SendsKept
<1>. DEFINE Step == \A a \in owed \intersect owed' : Held(a) => Held(a)' \/ (OnStack(a) /\ OnStack(a)')
<1>1. ASSUME SendInv, [Next]_vars
      PROVE  SendInv' /\ Step
  <2>1. SendGood
    BY <1>1, SendInvNext
  <2>2. CloseInv'
    BY <1>1, CloseInvNext DEF SendInv
  <2>3. owed \subseteq Async
    BY <1>1 DEF SendInv, SendState, OwedInv
  <2>. QED  BY <2>1, <2>2, <2>3 DEF SendGood, SendInv, SendKept
<1>. QED  BY <1>1, SendInvInit, PTL DEF Spec, SendsKept
-----------------------------------------------------------------------------
(* Nothing stopped, restarted or closed fires from what was collected *)

PhasePcs == {"idle", "prepare", "check"}
Numbers == \A x \in Handle : h[x].generation \in Nat /\ h[x].newest \in Nat

\* The slot holds the callback installed last; while it is empty, the innermost
\* run that is inside a callback of the handle is inside that one.
Innermost(x, i) ==
  /\ i \in 1..Len(stack) /\ stack[i].call.id = x
  /\ \A j \in 1..Len(stack) : j > i => stack[j].call.id # x
VersionOf(x) ==
  Open(x) =>
    /\ (h[x].callback # 0 => h[x].callback = h[x].newest)
    /\ (h[x].callback = 0 => \A i : Innermost(x, i) => stack[i].call.ver = h[x].newest)

\* Only the timers phase collects timers, and only the innermost run is in it.
Collects(f) ==
  /\ IsStack(f.batch)
  /\ (f.pc \in PhasePcs => \A k \in DOMAIN f.batch : f.batch[k][1] \notin Timer)
FramesInv ==
  /\ \A i \in 1..Len(stack) : Collects(stack[i])
  /\ \A i \in 1..Len(stack) : i < Len(stack) => stack[i].pc \in Nesting

\* A collected timer that is still in its generation is due, and its callback
\* is not the one under way.
DueEntry(e, c, g) ==
  /\ e[1] \in Timer /\ e[1] # c.id
  /\ e[2] \in Nat /\ e[2] <= g[e[1]].generation
  /\ (e[2] = g[e[1]].generation => g[e[1]].due)
Timely(f, g) ==
  f.pc = "timers" =>
    /\ \A k \in DOMAIN f.batch : DueEntry(f.batch[k], f.call, g)
    /\ \A k, l \in DOMAIN f.batch : f.batch[k][1] = f.batch[l][1] => k = l
TimersInv == stack # <<>> => Timely(Top, h)

FireInv ==
  /\ CloseInv /\ Records /\ CallsInv
  /\ Numbers /\ (\A x \in Handle : VersionOf(x)) /\ FramesInv /\ TimersInv

\* A generation never comes back, and a deadline that passed stays passed in it.
Dated(x) ==
  /\ h'[x].generation \in Nat /\ h'[x].newest \in Nat
  /\ h'[x].generation >= h[x].generation
  /\ (h'[x].generation = h[x].generation /\ h[x].due => h'[x].due)
\* The slot stays as it is or receives a new callback.
Slotted(x) ==
  /\ \/ h'[x].callback = h[x].callback /\ h'[x].newest = h[x].newest
     \/ h'[x].callback = h'[x].newest /\ h'[x].callback # 0
  /\ (h[x].closing => h'[x].closing)
Ages == Records' /\ \A x \in Handle : Dated(x) /\ Slotted(x)

LEMMA TimerHandle == \A t \in Timer : t \in Handle /\ t \notin Phased /\ t \notin Async /\ t \notin Signal
BY UvAssumption DEF Handle

LEMMA OneAges ==
  ASSUME Records, Numbers, NEW y, NEW g, h' = [h EXCEPT ![y] = g],
         y \in Handle => /\ DOMAIN g = HandleFields
                         /\ g.generation \in Nat /\ g.newest \in Nat
                         /\ g.generation >= h[y].generation
                         /\ (g.generation = h[y].generation /\ h[y].due => g.due)
                         /\ \/ g.callback = h[y].callback /\ g.newest = h[y].newest
                            \/ g.callback = g.newest /\ g.callback # 0
                         /\ (h[y].closing => g.closing)
  PROVE  Ages
<1>1. Records' /\ (y \in Handle => h'[y] = g) /\ \A x \in Handle : x # y => h'[x] = h[x]
  BY OneRecord
<1>2. ASSUME NEW x \in Handle
      PROVE  Dated(x) /\ Slotted(x)
  <2>1. CASE x = y
    BY <1>1, <2>1 DEF Dated, Slotted
  <2>2. CASE x # y
    <3>1. h'[x] = h[x] /\ h[x].generation \in Nat /\ h[x].newest \in Nat
      BY <1>1, <2>2 DEF Numbers
    <3>2. h[x].generation >= h[x].generation
      BY <3>1, SMT
    <3>. QED  BY <3>1, <3>2 DEF Dated, Slotted
  <2>. QED  BY <2>1, <2>2
<1>. QED  BY <1>1, <1>2 DEF Ages

LEMMA NoneAges ==
  ASSUME Records, Numbers, UNCHANGED h
  PROVE  Ages
<1>1. \A x \in Handle : h[x].generation >= h[x].generation
  BY SMT DEF Numbers
<1>. QED  BY <1>1 DEF Ages, Dated, Slotted, Records, Numbers

\* What installing a callback, stopping and re-arming do to a handle.
LEMMA Renumbered ==
  ASSUME Records, Numbers, NEW x \in Handle
  PROVE  /\ h[x].generation + 1 \in Nat /\ h[x].newest + 1 \in Nat
         /\ h[x].generation + 1 >= h[x].generation /\ h[x].generation + 1 # h[x].generation
         /\ h[x].generation >= h[x].generation /\ h[x].newest + 1 # 0
         /\ DOMAIN Installed(h[x]) = HandleFields /\ Installed(h[x]).closing = h[x].closing
         /\ Installed(h[x]).generation = h[x].generation + 1
         /\ Installed(h[x]).callback = h[x].newest + 1 /\ Installed(h[x]).newest = h[x].newest + 1
         /\ DOMAIN Stopped(h[x]) = HandleFields /\ Stopped(h[x]).closing = h[x].closing
         /\ Stopped(h[x]).generation = h[x].generation + 1
         /\ Stopped(h[x]).callback = h[x].callback /\ Stopped(h[x]).newest = h[x].newest
<1>. DEFINE gen == h[x].generation
            new == h[x].newest
<1>1. gen \in Nat /\ new \in Nat /\ DOMAIN h[x] = HandleFields
  BY DEF Numbers, Records
<1>2. /\ DOMAIN Installed(h[x]) = HandleFields /\ Installed(h[x]).closing = h[x].closing
      /\ Installed(h[x]).generation = gen + 1
      /\ Installed(h[x]).callback = new + 1 /\ Installed(h[x]).newest = new + 1
  BY <1>1 DEF Installed, NextGeneration, HandleFields
<1>3. /\ DOMAIN Stopped(h[x]) = HandleFields /\ Stopped(h[x]).closing = h[x].closing
      /\ Stopped(h[x]).generation = gen + 1
      /\ Stopped(h[x]).callback = h[x].callback /\ Stopped(h[x]).newest = h[x].newest
  BY <1>1 DEF Stopped, NextGeneration, HandleFields
<1>4. gen + 1 \in Nat /\ new + 1 \in Nat /\ gen + 1 >= gen /\ gen + 1 # gen /\ gen >= gen /\ new + 1 # 0
  <2>. HIDE DEF gen, new
  <2>. QED  BY <1>1, SMT
<1>. QED  BY <1>2, <1>3, <1>4

\* Every step but the beginning and the return of a callback.
LEMMA HandlesAge ==
  ASSUME Records, Numbers, [Next]_vars, ~FireCollected, ~Deliver, ~CallbackReturns
  PROVE  Ages
<1>1. CASE HandleCalls
  <2>1. ASSUME NEW t \in Timer, NEW zero \in BOOLEAN, NEW rep \in BOOLEAN, TimerStart(t, zero, rep)
        PROVE  Ages
    <3>. DEFINE g == [Installed(h[t]) EXCEPT !.due = zero, !.repeats = rep]
    <3>1. t \in Handle
      BY DEF Handle
    <3>2. /\ DOMAIN g = HandleFields /\ g.closing = h[t].closing /\ g.generation = h[t].generation + 1
          /\ g.callback = h[t].newest + 1 /\ g.newest = h[t].newest + 1
      BY <3>1, Renumbered DEF HandleFields
    <3>3. h' = [h EXCEPT ![t] = g]
      BY <2>1 DEF TimerStart, Changes
    <3>. HIDE DEF g
    <3>. QED  BY <3>1, <3>2, <3>3, Renumbered, OneAges
  <2>2. ASSUME NEW t \in Timer, Again(t)
        PROVE  Ages
    <3>. DEFINE g == [h[t] EXCEPT !.active = TRUE, !.due = FALSE,
                                  !.generation = NextGeneration(h[t].generation)]
    <3>1. t \in Handle
      BY DEF Handle
    <3>2. /\ DOMAIN g = HandleFields /\ g.closing = h[t].closing /\ g.generation = h[t].generation + 1
          /\ g.callback = h[t].callback /\ g.newest = h[t].newest
      BY <3>1 DEF HandleFields, Records, NextGeneration
    <3>3. h' = [h EXCEPT ![t] = g]
      BY <2>2 DEF Again, Changes
    <3>4. h[t].newest \in Nat
      BY <3>1 DEF Numbers
    <3>. HIDE DEF g
    <3>. QED  BY <3>1, <3>2, <3>3, <3>4, Renumbered, OneAges
  <2>3. ASSUME NEW p \in Phased, PhaseStart(p)
        PROVE  Ages
    <3>1. p \in Handle
      BY DEF Handle
    <3>2. h' = [h EXCEPT ![p] = Installed(h[p])]
      BY <2>3 DEF PhaseStart, Changes
    <3>. QED  BY <3>1, <3>2, Renumbered, OneAges
  <2>4. ASSUME NEW s \in Signal, NEW once \in BOOLEAN, SignalStart(s, once)
        PROVE  Ages
    <3>. DEFINE g == [Installed(h[s]) EXCEPT !.oneshot = once]
    <3>1. s \in Handle
      BY DEF Handle
    <3>2. /\ DOMAIN g = HandleFields /\ g.closing = h[s].closing /\ g.generation = h[s].generation + 1
          /\ g.callback = h[s].newest + 1 /\ g.newest = h[s].newest + 1
      BY <3>1, Renumbered DEF HandleFields
    <3>3. h' = [h EXCEPT ![s] = g]
      BY <2>4 DEF SignalStart, Changes
    <3>. HIDE DEF g
    <3>. QED  BY <3>1, <3>2, <3>3, Renumbered, OneAges
  <2>5. ASSUME NEW y \in Async, Send(y)
        PROVE  Ages
    <3>. DEFINE g == [h[y] EXCEPT !.pending = TRUE]
    <3>1. h' = [h EXCEPT ![y] = g] /\ y \in Handle
      BY <2>5, AsyncHandle DEF Send
    <3>2. /\ DOMAIN g = HandleFields /\ g.closing = h[y].closing /\ g.generation = h[y].generation
          /\ g.callback = h[y].callback /\ g.newest = h[y].newest /\ g.due = h[y].due
      BY <3>1 DEF HandleFields, Records
    <3>3. h[y].newest \in Nat /\ h[y].generation \in Nat
      BY <3>1 DEF Numbers
    <3>. HIDE DEF g
    <3>. QED  BY <3>1, <3>2, <3>3, Renumbered, OneAges
  <2>6. ASSUME NEW x \in Handle, Stop(x)
        PROVE  Ages
    <3>1. h' = [h EXCEPT ![x] = Stopped(h[x])]
      BY <2>6 DEF Stop, Changes
    <3>2. h[x].newest \in Nat
      BY DEF Numbers
    <3>. QED  BY <3>1, <3>2, Renumbered, OneAges
  <2>7. ASSUME NEW x \in Handle, Close(x)
        PROVE  Ages
    <3>. DEFINE g == Closing(h[x])
    <3>1. h' = [h EXCEPT ![x] = g]
      BY <2>7 DEF Close
    <3>2. /\ DOMAIN g = HandleFields /\ g.closing = TRUE /\ g.generation = h[x].generation
          /\ g.callback = h[x].callback /\ g.newest = h[x].newest /\ g.due = h[x].due
      BY DEF Closing, HandleFields, Records
    <3>3. h[x].newest \in Nat /\ h[x].generation \in Nat
      BY DEF Numbers
    <3>. HIDE DEF g
    <3>. QED  BY <3>1, <3>2, <3>3, Renumbered, OneAges
  <2>8. ASSUME NEW x \in Unrefs, NEW b \in BOOLEAN, SetRef(x, b)
        PROVE  Ages
    <3>. DEFINE g == [h[x] EXCEPT !.referenced = b]
    <3>1. h' = [h EXCEPT ![x] = g]
      BY <2>8 DEF SetRef, Changes
    <3>2. x \in Handle =>
            /\ DOMAIN g = HandleFields /\ g.closing = h[x].closing /\ g.generation = h[x].generation
            /\ g.callback = h[x].callback /\ g.newest = h[x].newest /\ g.due = h[x].due
      BY DEF HandleFields, Records
    <3>3. x \in Handle => /\ h[x].newest \in Nat /\ h[x].generation \in Nat
                          /\ h[x].generation >= h[x].generation
      BY Renumbered DEF Numbers
    <3>. HIDE DEF g
    <3>. QED  BY <3>1, <3>2, <3>3, OneAges
  <2>9. ASSUME Submit \/ StopLoop
        PROVE  Ages
    BY <2>9, NoneAges DEF Submit, StopLoop
  <2>. QED  BY <1>1, <2>1, <2>2, <2>3, <2>4, <2>5, <2>6, <2>7, <2>8, <2>9 DEF HandleCalls
<1>2. CASE Environment
  <2>1. ASSUME NEW y \in Async, SenderStores(y)
        PROVE  Ages
    <3>. DEFINE g == [h[y] EXCEPT !.pending = TRUE]
    <3>1. h' = [h EXCEPT ![y] = g] /\ y \in Handle
      BY <2>1, AsyncHandle DEF SenderStores
    <3>2. /\ DOMAIN g = HandleFields /\ g.closing = h[y].closing /\ g.generation = h[y].generation
          /\ g.callback = h[y].callback /\ g.newest = h[y].newest /\ g.due = h[y].due
      BY <3>1 DEF HandleFields, Records
    <3>3. h[y].newest \in Nat /\ h[y].generation \in Nat
      BY <3>1 DEF Numbers
    <3>. HIDE DEF g
    <3>. QED  BY <3>1, <3>2, <3>3, Renumbered, OneAges
  <2>2. ASSUME NEW t \in Timer, Elapses(t)
        PROVE  Ages
    <3>. DEFINE g == [h[t] EXCEPT !.due = TRUE]
    <3>1. h' = [h EXCEPT ![t] = g] /\ t \in Handle
      BY <2>2, TimerHandle DEF Elapses
    <3>2. /\ DOMAIN g = HandleFields /\ g.closing = h[t].closing /\ g.generation = h[t].generation
          /\ g.callback = h[t].callback /\ g.newest = h[t].newest /\ g.due = TRUE
      BY <3>1 DEF HandleFields, Records
    <3>3. h[t].newest \in Nat /\ h[t].generation \in Nat
      BY <3>1 DEF Numbers
    <3>. HIDE DEF g
    <3>. QED  BY <3>1, <3>2, <3>3, Renumbered, OneAges
  <2>3. ASSUME SenderWakes \/ WorkerPosts \/ SignalRaised
        PROVE  Ages
    BY <2>3, NoneAges DEF SenderWakes, WorkerPosts, SignalRaised
  <2>. QED  BY <1>2, <2>1, <2>2, <2>3 DEF Environment
<1>3. CASE CollectSources
  <2>. DEFINE sent == {a \in Async : Active(a) /\ h[a].pending}
  <2>1. h' = [a \in Handle |-> IF a \in sent THEN [h[a] EXCEPT !.pending = FALSE] ELSE h[a]]
    BY <1>3 DEF CollectSources
  <2>2. ASSUME NEW x \in Handle
        PROVE  /\ DOMAIN h'[x] = HandleFields /\ Dated(x) /\ Slotted(x)
    <3>1. h'[x] = [h[x] EXCEPT !.pending = FALSE] \/ h'[x] = h[x]
      BY <2>1
    <3>2. DOMAIN h[x] = HandleFields
      BY DEF Records
    <3>3. /\ DOMAIN h'[x] = HandleFields /\ h'[x].closing = h[x].closing
          /\ h'[x].generation = h[x].generation /\ h'[x].callback = h[x].callback
          /\ h'[x].newest = h[x].newest /\ h'[x].due = h[x].due
      BY <3>1, <3>2 DEF HandleFields
    <3>4. h[x].newest \in Nat /\ h[x].generation \in Nat /\ h[x].generation >= h[x].generation
      BY Renumbered DEF Numbers
    <3>. QED  BY <3>3, <3>4 DEF Dated, Slotted
  <2>3. DOMAIN h' = Handle
    BY <2>1
  <2>. QED  BY <2>2, <2>3 DEF Ages, Records
<1>4. CASE LoopStep /\ ~CollectSources
  <2>1. UNCHANGED h
    BY <1>4 DEF LoopStep, BeginTurn, EndRun, RunCompletion, FireClose, Advance, Poll
  <2>. QED  BY <2>1, NoneAges
<1>5. CASE PollFails \/ (\E m \in Mode : Run(m)) \/ UNCHANGED vars
  BY <1>5, NoneAges DEF PollFails, Run, vars
<1>. QED  BY <1>1, <1>2, <1>3, <1>4, <1>5 DEF Next
\* A slot that stays or is filled anew keeps the version of its handle, as long
\* as no run enters a callback of it.
LEMMA VersionStays ==
  ASSUME NEW x \in Handle, VersionOf(x), Slotted(x), Registered' \subseteq Registered,
         \A i : Innermost(x, i)' => Innermost(x, i) /\ stack'[i].call = stack[i].call
  PROVE  VersionOf(x)'
<1>. SUFFICES ASSUME Open(x)'
              PROVE  /\ (h'[x].callback # 0 => h'[x].callback = h'[x].newest)
                     /\ (h'[x].callback = 0 => \A i : Innermost(x, i)' => stack'[i].call.ver = h'[x].newest)
  BY DEF VersionOf
<1>1. Open(x)
  BY DEF Open, Slotted
<1>2. CASE h'[x].callback = h[x].callback /\ h'[x].newest = h[x].newest
  BY <1>1, <1>2 DEF VersionOf
<1>3. CASE h'[x].callback = h'[x].newest /\ h'[x].callback # 0
  BY <1>3
<1>. QED  BY <1>2, <1>3 DEF Slotted

LEMMA StaysInnermost ==
  ASSUME CallsStay, NEW x \in Handle
  PROVE  \A i : Innermost(x, i)' => Innermost(x, i) /\ stack'[i].call = stack[i].call
<1>1. x # NoCall.id
  BY NoCallIsNone
<1>. QED  BY <1>1 DEF Innermost, CallsStay

\* The callback that begins is the innermost of its handle, the others stay.
LEMMA BegunInnermost ==
  ASSUME Framed, NEW c, CallBegins(c), NEW x \in Handle, NEW i, Innermost(x, i)'
  PROVE  \/ c.id = x /\ stack'[i].call = c
         \/ c.id # x /\ Innermost(x, i) /\ stack'[i].call = stack[i].call
<1>1. PICK f : stack' = ReplaceTop(f) /\ DOMAIN f = Fields /\ f.call = c
  BY DEF CallBegins
<1>. DEFINE n == Len(stack)
<1>2. stack # <<>> /\ Top.call = NoCall
  BY DEF CallBegins, Running
<1>3. /\ Len(stack') = n /\ n \in 1..n /\ stack'[n] = f /\ stack[n] = Top
      /\ \A j \in 1..n : j = n \/ stack'[j] = stack[j]
  BY <1>1, <1>2, TopOnly
<1>4. x # NoCall.id
  BY NoCallIsNone
<1>5. i \in 1..n /\ stack'[i].call.id = x /\ \A j \in 1..n : j > i => stack'[j].call.id # x
  BY <1>3 DEF Innermost
<1>6. CASE i = n
  BY <1>1, <1>3, <1>5, <1>6
<1>7. CASE i # n
  <2>1. n \in Nat
    BY StackIndex DEF Framed
  <2>2. n > i
    BY <1>5, <1>7, <2>1, SMT
  <2>3. c.id # x /\ stack'[i].call = stack[i].call
    BY <1>1, <1>3, <1>5, <1>7, <2>2
  <2>4. \A j \in 1..n : j > i => stack[j].call.id # x
    BY <1>2, <1>3, <1>4, <1>5
  <2>. QED  BY <1>5, <2>3, <2>4 DEF Innermost
<1>. QED  BY <1>6, <1>7

LEMMA BegunVersion ==
  ASSUME Framed, NEW c, CallBegins(c), NEW x \in Handle, c.id # x,
         VersionOf(x), Slotted(x), Registered' \subseteq Registered
  PROVE  VersionOf(x)'
<1>1. \A i : Innermost(x, i)' => Innermost(x, i) /\ stack'[i].call = stack[i].call
  BY BegunInnermost
<1>. QED  BY <1>1, VersionStays

\* take_callback hands the version of the slot to the run.
LEMMA TakenVersion ==
  ASSUME Framed, NEW x \in Handle, CallBegins(Call(x)), Open(x), h[x].callback # 0, VersionOf(x),
         h'[x].callback = 0, h'[x].newest = h[x].newest
  PROVE  VersionOf(x)'
<1>1. Call(x).id = x /\ Call(x).ver = h[x].newest
  BY DEF Call, VersionOf
<1>2. \A i : Innermost(x, i)' => stack'[i].call = Call(x)
  BY <1>1, BegunInnermost
<1>. QED  BY <1>1, <1>2 DEF VersionOf

\* Steps that neither begin nor end a callback of a handle.
LEMMA QuietVersions ==
  ASSUME FireInv, [Next]_vars, ~FireCollected, ~Deliver, ~CallbackReturns
  PROVE  Ages /\ CallsInv' /\ \A x \in Handle : VersionOf(x)'
<1>. USE DEF FireInv
<1>1. /\ Ages /\ Framed /\ RegistryInv
      /\ Registered' \subseteq Registered /\ Registered \subseteq Handle
  BY HandlesAge, RegistryShrinks DEF CloseInv
<1>2. CASE CallsStay
  BY <1>1, <1>2, StaysInnermost, VersionStays, SameCallsInv DEF Ages
<1>3. CASE RunCompletion
  <2>. DEFINE c == [NoCall EXCEPT !.id = "work"]
              g == [Top EXCEPT !.call = c]
  <2>1. stack' = ReplaceTop(g) /\ Running
    BY <1>3 DEF RunCompletion
  <2>2. DOMAIN g = Fields /\ g.call = c /\ c.id = "work"
    BY <1>1, <2>1, TopFrame, KeepsFields DEF Fields, NoCall, Running
  <2>3. CallBegins(c)
    BY <2>1, <2>2 DEF CallBegins
  <2>4. \A x \in Handle : c.id # x
    BY <2>2, NoCallIsNone
  <2>5. c.id \notin Registered'
    BY <1>1, <2>4
  <2>. HIDE DEF c
  <2>. QED  BY <1>1, <2>3, <2>4, <2>5, BegunVersion, BegunCall DEF Ages
<1>4. CASE FireClose
  <2>. DEFINE y == Head(Top.due)
              c == [NoCall EXCEPT !.id = y]
              g == [Top EXCEPT !.due = Tail(Top.due), !.call = c]
              k == [Top EXCEPT !.due = Tail(Top.due)]
  <2>1. Running /\ stack # <<>> /\ DOMAIN Top = Fields
    BY <1>1, <1>4, TopFrame DEF FireClose, Running
  <2>2. CASE y \in Registered
    <3>1. stack' = ReplaceTop(g) /\ handles' = SwapRemove(handles, y)
      BY <1>4, <2>2 DEF FireClose
    <3>2. DOMAIN g = Fields /\ g.call = c /\ c.id = y
      BY <2>1 DEF Fields, NoCall
    <3>3. CallBegins(c)
      BY <2>1, <3>1, <3>2 DEF CallBegins
    <3>4. y \notin Registered'
      BY <1>1, <2>2, <3>1, SwapRemoves DEF RegistryInv, Registered
    <3>. HIDE DEF c, y
    <3>5. ASSUME NEW x \in Handle
          PROVE  VersionOf(x)'
      <4>1. CASE x = c.id
        BY <3>2, <3>4, <4>1 DEF VersionOf, Open
      <4>2. CASE x # c.id
        BY <1>1, <3>3, <4>2, BegunVersion DEF Ages
      <4>. QED  BY <4>1, <4>2
    <3>. QED  BY <1>1, <3>2, <3>3, <3>4, <3>5, BegunCall
  <2>3. CASE y \notin Registered
    <3>1. stack' = ReplaceTop(k)
      BY <1>4, <2>3 DEF FireClose
    <3>2. DOMAIN k = Fields /\ k.call = Top.call
      BY <2>1 DEF Fields
    <3>. QED  BY <1>1, <1>2, <2>1, <3>1, <3>2, TopStays
  <2>. QED  BY <2>2, <2>3
<1>5. CASE ~RunCompletion /\ ~FireClose
  BY <1>1, <1>2, <1>5, CallsStill
<1>. QED  BY <1>3, <1>4, <1>5
-----------------------------------------------------------------------------
(* What the phases collect *)

\* The ranks of n positions are all of 1..n.
LEMMA RanksMet ==
  ASSUME NEW n \in Nat, NEW K \in SUBSET (1..n), NEW m \in 1..Cardinality(K)
  PROVE  \E i \in K : Rank(K, i) = m
<1>. DEFINE C == Cardinality(K)
            f == [i \in K |-> Rank(K, i)]
<1>1. /\ C \in Nat /\ \A i \in K : Rank(K, i) \in 1..C
      /\ \A i, j \in K : Rank(K, i) = Rank(K, j) => i = j
  BY RanksDiffer
<1>2. f \in [K -> 1..C] /\ \A i, j \in K : f[i] = f[j] => i = j
  BY <1>1
<1>3. f \in Injection(K, 1..C)
  BY <1>2, Zenon DEF Injection, IsInjective
<1>4. IsFiniteSet(1..C) /\ Cardinality(1..C) = C
  BY <1>1, FS_Interval, SMT
<1>5. f \in Surjection(K, 1..C)
  BY <1>3, <1>4, FS_Injection
<1>6. \E i \in K : f[i] = m
  BY <1>5 DEF Surjection
<1>. QED  BY <1>6

\* Each entry is an active handle asked for, with its generation, and no handle
\* has two.
LEMMA CollectedOnly ==
  ASSUME RegistryInv, NEW S
  PROVE  /\ \A m \in DOMAIN Collected(S) :
              /\ Collected(S)[m][1] \in S /\ Active(Collected(S)[m][1])
              /\ Collected(S)[m][2] = h[Collected(S)[m][1]].generation
         /\ \A m, k \in DOMAIN Collected(S) : Collected(S)[m][1] = Collected(S)[k][1] => m = k
<1>. DEFINE out == {x \in Handle : x \notin S \/ ~Active(x)}
            K == Kept(handles, out)
            n == Cardinality(K)
            at(m) == CHOOSE i \in K : Rank(K, i) = m
            ids == Without(handles, out)
            c == Collected(S)
<1>1. /\ Len(handles) \in Nat /\ DOMAIN handles = 1..Len(handles) /\ K \in SUBSET (1..Len(handles))
      /\ \A i \in DOMAIN handles : handles[i] \in Handle
      /\ \A i, j \in DOMAIN handles : handles[i] = handles[j] => i = j
  <2>1. handles \in Seq(Handle)
    BY DEF RegistryInv
  <2>2. \A i \in DOMAIN handles : handles[i] \in Handle
    BY <2>1, LenProperties, ElementOfSeq
  <2>3. \A i, j \in DOMAIN handles : handles[i] = handles[j] => i = j
    BY DEF RegistryInv, IsInjective
  <2>. QED  BY <2>1, <2>2, <2>3, LenProperties DEF Kept
<1>2. ASSUME NEW m \in 1..n
      PROVE  at(m) \in K /\ Rank(K, at(m)) = m
  <2>1. \E i \in K : Rank(K, i) = m
    BY <1>1, RanksMet
  <2>. QED  BY <2>1
<1>3. ids = [m \in 1..n |-> handles[at(m)]]
  BY DEF Without
<1>4. c = [m \in 1..n |-> <<ids[m], h[ids[m]].generation>>]
  BY <1>3 DEF Collected
<1>. HIDE DEF at, c
<1>5. ASSUME NEW m \in 1..n
      PROVE  c[m] = <<handles[at(m)], h[handles[at(m)]].generation>>
  BY <1>3, <1>4
<1>6. \A i \in K : handles[i] \in Handle /\ handles[i] \notin out /\ i \in DOMAIN handles
  BY <1>1 DEF Kept
<1>7. ASSUME NEW m \in 1..n
      PROVE  /\ c[m][1] = handles[at(m)] /\ c[m][1] \in S /\ Active(c[m][1])
             /\ c[m][2] = h[c[m][1]].generation
  BY <1>2, <1>5, <1>6
<1>8. ASSUME NEW m \in 1..n, NEW k \in 1..n, c[m][1] = c[k][1]
      PROVE  m = k
  <2>1. handles[at(m)] = handles[at(k)]
    BY <1>7, <1>8
  <2>2. at(m) = at(k)
    BY <1>1, <1>2, <1>6, <2>1
  <2>. QED  BY <1>2, <2>2
<1>9. DOMAIN c = 1..n
  BY <1>4
<1>. HIDE DEF n
<1>. QED  BY <1>7, <1>8, <1>9 DEF c

-----------------------------------------------------------------------------
(* What a step does to the runs on the stack *)

\* The innermost run keeps its phase and what it collected, or leaves the timers.
TopKeeps(f) == f.pc = Top.pc /\ f.batch = Top.batch /\ f.call = Top.call
FrameKinds ==
  \/ UNCHANGED stack
  \/ /\ stack # <<>>
     /\ \E f : /\ stack' = ReplaceTop(f) /\ DOMAIN f = Fields /\ Collects(f)
               /\ (TopKeeps(f) \/ f.pc # "timers")
  \/ stack # <<>> /\ stack' = Outer
  \/ \E m \in Mode : Run(m)
  \/ BeginTurn

LEMMA TopFrameCollects ==
  ASSUME Framed, FramesInv, stack # <<>>
  PROVE  DOMAIN Top = Fields /\ Collects(Top)
<1>1. DOMAIN Top = Fields /\ Len(stack) \in 1..Len(stack) /\ Top = stack[Len(stack)]
  BY TopFrame
<1>. QED  BY <1>1 DEF FramesInv

LEMMA PhaseBatches ==
  ASSUME RegistryInv, NEW pc \in PhasePcs
  PROVE  /\ IsStack(BatchOf(pc))
         /\ \A k \in DOMAIN BatchOf(pc) : BatchOf(pc)[k][1] \notin Timer
<1>1. PICK S : BatchOf(pc) = Collected(S) /\ S \subseteq Phased
  BY DEF BatchOf, PhasePcs, Phased
<1>. QED  BY <1>1, CollectedActive, CollectedOnly, TimerHandle DEF IsStack

LEMMA QuietFrames ==
  ASSUME FireInv, [Next]_vars, ~FireCollected, ~CallbackReturns
  PROVE  FrameKinds
<1>. USE DEF FireInv
<1>. DEFINE f == Top
<1>1. Framed /\ RegistryInv /\ (stack # <<>> => DOMAIN f = Fields /\ Collects(f))
  BY TopFrameCollects DEF CloseInv
<1>2. CASE UNCHANGED stack
  BY <1>2 DEF FrameKinds
<1>3. CASE HandleCalls
  <2>1. CASE StopLoop /\ stack # <<>>
    <3>. DEFINE g == [f EXCEPT !.asked = TRUE]
    <3>1. stack' = ReplaceTop(g)
      BY <2>1 DEF StopLoop
    <3>2. DOMAIN g = Fields /\ g.pc = f.pc /\ g.batch = f.batch /\ g.call = f.call
      BY <1>1, <2>1 DEF Fields
    <3>. HIDE DEF g
    <3>3. Collects(g) /\ TopKeeps(g)
      BY <1>1, <2>1, <3>2 DEF Collects, TopKeeps
    <3>. QED  BY <2>1, <3>1, <3>2, <3>3 DEF FrameKinds
  <2>2. ASSUME ~(StopLoop /\ stack # <<>>)
        PROVE  UNCHANGED stack
    BY <1>3, <2>2 DEF HandleCalls, TimerStart, Again, PhaseStart, SignalStart, Send, Stop, Close,
                      SetRef, Submit, StopLoop, Changes
  <2>. QED  BY <1>2, <2>1, <2>2
<1>4. CASE Environment
  <2>1. UNCHANGED stack
    BY <1>4 DEF Environment, SenderStores, SenderWakes, WorkerPosts, SignalRaised, Elapses, External
  <2>. QED  BY <1>2, <2>1
<1>5. CASE BeginTurn
  BY <1>5 DEF FrameKinds
<1>6. CASE EndRun \/ PollFails
  <2>1. stack # <<>> /\ stack' = Outer
    BY <1>6 DEF EndRun, AtHead, Running, PollFails, Polling
  <2>. QED  BY <2>1 DEF FrameKinds
<1>7. ASSUME stack # <<>>, NEW g, stack' = ReplaceTop(g), DOMAIN g = Fields, g.batch = f.batch,
             g.pc \notin PhasePcs \union {"timers"} \/ (g.pc = f.pc /\ f.pc # "timers")
      PROVE  FrameKinds
  <2>1. Collects(g) /\ g.pc # "timers"
    BY <1>1, <1>7 DEF Collects
  <2>. QED  BY <1>7, <2>1 DEF FrameKinds
<1>8. CASE CollectSources \/ Poll
  <2>1. PICK p \in {"deliver", "deliver2", "work2"} : stack' = ReplaceTop([f EXCEPT !.pc = p])
    BY <1>8 DEF CollectSources, Poll
  <2>. DEFINE g == [f EXCEPT !.pc = p]
  <2>2. stack # <<>>
    BY <1>8 DEF CollectSources, Poll, Polling, Running
  <2>3. DOMAIN g = Fields /\ g.pc = p /\ g.batch = f.batch
    BY <1>1, <2>2 DEF Fields
  <2>4. p \notin PhasePcs \union {"timers"}
    BY DEF PhasePcs
  <2>. HIDE DEF g
  <2>. QED  BY <1>7, <2>1, <2>2, <2>3, <2>4 DEF g
<1>9. CASE RunCompletion \/ Deliver
  <2>1. stack # <<>> /\ f.pc # "timers"
    BY <1>9 DEF RunCompletion, Deliver, Running
  <2>2. UNCHANGED stack \/ \E c : stack' = ReplaceTop([f EXCEPT !.call = c])
    BY <1>9 DEF RunCompletion, Deliver
  <2>3. ASSUME NEW c, stack' = ReplaceTop([f EXCEPT !.call = c])
        PROVE  FrameKinds
    <3>. DEFINE g == [f EXCEPT !.call = c]
    <3>1. DOMAIN g = Fields /\ g.pc = f.pc /\ g.batch = f.batch
      BY <1>1, <2>1 DEF Fields
    <3>. HIDE DEF g
    <3>. QED  BY <1>7, <2>1, <2>3, <3>1 DEF g
  <2>. QED  BY <1>2, <2>2, <2>3
<1>10. CASE FireClose
  <2>. DEFINE g(c) == [f EXCEPT !.due = Tail(f.due), !.call = c]
              k == [f EXCEPT !.due = Tail(f.due)]
  <2>1. stack # <<>> /\ f.pc # "timers"
    BY <1>10 DEF FireClose, Running
  <2>2. stack' = ReplaceTop(g([NoCall EXCEPT !.id = Head(f.due)])) \/ stack' = ReplaceTop(k)
    BY <1>10 DEF FireClose
  <2>3. \A c : DOMAIN g(c) = Fields /\ g(c).pc = f.pc /\ g(c).batch = f.batch
    BY <1>1, <2>1 DEF Fields
  <2>4. DOMAIN k = Fields /\ k.pc = f.pc /\ k.batch = f.batch
    BY <1>1, <2>1 DEF Fields
  <2>. HIDE DEF g, k
  <2>. QED  BY <1>7, <2>1, <2>2, <2>3, <2>4
<1>11. CASE Advance
  <2>1. stack # <<>> /\ Exhausted
    BY <1>11 DEF Advance, Running
  <2>2. PICK i \in DOMAIN Rest(f.pc) :
          stack' = ReplaceTop([f EXCEPT !.pc = Rest(f.pc)[i], !.batch = BatchOf(Rest(f.pc)[i])])
    BY <1>11 DEF Advance
  <2>. DEFINE p == Rest(f.pc)[i]
              g == [f EXCEPT !.pc = p, !.batch = BatchOf(p)]
  <2>3. p # "timers"
    <3>1. f.pc \in {"timers", "idle", "prepare", "check", "deliver", "deliver2", "closes"}
      BY <2>1 DEF Exhausted
    <3>. QED  BY <3>1, <2>2, SMT DEF Rest
  <2>. HIDE DEF p
  <2>4. DOMAIN g = Fields /\ g.pc = p /\ g.batch = BatchOf(p)
    BY <1>1, <2>1 DEF Fields
  <2>5. stack' = ReplaceTop(g)
    BY <2>2 DEF p
  <2>. HIDE DEF g
  <2>6. Collects(g)
    <3>1. p \notin PhasePcs => BatchOf(p) = <<>>
      BY DEF PhasePcs, BatchOf
    <3>2. IsStack(<<>>)
      BY DEF IsStack
    <3>. QED  BY <1>1, <2>4, <3>1, <3>2, PhaseBatches DEF Collects
  <2>. QED  BY <2>1, <2>3, <2>4, <2>5, <2>6 DEF FrameKinds
<1>12. CASE \E m \in Mode : Run(m)
  BY <1>12 DEF FrameKinds
<1>13. CASE UNCHANGED vars
  BY <1>2, <1>13 DEF vars
<1>. QED
  BY <1>3, <1>4, <1>5, <1>6, <1>8, <1>9, <1>10, <1>11, <1>12, <1>13 DEF Next, LoopStep
LEMMA FramesKept ==
  ASSUME Framed, RegistryInv, FramesInv, FrameKinds
  PROVE  FramesInv'
<1>. DEFINE n == Len(stack)
<1>1. n \in Nat
  BY StackIndex DEF Framed
<1>2. ASSUME stack # <<>>, NEW f, stack' = ReplaceTop(f), DOMAIN f = Fields, Collects(f)
      PROVE  FramesInv'
  <2>1. /\ Len(stack') = n /\ n \in 1..n /\ stack'[n] = f
        /\ \A i \in 1..n : i = n \/ stack'[i] = stack[i]
    BY <1>2, TopOnly
  <2>2. ~(n < n)
    BY <1>1, SMT
  <2>. QED  BY <1>2, <2>1, <2>2 DEF FramesInv, Collects
<1>3. CASE UNCHANGED stack
  BY <1>3 DEF FramesInv, Collects
<1>4. CASE stack # <<>> /\ stack' = Outer
  <2>1. /\ Len(stack') = n - 1 /\ n \in Nat \ {0}
        /\ \A i \in 1..Len(stack') : stack'[i].pc = stack[i].pc /\ stack'[i].batch = stack[i].batch
    BY <1>4, RunPops
  <2>2. \A i \in 1..(n - 1) : i \in 1..n /\ i < n
    BY <2>1, SMT
  <2>. QED  BY <2>1, <2>2 DEF FramesInv, Collects
<1>5. CASE \E m \in Mode : Run(m)
  <2>1. PICK m \in Mode : stack' = Append(stack, Frame(m)) /\ (stack = <<>> \/ Top.pc \in Nesting)
    BY <1>5 DEF Run
  <2>2. /\ Len(stack') = n + 1 /\ stack'[Len(stack')] = Frame(m)
        /\ \A i \in 1..n : stack'[i] = stack[i]
    BY <2>1, StackPushed DEF Framed
  <2>3. /\ \A i \in 1..(n + 1) : i = n + 1 \/ i \in 1..n
        /\ \A i \in 1..n : i = n \/ i < n
        /\ ~(n + 1 < n + 1)
    BY <1>1, SMT
  <2>4. Collects(Frame(m))
    BY DEF Collects, Frame, PhasePcs, IsStack
  <2>5. ASSUME NEW i \in 1..n
        PROVE  stack[i].pc \in Nesting
    <3>1. stack # <<>>
      BY <1>1, <2>5, SMT
    <3>2. Top = stack[n]
      BY <3>1, TopFrame
    <3>. QED  BY <2>1, <2>3, <2>5, <3>1, <3>2 DEF FramesInv
  <2>. QED  BY <2>2, <2>3, <2>4, <2>5 DEF FramesInv, Collects
<1>6. CASE BeginTurn
  <2>. DEFINE f == [Top EXCEPT !.pc = "timers", !.forced = stop \/ Top.mode = "nowait",
                               !.batch = Collected(DueTimers), !.due = closeNext]
  <2>1. stack # <<>> /\ stack' = ReplaceTop(f)
    BY <1>6 DEF BeginTurn, AtHead, Running
  <2>2. DOMAIN f = Fields /\ f.pc = "timers" /\ f.batch = Collected(DueTimers)
    BY <2>1, TopFrame DEF Fields
  <2>. HIDE DEF f
  <2>3. Collects(f)
    BY <2>2, CollectedActive DEF Collects, PhasePcs, IsStack
  <2>. QED  BY <1>2, <2>1, <2>2, <2>3
<1>. QED  BY <1>2, <1>3, <1>4, <1>5, <1>6 DEF FrameKinds

\* A collected timer stays due in its generation.
LEMMA StaysTimely ==
  ASSUME NEW f, Timely(f, h), Numbers, \A t \in Timer : Dated(t)
  PROVE  Timely(f, h')
<1>. SUFFICES ASSUME f.pc = "timers"
              PROVE  /\ \A k \in DOMAIN f.batch : DueEntry(f.batch[k], f.call, h')
                     /\ \A k, l \in DOMAIN f.batch : f.batch[k][1] = f.batch[l][1] => k = l
  BY DEF Timely
<1>1. ASSUME NEW k \in DOMAIN f.batch
      PROVE  DueEntry(f.batch[k], f.call, h')
  <2>. DEFINE e == f.batch[k]
              t == e[1]
  <2>1. /\ t \in Timer /\ t # f.call.id /\ e[2] \in Nat /\ e[2] <= h[t].generation
        /\ (e[2] = h[t].generation => h[t].due)
    BY DEF Timely, DueEntry
  <2>2. /\ h[t].generation \in Nat /\ h'[t].generation \in Nat
        /\ h'[t].generation >= h[t].generation
        /\ (h'[t].generation = h[t].generation /\ h[t].due => h'[t].due)
    BY <2>1, TimerHandle DEF Dated, Numbers
  <2>. HIDE DEF e
  <2>3. e[2] <= h'[t].generation /\ (e[2] = h'[t].generation => e[2] = h[t].generation /\ h'[t].generation = h[t].generation)
    BY <2>1, <2>2, SMT
  <2>. QED  BY <2>1, <2>2, <2>3 DEF DueEntry, e
<1>. QED  BY <1>1 DEF Timely

\* The runs below the innermost are not in their timers phase.
LEMMA TimersKept ==
  ASSUME "timers" \notin Nesting, FireInv, FrameKinds, Ages
  PROVE  TimersInv'
<1>. USE DEF FireInv
<1>1. Framed /\ RegistryInv /\ (stack # <<>> => DOMAIN Top = Fields)
  BY TopFrame DEF CloseInv
<1>2. \A f : Timely(f, h) => Timely(f, h')
  BY StaysTimely, TimerHandle DEF Ages
<1>3. CASE UNCHANGED stack
  BY <1>2, <1>3 DEF TimersInv, Top
<1>4. ASSUME stack # <<>>, NEW f, stack' = ReplaceTop(f), DOMAIN f = Fields, TopKeeps(f) \/ f.pc # "timers"
      PROVE  TimersInv'
  <2>1. Top' = f
    BY <1>1, <1>4, TopTaken
  <2>2. CASE TopKeeps(f)
    <3>1. Timely(f, h)
      BY <1>4, <2>2 DEF TimersInv, Timely, TopKeeps
    <3>. QED  BY <1>2, <2>1, <3>1 DEF TimersInv
  <2>3. CASE f.pc # "timers"
    BY <2>1, <2>3 DEF TimersInv, Timely
  <2>. QED  BY <1>4, <2>2, <2>3
<1>5. CASE stack # <<>> /\ stack' = Outer
  <2>1. SUFFICES ASSUME stack' # <<>>
                 PROVE  Top'.pc # "timers"
    BY DEF TimersInv, Timely
  <2>. DEFINE n == Len(stack)
              m == Len(stack')
  <2>2. /\ Framed' /\ m = n - 1 /\ n \in Nat \ {0}
        /\ \A i \in 1..m : stack'[i].pc = stack[i].pc
    BY <1>1, <1>5, RunPops
  <2>3. m \in 1..m /\ Top' = stack'[m]
    <3>1. m \in Nat /\ m # 0
      BY <2>1, <2>2, StackIndex, SMT DEF Framed, IsStack
    <3>. QED  BY <3>1, SMT DEF Top, Last
  <2>4. m \in 1..n /\ m < n
    <3>. HIDE DEF m, n
    <3>. QED  BY <2>2, <2>3, SMT
  <2>. QED  BY <2>2, <2>3, <2>4 DEF FramesInv
<1>6. CASE \E m \in Mode : Run(m)
  <2>1. PICK m \in Mode : stack' = Append(stack, Frame(m))
    BY <1>6 DEF Run
  <2>2. Top' = Frame(m)
    BY <1>1, <2>1, RunPushes DEF Top
  <2>3. Frame(m).pc = "enter"
    BY DEF Frame
  <2>. QED  BY <2>2, <2>3 DEF TimersInv, Timely
<1>7. CASE BeginTurn
  <2>. DEFINE b == Collected(DueTimers)
              f == [Top EXCEPT !.pc = "timers", !.forced = stop \/ Top.mode = "nowait",
                               !.batch = b, !.due = closeNext]
  <2>1. stack # <<>> /\ stack' = ReplaceTop(f) /\ UNCHANGED h /\ Top.call = NoCall
    BY <1>7 DEF BeginTurn, AtHead, Running
  <2>2. DOMAIN f = Fields /\ f.pc = "timers" /\ f.batch = b /\ f.call = NoCall
    BY <1>1, <2>1 DEF Fields
  <2>3. Top' = f
    BY <1>1, <2>1, <2>2, TopTaken
  <2>4. /\ \A k \in DOMAIN b : b[k][1] \in DueTimers /\ b[k][2] = h[b[k][1]].generation
        /\ \A k, l \in DOMAIN b : b[k][1] = b[l][1] => k = l
    BY <1>1, CollectedOnly
  <2>. HIDE DEF b, f
  <2>5. ASSUME NEW k \in DOMAIN b
        PROVE  DueEntry(b[k], NoCall, h)
    <3>. DEFINE t == b[k][1]
    <3>1. t \in Timer /\ h[t].due /\ b[k][2] = h[t].generation
      BY <2>4 DEF DueTimers
    <3>2. t \in Handle /\ t # NoCall.id /\ h[t].generation \in Nat
      BY <3>1, TimerHandle, NoCallIsNone DEF Numbers
    <3>3. h[t].generation <= h[t].generation
      BY <3>2, SMT
    <3>. QED  BY <3>1, <3>2, <3>3 DEF DueEntry
  <2>6. Timely(f, h)
    BY <2>2, <2>4, <2>5 DEF Timely
  <2>. QED  BY <2>1, <2>3, <2>6 DEF TimersInv
<1>. QED  BY <1>3, <1>4, <1>5, <1>6, <1>7 DEF FrameKinds
-----------------------------------------------------------------------------
(* Callbacks that begin and end *)

\* The part of the invariant that is about runs, slots and batches.
FireState ==
  /\ Records /\ CallsInv /\ Numbers /\ (\A x \in Handle : VersionOf(x))
  /\ FramesInv /\ TimersInv
\* What the property asks of the callback of x.
Allowed(x) == /\ ~CloseAsked(x) /\ h[x].active /\ h[x].callback = h[x].newest
              /\ (x \in Timer => h[x].due)
FireGood == FireState' /\ \A x \in Handle : Begins(x) => Allowed(x)

LEMMA OpenNotAsked ==
  ASSUME CloseInv, NEW x \in Handle, ~h[x].closing
  PROVE  ~CloseAsked(x)
<1>. SUFFICES ASSUME CloseAsked(x)
              PROVE  FALSE
  OBVIOUS
<1>1. DOMAIN stack = 1..Len(stack) /\ Len(stack) \in Nat
  BY StackIndex DEF CloseInv, Framed
<1>2. PICK i \in 0..Len(stack) : \E j \in DOMAIN Closes(i) : Closes(i)[j] = x
  <2>1. CASE x \in Range(closeNext)
    <3>1. 0 \in 0..Len(stack) /\ Closes(0) = closeNext
      BY <1>1, SMT DEF Closes
    <3>. QED  BY <2>1, <3>1 DEF Range
  <2>2. CASE \E i \in DOMAIN stack : x \in Range(stack[i].due)
    <3>1. PICK i \in 1..Len(stack) : x \in Range(stack[i].due)
      BY <1>1, <2>2
    <3>2. i \in 0..Len(stack) /\ i # 0
      BY <1>1, SMT
    <3>3. Closes(i) = stack[i].due
      BY <3>2 DEF Closes
    <3>. QED  BY <3>1, <3>2, <3>3 DEF Range
  <2>. QED  BY <2>1, <2>2 DEF CloseAsked
<1>3. \E j : Waits(i, j, x)
  BY <1>2 DEF Waits
<1>4. Places(x) # {}
  BY <1>3, PlacesWait
<1>. QED  BY <1>4 DEF CloseInv, Marked

\* No other step empties a slot and keeps its version.
LEMMA QuietFire ==
  ASSUME "timers" \notin Nesting, FireInv, [Next]_vars, ~FireCollected, ~Deliver, ~CallbackReturns
  PROVE  FireGood
<1>. USE DEF FireInv
<1>1. Ages /\ CallsInv' /\ \A x \in Handle : VersionOf(x)'
  BY QuietVersions
<1>2. FrameKinds
  BY QuietFrames
<1>3. FramesInv' /\ TimersInv'
  BY <1>1, <1>2, FramesKept, TimersKept DEF CloseInv
<1>4. Records' /\ Numbers'
  BY <1>1 DEF Ages, Dated, Numbers
<1>5. \A x \in Handle : ~Begins(x)
  BY <1>1 DEF Ages, Slotted, Begins
<1>. QED  BY <1>1, <1>3, <1>4, <1>5 DEF FireGood, FireState

\* The tail of a batch after the entry that fires.
LEMMA BatchTail ==
  ASSUME NEW s, IsStack(s), NEW i \in DOMAIN s
  PROVE  LET t == SubSeq(s, i + 1, Len(s))
         IN  /\ IsStack(t)
             /\ \A k \in DOMAIN t : k + i \in DOMAIN s /\ k + i # i /\ t[k] = s[k + i]
             /\ \A k, l \in DOMAIN t : k + i = l + i => k = l
<1>. DEFINE n == Len(s)
            t == SubSeq(s, i + 1, n)
            T == Range(s)
<1>1. s \in Seq(T) /\ n \in Nat /\ DOMAIN s = 1..n /\ i \in 1..n
  BY LenProperties DEF IsStack
<1>2. i + 1 \in Int /\ n \in Int /\ n >= i + 1 - 1
  BY <1>1, SMT
<1>3. \A j \in (i + 1)..n : s[j] \in T
  <2>1. \A j \in (i + 1)..n : j \in DOMAIN s
    BY <1>1, SMT
  <2>. QED  BY <2>1 DEF Range
<1>4. /\ t \in Seq(T) /\ Len(t) = (IF i + 1 <= n THEN n - (i + 1) + 1 ELSE 0)
      /\ \A k \in 1..(n - (i + 1) + 1) : t[k] = s[i + 1 + k - 1]
  <2>. HIDE DEF n, T
  <2>. QED  BY <1>2, <1>3, SubSeqProperties
<1>. HIDE DEF t
<1>5. DOMAIN t = 1..Len(t) /\ IsStack(t)
  BY <1>4, LenProperties, SeqOfRange DEF IsStack
<1>6. Len(t) = n - i
  <2>. HIDE DEF n
  <2>. QED  BY <1>1, <1>4, SMT
<1>7. \A k \in 1..(n - i) : /\ k + i \in 1..n /\ k + i # i /\ k \in 1..(n - (i + 1) + 1)
                            /\ i + 1 + k - 1 = k + i
  <2>. HIDE DEF n
  <2>. QED  BY <1>1, SMT
<1>8. \A k, l \in 1..(n - i) : k + i = l + i => k = l
  <2>. HIDE DEF n
  <2>. QED  BY <1>1, SMT
<1>9. \A k \in 1..(n - i) : t[k] = s[k + i]
  BY <1>4, <1>7
<1>. HIDE DEF n
<1>. QED  BY <1>1, <1>5, <1>6, <1>7, <1>8, <1>9 DEF t

\* A callback of a phase: its slot is emptied, its version goes on the stack.
LEMMA FiredFire ==
  ASSUME FireInv, [Next]_vars, FireCollected
  PROVE  FireGood
<1>. USE DEF FireInv
<1>. DEFINE f == Top
            b == f.batch
            n == Len(stack)
<1>1. Framed /\ RegistryInv /\ stack # <<>> /\ DOMAIN f = Fields /\ Running
      /\ f.pc \in {"timers"} \union PhasePcs /\ UNCHANGED handles
  BY TopFrame DEF CloseInv, FireCollected, Running, PhasePcs
<1>2. PICK i \in FirstFiring(b) :
        /\ stack' = ReplaceTop([f EXCEPT !.call = Call(b[i][1]), !.batch = SubSeq(b, i + 1, Len(b))])
        /\ h' = [h EXCEPT ![b[i][1]] = TakenSlot(h[b[i][1]])]
  BY DEF FireCollected
<1>. DEFINE x == b[i][1]
            g == [f EXCEPT !.call = Call(x), !.batch = SubSeq(b, i + 1, Len(b))]
<1>3. i \in DOMAIN b /\ Active(x) /\ h[x].generation = b[i][2] /\ h[x].callback # 0
  BY DEF FirstFiring, Fires, StillCurrent
<1>4. Registered' = Registered /\ Registered \subseteq Handle
  BY <1>1, RegistryShrinks DEF Registered, Range
<1>5. x \in Handle /\ Open(x) /\ h[x].active /\ h[x].callback = h[x].newest
  BY <1>3, <1>4 DEF Active, Open, VersionOf
<1>6. DOMAIN g = Fields /\ g.call = Call(x) /\ g.pc = f.pc /\ g.batch = SubSeq(b, i + 1, Len(b))
  BY <1>1 DEF Fields
<1>7. CallBegins(Call(x))
  BY <1>1, <1>2, <1>6 DEF CallBegins
<1>8. Call(x).id = x /\ Call(x).ver = h[x].callback
  BY DEF Call
<1>9. DOMAIN f = Fields /\ Collects(f) /\ n \in 1..n /\ f = stack[n]
  BY <1>1, TopFrameCollects, TopFrame
<1>. HIDE DEF x, g
<1>10. LET t == SubSeq(b, i + 1, Len(b))
       IN  /\ IsStack(t)
           /\ \A k \in DOMAIN t : k + i \in DOMAIN b /\ k + i # i /\ t[k] = b[k + i]
           /\ \A k, l \in DOMAIN t : k + i = l + i => k = l
  BY <1>3, <1>9, BatchTail DEF Collects
<1>11. stack' = ReplaceTop(g) /\ h' = [h EXCEPT ![x] = TakenSlot(h[x])]
  BY <1>2 DEF x, g
<1>12. /\ DOMAIN TakenSlot(h[x]) = HandleFields /\ TakenSlot(h[x]).callback = 0
       /\ TakenSlot(h[x]).newest = h[x].newest /\ TakenSlot(h[x]).generation = h[x].generation
       /\ TakenSlot(h[x]).due = h[x].due /\ TakenSlot(h[x]).closing = h[x].closing
  BY <1>5 DEF TakenSlot, Records, HandleFields
<1>13. Records' /\ h'[x] = TakenSlot(h[x]) /\ \A y \in Handle : y # x => h'[y] = h[y]
  <2>. DEFINE t == TakenSlot(h[x])
  <2>1. Records /\ x \in Handle /\ DOMAIN t = HandleFields /\ h' = [h EXCEPT ![x] = t]
    BY <1>5, <1>11, <1>12
  <2>. HIDE DEF t
  <2>2. Records' /\ h'[x] = t /\ \A y \in Handle : y # x => h'[y] = h[y]
    BY ONLY <2>1, OneRecord
  <2>. QED  BY <2>2 DEF t
<1>14. \A y \in Handle : Dated(y)
  BY <1>12, <1>13, Renumbered DEF Numbers, Dated
<1>15. CallsInv'
  BY <1>1, <1>3, <1>4, <1>7, <1>8, BegunCall
<1>16. ASSUME NEW y \in Handle
       PROVE  VersionOf(y)'
  <2>1. CASE y = x
    BY <1>1, <1>3, <1>5, <1>7, <1>12, <1>13, <2>1, TakenVersion
  <2>2. CASE y # x
    <3>1. Slotted(y)
      BY <1>13, <2>2 DEF Slotted
    <3>. QED  BY <1>1, <1>4, <1>7, <1>8, <2>2, <3>1, BegunVersion
  <2>. QED  BY <2>1, <2>2
<1>17. Collects(g)
  <2>1. IsStack(g.batch)
    BY <1>6, <1>10
  <2>2. ASSUME f.pc \in PhasePcs, NEW k \in DOMAIN g.batch
        PROVE  g.batch[k][1] \notin Timer
    <3>1. k + i \in DOMAIN b /\ g.batch[k] = b[k + i]
      BY <1>6, <1>10
    <3>2. b[k + i][1] \notin Timer
      BY <1>9, <2>2, <3>1 DEF Collects
    <3>. QED  BY <3>1, <3>2
  <2>. QED  BY <1>6, <2>1, <2>2 DEF Collects
<1>18. FramesInv'
  <2>1. /\ Len(stack') = n /\ stack'[n] = g
        /\ \A j \in 1..n : j = n \/ stack'[j] = stack[j]
    BY <1>1, <1>6, <1>11, TopOnly
  <2>2. ~(n < n)
    BY <1>9, SMT
  <2>. QED  BY <1>9, <1>17, <2>1, <2>2 DEF FramesInv, Collects
<1>19. Timely(g, h)
  <2>. SUFFICES ASSUME g.pc = "timers"
                PROVE  /\ \A k \in DOMAIN g.batch : DueEntry(g.batch[k], g.call, h)
                       /\ \A k, l \in DOMAIN g.batch : g.batch[k][1] = g.batch[l][1] => k = l
    BY DEF Timely
  <2>1. /\ \A k \in DOMAIN b : DueEntry(b[k], f.call, h)
        /\ \A k, l \in DOMAIN b : b[k][1] = b[l][1] => k = l
    BY <1>1, <1>6 DEF TimersInv, Timely
  <2>. HIDE DEF f, b
  <2>2. ASSUME NEW k \in DOMAIN g.batch
        PROVE  DueEntry(g.batch[k], g.call, h)
    <3>1. k + i \in DOMAIN b /\ k + i # i /\ g.batch[k] = b[k + i]
      BY <1>6, <1>10
    <3>2. b[k + i][1] # x
      BY <1>3, <2>1, <3>1 DEF x
    <3>3. DueEntry(b[k + i], f.call, h)
      BY <2>1, <3>1
    <3>. QED  BY <1>6, <1>8, <3>1, <3>2, <3>3 DEF DueEntry
  <2>3. ASSUME NEW k \in DOMAIN g.batch, NEW l \in DOMAIN g.batch, g.batch[k][1] = g.batch[l][1]
        PROVE  k = l
    <3>1. /\ k + i \in DOMAIN b /\ g.batch[k] = b[k + i]
          /\ l + i \in DOMAIN b /\ g.batch[l] = b[l + i]
          /\ (k + i = l + i => k = l)
      BY <1>6, <1>10
    <3>2. k + i = l + i
      BY <2>1, <2>3, <3>1
    <3>. QED  BY <3>1, <3>2
  <2>. QED  BY <2>2, <2>3
<1>20. TimersInv'
  <2>1. Top' = g
    BY <1>1, <1>6, <1>11, TopTaken
  <2>2. Timely(g, h')
    BY <1>14, <1>19, StaysTimely, TimerHandle
  <2>. QED  BY <2>1, <2>2 DEF TimersInv
<1>21. Numbers'
  BY <1>14 DEF Numbers, Dated
<1>22. ASSUME NEW y \in Handle, Begins(y)
       PROVE  Allowed(y)
  <2>1. y = x
    BY <1>13, <1>22 DEF Begins
  <2>2. ~CloseAsked(x)
    BY <1>5, OpenNotAsked DEF Open
  <2>3. x \in Timer => h[x].due
    <3>1. CASE f.pc = "timers"
      <4>1. DueEntry(b[i], f.call, h)
        BY <1>1, <1>3, <3>1 DEF TimersInv, Timely
      <4>. QED  BY <1>3, <4>1 DEF DueEntry, x
    <3>2. CASE f.pc \in PhasePcs
      BY <1>3, <1>9, <3>2 DEF Collects, x
    <3>. QED  BY <1>1, <3>1, <3>2
  <2>. QED  BY <1>5, <2>1, <2>2, <2>3 DEF Allowed
<1>. QED  BY <1>13, <1>15, <1>16, <1>18, <1>20, <1>21, <1>22 DEF FireGood, FireState

\* A callback of a delivery: of a watcher or an async handle, never of a timer.
LEMMA DeliveredFire ==
  ASSUME "timers" \notin Nesting, FireInv, [Next]_vars, Deliver
  PROVE  FireGood
<1>. USE DEF FireInv
<1>. DEFINE f == Top
            x == Head(queue)[1]
            called == Delivered(Head(queue)) /\ h[x].callback # 0
            t == [TakenSlot(h[x]) EXCEPT !.active = ~h[x].oneshot]
            g == [f EXCEPT !.call = Call(x)]
<1>1. /\ Framed /\ RegistryInv /\ stack # <<>> /\ DOMAIN f = Fields /\ Running
      /\ f.pc # "timers" /\ UNCHANGED handles
  BY TopFrame DEF CloseInv, Deliver, Running
<1>2. Registered' = Registered /\ Registered \subseteq Handle
  BY <1>1, RegistryShrinks DEF Registered, Range
<1>3. FrameKinds /\ FramesInv'
  <2>1. ~FireCollected /\ ~CallbackReturns
    BY DEF Deliver, FireCollected, CallbackReturns, Running, InCallback
  <2>2. FrameKinds
    BY <2>1, QuietFrames
  <2>. QED  BY <1>1, <2>2, FramesKept
<1>4. CASE ~called
  <2>1. UNCHANGED <<stack, h>>
    BY <1>4 DEF Deliver
  <2>2. Ages
    BY <2>1, NoneAges
  <2>3. CallsStay
    BY <2>1 DEF CallsStay
  <2>4. CallsInv'
    BY <1>2, <2>3, SameCallsInv
  <2>5. \A y \in Handle : VersionOf(y)'
    BY <1>2, <2>2, <2>3, StaysInnermost, VersionStays DEF Ages
  <2>6. TimersInv'
    BY <1>3, <2>2, TimersKept
  <2>7. \A y \in Handle : ~Begins(y)
    BY <2>1 DEF Begins
  <2>8. Numbers'
    BY <2>1 DEF Numbers
  <2>. QED  BY <1>3, <2>2, <2>4, <2>5, <2>6, <2>7, <2>8 DEF FireGood, FireState, Ages
<1>5. CASE called
  <2>1. stack' = ReplaceTop(g) /\ h' = [h EXCEPT ![x] = t]
    BY <1>5 DEF Deliver
  <2>2. Active(x) /\ x \notin Timer /\ h[x].callback # 0
    BY <1>5, TimerHandle DEF Delivered, StillCurrent
  <2>3. x \in Handle /\ Open(x) /\ h[x].active /\ h[x].callback = h[x].newest
    BY <1>2, <2>2 DEF Active, Open, VersionOf
  <2>4. DOMAIN g = Fields /\ g.call = Call(x) /\ g.pc = f.pc
    BY <1>1 DEF Fields
  <2>5. CallBegins(Call(x))
    BY <1>1, <2>1, <2>4 DEF CallBegins
  <2>6. Call(x).id = x /\ Call(x).ver = h[x].callback
    BY DEF Call
  <2>7. /\ DOMAIN t = HandleFields /\ t.callback = 0
        /\ t.newest = h[x].newest /\ t.generation = h[x].generation
        /\ t.due = h[x].due /\ t.closing = h[x].closing
    BY <2>3 DEF TakenSlot, Records, HandleFields
  <2>. HIDE DEF x, g, t
  <2>8. Records' /\ h'[x] = t /\ \A y \in Handle : y # x => h'[y] = h[y]
    BY <2>1, <2>3, <2>7, OneRecord
  <2>9. CallsInv'
    BY <1>1, <1>2, <2>2, <2>5, <2>6, BegunCall
  <2>10. ASSUME NEW y \in Handle
         PROVE  VersionOf(y)'
    <3>1. CASE y = x
      BY <1>1, <2>2, <2>3, <2>5, <2>7, <2>8, <3>1, TakenVersion
    <3>2. CASE y # x
      <4>1. Slotted(y)
        BY <2>8, <3>2 DEF Slotted
      <4>. QED  BY <1>1, <1>2, <2>5, <2>6, <3>2, <4>1, BegunVersion
    <3>. QED  BY <3>1, <3>2
  <2>11. TimersInv'
    <3>1. Top' = g
      BY <1>1, <2>1, <2>4, TopTaken
    <3>. QED  BY <1>1, <2>4, <3>1 DEF TimersInv, Timely
  <2>12. Numbers'
    BY <2>7, <2>8 DEF Numbers
  <2>13. ASSUME NEW y \in Handle, Begins(y)
         PROVE  Allowed(y)
    <3>1. y = x
      BY <2>8, <2>13 DEF Begins
    <3>2. ~CloseAsked(x)
      BY <2>3, OpenNotAsked DEF Open
    <3>. QED  BY <2>2, <2>3, <3>1, <3>2 DEF Allowed
  <2>. QED  BY <1>3, <2>8, <2>9, <2>10, <2>11, <2>12, <2>13 DEF FireGood, FireState
<1>. QED  BY <1>4, <1>5
\* The slot is filled again with the version that ran, unless there is a newer
\* one; only the timer that ran is re-armed, and it is not in the batch.
LEMMA ReturnedFire ==
  ASSUME FireInv, [Next]_vars, CallbackReturns
  PROVE  FireGood
<1>. USE DEF FireInv
<1>0. PICK c, x : c = Top.call /\ x = c.id
  OBVIOUS
<1>. DEFINE f == Top
            k == [f EXCEPT !.call = NoCall]
            r == Restored(h[x], c)
            g == IF x \in Timer THEN Rearmed(r, c) ELSE r
            n == Len(stack)
<1>1. /\ Framed /\ RegistryInv /\ stack # <<>> /\ DOMAIN f = Fields
      /\ UNCHANGED handles /\ stack' = ReplaceTop(k)
  BY TopFrame DEF CloseInv, CallbackReturns, InCallback
<1>2. Registered' = Registered /\ Registered \subseteq Handle
  BY <1>1, RegistryShrinks DEF Registered, Range
<1>3. DOMAIN k = Fields /\ k.call = NoCall /\ k.pc = f.pc /\ k.batch = f.batch
  BY <1>1 DEF Fields
<1>4. /\ Len(stack') = n /\ n \in 1..n /\ stack'[n] = k /\ stack[n] = f
      /\ \A i \in 1..n : i = n \/ stack'[i] = stack[i]
  BY <1>1, <1>3, TopOnly
<1>5. n \in Nat /\ ~(n < n) /\ \A i \in 1..n : ~(i > n)
  BY <1>1, StackIndex, SMT DEF Framed
<1>6. CallsInv'
  <2>1. NoCall.id \notin Registered
    BY <1>2, NoCallIsNone
  <2>. QED  BY <1>2, <1>3, <1>4, <2>1 DEF CallsInv
<1>7. FramesInv'
  <2>1. Collects(k)
    BY <1>1, <1>3, TopFrameCollects DEF Collects
  <2>. QED  BY <1>3, <1>4, <1>5, <2>1 DEF FramesInv, Collects
<1>8. ASSUME NEW y \in Handle, NEW i, Innermost(y, i)', y # x
      PROVE  Innermost(y, i) /\ stack'[i].call = stack[i].call
  <2>1. NoCall.id # y
    BY NoCallIsNone
  <2>2. i \in 1..n /\ stack'[i].call.id = y /\ \A j \in 1..n : j > i => stack'[j].call.id # y
    BY <1>4, <1>8 DEF Innermost
  <2>3. i # n
    BY <1>3, <1>4, <2>1, <2>2
  <2>. QED  BY <1>0, <1>4, <1>8, <2>2, <2>3 DEF Innermost
<1>9. ASSUME NEW y \in Handle, y # x, VersionOf(y), Slotted(y)
      PROVE  VersionOf(y)'
  <2>1. \A i : Innermost(y, i)' => Innermost(y, i) /\ stack'[i].call = stack[i].call
    BY <1>8, <1>9
  <2>. QED  BY <1>2, <1>9, <2>1, VersionStays
<1>10. CASE x \notin Registered
  <2>1. UNCHANGED h
    BY <1>0, <1>10 DEF CallbackReturns
  <2>2. Ages
    BY <2>1, NoneAges
  <2>3. ASSUME NEW y \in Handle
        PROVE  VersionOf(y)'
    <3>1. CASE y = x
      BY <1>2, <1>10, <3>1 DEF VersionOf, Open
    <3>2. CASE y # x
      BY <1>9, <2>2, <3>2 DEF Ages
    <3>. QED  BY <3>1, <3>2
  <2>4. TimersInv'
    <3>1. Top' = k
      BY <1>1, <1>3, TopTaken
    <3>2. Timely(k, h)
      <4>1. \A t \in Timer : t # NoCall.id
        BY TimerHandle, NoCallIsNone
      <4>. QED  BY <1>1, <1>3, <4>1 DEF TimersInv, Timely, DueEntry
    <3>. QED  BY <2>1, <3>1, <3>2 DEF TimersInv
  <2>5. Numbers' /\ Records' /\ \A y \in Handle : ~Begins(y)
    BY <2>1 DEF Numbers, Records, Begins
  <2>. QED  BY <1>6, <1>7, <2>3, <2>4, <2>5 DEF FireGood, FireState
<1>11. CASE x \in Registered
  <2>1. h' = [h EXCEPT ![x] = g] /\ x \in Handle
    BY <1>0, <1>2, <1>11 DEF CallbackReturns
  <2>2. c.ver # 0
    BY <1>0, <1>4, <1>11 DEF CallsInv
  <2>3. Innermost(x, n)
    BY <1>0, <1>4, <1>5 DEF Innermost
  <2>4. /\ DOMAIN r = HandleFields /\ r.closing = h[x].closing /\ r.newest = h[x].newest
        /\ r.generation = h[x].generation
        /\ (h[x].callback # 0 => r.callback = h[x].callback)
        /\ (Open(x) => r.callback # 0 /\ r.callback = h[x].newest)
    <3>1. DOMAIN h[x] = HandleFields
      BY <2>1 DEF Records
    <3>2. CASE h[x].closing \/ h[x].callback # 0
      <4>1. r = h[x]
        BY <3>2 DEF Restored
      <4>. QED  BY <2>1, <3>1, <3>2, <4>1 DEF VersionOf, Open
    <3>3. CASE ~(h[x].closing \/ h[x].callback # 0)
      <4>1. r = [h[x] EXCEPT !.callback = c.ver]
        BY <3>3 DEF Restored
      <4>2. Open(x) => c.ver = h[x].newest
        BY <1>0, <1>4, <2>1, <2>3, <3>3 DEF VersionOf
      <4>. QED  BY <2>2, <3>1, <3>3, <4>1, <4>2 DEF HandleFields
    <3>. QED  BY <3>2, <3>3
  <2>. HIDE DEF r
  <2>5. /\ DOMAIN g = HandleFields /\ g.closing = r.closing /\ g.newest = r.newest
        /\ g.generation = r.generation /\ g.callback = r.callback
    BY <2>4 DEF Rearmed, HandleFields
  <2>. HIDE DEF g
  <2>6. Records' /\ h'[x] = g /\ \A y \in Handle : y # x => h'[y] = h[y]
    <3>1. DOMAIN g = HandleFields /\ h' = [h EXCEPT ![x] = g]
      BY <2>1, <2>5
    <3>2. Records /\ x \in Handle
      BY <2>1
    <3>. QED  BY ONLY <3>1, <3>2, OneRecord
  <2>7. ASSUME NEW y \in Handle
        PROVE  VersionOf(y)'
    <3>1. CASE y = x
      <4>1. Open(x)' => Open(x)
        BY <1>2, <2>4, <2>5, <2>6 DEF Open
      <4>2. Open(x)' => h'[x].callback # 0 /\ h'[x].callback = h'[x].newest
        BY <2>4, <2>5, <2>6, <4>1
      <4>. QED  BY <3>1, <4>2 DEF VersionOf
    <3>2. CASE y # x
      <4>1. Slotted(y)
        BY <2>6, <3>2 DEF Slotted
      <4>. QED  BY <1>9, <3>2, <4>1
    <3>. QED  BY <3>1, <3>2
  <2>8. TimersInv'
    <3>1. Top' = k
      BY <1>1, <1>3, TopTaken
    <3>2. ASSUME NEW e, DueEntry(e, c, h)
          PROVE  DueEntry(e, NoCall, h')
      <4>1. e[1] \in Handle /\ e[1] # x /\ e[1] # NoCall.id
        BY <1>0, <3>2, TimerHandle, NoCallIsNone DEF DueEntry
      <4>2. h'[e[1]] = h[e[1]]
        BY <2>6, <4>1
      <4>. QED  BY <3>2, <4>1, <4>2 DEF DueEntry
    <3>3. Timely(k, h')
      <4>1. Timely(f, h) /\ k.call = NoCall /\ f.call = c
        BY <1>0, <1>1, <1>3 DEF TimersInv
      <4>. HIDE DEF f, k
      <4>. QED  BY <1>3, <3>2, <4>1 DEF Timely
    <3>. QED  BY <3>1, <3>3 DEF TimersInv
  <2>9. Numbers'
    BY <2>1, <2>4, <2>5, <2>6 DEF Numbers
  <2>10. ASSUME NEW y \in Handle
         PROVE  ~Begins(y)
    <3>1. h[y].callback # 0 => h'[y].callback = h[y].callback
      BY <2>4, <2>5, <2>6
    <3>. QED  BY <3>1 DEF Begins
  <2>. QED  BY <1>6, <1>7, <2>6, <2>7, <2>8, <2>9, <2>10 DEF FireGood, FireState
<1>. QED  BY <1>10, <1>11

LEMMA FireInvInit == Init => FireInv
<1>. SUFFICES ASSUME Init
              PROVE  FireState
  BY CloseInvInit DEF FireInv, FireState
<1>1. h = [x \in Handle |-> Fresh(x)] /\ stack = <<>>
  BY DEF Init
<1>2. Records
  BY <1>1 DEF Fresh, HandleFields, Records
<1>3. 1..Len(stack) = {}
  BY <1>1, SMT
<1>4. ASSUME NEW x \in Handle
      PROVE  /\ h[x].generation \in Nat /\ h[x].newest \in Nat
             /\ h[x].callback = h[x].newest
  <2>1. Fresh(x).generation \in {0, 1} /\ Fresh(x).newest \in {0, 1} /\ Fresh(x).callback = Fresh(x).newest
    BY DEF Fresh
  <2>. QED  BY <1>1, <2>1
<1>5. Numbers /\ \A x \in Handle : VersionOf(x)
  BY <1>3, <1>4 DEF Numbers, VersionOf, Innermost
<1>6. CallsInv /\ FramesInv /\ TimersInv
  BY <1>1, <1>3 DEF CallsInv, FramesInv, TimersInv
<1>. QED  BY <1>2, <1>5, <1>6 DEF FireState

LEMMA FireInvNext == "timers" \notin Nesting => (FireInv /\ [Next]_vars => FireInv' /\ FireGood)
<1>. SUFFICES ASSUME "timers" \notin Nesting, FireInv, [Next]_vars
              PROVE  FireInv' /\ FireGood
  OBVIOUS
<1>1. FireGood
  BY QuietFire, FiredFire, DeliveredFire, ReturnedFire
<1>2. CloseInv'
  BY CloseInvNext DEF FireInv
<1>. QED  BY <1>1, <1>2 DEF FireGood, FireState, FireInv

\* Where no timer callback runs the loop again, a callback begins only for an open
\* handle, with the version installed last and, for a timer, when it is due: what
\* was collected is compared by generation, and no generation comes back.
THEOREM CurrentFires == "timers" \notin Nesting => (Spec => OnlyCurrentFires)
<1>. DEFINE Step == \A x \in Handle : Begins(x) => /\ ~CloseAsked(x) /\ h[x].active
                                                  /\ h[x].callback = h[x].newest
                                                  /\ (x \in Timer => h[x].due)
<1>. SUFFICES ASSUME "timers" \notin Nesting
              PROVE  Spec => OnlyCurrentFires
  OBVIOUS
<1>1. FireInv /\ [Next]_vars => FireInv'
  BY FireInvNext
<1>2. FireInv /\ [Next]_vars => Step
  BY FireInvNext DEF FireGood, Allowed
<1>. QED  BY <1>1, <1>2, FireInvInit, PTL DEF Spec, OnlyCurrentFires
=============================================================================
