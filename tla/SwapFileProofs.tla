--------------------------- MODULE SwapFileProofs ---------------------------
(***************************************************************************)
(* Theorems about two editors of one file, for any number of names and of  *)
(* processes one after the other.  With three they are false (README).     *)
(*                                                                         *)
(* A file has a second editor that could get at it only while the process  *)
(* that wrote its head runs (Shared): a name is pinned when nothing is     *)
(* under it, so whoever pins it later reaches another file.  Hence no two  *)
(* editors judge the same file to be theirs to write, and a file has one   *)
(* writer (Alone).                                                         *)
(***************************************************************************)
EXTENDS SwapFile, SequenceTheorems, TLAPS

AtMostTwo == \A a, b, c \in Editor : a = b \/ a = c \/ b = c

Calls == {"edit", "scan", "create", "open", "check", "truncate", "head", "body"}
Files == 1 .. Len(files)
States == [alive : BOOLEAN, pid : 0..MaxStarts, modified : BOOLEAN, name : 0..Names,
           written : BOOLEAN, at : Calls, look : 0..Names, fd : 0..Len(files),
           writing : BOOLEAN, exiting : BOOLEAN, kept : 0..Len(files)]

Shapes ==
  /\ files \in Seq([head : 0..MaxStarts, body : 0..MaxStarts])
  /\ disk \in [1..Names -> 0..Len(files)]
  /\ ed \in [Editor -> States]
  /\ starts \in 0..MaxStarts /\ \A f \in Files : files[f].head <= starts

\* What holds of an editor by itself, after n processes were started.
Process(s, n) ==
  /\ s.alive => s.pid \in 1..n
  /\ ~s.alive => s = Gone
  /\ s.written => s.name # 0
  /\ s.at = "scan" => s.look # 0
  /\ s.at \in {"create", "open", "check", "truncate", "head", "body"} => s.name # 0
  /\ s.at \in {"check", "truncate", "head", "body"} => s.fd # 0
  /\ s.at \in {"edit", "scan", "create", "open"} => s.fd = 0
Processes ==
  /\ \A e \in Editor : Process(ed[e], starts)
  /\ \A a, b \in Editor : ed[a].alive /\ ed[b].alive /\ ed[a].pid = ed[b].pid => a = b

OneName == \A m, n \in 1..Names : disk[m] = disk[n] /\ disk[m] # 0 => m = n
OneHand == \A f \in Files : files[f].body \in {0, files[f].head}

Reaches(e, f) == ed[e].alive /\ (ed[e].fd = f \/ (ed[e].name # 0 /\ disk[ed[e].name] = f))
Shared ==
  \A f \in Files : \A a, b \in Editor : a # b /\ Reaches(a, f) /\ Reaches(b, f) =>
    files[f].head \in {0, ed[a].pid, ed[b].pid}

Writes(e) == ed[e].alive /\ ed[e].at \in {"truncate", "head", "body"}
Alone == \A a, b \in Editor : Writes(a) /\ Writes(b) /\ ed[a].fd = ed[b].fd => a = b

\* The file in a writer's hands, by the call it is before.
Held(s, f) ==
  /\ s.at = "truncate" => f.head # 0
  /\ s.at = "head" => f = Empty
  /\ s.at = "body" => f = [head |-> s.pid, body |-> 0]
InHand ==
  \A e \in Editor : Writes(e) =>
    /\ Held(ed[e], files[ed[e].fd])
    /\ ed[e].at = "truncate" =>
         \A b \in Editor : ed[b].alive /\ b # e => ed[b].pid # files[ed[e].fd].head

SwapInv == Shapes /\ Processes /\ OneName /\ OneHand /\ Shared /\ Alone /\ InHand /\ KeptWhole

Blocks == [head : 0..MaxStarts, body : 0..MaxStarts]
Writing == {"truncate", "head", "body"}

-----------------------------------------------------------------------------
(* A preserve that finds the file its own is the only one that writes it.  *)
LEMMA RightfulOwner ==
  ASSUME SwapInv, NEW e \in Editor, At(e, "check"), IsOwn(ed[e], files[ed[e].fd]),
         NEW b \in Editor, b # e, Writes(b), ed[b].fd = ed[e].fd
  PROVE  FALSE
<1>. DEFINE f == ed[e].fd
<1>1. f \in Files /\ Reaches(e, f) /\ Reaches(b, f)
  <2>1. ed[e] \in States /\ Process(ed[e], starts)
    BY DEF SwapInv, Shapes, Processes
  <2>. QED  BY <2>1 DEF At, Process, States, Reaches, Files, Writes
<1>2. files[f].head \in {0, ed[e].pid, ed[b].pid}
  BY <1>1 DEF SwapInv, Shared
<1>3. ed[e].alive /\ ed[b].alive /\ ed[e].pid # ed[b].pid /\ Running(ed[e].pid) /\ Running(ed[b].pid)
  BY DEF SwapInv, Processes, At, Writes, Running
<1>4. files[f].head = ed[e].pid
  BY <1>2, <1>3 DEF IsOwn
<1>5. ed[e].pid # 0
  BY <1>3 DEF SwapInv, Processes, Process, IsOwn
<1>6. Held(ed[b], files[f]) /\ (ed[b].at = "truncate" => files[f].head # ed[e].pid)
  BY <1>3 DEF SwapInv, InHand
<1>7. CASE ed[b].at = "truncate"
  BY <1>4, <1>6, <1>7
<1>8. CASE ed[b].at = "head"
  BY <1>4, <1>5, <1>6, <1>8 DEF Held, Empty
<1>9. CASE ed[b].at = "body"
  BY <1>3, <1>4, <1>6, <1>9 DEF Held
<1>. QED  BY <1>7, <1>8, <1>9 DEF Writes

-----------------------------------------------------------------------------
(* A step of e that writes no file, and may take its file off a name.      *)
LEMMA Quiet ==
  ASSUME SwapInv, NEW e \in Editor, NEW s \in States, ed' = [ed EXCEPT ![e] = s],
         UNCHANGED <<files, starts>>,
         disk' \in [1..Names -> 0..Len(files)], \A n \in 1..Names : disk'[n] \in {0, disk[n]},
         Process(s, starts), s.alive => ed[e].alive /\ s.pid = ed[e].pid,
         s.alive => \A f \in Files : s.fd = f \/ (s.name # 0 /\ disk'[s.name] = f) => Reaches(e, f),
         s.alive /\ s.at \in Writing =>
           \/ ed[e].at = s.at /\ ed[e].fd = s.fd
           \/ /\ At(e, "check") /\ s.at = "truncate" /\ s.fd = ed[e].fd
              /\ IsOwn(ed[e], files[s.fd]),
         s.kept # 0 => s.alive /\ s.kept = ed[e].kept
  PROVE  SwapInv'
<1>. USE DEF SwapInv
<1>1. /\ ed \in [Editor -> States] /\ ed' \in [Editor -> States] /\ ed'[e] = s
      /\ \A b \in Editor : b # e => ed'[b] = ed[b]
  BY DEF Shapes
<1>2. Shapes'
  <2>1. Files' = Files /\ States' = States
    BY DEF Files, States
  <2>. QED  BY <1>1, <2>1 DEF Shapes
<1>3. Processes'
  BY <1>1 DEF Processes
<1>4. OneName'
  <2>1. OneName /\ \A n \in 1..Names : disk'[n] \in {0, disk[n]}
    OBVIOUS
  <2>. QED  BY ONLY <2>1 DEF OneName
<1>5. OneHand'
  BY DEF OneHand, Files
<1>6. \A b \in Editor, f \in Files : Reaches(b, f)' => Reaches(b, f)
  <2>. SUFFICES ASSUME NEW b \in Editor, NEW f \in Files, Reaches(b, f)'
                PROVE  Reaches(b, f)
    OBVIOUS
  <2>1. CASE b = e
    BY <1>1, <2>1 DEF Reaches
  <2>2. CASE b # e
    <3>1. ed[b].name \in 0..Names /\ f # 0
      BY <1>1 DEF States, Files
    <3>. QED  BY <1>1, <2>2, <3>1 DEF Reaches
  <2>. QED  BY <2>1, <2>2
<1>7. \A b \in Editor : ed'[b].alive => ed[b].alive /\ ed'[b].pid = ed[b].pid
  BY <1>1
<1>8. Shared'
  <2>. SUFFICES ASSUME NEW f \in Files, NEW a \in Editor, NEW b \in Editor, a # b,
                       Reaches(a, f)', Reaches(b, f)'
                PROVE  files[f].head \in {0, ed'[a].pid, ed'[b].pid}
    BY DEF Shared, Files
  <2>1. Reaches(a, f) /\ Reaches(b, f) /\ ed'[a].alive /\ ed'[b].alive
    BY <1>6 DEF Reaches
  <2>. QED  BY <1>7, <2>1 DEF Shared
<1>9. ASSUME NEW b \in Editor, Writes(b)'
      PROVE  /\ ed'[b].fd = ed[b].fd
             /\ \/ Writes(b) /\ ed'[b].at = ed[b].at
                \/ b = e /\ At(e, "check") /\ s.at = "truncate" /\ IsOwn(ed[e], files[s.fd])
  BY <1>1, <1>7, <1>9 DEF Writes, Writing
<1>10. Alone'
  <2>. SUFFICES ASSUME NEW a \in Editor, NEW b \in Editor, Writes(a)', Writes(b)', ed'[a].fd = ed'[b].fd, a # b
                PROVE  FALSE
    BY DEF Alone
  <2>1. ed[a].fd = ed[b].fd
    BY <1>9
  <2>2. CASE Writes(a) /\ Writes(b)
    BY <2>1, <2>2 DEF Alone
  <2>3. CASE ~Writes(a)
    <3>1. a = e /\ At(e, "check") /\ IsOwn(ed[e], files[ed[e].fd]) /\ Writes(b)
      BY <1>1, <1>9, <2>3
    <3>. QED  BY <2>1, <3>1, RightfulOwner
  <2>4. CASE ~Writes(b)
    <3>1. b = e /\ At(e, "check") /\ IsOwn(ed[e], files[ed[e].fd]) /\ Writes(a)
      BY <1>1, <1>9, <2>4
    <3>. QED  BY <2>1, <3>1, RightfulOwner
  <2>. QED  BY <2>2, <2>3, <2>4
<1>12. InHand'
  <2>. SUFFICES ASSUME NEW b \in Editor, Writes(b)'
                PROVE  /\ Held(ed'[b], files[ed'[b].fd])
                       /\ ed'[b].at = "truncate" =>
                            \A c \in Editor : ed'[c].alive /\ c # b => ed'[c].pid # files[ed'[b].fd].head
    BY DEF InHand, Held
  <2>1. ed'[b].alive /\ ed'[b].pid = ed[b].pid /\ ed'[b].fd = ed[b].fd
    BY <1>7, <1>9 DEF Writes
  <2>2. CASE Writes(b) /\ ed'[b].at = ed[b].at
    <3>1. Held(ed[b], files[ed[b].fd])
      BY <2>2 DEF InHand
    <3>2. Held(ed'[b], files[ed'[b].fd])
      BY <2>1, <2>2, <3>1 DEF Held
    <3>. QED  BY <1>7, <2>1, <2>2, <3>2 DEF InHand
  <2>3. CASE b = e /\ At(e, "check") /\ s.at = "truncate" /\ IsOwn(ed[e], files[s.fd])
    <3>1. Held(ed'[b], files[ed'[b].fd])
      BY <1>1, <2>3 DEF IsOwn, Held
    <3>2. ASSUME NEW c \in Editor, ed'[c].alive, c # b
          PROVE  ed'[c].pid # files[ed'[b].fd].head
      <4>1. ed[c].alive /\ ed[c].pid = ed'[c].pid /\ ed[b].alive /\ ed[c].pid # ed[b].pid
        BY <1>7, <2>1, <3>2 DEF Processes
      <4>2. ~(\E x \in Editor : ed[x].alive /\ ed[x].pid = files[s.fd].head) \/ files[s.fd].head = ed[e].pid
        BY <2>3 DEF IsOwn, Running
      <4>. QED  BY <1>1, <2>3, <4>1, <4>2
    <3>. QED  BY <3>1, <3>2
  <2>. QED  BY <1>9, <2>2, <2>3
<1>13. KeptWhole'
  BY <1>1, <1>7 DEF KeptWhole
<1>. QED  BY <1>2, <1>3, <1>4, <1>5, <1>8, <1>10, <1>12, <1>13

-----------------------------------------------------------------------------
(* A step of a writer that changes its file, to nothing but what it wrote. *)
LEMMA Overwritten ==
  ASSUME AtMostTwo, SwapInv, NEW e \in Editor, NEW s \in States, ed' = [ed EXCEPT ![e] = s],
         UNCHANGED <<disk, starts>>, Writes(e), NEW g \in Blocks,
         files' = [files EXCEPT ![ed[e].fd] = g],
         g.head \in {0, ed[e].pid}, g.body \in {0, g.head},
         Process(s, starts),
         s.alive => s.pid = ed[e].pid /\ s.name = ed[e].name /\ s.fd \in {0, ed[e].fd},
         s.alive /\ s.at \in Writing => s.fd = ed[e].fd /\ s.at # "truncate" /\ Held(s, g),
         s.kept # 0 => /\ s.alive
                       /\ \/ s.kept = ed[e].fd /\ g = [head |-> ed[e].pid, body |-> ed[e].pid]
                          \/ s.kept = ed[e].kept /\ s.kept # ed[e].fd
  PROVE  SwapInv'
<1>. USE DEF SwapInv
<1>. DEFINE f == ed[e].fd
<1>1. /\ ed \in [Editor -> States] /\ ed' \in [Editor -> States] /\ ed'[e] = s
      /\ \A b \in Editor : b # e => ed'[b] = ed[b]
  BY DEF Shapes
<1>2. f \in Files /\ ed[e].alive /\ ed[e].pid \in 1..starts /\ starts \in 0..MaxStarts /\ MaxStarts \in Nat
  <2>1. ed[e] \in States /\ Process(ed[e], starts)
    BY <1>1 DEF Processes
  <2>. QED  BY <2>1, StartsAssumption DEF Process, States, Files, Writes, Shapes
<1>3. files \in Seq(Blocks) /\ files' \in Seq(Blocks) /\ Len(files') = Len(files)
  <2>1. files \in Seq(Blocks)
    BY DEF Shapes, Blocks
  <2>. QED  BY <1>2, <2>1, ExceptSeq DEF Files
<1>4. files'[f] = g /\ \A n \in Files : n # f => files'[n] = files[n]
  BY <1>2, <1>3, ExceptSeq DEF Files
<1>5. Files' = Files /\ States' = States
  BY <1>3 DEF Files, States
<1>6. Shapes'
  <2>1. g.head <= starts
    BY <1>2
  <2>2. \A n \in Files : files'[n].head <= starts
    <3>1. \A n \in Files : files[n].head <= starts
      BY DEF Shapes
    <3>. QED  BY <1>4, <2>1, <3>1
  <2>. QED  BY <1>1, <1>2, <1>3, <1>5, <2>2 DEF Shapes, Blocks
<1>7. Processes'
  BY <1>1, <1>2 DEF Processes
<1>8. OneName'
  BY DEF OneName
<1>9. OneHand'
  BY <1>4, <1>5 DEF OneHand
<1>10. \A b \in Editor : ed'[b].alive => ed[b].alive /\ ed'[b].pid = ed[b].pid
  BY <1>1, <1>2
<1>11. \A b \in Editor, n \in Files : Reaches(b, n)' => Reaches(b, n)
  <2>. SUFFICES ASSUME NEW b \in Editor, NEW n \in Files, Reaches(b, n)'
                PROVE  Reaches(b, n)
    OBVIOUS
  <2>1. CASE b = e
    BY <1>1, <1>2, <2>1 DEF Reaches, Files
  <2>2. CASE b # e
    BY <1>1, <2>2 DEF Reaches
  <2>. QED  BY <2>1, <2>2
<1>12. Shared'
  <2>. SUFFICES ASSUME NEW n \in Files, NEW a \in Editor, NEW b \in Editor, a # b,
                       Reaches(a, n)', Reaches(b, n)'
                PROVE  files'[n].head \in {0, ed'[a].pid, ed'[b].pid}
    BY <1>5 DEF Shared
  <2>1. Reaches(a, n) /\ Reaches(b, n) /\ ed'[a].alive /\ ed'[b].alive
    BY <1>11 DEF Reaches
  <2>2. CASE n # f
    BY <1>4, <1>10, <2>1, <2>2 DEF Shared
  <2>3. CASE n = f
    <3>1. e = a \/ e = b
      BY DEF AtMostTwo
    <3>. QED  BY <1>4, <1>10, <2>1, <2>3, <3>1
  <2>. QED  BY <2>2, <2>3
<1>13. ASSUME NEW b \in Editor, Writes(b)'
       PROVE  Writes(b) /\ ed'[b].fd = ed[b].fd
  BY <1>1, <1>13 DEF Writes, Writing
<1>14. Alone'
  BY <1>13 DEF Alone
<1>15. InHand'
  <2>. SUFFICES ASSUME NEW b \in Editor, Writes(b)'
                PROVE  /\ Held(ed'[b], files'[ed'[b].fd])
                       /\ ed'[b].at = "truncate" =>
                            \A c \in Editor : ed'[c].alive /\ c # b => ed'[c].pid # files'[ed'[b].fd].head
    BY DEF InHand, Held
  <2>1. CASE b = e
    BY <1>1, <1>4, <2>1 DEF Writes, Writing
  <2>2. CASE b # e
    <3>1. ed'[b] = ed[b] /\ Writes(b) /\ ed[b].fd # f
      BY <1>1, <1>13, <2>2 DEF Alone
    <3>2. ed[b].fd \in Files
      <4>1. ed[b] \in States /\ Process(ed[b], starts)
        BY <1>1 DEF Processes
      <4>. QED  BY <3>1, <4>1 DEF Process, States, Files, Writes
    <3>3. files'[ed[b].fd] = files[ed[b].fd]
      BY <1>4, <3>1, <3>2
    <3>. QED  BY <1>10, <3>1, <3>3 DEF InHand
  <2>. QED  BY <2>1, <2>2
<1>16. KeptWhole'
  <2>. SUFFICES ASSUME NEW b \in Editor, ed'[b].kept # 0
                PROVE  files'[ed'[b].kept] = [head |-> ed'[b].pid, body |-> ed'[b].pid]
    BY DEF KeptWhole
  <2>1. CASE b = e
    <3>1. ed[e].kept \in 0..Len(files)
      BY <1>1 DEF States
    <3>. QED  BY <1>1, <1>2, <1>4, <2>1, <3>1 DEF KeptWhole, Files
  <2>2. CASE b # e
    <3>1. ed'[b] = ed[b] /\ ed[b].kept \in Files /\ files[ed[b].kept] = [head |-> ed[b].pid, body |-> ed[b].pid]
      BY <1>1, <2>2 DEF KeptWhole, States, Files
    <3>2. ed[b].alive /\ ed[b].pid # ed[e].pid /\ ed[b].pid # 0
      <4>1. Process(ed[b], starts)
        BY DEF Processes
      <4>2. ed[b].alive
        BY <3>1, <4>1 DEF Process, Gone
      <4>. QED  BY <1>2, <2>2, <4>1, <4>2 DEF Processes, Process
    <3>3. ed[b].kept # f
      <4>. SUFFICES ASSUME ed[b].kept = f PROVE FALSE
        OBVIOUS
      <4>1. files[f].head = ed[b].pid
        BY <3>1
      <4>2. Held(ed[e], files[f]) /\ (ed[e].at = "truncate" => ed[b].pid # files[f].head)
        BY <2>2, <3>2 DEF InHand
      <4>3. CASE ed[e].at = "truncate"
        BY <4>1, <4>2, <4>3
      <4>4. CASE ed[e].at = "head"
        BY <3>2, <4>1, <4>2, <4>4 DEF Held, Empty
      <4>5. CASE ed[e].at = "body"
        BY <3>2, <4>1, <4>2, <4>5 DEF Held
      <4>. QED  BY <4>3, <4>4, <4>5 DEF Writes
    <3>. QED  BY <1>4, <3>1, <3>3
  <2>. QED  BY <2>1, <2>2
<1>. QED  BY <1>6, <1>7, <1>8, <1>9, <1>12, <1>14, <1>15, <1>16

-----------------------------------------------------------------------------
(* A new process reaches no file, and its pid is in none.                  *)
LEMMA Started ==
  ASSUME SwapInv, NEW e \in Editor, Start(e)
  PROVE  SwapInv'
<1>. USE DEF SwapInv
<1>. DEFINE s == [Gone EXCEPT !.alive = TRUE, !.pid = starts + 1]
<1>1. /\ ~ed[e].alive /\ starts \in Nat /\ starts' = starts + 1 /\ starts' \in 0..MaxStarts
      /\ UNCHANGED <<disk, files>> /\ ed' = [ed EXCEPT ![e] = s]
  BY StartsAssumption DEF Start, Sets, Shapes
<1>2. s \in States /\ s.alive /\ s.pid = starts + 1 /\ s.name = 0 /\ s.fd = 0 /\ s.at = "edit" /\ s.kept = 0
  <2>1. Len(files) \in Nat
    BY DEF Shapes
  <2>2. starts + 1 \in 0..MaxStarts /\ 0 \in 0..Names /\ 0 \in 0..Len(files) /\ "edit" \in Calls
    BY <1>1, <2>1, NamesAssumption DEF Calls
  <2>3. Gone \in States /\ Gone.name = 0 /\ Gone.fd = 0 /\ Gone.at = "edit" /\ Gone.kept = 0
    BY <1>1, <2>2, StartsAssumption DEF States, Gone
  <2>. QED  BY <2>2, <2>3 DEF States
<1>3. /\ ed' \in [Editor -> States] /\ ed'[e] = s /\ \A b \in Editor : b # e => ed'[b] = ed[b]
  BY <1>1, <1>2 DEF Shapes
<1>4. Files' = Files /\ States' = States /\ \A f \in Files : files[f].head \in 0..starts
  <2>1. \A f \in Files : files[f] \in Blocks /\ files[f].head <= starts
    <3>1. files \in Seq(Blocks) /\ \A f \in Files : files[f].head <= starts
      BY DEF Shapes, Blocks
    <3>. QED  BY <3>1, ElementOfSeq DEF Files
  <2>. QED  BY <1>1, <2>1 DEF Files, States, Blocks
<1>5. Shapes'
  <2>1. \A f \in Files : files[f].head <= starts + 1
    BY <1>1, <1>4
  <2>. QED  BY <1>1, <1>3, <1>4, <2>1 DEF Shapes
<1>6. Processes'
  <2>1. Process(s, starts + 1)
    BY <1>1, <1>2 DEF Process, Gone
  <2>2. \A b \in Editor : Process(ed[b], starts) /\ Process(ed[b], starts + 1)
    BY <1>1 DEF Processes, Process
  <2>3. \A b \in Editor : ed[b].alive => ed[b].pid # starts + 1
    BY <1>1, <2>2 DEF Process
  <2>. QED  BY <1>1, <1>2, <1>3, <2>1, <2>2, <2>3 DEF Processes
<1>7. OneName' /\ OneHand'
  BY <1>1 DEF OneName, OneHand, Files
<1>8. Shared'
  <2>1. \A f \in Files : ~Reaches(e, f)'
    BY <1>2, <1>3 DEF Reaches, Files
  <2>2. \A b \in Editor, f \in Files : b # e => (Reaches(b, f)' <=> Reaches(b, f))
    BY <1>1, <1>3 DEF Reaches
  <2>. QED  BY <1>1, <1>3, <1>4, <2>1, <2>2 DEF Shared
<1>9. ~Writes(e)' /\ \A b \in Editor : b # e => (Writes(b)' <=> Writes(b))
  BY <1>2, <1>3 DEF Writes
<1>10. Alone'
  BY <1>3, <1>9 DEF Alone
<1>11. InHand'
  <2>. SUFFICES ASSUME NEW b \in Editor, Writes(b)'
                PROVE  /\ Held(ed'[b], files[ed'[b].fd])
                       /\ ed'[b].at = "truncate" =>
                            \A c \in Editor : ed'[c].alive /\ c # b => ed'[c].pid # files[ed'[b].fd].head
    BY <1>1 DEF InHand, Held
  <2>1. b # e /\ ed'[b] = ed[b] /\ Writes(b)
    BY <1>3, <1>9
  <2>2. ed[b].fd \in Files
    <3>1. ed[b] \in States /\ Process(ed[b], starts)
      BY DEF Processes, Shapes
    <3>. QED  BY <2>1, <3>1 DEF Process, States, Files, Writes
  <2>3. files[ed[b].fd].head # starts + 1
    BY <1>1, <1>4, <2>2
  <2>4. Held(ed'[b], files[ed'[b].fd])
    BY <2>1 DEF InHand
  <2>5. ASSUME NEW c \in Editor, ed'[c].alive, c # b, ed'[b].at = "truncate"
        PROVE  ed'[c].pid # files[ed'[b].fd].head
    <3>1. CASE c = e
      BY <1>2, <1>3, <2>1, <2>3, <3>1
    <3>2. CASE c # e
      BY <1>3, <2>1, <2>5, <3>2 DEF InHand
    <3>. QED  BY <3>1, <3>2
  <2>. QED  BY <2>4, <2>5
<1>12. KeptWhole'
  BY <1>1, <1>2, <1>3 DEF KeptWhole
<1>. QED  BY <1>5, <1>6, <1>7, <1>8, <1>10, <1>11, <1>12

-----------------------------------------------------------------------------
(* A new file is reached through its creator and its name only.            *)
LEMMA Created ==
  ASSUME SwapInv, NEW e \in Editor, Create(e), disk[ed[e].name] = 0
  PROVE  SwapInv'
<1>. USE DEF SwapInv
<1>. DEFINE n == Len(files) + 1
            s == [ed[e] EXCEPT !.fd = n, !.at = "head"]
            name == ed[e].name
<1>1. /\ ed[e].alive /\ ed[e].at = "create" /\ starts' = starts
      /\ files \in Seq(Blocks) /\ Len(files) \in Nat /\ files' = Append(files, Empty)
      /\ disk' = [disk EXCEPT ![name] = n] /\ ed' = [ed EXCEPT ![e] = s]
  <2>1. files \in Seq(Blocks) /\ Empty \in Blocks
    BY StartsAssumption DEF Shapes, Blocks, Empty
  <2>2. Len(files) \in Nat /\ Len(Append(files, Empty)) = n
    BY <2>1, AppendProperties
  <2>3. /\ ed[e].alive /\ ed[e].at = "create" /\ starts' = starts /\ files' = Append(files, Empty)
        /\ disk' = [disk EXCEPT ![name] = Len(files')]
        /\ ed' = [ed EXCEPT ![e] = [ed[e] EXCEPT !.fd = Len(files'), !.at = "head"]]
    BY DEF Create, At, Sets
  <2>. QED  BY <2>1, <2>2, <2>3
<1>2. Empty \in Blocks /\ Empty.head = 0 /\ Empty.body = 0
  BY StartsAssumption DEF Empty, Blocks
<1>3. /\ files' \in Seq(Blocks) /\ Len(files') = n /\ files'[n] = Empty
      /\ \A f \in Files : files'[f] = files[f]
  <2>. DEFINE new == Append(files, Empty)
  <2>1. /\ new \in Seq(Blocks) /\ Len(new) = n /\ new[n] = Empty
        /\ \A f \in 1..Len(files) : new[f] = files[f]
    BY <1>1, <1>2, AppendProperties
  <2>. QED  BY <1>1, <2>1 DEF Files
<1>4. Files' = Files \union {n} /\ n \notin Files /\ n # 0
  BY <1>1, <1>3 DEF Files
<1>5. /\ ed[e] \in States /\ Process(ed[e], starts) /\ name \in 1..Names
  <2>1. ed[e] \in States /\ Process(ed[e], starts)
    BY DEF Shapes, Processes
  <2>. QED  BY <1>1, <2>1, NamesAssumption DEF States, Process
<1>6. /\ s.alive = ed[e].alive /\ s.pid = ed[e].pid /\ s.name = name /\ s.fd = n /\ s.at = "head"
      /\ s.kept = ed[e].kept /\ s.written = ed[e].written
  BY <1>5 DEF States
<1>7. States \subseteq States' /\ s \in States'
  <2>1. Len(files) \in 0..n /\ n \in 0..n /\ 0..Len(files) \subseteq 0..n
    BY <1>1
  <2>. QED  BY <1>3, <1>5, <2>1 DEF States, Calls
<1>8. /\ ed' \in [Editor -> States'] /\ ed'[e] = s /\ \A b \in Editor : b # e => ed'[b] = ed[b]
  BY <1>1, <1>7 DEF Shapes
<1>9. /\ disk' \in [1..Names -> 0..n] /\ disk'[name] = n
      /\ \A m \in 1..Names : m # name => disk'[m] = disk[m] /\ disk[m] # n
  BY <1>1, <1>5 DEF Shapes
<1>10. Shapes'
  <2>1. \A f \in Files' : files'[f].head <= starts
    <3>1. files'[n].head = 0 /\ starts \in Nat
      BY <1>2, <1>3, StartsAssumption DEF Shapes
    <3>2. \A f \in Files : files'[f].head <= starts
      BY <1>3 DEF Shapes
    <3>. QED  BY <1>4, <3>1, <3>2
  <2>. QED  BY <1>1, <1>3, <1>8, <1>9, <2>1 DEF Shapes, Blocks
<1>11. Processes'
  <2>1. Process(s, starts)
    BY <1>1, <1>4, <1>5, <1>6 DEF Process
  <2>. QED  BY <1>1, <1>6, <1>8, <2>1 DEF Processes
<1>12. OneName'
  BY <1>9 DEF OneName
<1>13. OneHand'
  BY <1>2, <1>3, <1>4 DEF OneHand
<1>14. ASSUME NEW b \in Editor, NEW f \in Files, Reaches(b, f)'
       PROVE  Reaches(b, f)
  <2>1. f # n /\ f # 0
    BY <1>4 DEF Files
  <2>2. ed'[b].alive /\ (ed'[b].fd = f \/ (ed'[b].name # 0 /\ disk'[ed'[b].name] = f))
    BY <1>14 DEF Reaches
  <2>3. ed[b].name \in 0..Names /\ ed'[b].alive = ed[b].alive /\ ed'[b].name = ed[b].name
    <3>1. ed[b] \in States
      BY DEF Shapes
    <3>. QED  BY <1>6, <1>8, <3>1 DEF States
  <2>4. ed'[b].fd = f => ed[b].fd = f
    BY <1>6, <1>8, <2>1
  <2>5. ed[b].name # 0 /\ disk'[ed[b].name] = f => disk[ed[b].name] = f
    BY <1>9, <2>1, <2>3
  <2>. QED  BY <2>2, <2>3, <2>4, <2>5 DEF Reaches
<1>15. Shared'
  <2>1. \A b \in Editor : ed'[b].pid = ed[b].pid
    BY <1>6, <1>8
  <2>. QED  BY <1>2, <1>3, <1>4, <1>14, <2>1 DEF Shared
<1>16. ASSUME NEW b \in Editor, b # e, Writes(b)'
       PROVE  Writes(b) /\ ed'[b] = ed[b] /\ ed[b].fd \in Files
  <2>1. ed[b] \in States /\ Process(ed[b], starts)
    BY DEF Shapes, Processes
  <2>. QED  BY <1>8, <1>16, <2>1 DEF Process, States, Files, Writes
<1>17. Alone'
  <2>. SUFFICES ASSUME NEW a \in Editor, NEW b \in Editor, Writes(a)', Writes(b)', ed'[a].fd = ed'[b].fd, a # b
                PROVE  FALSE
    BY DEF Alone
  <2>. HIDE DEF n
  <2>1. CASE a = e
    <3>1. ed'[a].fd = n
      BY <1>6, <1>8, <2>1
    <3>2. b # e /\ ed'[b].fd \in Files
      BY <1>16, <2>1
    <3>. QED  BY <1>4, <3>1, <3>2
  <2>2. CASE b = e
    <3>1. ed'[b].fd = n
      BY <1>6, <1>8, <2>2
    <3>2. a # e /\ ed'[a].fd \in Files
      BY <1>16, <2>2
    <3>. QED  BY <1>4, <3>1, <3>2
  <2>3. CASE a # e /\ b # e
    BY <1>16, <2>3 DEF Alone
  <2>. QED  BY <2>1, <2>2, <2>3
<1>18. InHand'
  <2>. SUFFICES ASSUME NEW b \in Editor, Writes(b)'
                PROVE  /\ Held(ed'[b], files'[ed'[b].fd])
                       /\ ed'[b].at = "truncate" =>
                            \A c \in Editor : ed'[c].alive /\ c # b => ed'[c].pid # files'[ed'[b].fd].head
    BY DEF InHand, Held
  <2>1. CASE b = e
    BY <1>3, <1>6, <1>8, <2>1 DEF Held
  <2>2. CASE b # e
    <3>1. Writes(b) /\ ed'[b] = ed[b] /\ files'[ed[b].fd] = files[ed[b].fd]
      BY <1>3, <1>16, <2>2
    <3>2. \A c \in Editor : ed'[c].alive = ed[c].alive /\ ed'[c].pid = ed[c].pid
      BY <1>6, <1>8
    <3>. QED  BY <3>1, <3>2 DEF InHand
  <2>. QED  BY <2>1, <2>2
<1>19. KeptWhole'
  <2>. SUFFICES ASSUME NEW b \in Editor, ed'[b].kept # 0
                PROVE  files'[ed'[b].kept] = [head |-> ed'[b].pid, body |-> ed'[b].pid]
    BY DEF KeptWhole
  <2>1. ed'[b].kept = ed[b].kept /\ ed'[b].pid = ed[b].pid
    BY <1>6, <1>8
  <2>2. ed[b].kept \in Files
    <3>1. ed[b] \in States
      BY DEF Shapes
    <3>. QED  BY <2>1, <3>1 DEF States, Files
  <2>. QED  BY <1>3, <2>1, <2>2 DEF KeptWhole
<1>. QED  BY <1>10, <1>11, <1>12, <1>13, <1>15, <1>17, <1>18, <1>19

-----------------------------------------------------------------------------
(* The steps that write no file.                                           *)

LEMMA GoneIsState ==
  ASSUME Shapes
  PROVE  Gone \in States /\ ~Gone.alive /\ Gone.kept = 0 /\ \A n : Process(Gone, n)
<1>1. Len(files) \in Nat
  BY DEF Shapes
<1>2. 0 \in 0..MaxStarts /\ 0 \in 0..Names /\ 0 \in 0..Len(files)
  BY <1>1, StartsAssumption, NamesAssumption
<1>. QED  BY <1>2 DEF Gone, States, Calls, Process

LEMMA Editors ==
  ASSUME SwapInv, NEW e \in Editor
  PROVE  /\ ed[e] \in States /\ Process(ed[e], starts)
         /\ Len(files) \in Nat /\ disk \in [1..Names -> 0..Len(files)] /\ Names \in Nat \ {0}
BY NamesAssumption DEF SwapInv, Shapes, Processes

\* A process goes, with its swap file or without.
LEMMA Leaves ==
  ASSUME SwapInv, NEW e \in Editor, Sets(e, Gone), UNCHANGED <<files, starts>>,
         disk' = disk \/ disk' = Removed(ed[e])
  PROVE  SwapInv'
<1>1. disk' \in [1..Names -> 0..Len(files)] /\ \A n \in 1..Names : disk'[n] \in {0, disk[n]}
  BY Editors DEF Removed
<1>2. Gone \in States /\ ~Gone.alive /\ Gone.kept = 0 /\ Process(Gone, starts)
  BY GoneIsState DEF SwapInv
<1>3. ed' = [ed EXCEPT ![e] = Gone]
  BY DEF Sets
<1>. HIDE DEF SwapInv
<1>. QED  BY <1>1, <1>2, <1>3, Quiet

\* A process goes on: it reaches no other file, and only its check makes it a writer.
LEMMA GoesOn ==
  ASSUME SwapInv, NEW e \in Editor, NEW s \in States, ed[e].alive, Sets(e, s),
         UNCHANGED <<disk, files, starts>>,
         Process(s, starts), s.alive, s.pid = ed[e].pid, s.kept = ed[e].kept,
         \/ s.fd = 0 \/ s.fd = ed[e].fd
         \/ At(e, "open") /\ s.fd = disk[ed[e].name] /\ ed[e].name # 0,
         s.name = ed[e].name \/ disk[s.name] = 0,
         \/ s.at \notin Writing
         \/ At(e, "check") /\ s.at = "truncate" /\ s.fd = ed[e].fd /\ IsOwn(ed[e], files[s.fd])
  PROVE  SwapInv'
<1>1. ASSUME NEW f \in Files, s.fd = f \/ (s.name # 0 /\ disk[s.name] = f)
      PROVE  Reaches(e, f)
  BY <1>1 DEF Reaches, Files
<1>2. /\ ed' = [ed EXCEPT ![e] = s] /\ disk' = disk
      /\ disk' \in [1..Names -> 0..Len(files)] /\ \A n \in 1..Names : disk'[n] \in {0, disk[n]}
  BY Editors DEF Sets
<1>3. /\ s.alive => ed[e].alive /\ s.pid = ed[e].pid
      /\ s.kept # 0 => s.alive /\ s.kept = ed[e].kept
      /\ s.alive => \A f \in Files : s.fd = f \/ (s.name # 0 /\ disk'[s.name] = f) => Reaches(e, f)
  BY <1>1, <1>2
<1>4. s.alive /\ s.at \in Writing =>
        \/ ed[e].at = s.at /\ ed[e].fd = s.fd
        \/ At(e, "check") /\ s.at = "truncate" /\ s.fd = ed[e].fd /\ IsOwn(ed[e], files[s.fd])
  OBVIOUS
<1>. HIDE DEF SwapInv
<1>. QED  BY <1>2, <1>3, <1>4, Quiet

\* A preserve ends.
LEMMA Ends ==
  ASSUME SwapInv, NEW e \in Editor, ed[e].alive, Sets(e, Ended(ed[e])), UNCHANGED <<disk, files, starts>>
  PROVE  SwapInv'
<1>1. CASE ed[e].exiting
  BY <1>1, Leaves DEF Ended
<1>2. CASE ~ed[e].exiting
  <2>. DEFINE s == [ed[e] EXCEPT !.at = "edit", !.fd = 0, !.look = 0, !.writing = FALSE]
  <2>0. ed[e] \in States /\ 0 \in 0..Len(files) /\ 0 \in 0..Names
    <3>1. ed[e] \in States /\ Len(files) \in Nat /\ Names \in Nat
      BY Editors
    <3>. QED  BY <3>1
  <2>1. /\ s \in States /\ s.at = "edit" /\ s.fd = 0 /\ s.alive = ed[e].alive /\ s.pid = ed[e].pid
        /\ s.kept = ed[e].kept /\ s.name = ed[e].name /\ s.written = ed[e].written
    BY <2>0 DEF States, Calls
  <2>2. Process(s, starts)
    BY <2>1, Editors DEF Process
  <2>3. Sets(e, s)
    BY <1>2 DEF Ended
  <2>. HIDE DEF s
  <2>. QED  BY <2>1, <2>2, <2>3, GoesOn DEF Writing
<1>. QED  BY <1>1, <1>2

LEMMA BeginIs ==
  ASSUME SwapInv, NEW e \in Editor, At(e, "edit"), NEW writing \in BOOLEAN, NEW exiting \in BOOLEAN,
         Sets(e, [Begun(ed[e], writing) EXCEPT !.exiting = exiting]), UNCHANGED <<disk, files, starts>>
  PROVE  SwapInv'
<1>. DEFINE s == [Begun(ed[e], writing) EXCEPT !.exiting = exiting]
<1>1. /\ s \in States /\ s.at = (IF ed[e].name = 0 THEN "scan" ELSE "create")
      /\ s.fd = ed[e].fd /\ s.look = 1
      /\ s.alive = ed[e].alive /\ s.pid = ed[e].pid /\ s.kept = ed[e].kept /\ s.name = ed[e].name
      /\ s.written = ed[e].written
  <2>1. 1 \in 0..Names
    BY NamesAssumption
  <2>. QED  BY <2>1, Editors DEF States, Calls, Begun
<1>2. ed[e].alive /\ ed[e].fd = 0
  BY Editors DEF At, Process
<1>. HIDE DEF s
<1>3. Process(s, starts) /\ s.at \notin Writing
  BY <1>1, <1>2, Editors DEF Process, Writing
<1>4. Sets(e, s)
  BY DEF s
<1>. QED  BY <1>1, <1>2, <1>3, <1>4, GoesOn

LEMMA Scans ==
  ASSUME SwapInv, NEW e \in Editor, Exists(e)
  PROVE  SwapInv'
<1>. DEFINE p == ed[e]
<1>1. /\ p \in States /\ Process(p, starts) /\ p.alive /\ p.at = "scan" /\ p.fd = 0
      /\ p.look \in 1..Names /\ UNCHANGED <<disk, files, starts>>
  <2>1. p \in States /\ Process(p, starts) /\ Names \in Nat \ {0}
    BY Editors
  <2>. QED  BY <2>1 DEF Exists, At, States, Process
<1>2. CASE disk[p.look] = 0 /\ p.writing
  <2>. DEFINE s == [p EXCEPT !.name = p.look, !.at = "create"]
  <2>1. /\ s \in States /\ s.at = "create" /\ s.fd = 0 /\ s.name = p.look
        /\ s.alive /\ s.pid = p.pid /\ s.kept = p.kept /\ s.written = p.written
    BY <1>1 DEF States, Calls
  <2>2. Sets(e, s)
    BY <1>2 DEF Exists
  <2>. HIDE DEF s
  <2>3. Process(s, starts) /\ s.at \notin Writing
    BY <1>1, <2>1 DEF Process, Writing
  <2>. QED  BY <1>1, <1>2, <2>1, <2>2, <2>3, GoesOn
<1>3. CASE disk[p.look] = 0 /\ ~p.writing
  <2>. DEFINE q == [p EXCEPT !.name = p.look]
              s == [q EXCEPT !.at = "edit", !.fd = 0, !.look = 0, !.writing = FALSE]
  <2>1. Sets(e, Ended(q)) /\ q.exiting = p.exiting
    BY <1>1, <1>3 DEF Exists, States
  <2>2. CASE p.exiting
    BY <1>1, <2>1, <2>2, Leaves DEF Ended
  <2>3. CASE ~p.exiting
    <3>1. /\ s \in States /\ s.at = "edit" /\ s.fd = 0 /\ s.name = p.look
          /\ s.alive /\ s.pid = p.pid /\ s.kept = p.kept /\ s.written = p.written
      <4>1. 0 \in 0..Len(files) /\ 0 \in 0..Names /\ p.look \in 0..Names
        <5>1. Len(files) \in Nat /\ Names \in Nat
          BY Editors
        <5>. QED  BY <1>1, <5>1
      <4>. QED  BY <1>1, <4>1 DEF States, Calls
    <3>2. Sets(e, s)
      BY <2>1, <2>3 DEF Ended
    <3>. HIDE DEF s, q
    <3>3. Process(s, starts) /\ s.at \notin Writing
      BY <1>1, <3>1 DEF Process, Writing
    <3>. QED  BY <1>1, <1>3, <3>1, <3>2, <3>3, GoesOn
  <2>. QED  BY <2>2, <2>3
<1>4. CASE disk[p.look] # 0 /\ p.look < Names
  <2>. DEFINE s == [p EXCEPT !.look = @ + 1]
  <2>1. p.look + 1 \in 0..Names /\ p.look + 1 # 0
    BY <1>1, <1>4, NamesAssumption
  <2>2. /\ s \in States /\ s.at = "scan" /\ s.fd = 0 /\ s.name = p.name /\ s.look # 0
        /\ s.alive /\ s.pid = p.pid /\ s.kept = p.kept /\ s.written = p.written
    BY <1>1, <2>1 DEF States, Calls
  <2>3. Sets(e, s)
    BY <1>1, <1>4, NamesAssumption DEF Exists
  <2>. HIDE DEF s
  <2>4. Process(s, starts) /\ s.at \notin Writing
    BY <1>1, <2>2 DEF Process, Writing
  <2>. QED  BY <1>1, <2>2, <2>3, <2>4, GoesOn
<1>5. CASE disk[p.look] # 0 /\ p.look = Names
  <2>1. Sets(e, Ended(p))
    BY <1>5 DEF Exists
  <2>. QED  BY <1>1, <2>1, Ends
<1>. QED
  <2>1. p.look < Names \/ p.look = Names
    BY <1>1, NamesAssumption
  <2>. QED  BY <1>2, <1>3, <1>4, <1>5, <2>1

\* Open, and the creation that finds the name taken.
LEMMA Opens ==
  ASSUME SwapInv, NEW e \in Editor, Open(e) \/ (Create(e) /\ disk[ed[e].name] # 0)
  PROVE  SwapInv'
<1>. DEFINE p == ed[e]
<1>1. /\ p \in States /\ Process(p, starts) /\ p.alive /\ p.at \in {"open", "create"}
      /\ p.fd = 0 /\ p.name \in 1..Names /\ UNCHANGED <<disk, files, starts>>
  <2>1. p \in States /\ Process(p, starts) /\ Names \in Nat \ {0}
    BY Editors
  <2>. QED  BY <2>1 DEF Open, Create, At, States, Process
<1>2. CASE Open(e) /\ disk[p.name] = 0
  BY <1>1, <1>2, Ends DEF Open
<1>3. CASE Open(e) /\ disk[p.name] # 0
  <2>. DEFINE s == [p EXCEPT !.fd = disk[p.name], !.at = "check"]
  <2>1. disk[p.name] \in 0..Len(files)
    BY <1>1, Editors
  <2>2. /\ s \in States /\ s.at = "check" /\ s.fd = disk[p.name] /\ s.name = p.name
        /\ s.alive /\ s.pid = p.pid /\ s.kept = p.kept /\ s.written = p.written
    BY <1>1, <2>1 DEF States, Calls
  <2>3. Sets(e, s) /\ At(e, "open")
    BY <1>3 DEF Open
  <2>. HIDE DEF s
  <2>4. Process(s, starts) /\ s.at \notin Writing /\ p.name # 0
    BY <1>1, <1>3, <2>2 DEF Process, Writing
  <2>. QED  BY <1>1, <2>2, <2>3, <2>4, GoesOn
<1>4. CASE Create(e) /\ disk[p.name] # 0
  <2>. DEFINE s == [p EXCEPT !.at = "open"]
  <2>1. /\ s \in States /\ s.at = "open" /\ s.fd = 0 /\ s.name = p.name
        /\ s.alive /\ s.pid = p.pid /\ s.kept = p.kept /\ s.written = p.written
    BY <1>1 DEF States, Calls
  <2>2. Sets(e, s)
    BY <1>4 DEF Create
  <2>. HIDE DEF s
  <2>3. Process(s, starts) /\ s.at \notin Writing
    BY <1>1, <2>1 DEF Process, Writing
  <2>. QED  BY <1>1, <2>1, <2>2, <2>3, GoesOn
<1>. QED  BY <1>2, <1>3, <1>4

LEMMA Checks ==
  ASSUME SwapInv, NEW e \in Editor, Check(e)
  PROVE  SwapInv'
<1>. DEFINE p == ed[e]
            s == [p EXCEPT !.at = "truncate"]
<1>1. p \in States /\ Process(p, starts) /\ p.alive /\ p.at = "check" /\ UNCHANGED <<disk, files, starts>>
  BY Editors DEF Check, At
<1>2. CASE ~IsOwn(p, files[p.fd])
  BY <1>1, <1>2, Ends DEF Check
<1>3. CASE IsOwn(p, files[p.fd])
  <2>1. /\ s \in States /\ s.at = "truncate" /\ s.fd = p.fd /\ s.name = p.name
        /\ s.alive /\ s.pid = p.pid /\ s.kept = p.kept /\ s.written = p.written
    BY <1>1 DEF States, Calls
  <2>2. Sets(e, s) /\ At(e, "check")
    BY <1>3 DEF Check
  <2>. HIDE DEF s
  <2>3. Process(s, starts)
    BY <1>1, <2>1 DEF Process
  <2>. QED  BY <1>1, <1>3, <2>1, <2>2, <2>3, GoesOn
<1>. QED  BY <1>2, <1>3

\* A change of the buffer.
LEMMA Changes ==
  ASSUME SwapInv, NEW e \in Editor, Edit(e) \/ WriteFile(e)
  PROVE  SwapInv'
<1>1. PICK m \in BOOLEAN : Sets(e, [ed[e] EXCEPT !.modified = m])
  BY DEF Edit, WriteFile
<1>. DEFINE s == [ed[e] EXCEPT !.modified = m]
<1>2. ed[e].alive /\ ed[e].at = "edit" /\ UNCHANGED <<disk, files, starts>>
  BY DEF Edit, WriteFile, At
<1>3. /\ s \in States /\ s.at = "edit" /\ s.fd = ed[e].fd /\ s.name = ed[e].name
      /\ s.alive /\ s.pid = ed[e].pid /\ s.kept = ed[e].kept /\ s.written = ed[e].written
  BY <1>2, Editors DEF States, Calls
<1>4. Sets(e, s)
  BY <1>1
<1>. HIDE DEF s
<1>5. Process(s, starts) /\ s.at \notin Writing
  BY <1>2, <1>3, Editors DEF Process, Writing
<1>. QED  BY <1>2, <1>3, <1>4, <1>5, GoesOn

-----------------------------------------------------------------------------
(* The steps that write.                                                   *)

LEMMA Hands ==
  ASSUME SwapInv, NEW e \in Editor, Writes(e)
  PROVE  /\ ed[e].fd \in Files /\ files[ed[e].fd] \in Blocks /\ files \in Seq(Blocks)
         /\ Held(ed[e], files[ed[e].fd])
         /\ ed[e].pid \in 1..MaxStarts /\ ed[e].pid # 0 /\ ed[e].name # 0
<1>1. ed[e].fd \in Files /\ ed[e].name # 0
  BY Editors DEF Writes, Process, States, Files
<1>2. files \in Seq(Blocks)
  BY DEF SwapInv, Shapes, Blocks
<1>3. files[ed[e].fd] \in Blocks
  BY <1>1, <1>2, ElementOfSeq DEF Files
<1>4. ed[e].pid \in 1..starts /\ starts \in 0..MaxStarts
  BY Editors DEF Writes, Process, SwapInv, Shapes
<1>5. ed[e].pid \in 1..MaxStarts /\ ed[e].pid # 0
  BY <1>4, StartsAssumption
<1>. QED  BY <1>1, <1>2, <1>3, <1>5 DEF SwapInv, InHand

LEMMA Truncates ==
  ASSUME AtMostTwo, SwapInv, NEW e \in Editor, Truncate(e)
  PROVE  SwapInv'
<1>. DEFINE p == ed[e]
            s == [p EXCEPT !.at = "head", !.kept = 0]
<1>1. p.alive /\ p.at = "truncate" /\ Writes(e) /\ UNCHANGED <<disk, starts>>
  BY DEF Truncate, At, Writes
<1>2. /\ p \in States /\ Process(p, starts) /\ p.fd \in Files /\ 0 \in 0..Len(files)
      /\ files' = [files EXCEPT ![p.fd] = Empty] /\ ed' = [ed EXCEPT ![e] = s]
  BY <1>1, Editors, Hands DEF Truncate, Sets, Truncated
<1>3. /\ s \in States /\ s.at = "head" /\ s.kept = 0
      /\ s.alive = p.alive /\ s.pid = p.pid /\ s.name = p.name /\ s.fd = p.fd /\ s.written = p.written
  BY <1>2 DEF States, Calls
<1>4. Empty \in Blocks /\ Empty.head = 0 /\ Empty.body = 0
  BY StartsAssumption DEF Empty, Blocks
<1>. HIDE DEF s, SwapInv
<1>5. Process(s, starts) /\ Held(s, Empty)
  BY <1>1, <1>2, <1>3 DEF Process, Held
<1>. QED  BY <1>1, <1>2, <1>3, <1>4, <1>5, Overwritten

LEMMA HeadWritten ==
  ASSUME AtMostTwo, SwapInv, NEW e \in Editor, WriteHead(e)
  PROVE  SwapInv'
<1>. DEFINE p == ed[e]
            g == [head |-> p.pid, body |-> 0]
            s == [p EXCEPT !.at = "body"]
<1>1. p.alive /\ p.at = "head" /\ Writes(e) /\ UNCHANGED <<disk, starts>>
  BY DEF WriteHead, At, Writes
<1>2. p \in States /\ Process(p, starts) /\ p.fd \in Files /\ p.pid \in 1..MaxStarts /\ p.pid # 0 /\ files[p.fd] = Empty
  BY <1>1, Editors, Hands DEF Held
<1>3. g \in Blocks /\ g.head = p.pid /\ g.body = 0
  BY <1>2, StartsAssumption DEF Blocks
<1>4. files' = [files EXCEPT ![p.fd] = g] /\ ed' = [ed EXCEPT ![e] = s]
  <2>1. [files[p.fd] EXCEPT !.head = p.pid] = g
    BY <1>2 DEF Empty
  <2>. QED  BY <2>1 DEF WriteHead, Sets
<1>5. /\ s \in States /\ s.at = "body" /\ s.kept = p.kept
      /\ s.alive = p.alive /\ s.pid = p.pid /\ s.name = p.name /\ s.fd = p.fd /\ s.written = p.written
  BY <1>2 DEF States, Calls
<1>6. p.kept # 0 => p.kept # p.fd
  <2>1. p.kept # 0 => files[p.kept].head = p.pid
    <3>1. KeptWhole
      BY DEF SwapInv
    <3>2. p.kept # 0 => files[p.kept] = [head |-> p.pid, body |-> p.pid]
      BY <3>1, Zenon DEF KeptWhole
    <3>. HIDE DEF s, g, p
    <3>. QED  BY ONLY <3>2
  <2>2. files[p.fd].head = 0
    BY <1>2 DEF Empty
  <2>. QED  BY <1>2, <2>1, <2>2
<1>7. Held(s, g)
  BY <1>5 DEF Held
<1>. HIDE DEF s, g, SwapInv
<1>8. Process(s, starts)
  BY <1>1, <1>2, <1>5 DEF Process
<1>. QED  BY <1>1, <1>2, <1>3, <1>4, <1>5, <1>6, <1>7, <1>8, Overwritten

LEMMA BodyWritten ==
  ASSUME AtMostTwo, SwapInv, NEW e \in Editor, WriteBody(e)
  PROVE  SwapInv'
<1>. DEFINE p == ed[e]
            g == [head |-> p.pid, body |-> p.pid]
            q == [p EXCEPT !.written = TRUE, !.kept = p.fd]
            s == [q EXCEPT !.at = "edit", !.fd = 0, !.look = 0, !.writing = FALSE]
<1>1. p.alive /\ p.at = "body" /\ Writes(e) /\ UNCHANGED <<disk, starts>>
  BY DEF WriteBody, At, Writes
<1>2. /\ p \in States /\ Process(p, starts) /\ p.fd \in Files /\ p.pid \in 1..MaxStarts /\ p.pid # 0
      /\ p.name # 0 /\ files[p.fd] = [head |-> p.pid, body |-> 0]
      /\ 0 \in 0..Len(files) /\ 0 \in 0..Names
  <2>1. /\ p \in States /\ Process(p, starts) /\ Len(files) \in Nat /\ Names \in Nat
    BY Editors
  <2>. QED  BY <1>1, <2>1, Hands DEF Held
<1>3. g \in Blocks /\ g.head = p.pid /\ g.body = p.pid
  BY <1>2, StartsAssumption DEF Blocks
<1>4. files' = [files EXCEPT ![p.fd] = g] /\ Sets(e, Ended(q)) /\ q.exiting = p.exiting
  <2>1. [files[p.fd] EXCEPT !.body = p.pid] = g
    BY <1>2
  <2>. QED  BY <1>2, <2>1 DEF WriteBody, States
<1>5. CASE p.exiting
  <2>1. ed' = [ed EXCEPT ![e] = Gone] /\ ~Gone.alive /\ Gone.kept = 0 /\ Gone \in States /\ Process(Gone, starts)
    BY <1>4, <1>5, GoneIsState DEF Ended, Sets, SwapInv
  <2>. HIDE DEF s, g, q, SwapInv
  <2>. QED  BY <1>1, <1>3, <1>4, <2>1, Overwritten
<1>6. CASE ~p.exiting
  <2>1. /\ s \in States /\ s.at = "edit" /\ s.kept = p.fd /\ s.fd = 0 /\ s.written = TRUE
        /\ s.alive = p.alive /\ s.pid = p.pid /\ s.name = p.name
    <3>1. p.fd \in 0..Len(files)
      BY <1>2 DEF States
    <3>. QED  BY <1>2, <3>1 DEF States, Calls
  <2>2. ed' = [ed EXCEPT ![e] = s]
    BY <1>4, <1>6 DEF Ended, Sets
  <2>. HIDE DEF s, q, SwapInv
  <2>3. Process(s, starts) /\ s.at \notin Writing
    BY <1>1, <1>2, <2>1 DEF Process, Writing
  <2>. QED  BY <1>1, <1>3, <1>4, <2>1, <2>2, <2>3, Overwritten
<1>. QED  BY <1>5, <1>6

-----------------------------------------------------------------------------
LEMMA SwapInit == Init => SwapInv
<1>. SUFFICES ASSUME Init PROVE SwapInv
  OBVIOUS
<1>1. files \in Seq(Blocks) /\ Len(files) = 0 /\ Files = {}
  BY DEF Init, Files
<1>2. Shapes
  <2>1. Len(files) \in Nat /\ 0 \in 0..MaxStarts /\ 0 \in 0..Names /\ 0 \in 0..Len(files)
    BY <1>1, StartsAssumption, NamesAssumption
  <2>2. Gone \in States
    BY <2>1 DEF Gone, States, Calls
  <2>. QED  BY <1>1, <2>1, <2>2 DEF Init, Shapes, Blocks
<1>3. \A e \in Editor : ed[e] = Gone
  BY DEF Init
<1>4. ~Gone.alive /\ Gone.kept = 0 /\ Process(Gone, starts)
  BY <1>2, GoneIsState
<1>5. Processes /\ Alone /\ InHand /\ KeptWhole
  BY <1>3, <1>4 DEF Processes, Alone, InHand, KeptWhole, Writes
<1>6. OneName /\ OneHand /\ Shared
  BY <1>1 DEF Init, OneName, OneHand, Shared
<1>. QED  BY <1>2, <1>5, <1>6 DEF SwapInv

LEMMA SwapStep == AtMostTwo /\ SwapInv /\ [Next]_vars => SwapInv'
<1>. SUFFICES ASSUME AtMostTwo, SwapInv, [Next]_vars PROVE SwapInv'
  OBVIOUS
<1>1. CASE UNCHANGED vars
  BY <1>1 DEF vars, SwapInv, Shapes, Processes, OneName, OneHand, Shared, Alone, InHand, KeptWhole,
              Files, States, Reaches, Writes
<1>2. ASSUME NEW e \in Editor, Start(e) PROVE SwapInv'
  BY <1>2, Started
<1>3. ASSUME NEW e \in Editor, Crash(e) PROVE SwapInv'
  BY <1>3, Leaves DEF Crash
<1>4. ASSUME NEW e \in Editor, Edit(e) \/ WriteFile(e) PROVE SwapInv'
  BY <1>4, Changes
<1>5. ASSUME NEW e \in Editor, SwapName(e) PROVE SwapInv'
  <2>1. Begun(ed[e], FALSE) = [Begun(ed[e], FALSE) EXCEPT !.exiting = ed[e].exiting] /\ ed[e].exiting \in BOOLEAN
    BY Editors DEF Begun, States
  <2>2. At(e, "edit") /\ Sets(e, Begun(ed[e], FALSE)) /\ UNCHANGED <<disk, files, starts>>
    BY <1>5 DEF SwapName
  <2>. QED  BY <2>1, <2>2, BeginIs
<1>6. ASSUME NEW e \in Editor, Preserve(e) PROVE SwapInv'
  <2>1. Begun(ed[e], TRUE) = [Begun(ed[e], TRUE) EXCEPT !.exiting = ed[e].exiting] /\ ed[e].exiting \in BOOLEAN
    BY Editors DEF Begun, States
  <2>2. At(e, "edit") /\ Sets(e, Begun(ed[e], TRUE)) /\ UNCHANGED <<disk, files, starts>>
    BY <1>6 DEF Preserve
  <2>. QED  BY <2>1, <2>2, BeginIs
<1>7. ASSUME NEW e \in Editor, Exists(e) PROVE SwapInv'
  BY <1>7, Scans
<1>8. ASSUME NEW e \in Editor, Create(e) PROVE SwapInv'
  BY <1>8, Created, Opens
<1>9. ASSUME NEW e \in Editor, Open(e) PROVE SwapInv'
  BY <1>9, Opens
<1>10. ASSUME NEW e \in Editor, Check(e) PROVE SwapInv'
  BY <1>10, Checks
<1>11. ASSUME NEW e \in Editor, Truncate(e) \/ WriteHead(e) \/ WriteBody(e) PROVE SwapInv'
  BY <1>11, Truncates, HeadWritten, BodyWritten
<1>12. ASSUME NEW e \in Editor, WriteFails(e) PROVE SwapInv'
  BY <1>12, Ends DEF WriteFails, At
<1>13. ASSUME NEW e \in Editor, Exit(e) PROVE SwapInv'
  BY <1>13, Leaves DEF Exit
<1>14. ASSUME NEW e \in Editor, PreserveExit(e) PROVE SwapInv'
  <2>1. CASE ed[e].modified
    BY <1>14, <2>1, BeginIs DEF PreserveExit
  <2>2. CASE ~ed[e].modified
    BY <1>14, <2>2, Leaves DEF PreserveExit
  <2>. QED  BY <2>1, <2>2
<1>. QED  BY <1>1, <1>2, <1>3, <1>4, <1>5, <1>6, <1>7, <1>8, <1>9, <1>10, <1>11, <1>12, <1>13, <1>14 DEF Next

(***************************************************************************)
(* With two editors no file has two names, and none joins the blocks of    *)
(* two processes, whatever crashes between the calls of reserve_swapfile   *)
(* and write (swapfile.rs).                                                *)
(***************************************************************************)
THEOREM TypeCorrect == AtMostTwo => (Spec => []TypeOK)
<1>. SUFFICES ASSUME AtMostTwo PROVE Spec => []TypeOK
  OBVIOUS
<1>1. SwapInv /\ [Next]_vars => SwapInv'
  BY SwapStep
<1>2. SwapInv => TypeOK
  <2>. SUFFICES ASSUME SwapInv PROVE TypeOK
    OBVIOUS
  <2>1. ASSUME NEW i \in DOMAIN files
        PROVE  files[i].head \in 0..MaxStarts /\ files[i].body \in {0, files[i].head}
    <3>1. files \in Seq(Blocks) /\ i \in Files
      BY DEF SwapInv, Shapes, Blocks, Files
    <3>2. files[i] \in Blocks
      BY <3>1, ElementOfSeq DEF Files
    <3>. QED  BY <3>1, <3>2 DEF Blocks, SwapInv, OneHand
  <2>2. ASSUME NEW e \in Editor
        PROVE  /\ ed[e].name \in 0..Names /\ ed[e].fd \in 0..Len(files)
               /\ ed[e].pid \in 0..MaxStarts /\ (ed[e].written => ed[e].name # 0)
    BY Editors DEF States, Process
  <2>. QED  BY <2>1, <2>2 DEF TypeOK, SwapInv, Shapes, OneName
<1>. QED  BY SwapInit, <1>1, <1>2, PTL DEF Spec

(***************************************************************************)
(* With two editors the file into which a running one has preserved its    *)
(* text stays whole and its own until it writes it again: the other never  *)
(* reuses it (is_own_swapfile), even after its name was taken away.        *)
(***************************************************************************)
THEOREM PreservedStaysWhole == AtMostTwo => (Spec => []KeptWhole)
<1>. SUFFICES ASSUME AtMostTwo PROVE Spec => []KeptWhole
  OBVIOUS
<1>1. SwapInv /\ [Next]_vars => SwapInv'
  BY SwapStep
<1>2. SwapInv => KeptWhole
  BY DEF SwapInv
<1>. QED  BY SwapInit, <1>1, <1>2, PTL DEF Spec
=============================================================================
