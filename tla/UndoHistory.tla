---------------------------- MODULE UndoHistory ----------------------------
(***************************************************************************)
(* Text, branching undo tree and the 'modified' flag of one buffer:        *)
(* crates/ox-editor/src/buffer.rs (BufferState) over                       *)
(* crates/ox-text/src/undo.rs (UndoTree) and ox-text/src/buffer.rs.        *)
(*                                                                         *)
(* The tree stores no text: a header stores the line edits of one undo     *)
(* block, and undo, redo and undo_to_seq replay them backwards or forwards *)
(* on whatever the buffer holds.  The history variables version and        *)
(* savedLines remember the texts those replays ought to give.              *)
(*                                                                         *)
(* Headers are named by their sequence numbers; a header's index in the    *)
(* node vector is its sequence, both counting from one, and 0 is the root. *)
(* A line-preserving batch records its edits one by one with no sync       *)
(* between them and is that many Edit steps here.  Not here: cursors,      *)
(* marks, extmarks, folds, windows, and prompt lines, which are written    *)
(* behind the tree's back on purpose.                                      *)
(***************************************************************************)
EXTENDS Naturals, Sequences, FiniteSets, SequencesExt

CONSTANTS Line, EMPTY,  \* contents of a line, the empty one among them
          Files,        \* texts a load can bring in
          Drains,       \* whether callers delete every line of a buffer
          MaxLines,     \* bound on the length of the text
          MaxEdits,     \* bound: edits recorded since the last load
          MaxSavedEdits \* the same in histories with saves, forced flags or other eols

Text == [lines : Seq(Line), eol : BOOLEAN]
ASSUME TextAssumption ==
  /\ EMPTY \in Line /\ Files # {} /\ Files \subseteq Text /\ \A t \in Files : t.lines # <<>>
  /\ MaxLines \in Nat

VARIABLES
  buffer,     \* the resident text
  parent,     \* header -> the header or root it was recorded on
  preferred,  \* header or root -> the child redo takes, 0 for none
  edits,      \* header -> the edits of its block, in the order applied
  current,    \* header whose state the buffer is in
  synced,     \* the newest header is closed
  savedAt, savedEol, \* undo state and final end-of-line of the last save
  forced, modified,  \* explicit 'modified', and the flag itself
  version,    \* history: header or root -> the lines it stands for
  savedLines  \* history: the lines last saved or loaded

treeVars == <<parent, preferred, edits, current, synced>>
saveVars == <<savedAt, savedEol, savedLines, forced>>
vars == <<buffer, treeVars, saveVars, modified, version>>

-----------------------------------------------------------------------------
(* Buffer::replace_lines for n > 0 removed lines, append_lines for none: the
   lines ls take the place of the n lines at s.  A text never has no lines;
   one emptied by a deletion keeps an empty line and loses its final eol. *)
Written(t, s, n, ls) ==
  IF n = Len(t.lines) /\ ls = <<>>
  THEN [lines |-> <<EMPTY>>, eol |-> FALSE]
  ELSE [t EXCEPT !.lines = SubSeq(@, 1, s - 1) \o ls \o SubSeq(@, s + n, Len(@))]

\* apply_undo_step: a block is undone from its last edit to its first.
AsApplied(es) == es               \* mutant: undone in the order applied
UndoOrder(es) == Reverse(es)
UndoBlock(t, es) ==
  LET text[k \in 0..Len(es)] ==
        IF k = 0 THEN t
        ELSE LET e == UndoOrder(es)[k]
             IN  Written(text[k - 1], e.start, Len(e.after), e.before)
  IN  text[Len(es)]
RedoBlock(t, es) ==
  LET text[k \in 0..Len(es)] ==
        IF k = 0 THEN t
        ELSE Written(text[k - 1], es[k].start, Len(es[k].before), es[k].after)
  IN  text[Len(es)]

-----------------------------------------------------------------------------
Headers == DOMAIN parent
Children(n) == {c \in Headers : parent[c] = n}
MaxOf(S) == CHOOSE m \in S : \A k \in S : k <= m
Active(n) ==
  IF preferred[n] # 0 \/ Children(n) = {} THEN preferred[n] ELSE MaxOf(Children(n))

\* path_to_root: n and everything above it; links go down in sequence, so
\* from n to the root is from the highest number to the lowest.
PathToRoot(n) ==
  {m \in Headers \union {0} :
     \A S \in SUBSET (Headers \union {0}) :
       n \in S /\ (\A k \in S \ {0} : parent[k] \in S) => m \in S}

\* What undo does to the parent of the header it leaves, and redo_branch to
\* the parent of the header it enters.
Preferring(f, n) == [f EXCEPT ![parent[n]] = n]

ForgetsLength(n, es) == <<n, 0>>   \* mutant: the saved state is a sequence only
UndoState(n, es) == <<n, IF n = 0 THEN 0 ELSE Len(es[n])>>

\* refresh_modified
Refreshed ==
  modified' = (forced \/ UndoState(current', edits') # savedAt \/ buffer'.eol # savedEol)

EmptyTree ==
  /\ parent' = <<>> /\ preferred' = [n \in {0} |-> 0] /\ edits' = <<>>
  /\ current' = 0 /\ synced' = TRUE

Init ==
  /\ buffer \in Files
  /\ parent = <<>> /\ preferred = [n \in {0} |-> 0] /\ edits = <<>>
  /\ current = 0 /\ synced = TRUE
  /\ savedAt = <<0, 0>> /\ savedEol = buffer.eol /\ savedLines = buffer.lines
  /\ forced = FALSE /\ modified = FALSE
  /\ version = [n \in {0} |-> buffer.lines]

-----------------------------------------------------------------------------
Recorded == FoldSeq(LAMBDA es, k : Len(es) + k, 0, edits)
Unsaved == ~forced /\ savedAt = <<0, 0>> /\ buffer.eol = savedEol

JoinBlock(e) ==
  /\ ~synced /\ current # 0
  /\ edits' = [edits EXCEPT ![current] = Append(@, e)]
  /\ version' = [version EXCEPT ![current] = buffer'.lines]
  /\ UNCHANGED <<parent, preferred, current, synced>>

NewBlock(e) ==
  /\ synced \/ current = 0
  /\ parent' = Append(parent, current) /\ edits' = Append(edits, <<e>>)
  /\ current' = Len(parent) + 1 /\ synced' = FALSE
  /\ preferred' = [n \in DOMAIN preferred \union {current'} |->
                     IF n = current THEN current' ELSE IF n = current' THEN 0 ELSE preferred[n]]
  /\ version' = [n \in DOMAIN version \union {current'} |->
                   IF n = current' THEN buffer'.lines ELSE version[n]]

\* replace_lines, append_lines and delete_lines: write the text, record the edit.
Edit(s, n, ls) ==
  /\ Recorded < IF Unsaved THEN MaxEdits ELSE MaxSavedEdits
  /\ n + Len(ls) > 0 /\ s + n - 1 <= Len(buffer.lines)
  /\ Len(buffer.lines) + Len(ls) - n <= MaxLines
  /\ Drains \/ ls # <<>> \/ n < Len(buffer.lines)
  /\ buffer' = Written(buffer, s, n, ls)
  /\ LET e == [start |-> s, before |-> SubSeq(buffer.lines, s, s + n - 1), after |-> ls]
     IN  JoinBlock(e) \/ NewBlock(e)
  /\ Refreshed
  /\ UNCHANGED saveVars

Sync ==
  /\ synced' = TRUE
  /\ UNCHANGED <<buffer, parent, preferred, edits, current, saveVars, modified, version>>

AnyHeader == current # 0             \* mutant: joins below an undone header
Joinable == current # 0 /\ Active(current) = 0
Undojoin ==
  /\ synced /\ Joinable
  /\ synced' = FALSE
  /\ UNCHANGED <<buffer, parent, preferred, edits, current, saveVars, modified, version>>

Undo ==
  /\ current # 0
  /\ buffer' = UndoBlock(buffer, edits[current])
  /\ preferred' = Preferring(preferred, current)
  /\ current' = parent[current] /\ synced' = TRUE
  /\ UNCHANGED <<parent, edits, saveVars, version>>
  /\ Refreshed

Redo ==
  /\ Active(current) # 0
  /\ buffer' = RedoBlock(buffer, edits[Active(current)])
  /\ preferred' = Preferring(preferred, Active(current))
  /\ current' = Active(current) /\ synced' = TRUE
  /\ UNCHANGED <<parent, edits, saveVars, version>>
  /\ Refreshed

(***************************************************************************)
(* undo_to_seq: undo the headers left on the way up to the deepest common  *)
(* ancestor, then redo those entered on the way down to the target, which  *)
(* leaves every child passed preferred, the one entered over the one left. *)
(* Without a single step none of what undo and redo do happens.            *)
(***************************************************************************)
Left(n) == PathToRoot(current) \ PathToRoot(n)
Entered(n) == PathToRoot(n) \ PathToRoot(current)
PreferredAfter(n) ==
  [m \in DOMAIN preferred |->
     LET down == Children(m) \intersect Entered(n)
         up == Children(m) \intersect Left(n)
     IN  CASE down # {} -> CHOOSE c \in down : TRUE
           [] down = {} /\ up # {} -> CHOOSE c \in up : TRUE
           [] OTHER -> preferred[m]]
ClosedBy(n) == synced \/ n # current

\* The text at the top of the climb, the highest number undone first, and at
\* the end of the descent.
Climbed(n) ==
  LET left == Left(n)
      text[k \in 0..Len(parent)] ==
        IF k = 0 THEN buffer
        ELSE LET h == Len(parent) - k + 1
             IN  IF h \in left THEN UndoBlock(text[k - 1], edits[h]) ELSE text[k - 1]
  IN  text[Len(parent)]
Descended(n) ==
  LET entered == Entered(n)
      text[k \in 0..Len(parent)] ==
        IF k = 0 THEN Climbed(n)
        ELSE IF k \in entered THEN RedoBlock(text[k - 1], edits[k]) ELSE text[k - 1]
  IN  text[Len(parent)]

UndoToSeq(n) ==
  /\ buffer' = Descended(n)
  /\ preferred' = PreferredAfter(n)
  /\ current' = n /\ synced' = ClosedBy(n)
  /\ UNCHANGED <<parent, edits, saveVars, version>>
  /\ IF n = current THEN modified' = modified ELSE Refreshed

SetEol(b) ==
  /\ Recorded <= MaxSavedEdits
  /\ buffer' = [buffer EXCEPT !.eol = b]
  /\ UNCHANGED <<treeVars, saveVars, version>>
  /\ Refreshed

MarkModified ==
  /\ Recorded <= MaxSavedEdits
  /\ forced' = TRUE /\ modified' = TRUE
  /\ UNCHANGED <<buffer, treeVars, savedAt, savedEol, savedLines, version>>

MarkSaved ==
  /\ Recorded <= MaxSavedEdits
  /\ forced' = FALSE /\ modified' = FALSE
  /\ savedAt' = UndoState(current, edits) /\ savedEol' = buffer.eol
  /\ savedLines' = buffer.lines
  /\ UNCHANGED <<buffer, treeVars, version>>

\* load: the first read of a buffer and the re-read of :edit!.
Load(t) ==
  /\ buffer' = t /\ EmptyTree
  /\ savedAt' = <<0, 0>> /\ savedEol' = t.eol /\ savedLines' = t.lines
  /\ modified' = FALSE
  /\ version' = [n \in {0} |-> t.lines]
  /\ UNCHANGED forced

Next ==
  \/ \E s \in 1..(MaxLines + 1), n \in 0..MaxLines, ls \in BoundedSeq(Line, MaxLines) :
       Edit(s, n, ls)
  \/ Sync \/ Undojoin \/ Undo \/ Redo
  \/ \E n \in 0..Len(parent) : UndoToSeq(n)
  \/ \E b \in BOOLEAN : SetEol(b)
  \/ MarkModified \/ MarkSaved
  \/ \E t \in Files : Load(t)

Spec == Init /\ [][Next]_vars

-----------------------------------------------------------------------------
(* header_records and undotree(): the links undo files and scripts see *)

Inactive(n) == Children(n) \ {Active(n)}
OffNewest(h) ==          \* mutant: siblings hang off the newest child, not the active one
  LET older == {c \in Children(parent[h]) : c < h} IN IF older = {} THEN 0 ELSE MaxOf(older \union {0})
AltNext(h) ==
  LET older == {c \in Inactive(parent[h]) : h = Active(parent[h]) \/ c < h}
  IN  IF older = {} THEN 0 ELSE MaxOf(older)
AltPrev(h) ==
  LET newer == {c \in Inactive(parent[h]) : c > h}
  IN  CASE h = Active(parent[h]) -> 0
        [] h # Active(parent[h]) /\ newer = {} -> Active(parent[h])
        [] OTHER -> CHOOSE m \in newer : \A k \in newer : m <= k

-----------------------------------------------------------------------------
(***************************************************************************)
(* Whatever route of undo, redo and undo_to_seq across branches led to it, *)
(* the buffer in the state of a header holds the lines that header had     *)
(* when it was recorded: replaying edits loses and invents nothing.        *)
(***************************************************************************)
TextIsVersion == buffer.lines = version[current]

(***************************************************************************)
(* A buffer that is not 'modified' holds exactly what was saved, also when *)
(* the save fell inside an open block, on another branch, or before an     *)
(* undojoin.                                                               *)
(***************************************************************************)
SavedMeansClean ==
  ~modified => buffer.lines = savedLines /\ buffer.eol = savedEol

(***************************************************************************)
(* A block that can still grow has no header recorded on top of it: an     *)
(* edit never changes the text other headers were recorded against.        *)
(***************************************************************************)
OpenIsLeaf == ~synced => current # 0 /\ Children(current) = {}

(***************************************************************************)
(* The links of header_records make one list of the whole tree: following  *)
(* prev and alt_next from the oldest active header reaches every header,   *)
(* and alt_prev undoes alt_next.                                           *)
(***************************************************************************)
LinksReachAll ==
  /\ \A S \in SUBSET Headers :
       /\ Active(0) \in S \union {0}
       /\ \A h \in S : Active(h) \in S \union {0} /\ AltNext(h) \in S \union {0}
       => S = Headers
  /\ \A g, h \in Headers : AltNext(g) = h <=> AltPrev(h) = g
=============================================================================
