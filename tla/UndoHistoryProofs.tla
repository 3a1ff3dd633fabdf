------------------------- MODULE UndoHistoryProofs -------------------------
(***************************************************************************)
(* Theorems about the shape of the undo tree and the texts it gives back.  *)
(*                                                                         *)
(* OpenIsLeaf is not inductive by itself: undojoin looks at the preferred  *)
(* child only, so one must know that a node without a preferred child has  *)
(* no child at all, and that a new header cannot already be somebody's     *)
(* parent.  The same invariant is all that the links of header_records     *)
(* need to make one list of the tree: of the children of a node the active *)
(* one comes first, then the others from the newest to the oldest          *)
(* (Precedes).                                                             *)
(*                                                                         *)
(* TextIsVersion rests on what the edits of a header say about the texts   *)
(* of the header and of its parent: there is a chain of texts from the one *)
(* to the other, each edit a splice that fits the text before it           *)
(* (BlockOf).  A splice is undone by the exchanged splice (SpliceBack),    *)
(* so replaying a block leads along its chain, and a jump leads along the  *)
(* path to the root up to what the two paths share and down the other      *)
(* (RouteStep).  For SavedMeansClean one must know besides that a block    *)
(* never gets shorter, so that the length it had at a save marks the text  *)
(* that was saved (SavedInv).                                              *)
(***************************************************************************)
EXTENDS UndoHistory, NaturalsInduction, WellFoundedInduction, SequenceTheorems, TLAPS

Numbered ==
  /\ parent \in Seq(Nat) /\ \A n \in 1..Len(parent) : parent[n] < n
  /\ current \in 0..Len(parent) /\ synced \in BOOLEAN

PreferredCovers ==
  /\ DOMAIN preferred = 0..Len(parent)
  /\ \A n \in 0..Len(parent) : IF preferred[n] = 0 THEN Children(n) = {}
                                                 ELSE preferred[n] \in Children(n)

TreeInv == Numbered /\ PreferredCovers /\ OpenIsLeaf

LEMMA HeadersAreNumbers ==
  ASSUME Numbered
  PROVE  Headers = 1..Len(parent) /\ Len(parent) \in Nat
BY DEF Numbered, Headers

(***************************************************************************)
(* A node redo cannot leave forwards is a leaf.                            *)
(***************************************************************************)
LEMMA NoActiveNoChildren ==
  ASSUME TreeInv, NEW n \in 0..Len(parent), Active(n) = 0
  PROVE  Children(n) = {}
BY DEF TreeInv, PreferredCovers, Active

(***************************************************************************)
(* What redo follows is a child: the fallback of redo is never needed.     *)
(***************************************************************************)
LEMMA ActiveIsChild ==
  ASSUME TreeInv, NEW n \in 0..Len(parent), Active(n) # 0
  PROVE  Active(n) \in Children(n)
BY DEF TreeInv, PreferredCovers, Active

(***************************************************************************)
(* A child is a header, and headers count from one.                        *)
(***************************************************************************)
LEMMA ChildIsHeader ==
  ASSUME Numbered, NEW n, NEW c \in Children(n)
  PROVE  c \in 1..Len(parent) /\ c # 0 /\ parent[c] = n
BY HeadersAreNumbers DEF Children

-----------------------------------------------------------------------------
LEMMA InitTree == ASSUME Init PROVE TreeInv
BY DEF Init, TreeInv, Numbered, PreferredCovers, OpenIsLeaf, Children, Headers

(***************************************************************************)
(* The steps that leave the tree as it is, up to its open flag.            *)
(***************************************************************************)
LEMMA SameTree ==
  ASSUME TreeInv, UNCHANGED <<parent, preferred, current>>, synced' \in BOOLEAN,
         synced' \/ synced' = synced \/ (current # 0 /\ Children(current) = {})
  PROVE  TreeInv'
BY DEF TreeInv, Numbered, PreferredCovers, OpenIsLeaf, Children, Headers

(***************************************************************************)
(* Moving in the tree: only preferred children are rewritten, each by a    *)
(* header, and the block is closed unless nothing moved.                   *)
(***************************************************************************)
LEMMA MovedTree ==
  ASSUME TreeInv, UNCHANGED parent, current' \in 0..Len(parent), synced' \in BOOLEAN,
         DOMAIN preferred' = DOMAIN preferred,
         \A n \in DOMAIN preferred : preferred'[n] = preferred[n] \/ preferred'[n] \in Children(n),
         synced' \/ (current' = current /\ synced' = synced)
  PROVE  TreeInv'
<1>1. Numbered'
  BY DEF TreeInv, Numbered
<1>2. \A n : Children(n)' = Children(n)
  BY DEF Children, Headers
<1>3. PreferredCovers'
  <2>1. \A n \in 0..Len(parent) : IF preferred'[n] = 0 THEN Children(n) = {}
                                                   ELSE preferred'[n] \in Children(n)
    <3> SUFFICES ASSUME NEW n \in 0..Len(parent)
                 PROVE  IF preferred'[n] = 0 THEN Children(n) = {}
                                             ELSE preferred'[n] \in Children(n)
      OBVIOUS
    <3>1. \A c \in Children(n) : c # 0
      BY ChildIsHeader DEF TreeInv
    <3> QED BY <3>1 DEF TreeInv, PreferredCovers
  <2> QED BY <1>2, <2>1 DEF TreeInv, PreferredCovers
<1>4. OpenIsLeaf'
  BY <1>2 DEF TreeInv, Numbered, OpenIsLeaf
<1> QED BY <1>1, <1>3, <1>4 DEF TreeInv

LEMMA NewBlockTree ==
  ASSUME TreeInv, NEW e, NewBlock(e)
  PROVE  TreeInv'
<1>1. /\ parent \in Seq(Nat) /\ Len(parent) \in Nat /\ current \in 0..Len(parent)
      /\ \A n \in 1..Len(parent) : parent[n] \in Nat /\ parent[n] < n
  BY DEF TreeInv, Numbered
<1> PICK old \in Nat : old = current
  BY <1>1
<1> PICK new \in Nat : new = Len(parent) + 1
  BY <1>1
<1>2. /\ parent' = Append(parent, old)
      /\ current' = new /\ synced' = FALSE
      /\ preferred' = [n \in DOMAIN preferred \union {new} |->
                         IF n = old THEN new ELSE IF n = new THEN 0 ELSE preferred[n]]
  BY DEF NewBlock
<1>3. /\ parent' \in Seq(Nat) /\ Len(parent') = new
      /\ \A n \in 1..Len(parent) : parent'[n] = parent[n]
      /\ parent'[new] = old
  BY <1>1, <1>2
<1>4. Headers = 1..Len(parent) /\ Headers' = 1..new
  BY <1>1, <1>3 DEF Headers
<1>5. Numbered'
  <2>1. \A n \in 1..new : parent'[n] < n
    BY <1>1, <1>3
  <2>2. current' \in 0..Len(parent')
    BY <1>2, <1>3
  <2>3. synced' \in BOOLEAN
    BY <1>2
  <2> QED BY <1>3, <2>1, <2>2, <2>3 DEF Numbered
<1>6. \A n \in 0..Len(parent) : n # old => Children(n)' = Children(n)
  BY <1>1, <1>3, <1>4 DEF Children
<1>7. Children(new)' = {}
  BY <1>1, <1>3, <1>4 DEF Children
<1>8. new \in Children(old)'
  BY <1>3, <1>4 DEF Children
<1>9. PreferredCovers'
  <2>1. DOMAIN preferred' = 0..new
    BY <1>1, <1>2 DEF TreeInv, PreferredCovers
  <2>2. \A n \in 0..new : IF preferred'[n] = 0 THEN Children(n)' = {}
                                            ELSE preferred'[n] \in Children(n)'
    <3> SUFFICES ASSUME NEW n \in 0..new
                 PROVE  IF preferred'[n] = 0 THEN Children(n)' = {}
                                             ELSE preferred'[n] \in Children(n)'
      OBVIOUS
    <3>1. CASE n = new
      <4>1. preferred'[new] = 0
        BY <1>1, <1>2 DEF TreeInv, PreferredCovers
      <4> QED BY <3>1, <4>1, <1>7
    <3>2. CASE n = old
      <4>1. preferred'[old] = new
        BY <1>1, <1>2 DEF TreeInv, PreferredCovers
      <4> QED BY <3>2, <4>1, <1>8
    <3>3. CASE n # new /\ n # old
      <4>1. n \in 0..Len(parent) /\ preferred'[n] = preferred[n]
        BY <3>3, <1>1, <1>2 DEF TreeInv, PreferredCovers
      <4> QED BY <3>3, <4>1, <1>6 DEF TreeInv, PreferredCovers
    <3> QED BY <3>1, <3>2, <3>3
  <2> QED BY <2>1, <2>2, <1>3 DEF PreferredCovers
<1>10. OpenIsLeaf'
  <2>1. Children(current)' = Children(new)'
    BY <1>2 DEF Children
  <2> QED BY <1>2, <1>7, <2>1 DEF OpenIsLeaf
<1> QED BY <1>5, <1>9, <1>10 DEF TreeInv

LEMMA LoadTree == ASSUME EmptyTree PROVE TreeInv'
BY DEF EmptyTree, TreeInv, Numbered, PreferredCovers, OpenIsLeaf, Children, Headers

-----------------------------------------------------------------------------
LEMMA NextTree == ASSUME TreeInv, [Next]_vars PROVE TreeInv'
<1> USE DEF Numbered
<1>1. ASSUME NEW s, NEW n, NEW ls, Edit(s, n, ls) PROVE TreeInv'
  <2> PICK e : JoinBlock(e) \/ NewBlock(e)
    BY <1>1 DEF Edit
  <2>1. CASE JoinBlock(e)
    BY <2>1, SameTree DEF JoinBlock, TreeInv
  <2>2. CASE NewBlock(e)
    BY <2>2, NewBlockTree
  <2> QED BY <2>1, <2>2
<1>2. CASE Sync
  BY <1>2, SameTree DEF Sync
<1>3. CASE Undojoin
  <2>1. current # 0 /\ Children(current) = {}
    BY <1>3, NoActiveNoChildren DEF Undojoin, Joinable, TreeInv
  <2> QED BY <1>3, <2>1, SameTree DEF Undojoin
<1>4. CASE Undo
  <2>1. /\ current \in 1..Len(parent) /\ parent[current] \in 0..Len(parent)
        /\ current \in Children(parent[current])
    BY <1>4 DEF Undo, TreeInv, Children, Headers
  <2>2. preferred' = [preferred EXCEPT ![parent[current]] = current]
    BY <1>4 DEF Undo, Preferring
  <2>3. \A m \in DOMAIN preferred : preferred'[m] = preferred[m] \/ preferred'[m] \in Children(m)
    BY <2>1, <2>2
  <2>4. /\ UNCHANGED parent /\ current' = parent[current] /\ synced' = TRUE
        /\ DOMAIN preferred' = DOMAIN preferred
    BY <1>4, <2>2 DEF Undo
  <2> QED BY <2>1, <2>3, <2>4, MovedTree
<1>5. CASE Redo
  <2> DEFINE a == Active(current)
  <2>1. a \in Children(current) /\ a \in 1..Len(parent) /\ a \in Children(parent[a])
    <3>1. a \in Children(current)
      BY <1>5, ActiveIsChild DEF Redo, TreeInv
    <3> QED BY <3>1, ChildIsHeader DEF TreeInv
  <2>2. preferred' = [preferred EXCEPT ![parent[a]] = a]
    BY <1>5 DEF Redo, Preferring
  <2>3. \A m \in DOMAIN preferred : preferred'[m] = preferred[m] \/ preferred'[m] \in Children(m)
    BY <2>1, <2>2
  <2>4. /\ UNCHANGED parent /\ current' = a /\ synced' = TRUE
        /\ DOMAIN preferred' = DOMAIN preferred
    BY <1>5, <2>2 DEF Redo
  <2> QED BY <2>1, <2>3, <2>4, MovedTree
<1>6. ASSUME NEW n \in 0..Len(parent), UndoToSeq(n) PROVE TreeInv'
  <2>1. \A m \in DOMAIN preferred : preferred'[m] = preferred[m] \/ preferred'[m] \in Children(m)
    <3> SUFFICES ASSUME NEW m \in DOMAIN preferred
                 PROVE  preferred'[m] = preferred[m] \/ preferred'[m] \in Children(m)
      OBVIOUS
    <3> DEFINE down == Children(m) \intersect Entered(n)
               up == Children(m) \intersect Left(n)
    <3>1. preferred'[m] = CASE down # {} -> CHOOSE c \in down : TRUE
                            [] down = {} /\ up # {} -> CHOOSE c \in up : TRUE
                            [] OTHER -> preferred[m]
      BY <1>6 DEF UndoToSeq, PreferredAfter
    <3>2. down \subseteq Children(m) /\ up \subseteq Children(m)
      OBVIOUS
    <3>3. CASE down # {}
      <4> HIDE DEF down, up
      <4>1. (CHOOSE c \in down : TRUE) \in down
        BY <3>3
      <4> QED BY <3>1, <3>2, <3>3, <4>1
    <3>4. CASE down = {} /\ up # {}
      <4> HIDE DEF down, up
      <4>1. (CHOOSE c \in up : TRUE) \in up
        BY <3>4
      <4> QED BY <3>1, <3>2, <3>4, <4>1
    <3>5. CASE down = {} /\ up = {}
      <4> HIDE DEF down, up
      <4> QED BY <3>1, <3>5
    <3> QED BY <3>3, <3>4, <3>5
  <2>2. /\ UNCHANGED parent /\ current' = n /\ synced' = (synced \/ n # current)
        /\ DOMAIN preferred' = DOMAIN preferred
    BY <1>6 DEF UndoToSeq, ClosedBy, PreferredAfter
  <2>3. synced' \in BOOLEAN /\ (synced' \/ (current' = current /\ synced' = synced))
    BY <2>2 DEF TreeInv
  <2> QED BY <2>1, <2>2, <2>3, MovedTree
<1>7. ASSUME NEW b, SetEol(b) PROVE TreeInv'
  BY <1>7, SameTree DEF SetEol, treeVars, TreeInv
<1>8. CASE MarkModified
  BY <1>8, SameTree DEF MarkModified, treeVars, TreeInv
<1>9. CASE MarkSaved
  BY <1>9, SameTree DEF MarkSaved, treeVars, TreeInv
<1>10. ASSUME NEW t, Load(t) PROVE TreeInv'
  BY <1>10, LoadTree DEF Load
<1>11. CASE UNCHANGED vars
  BY <1>11, SameTree DEF vars, treeVars, TreeInv
<1> QED
  BY <1>1, <1>2, <1>3, <1>4, <1>5, <1>6, <1>7, <1>8, <1>9, <1>10, <1>11 DEF Next

(***************************************************************************)
(* In every reachable state a block that can still grow has no header on   *)
(* top of it: record and undojoin never reopen a header that other headers *)
(* were recorded against.                                                  *)
(***************************************************************************)
THEOREM OpenBlockIsLeaf == Spec => []OpenIsLeaf
<1>1. Init => TreeInv
  BY InitTree
<1>2. TreeInv /\ [Next]_vars => TreeInv'
  BY NextTree
<1>3. TreeInv => OpenIsLeaf
  BY DEF TreeInv
<1> QED BY <1>1, <1>2, <1>3, PTL DEF Spec

-----------------------------------------------------------------------------
(* Sets of headers have a least and a greatest member. *)
LEMMA LeastHeader ==
  ASSUME NEW S, S \subseteq Nat, S # {}
  PROVE  \E m \in S : \A k \in S : m <= k
<1>1. PICK m \in S : \A k \in S : ~(<<k, m>> \in OpToRel(<, Nat))
  BY NatLessThanWellFounded, WFMin
<1>2. \A k \in S : ~(k < m)
  BY <1>1 DEF OpToRel
<1>. QED  BY <1>2

LEMMA GreatestHeader ==
  ASSUME NEW N \in Nat, NEW S, S \subseteq 1..N, S # {}
  PROVE  \E m \in S : \A k \in S : k <= m
<1>. DEFINE T == {N - k : k \in S}
<1>1. T \subseteq Nat /\ T # {}
  <2>1. \A k \in S : N - k \in Nat
    OBVIOUS
  <2>2. T # {}
    OBVIOUS
  <2>. QED  BY <2>1, <2>2
<1>2. PICK t \in T : \A k \in T : t <= k
  <2>. HIDE DEF T
  <2>. QED  BY <1>1, LeastHeader
<1>3. PICK m \in S : t = N - m
  OBVIOUS
<1>4. ASSUME NEW k \in S PROVE k <= m
  <2>1. N - k \in T
    OBVIOUS
  <2>2. N - m <= N - k
    BY <1>2, <1>3, <2>1
  <2>. QED  BY <2>2
<1>. QED  BY <1>4

LEMMA MaxOfIs ==
  ASSUME NEW N \in Nat, NEW S, S \subseteq 0..N, NEW m \in S, \A k \in S : k <= m
  PROVE  MaxOf(S) = m
<1>1. \A n \in S : (\A k \in S : k <= n) => n = m
  OBVIOUS
<1>. QED  BY <1>1 DEF MaxOf

(* Of the siblings of a header the active one comes first in the list,     *)
(* then the others from the newest to the oldest.                          *)
Precedes(g, h, n) ==
  /\ h \in Inactive(n)
  /\ \/ g = Active(n) /\ \A c \in Inactive(n) : c <= h
     \/ /\ g \in Inactive(n) /\ h < g
        /\ \A c \in Inactive(n) : c < g => c <= h

LEMMA Siblings ==
  ASSUME TreeInv, NEW n \in 0..Len(parent)
  PROVE  /\ Len(parent) \in Nat /\ Headers = 1..Len(parent)
         /\ Children(n) \subseteq 1..Len(parent) /\ Inactive(n) \subseteq Children(n)
         /\ \A c \in Children(n) : parent[c] = n
         /\ Children(n) # {} => Active(n) \in Children(n)
         /\ Active(n) \notin Inactive(n)
<1>1. Len(parent) \in Nat /\ Headers = 1..Len(parent)
  BY HeadersAreNumbers DEF TreeInv
<1>2. Children(n) # {} => Active(n) \in Children(n)
  BY ActiveIsChild, NoActiveNoChildren
<1>. QED  BY <1>1, <1>2 DEF Children, Inactive

LEMMA ParentIsNode ==
  ASSUME TreeInv, NEW h \in Headers
  PROVE  /\ h \in 1..Len(parent) /\ parent[h] \in 0..Len(parent) /\ parent[h] < h
         /\ h \in Children(parent[h])
<1>1. Len(parent) \in Nat /\ Headers = 1..Len(parent)
  BY HeadersAreNumbers DEF TreeInv
<1>2. parent[h] \in Nat /\ parent[h] < h
  BY <1>1 DEF TreeInv, Numbered
<1>. QED  BY <1>1, <1>2 DEF Children

LEMMA AltNextIs ==
  ASSUME TreeInv, NEW n \in 0..Len(parent), NEW g \in Children(n), NEW h \in Headers
  PROVE  AltNext(g) = h <=> Precedes(g, h, n)
<1>. DEFINE older == {c \in Inactive(n) : g = Active(n) \/ c < g}
<1>1. /\ Len(parent) \in Nat /\ Headers = 1..Len(parent) /\ parent[g] = n /\ g \in 1..Len(parent)
      /\ Inactive(n) \subseteq 1..Len(parent) /\ Active(n) \notin Inactive(n)
      /\ g # Active(n) => g \in Inactive(n)
  BY Siblings DEF Inactive
<1>2. AltNext(g) = IF older = {} THEN 0 ELSE MaxOf(older)
  BY <1>1 DEF AltNext
<1>3. older \subseteq 1..Len(parent) /\ older \subseteq 0..Len(parent)
  BY <1>1
<1>4. h # 0 /\ h \in Nat
  BY <1>1
<1>5. ASSUME AltNext(g) = h PROVE h \in older /\ \A c \in older : c <= h
  <2>1. older # {} /\ h = MaxOf(older)
    BY <1>2, <1>4, <1>5
  <2>. HIDE DEF older
  <2>2. PICK m \in older : \A k \in older : k <= m
    BY <1>1, <1>3, <2>1, GreatestHeader
  <2>3. MaxOf(older) = m
    BY <1>1, <1>3, <2>2, MaxOfIs
  <2>. QED  BY <2>1, <2>2, <2>3
<1>6. ASSUME h \in older, \A c \in older : c <= h PROVE AltNext(g) = h
  <2>. HIDE DEF older
  <2>1. MaxOf(older) = h
    BY <1>1, <1>3, <1>6, MaxOfIs
  <2>. QED  BY <1>2, <1>6, <2>1
<1>7. (h \in older /\ \A c \in older : c <= h) <=> Precedes(g, h, n)
  BY <1>1 DEF Precedes
<1>. QED  BY <1>5, <1>6, <1>7

LEMMA AltPrevIs ==
  ASSUME TreeInv, NEW n \in 0..Len(parent), NEW h \in Children(n), NEW g \in Headers
  PROVE  AltPrev(h) = g <=> g \in Children(n) /\ Precedes(g, h, n)
<1>. DEFINE newer == {c \in Inactive(n) : c > h}
            least == CHOOSE m \in newer : \A k \in newer : m <= k
<1>1. /\ Len(parent) \in Nat /\ Headers = 1..Len(parent) /\ parent[h] = n /\ h \in 1..Len(parent)
      /\ Inactive(n) \subseteq 1..Len(parent) /\ Active(n) \notin Inactive(n)
      /\ Inactive(n) \subseteq Children(n) /\ Active(n) \in Children(n)
      /\ h # Active(n) => h \in Inactive(n)
  BY Siblings DEF Inactive
<1>2. /\ h = Active(n) => AltPrev(h) = 0
      /\ h # Active(n) /\ newer = {} => AltPrev(h) = Active(n)
      /\ h # Active(n) /\ newer # {} => AltPrev(h) = least
  BY <1>1 DEF AltPrev
<1>3. g \in Nat /\ g # 0
  BY <1>1
<1>4. CASE h = Active(n)
  BY <1>1, <1>2, <1>3, <1>4 DEF Precedes
<1>5. CASE h # Active(n) /\ newer = {}
  <2>1. \A c \in Inactive(n) : c <= h
    BY <1>1, <1>5
  <2>2. Precedes(Active(n), h, n) /\ h \in Inactive(n)
    BY <1>1, <1>5, <2>1 DEF Precedes
  <2>3. Precedes(g, h, n) => g = Active(n)
    BY <1>5, <1>1 DEF Precedes
  <2>. QED  BY <1>1, <1>2, <1>5, <2>2, <2>3
<1>6. CASE h # Active(n) /\ newer # {}
  <2>1. newer \subseteq Nat
    BY <1>1
  <2>2. PICK m \in newer : \A k \in newer : m <= k
    <3>. HIDE DEF newer
    <3>. QED  BY <1>6, <2>1, LeastHeader
  <2>3. least = m
    <3>1. \A k \in newer : (\A c \in newer : k <= c) => k = m
      BY <2>1, <2>2
    <3>. HIDE DEF newer
    <3>. QED  BY <2>2, <3>1
  <2>4. Precedes(m, h, n)
    BY <1>1, <1>6, <2>2 DEF Precedes
  <2>5. Precedes(g, h, n) => g = m
    <3>1. ASSUME Precedes(g, h, n) PROVE g = m
      <4>1. g # Active(n)
        BY <1>1, <2>2, <3>1 DEF Precedes
      <4>2. g \in newer /\ ~(m < g)
        BY <1>1, <2>2, <3>1, <4>1 DEF Precedes
      <4>. QED  BY <1>1, <2>1, <2>2, <4>2
    <3>. QED  BY <3>1
  <2>6. m \in Children(n)
    BY <1>1, <2>2
  <2>. QED  BY <1>2, <1>6, <2>3, <2>4, <2>5, <2>6
<1>. QED  BY <1>4, <1>5, <1>6

(* The children of a node that the list reaches are all in it. *)
LEMMA ChildrenReached ==
  ASSUME TreeInv, NEW S \in SUBSET Headers, NEW n \in 0..Len(parent), Active(n) \in S \union {0},
         \A h \in S : AltNext(h) \in S \union {0}
  PROVE  Children(n) \subseteq S
<1>1. /\ Len(parent) \in Nat /\ Headers = 1..Len(parent) /\ Children(n) \subseteq 1..Len(parent)
      /\ Inactive(n) \subseteq Children(n) /\ Active(n) \notin Inactive(n)
      /\ Inactive(n) = Children(n) \ {Active(n)}
      /\ Children(n) # {} => Active(n) \in Children(n)
  BY Siblings DEF Inactive
<1>. SUFFICES ASSUME Children(n) \ S # {} PROVE FALSE
  OBVIOUS
<1>2. PICK h \in Children(n) \ S : \A k \in Children(n) \ S : k <= h
  BY <1>1, GreatestHeader
<1>3. Active(n) \in S /\ Active(n) \in Children(n) /\ h \in Inactive(n)
  BY <1>1, <1>2
<1>4. \E g \in S : g \in Children(n) /\ Precedes(g, h, n)
  <2>. DEFINE newer == {c \in Inactive(n) : c > h}
  <2>1. CASE newer = {}
    <3>1. \A c \in Inactive(n) : c <= h
      BY <1>1, <2>1
    <3>. QED  BY <1>3, <3>1 DEF Precedes
  <2>2. CASE newer # {}
    <3>1. newer \subseteq Nat
      BY <1>1
    <3>2. PICK g \in newer : \A k \in newer : g <= k
      <4>. HIDE DEF newer
      <4>. QED  BY <2>2, <3>1, LeastHeader
    <3>3. g \in S /\ g \in Children(n)
      BY <1>1, <1>2, <3>2
    <3>4. Precedes(g, h, n)
      BY <1>1, <1>3, <3>2 DEF Precedes
    <3>. QED  BY <3>3, <3>4
  <2>. QED  BY <2>1, <2>2
<1>5. PICK g \in S : g \in Children(n) /\ Precedes(g, h, n)
  BY <1>4
<1>6. h \in Headers /\ h # 0
  BY <1>1, <1>2
<1>7. AltNext(g) = h
  BY <1>5, <1>6, AltNextIs
<1>. QED  BY <1>2, <1>5, <1>6, <1>7

LEMMA LinksReach == TreeInv => LinksReachAll
<1>. SUFFICES ASSUME TreeInv PROVE LinksReachAll
  OBVIOUS
<1>1. ASSUME NEW S \in SUBSET Headers, Active(0) \in S \union {0},
             \A h \in S : Active(h) \in S \union {0} /\ AltNext(h) \in S \union {0}
      PROVE  S = Headers
  <2>0. Len(parent) \in Nat /\ Headers = 1..Len(parent)
    BY HeadersAreNumbers DEF TreeInv
  <2>. SUFFICES ASSUME Headers \ S # {} PROVE FALSE
    OBVIOUS
  <2>1. PICK h \in Headers \ S : \A k \in Headers \ S : h <= k
    <3>. DEFINE R == Headers \ S
    <3>1. R \subseteq Nat /\ R # {}
      BY <2>0
    <3>. HIDE DEF R
    <3>2. \E h \in R : \A k \in R : h <= k
      BY <3>1, LeastHeader
    <3>. QED  BY <3>2 DEF R
  <2>2. parent[h] \in 0..Len(parent) /\ parent[h] < h /\ h \in Children(parent[h])
    BY <2>1, ParentIsNode
  <2>3. parent[h] \in S \union {0}
    BY <2>0, <2>1, <2>2
  <2>4. Active(parent[h]) \in S \union {0}
    BY <1>1, <2>3
  <2>5. Children(parent[h]) \subseteq S
    BY <1>1, <2>2, <2>4, ChildrenReached
  <2>. QED  BY <2>1, <2>2, <2>5
<1>2. ASSUME NEW g \in Headers, NEW h \in Headers
      PROVE  AltNext(g) = h <=> AltPrev(h) = g
  <2>1. ASSUME AltNext(g) = h PROVE AltPrev(h) = g
    <3>1. parent[g] \in 0..Len(parent) /\ g \in Children(parent[g])
      BY ParentIsNode
    <3>2. Precedes(g, h, parent[g])
      BY <2>1, <3>1, AltNextIs
    <3>3. h \in Children(parent[g])
      BY <3>1, <3>2 DEF Precedes, Inactive
    <3>. QED  BY <3>1, <3>2, <3>3, AltPrevIs
  <2>2. ASSUME AltPrev(h) = g PROVE AltNext(g) = h
    <3>1. parent[h] \in 0..Len(parent) /\ h \in Children(parent[h])
      BY ParentIsNode
    <3>2. g \in Children(parent[h]) /\ Precedes(g, h, parent[h])
      BY <2>2, <3>1, AltPrevIs
    <3>. QED  BY <3>1, <3>2, AltNextIs
  <2>. QED  BY <2>1, <2>2
<1>. QED  BY <1>1, <1>2 DEF LinksReachAll

(***************************************************************************)
(* In every tree that edits, undo, redo, undojoin and jumps build, the     *)
(* links of header_records make one list of all headers, each once.        *)
(***************************************************************************)
THEOREM LinksMakeOneList == Spec => []LinksReachAll
<1>1. TreeInv /\ [Next]_vars => TreeInv'
  BY NextTree
<1>2. Init => TreeInv
  BY InitTree
<1>. QED  BY <1>1, <1>2, LinksReach, PTL DEF Spec
-----------------------------------------------------------------------------
(* What replaying edits gives *)

Lines == Seq(Line) \ {<<>>}
LineEdit == [start : Nat \ {0}, before : Seq(Line), after : Seq(Line)]

(* The lines new in the place of the n lines of ls at s. *)
Spliced(ls, s, n, new) == SubSeq(ls, 1, s - 1) \o new \o SubSeq(ls, s + n, Len(ls))

(* Where the elements of a concatenation come from. *)
LEMMA Joined ==
  ASSUME NEW a \in Seq(Line), NEW b \in Seq(Line)
  PROVE  LET r == a \o b
         IN  /\ r \in Seq(Line) /\ Len(r) = Len(a) + Len(b)
             /\ \A i \in 1..Len(a) : r[i] = a[i]
             /\ \A i \in 1..Len(b) : r[Len(a) + i] = b[i]
<1>. DEFINE r == a \o b
<1>1. r \in Seq(Line) /\ Len(r) = Len(a) + Len(b)
  BY ConcatProperties
<1>2. Len(a) \in Nat /\ Len(b) \in Nat
  OBVIOUS
<1>3. \A i \in 1..(Len(a) + Len(b)) : r[i] = IF i <= Len(a) THEN a[i] ELSE b[i - Len(a)]
  BY ConcatProperties
<1>. HIDE DEF r
<1>4. \A i \in 1..Len(a) : r[i] = a[i]
  BY <1>2, <1>3, SMT
<1>5. \A i \in 1..Len(b) : r[Len(a) + i] = b[i]
  BY <1>2, <1>3, SMT
<1>. QED  BY <1>1, <1>4, <1>5 DEF r

(* What splicing gives, element by element. *)
Splices(r, ls, s, n, new) ==
  /\ r \in Seq(Line) /\ Len(r) = Len(ls) - n + Len(new)
  /\ \A i \in 1..(s - 1) : r[i] = ls[i]
  /\ \A i \in 1..Len(new) : r[s - 1 + i] = new[i]
  /\ \A i \in (s + n)..Len(ls) : r[i - n + Len(new)] = ls[i]

LEMMA SpliceShape ==
  ASSUME NEW ls \in Seq(Line), NEW s \in Nat \ {0}, NEW n \in Nat, s + n - 1 <= Len(ls),
         NEW new \in Seq(Line)
  PROVE  Splices(Spliced(ls, s, n, new), ls, s, n, new)
<1>. DEFINE a == SubSeq(ls, 1, s - 1)
            b == SubSeq(ls, s + n, Len(ls))
<1>0. Len(ls) \in Nat /\ Len(new) \in Nat
  OBVIOUS
<1>1. a \in Seq(Line) /\ Len(a) = s - 1 /\ \A i \in 1..(s - 1) : a[i] = ls[i]
  BY <1>0, SMT
<1>2. b \in Seq(Line) /\ Len(b) = Len(ls) - (s + n) + 1
      /\ \A i \in 1..Len(b) : b[i] = ls[s + n + i - 1]
  BY <1>0, SMT
<1>. HIDE DEF a, b
<1>. DEFINE c == a \o new
<1>3. c \in Seq(Line) /\ Len(c) = s - 1 + Len(new)
      /\ (\A i \in 1..(s - 1) : c[i] = a[i]) /\ \A i \in 1..Len(new) : c[s - 1 + i] = new[i]
  <2>1. /\ c \in Seq(Line) /\ Len(c) = Len(a) + Len(new)
        /\ \A i \in 1..Len(a) : c[i] = a[i]
        /\ \A i \in 1..Len(new) : c[Len(a) + i] = new[i]
    BY <1>1, Joined
  <2>. HIDE DEF c
  <2>2. Len(a) = s - 1
    BY <1>1
  <2>. QED  BY ONLY <2>1, <2>2, Zenon
<1>. HIDE DEF c
<1>. DEFINE r == c \o b
<1>4. r \in Seq(Line) /\ Len(r) = Len(c) + Len(b)
      /\ (\A i \in 1..Len(c) : r[i] = c[i]) /\ \A i \in 1..Len(b) : r[Len(c) + i] = b[i]
  BY <1>2, <1>3, Joined
<1>5. Spliced(ls, s, n, new) = r
  BY DEF Spliced, a, b, c
<1>. HIDE DEF r
<1>6. Len(r) = Len(ls) - n + Len(new)
  BY <1>0, <1>2, <1>3, <1>4, SMT
<1>7. \A i \in 1..(s - 1) : r[i] = ls[i]
  BY <1>0, <1>1, <1>3, <1>4, SMT
<1>8. \A i \in 1..Len(new) : r[s - 1 + i] = new[i]
  BY <1>0, <1>1, <1>3, <1>4, SMT
<1>9. \A i \in (s + n)..Len(ls) : r[i - n + Len(new)] = ls[i]
  <2>. SUFFICES ASSUME NEW i \in (s + n)..Len(ls) PROVE r[i - n + Len(new)] = ls[i]
    OBVIOUS
  <2>. DEFINE j == i - (s + n) + 1
  <2>1. j \in 1..Len(b) /\ Len(c) + j = i - n + Len(new) /\ s + n + j - 1 = i
    BY <1>0, <1>2, <1>3, SMT
  <2>. HIDE DEF j
  <2>2. r[Len(c) + j] = b[j] /\ b[j] = ls[s + n + j - 1]
    BY <1>2, <1>4, <2>1
  <2>. QED  BY <2>1, <2>2
<1>. QED  BY <1>4, <1>5, <1>6, <1>7, <1>8, <1>9 DEF Splices

(***************************************************************************)
(* An edit taken back: what a splice put in, exchanged for what it took    *)
(* out, gives the old lines.                                               *)
(***************************************************************************)
LEMMA SpliceBack ==
  ASSUME NEW ls \in Seq(Line), NEW s \in Nat \ {0}, NEW n \in Nat, s + n - 1 <= Len(ls),
         NEW new \in Seq(Line)
  PROVE  LET old == SubSeq(ls, s, s + n - 1)
         IN  /\ old \in Seq(Line) /\ Len(old) = n
             /\ Spliced(Spliced(ls, s, n, new), s, Len(new), old) = ls
<1>. DEFINE old == SubSeq(ls, s, s + n - 1)
            r == Spliced(ls, s, n, new)
            u == Spliced(r, s, Len(new), old)
<1>0. Len(ls) \in Nat /\ Len(new) \in Nat
  OBVIOUS
<1>1. old \in Seq(Line) /\ Len(old) = n /\ \A i \in 1..n : old[i] = ls[s - 1 + i]
  BY <1>0, SMT
<1>2. /\ r \in Seq(Line) /\ Len(r) = Len(ls) - n + Len(new)
      /\ \A i \in 1..(s - 1) : r[i] = ls[i]
      /\ \A i \in (s + n)..Len(ls) : r[i - n + Len(new)] = ls[i]
  BY SpliceShape DEF Splices
<1>. HIDE DEF old, r
<1>3. s + Len(new) - 1 <= Len(r)
  BY <1>0, <1>2, SMT
<1>31. s \in Nat \ {0} /\ Len(new) \in Nat /\ r \in Seq(Line) /\ old \in Seq(Line)
  BY <1>0, <1>1, <1>2
<1>4. /\ u \in Seq(Line) /\ Len(u) = Len(r) - Len(new) + Len(old)
      /\ \A i \in 1..(s - 1) : u[i] = r[i]
      /\ \A i \in 1..Len(old) : u[s - 1 + i] = old[i]
      /\ \A i \in (s + Len(new))..Len(r) : u[i - Len(new) + Len(old)] = r[i]
  <2>1. Splices(Spliced(r, s, Len(new), old), r, s, Len(new), old)
    BY ONLY <1>3, <1>31, SpliceShape, Zenon
  <2>. QED  BY <2>1 DEF u, Splices
<1>. HIDE DEF u
<1>5. Len(u) = Len(ls)
  BY <1>0, <1>1, <1>2, <1>4, SMT
<1>6. \A i \in 1..Len(ls) : u[i] = ls[i]
  <2>. SUFFICES ASSUME NEW i \in 1..Len(ls) PROVE u[i] = ls[i]
    OBVIOUS
  <2>1. CASE i < s
    <3>1. i \in 1..(s - 1)
      BY <2>1
    <3>. QED  BY <1>2, <1>4, <3>1
  <2>2. CASE s <= i /\ i < s + n
    <3>. DEFINE j == i - s + 1
    <3>1. j \in 1..n /\ s - 1 + j = i
      BY <1>0, <2>2, SMT
    <3>. HIDE DEF j
    <3>2. u[s - 1 + j] = old[j] /\ old[j] = ls[s - 1 + j]
      BY <1>1, <1>4, <3>1
    <3>. QED  BY <3>1, <3>2
  <2>3. CASE s + n <= i
    <3>. DEFINE j == i - n + Len(new)
    <3>1. j \in (s + Len(new))..Len(r) /\ j - Len(new) + n = i
      BY <1>0, <1>2, <2>3, SMT
    <3>2. r[j] = ls[i]
      BY <1>0, <1>2, <2>3
    <3>. HIDE DEF j
    <3>3. u[j - Len(new) + Len(old)] = r[j]
      BY <1>4, <3>1
    <3>. QED  BY <1>1, <3>1, <3>2, <3>3
  <2>. QED  BY <1>0, <2>1, <2>2, <2>3, SMT
<1>7. u = ls
  BY <1>4, <1>5, <1>6, SeqEqual
<1>. QED  BY <1>1, <1>7 DEF old, r, u

-----------------------------------------------------------------------------
(* An edit e as it was recorded on the lines ls: a splice that takes out   *)
(* what it says it took out, and leaves some lines.                        *)
Fits(e, ls) ==
  /\ e \in LineEdit /\ e.start + Len(e.before) - 1 <= Len(ls)
  /\ SubSeq(ls, e.start, e.start + Len(e.before) - 1) = e.before
  /\ e.after # <<>> \/ Len(e.before) < Len(ls)
Applied(e, ls) == Spliced(ls, e.start, Len(e.before), e.after)
WithLines(t, ls) == [lines |-> ls, eol |-> t.eol]

(* Away from the emptied buffer, writing is splicing and keeps the eol.    *)
LEMMA WrittenIs ==
  ASSUME NEW t \in Text, NEW s \in Nat \ {0}, NEW n \in Nat, NEW new \in Seq(Line),
         new # <<>> \/ n # Len(t.lines)
  PROVE  Written(t, s, n, new) = WithLines(t, Spliced(t.lines, s, n, new))
<1>. DEFINE ls == t.lines
<1>1. Written(t, s, n, new) = [t EXCEPT !.lines = Spliced(ls, s, n, new)]
  BY DEF Written, Spliced
<1>2. t = [lines |-> ls, eol |-> t.eol]
  BY DEF Text
<1>. QED  BY <1>1, <1>2 DEF WithLines

(***************************************************************************)
(* Redoing an edit applies it; undoing it on what it gave takes it back.   *)
(* Neither is taken for the deletion of every line.                        *)
(***************************************************************************)
LEMMA AppliedEdit ==
  ASSUME NEW e, NEW ls \in Lines, Fits(e, ls)
  PROVE  /\ Applied(e, ls) \in Lines
         /\ \A t \in Text : t.lines = ls =>
              Written(t, e.start, Len(e.before), e.after) = WithLines(t, Applied(e, ls))
         /\ \A t \in Text : t.lines = Applied(e, ls) =>
              Written(t, e.start, Len(e.after), e.before) = WithLines(t, ls)
<1>. DEFINE s == e.start
            b == e.before
            a == e.after
            n == Len(b)
            new == Applied(e, ls)
<1>1. /\ ls \in Seq(Line) /\ Len(ls) \in Nat /\ Len(ls) >= 1
      /\ s \in Nat \ {0} /\ b \in Seq(Line) /\ a \in Seq(Line) /\ n \in Nat /\ Len(a) \in Nat
      /\ s + n - 1 <= Len(ls)
      /\ a # <<>> => Len(a) >= 1
      /\ b # <<>> => n >= 1
  <2>1. ls \in Seq(Line) /\ ls # <<>>
    BY DEF Lines
  <2>2. s \in Nat \ {0} /\ b \in Seq(Line) /\ a \in Seq(Line)
    BY DEF Fits, LineEdit
  <2>3. s + n - 1 <= Len(ls)
    BY DEF Fits
  <2>. HIDE DEF s, b, a
  <2>. QED  BY <2>1, <2>2, <2>3, EmptySeq
<1>2. b = SubSeq(ls, s, s + n - 1) /\ (a # <<>> \/ n < Len(ls))
  BY DEF Fits
<1>3. new = Spliced(ls, s, n, a)
  BY DEF Applied
<1>. HIDE DEF s, b, a, n
<1>4. Splices(new, ls, s, n, a)
  BY <1>1, <1>3, SpliceShape
<1>5. new \in Seq(Line) /\ Len(new) = Len(ls) - n + Len(a)
  BY <1>4 DEF Splices
<1>6. new # <<>>
  BY <1>1, <1>2, <1>5, EmptySeq
<1>7. ASSUME NEW t \in Text, t.lines = ls
      PROVE  Written(t, s, n, a) = WithLines(t, new)
  <2>1. a # <<>> \/ n # Len(t.lines)
    BY <1>1, <1>2, <1>7
  <2>. QED  BY <1>1, <1>3, <1>7, <2>1, WrittenIs
<1>8. ASSUME NEW t \in Text, t.lines = new
      PROVE  Written(t, s, Len(a), b) = WithLines(t, ls)
  <2>1. b # <<>> \/ Len(a) # Len(t.lines)
    BY <1>1, <1>5, <1>8, EmptySeq DEF n
  <2>2. Spliced(new, s, Len(a), b) = ls
    BY <1>1, <1>2, <1>3, SpliceBack
  <2>. QED  BY <1>1, <1>8, <2>1, <2>2, WrittenIs
<1>. QED  BY <1>5, <1>6, <1>7, <1>8 DEF Lines, s, b, a, n

(* Two functions that start alike and go on alike are alike.              *)
Alike(N, f, g) == f[0] = g[0] /\ \A k \in 1..N : f[k - 1] = g[k - 1] => f[k] = g[k]

LEMMA SameSteps ==
  ASSUME NEW N \in Nat, NEW f, NEW g, Alike(N, f, g)
  PROVE  \A k \in 0..N : f[k] = g[k]
<1>. DEFINE D == {k \in 0..N : f[k] # g[k]}
<1>. SUFFICES ASSUME D # {} PROVE FALSE
  OBVIOUS
<1>1. D \subseteq Nat
  OBVIOUS
<1>2. PICK k \in D : \A j \in D : k <= j
  <2>. HIDE DEF D
  <2>. QED  BY <1>1, LeastHeader
<1>3. k \in 0..N /\ f[k] # g[k]
  BY <1>2
<1>4. k # 0
  BY <1>3 DEF Alike
<1>5. k \in 1..N /\ k - 1 \in 0..N /\ k - 1 \notin D
  BY <1>2, <1>3, <1>4
<1>. QED  BY <1>3, <1>5 DEF Alike

(* The texts c of a block: c[0] before it, c[k] after k of its edits.      *)
Follows(c, es) ==
  /\ c \in [0..Len(es) -> Lines]
  /\ \A k \in 1..Len(es) : Fits(es[k], c[k - 1]) /\ c[k] = Applied(es[k], c[k - 1])

(* Undoing a block leads back along its texts, whatever the final eol.     *)
LEMMA UndoneBlock ==
  ASSUME NEW es \in Seq(LineEdit), NEW c, Follows(c, es),
         NEW t \in Text, t.lines = c[Len(es)]
  PROVE  UndoBlock(t, es) = WithLines(t, c[0])
<1>. DEFINE N == Len(es)
            Step(u, k) == Written(u, UndoOrder(es)[k].start, Len(UndoOrder(es)[k].after),
                                  UndoOrder(es)[k].before)
            F == [k \in 0..N |-> WithLines(t, c[N - k])]
            text == CHOOSE f : f = [k \in 0..N |-> IF k = 0 THEN t ELSE Step(f[k - 1], k)]
<1>0. N \in Nat
  OBVIOUS
<1>1. ASSUME NEW k \in 1..N PROVE Step(WithLines(t, c[N - k + 1]), k) = WithLines(t, c[N - k])
  <2>. DEFINE j == N - k + 1
  <2>1. j \in 1..N /\ j - 1 = N - k /\ N - j + 1 = k
    BY <1>0
  <2>2. UndoOrder(es)[k] = es[j]
    BY <1>0 DEF UndoOrder, Reverse
  <2>. HIDE DEF j
  <2>3. Fits(es[j], c[j - 1]) /\ c[j] = Applied(es[j], c[j - 1]) /\ c[j - 1] \in Lines /\ c[j] \in Lines
    BY <1>0, <2>1 DEF Follows
  <2>4. WithLines(t, c[j]) \in Text /\ WithLines(t, c[j]).lines = c[j]
    BY <2>3 DEF WithLines, Text, Lines
  <2>5. Written(WithLines(t, c[j]), es[j].start, Len(es[j].after), es[j].before) = WithLines(WithLines(t, c[j]), c[j - 1])
    BY <2>3, <2>4, AppliedEdit
  <2>6. WithLines(WithLines(t, c[j]), c[j - 1]) = WithLines(t, c[j - 1])
    BY DEF WithLines
  <2>. QED  BY <2>1, <2>2, <2>5, <2>6 DEF j
<1>2. WithLines(t, c[N]) = t
  BY DEF WithLines, Text
<1>. HIDE DEF Step
<1>3. F = [k \in 0..N |-> IF k = 0 THEN t ELSE Step(F[k - 1], k)]
  <2>1. ASSUME NEW k \in 1..N PROVE WithLines(t, c[N - k]) = Step(F[k - 1], k)
    <3>1. k - 1 \in 0..N /\ N - (k - 1) = N - k + 1
      BY <1>0
    <3>. QED  BY <1>1, <3>1
  <2>2. ASSUME NEW k \in 0..N PROVE WithLines(t, c[N - k]) = IF k = 0 THEN t ELSE Step(F[k - 1], k)
    <3>1. CASE k = 0
      BY <1>0, <1>2, <3>1
    <3>2. CASE k # 0
      <4>1. k \in 1..N
        BY <1>0, <3>2
      <4>. QED  BY <2>1, <3>2, <4>1
    <3>. QED  BY <3>1, <3>2
  <2>. QED  BY <2>2
<1>4. text = [k \in 0..N |-> IF k = 0 THEN t ELSE Step(text[k - 1], k)]
  <2>. HIDE DEF F
  <2>. QED  BY <1>3
<1>. HIDE DEF text
<1>5. \A k \in 0..N : text[k] = F[k]
  <2>. HIDE DEF F
  <2>1. text[0] = t /\ F[0] = t
    BY <1>0, <1>3, <1>4
  <2>2. ASSUME NEW k \in 1..N
        PROVE  text[k] = Step(text[k - 1], k) /\ F[k] = Step(F[k - 1], k)
    <3>1. k \in 0..N /\ k # 0
      BY <1>0
    <3>2. text[k] = IF k = 0 THEN t ELSE Step(text[k - 1], k)
      BY <1>4, <3>1
    <3>3. F[k] = IF k = 0 THEN t ELSE Step(F[k - 1], k)
      BY <1>3, <3>1
    <3>. QED  BY <3>1, <3>2, <3>3
  <2>3. Alike(N, text, F)
    BY <2>1, <2>2 DEF Alike
  <2>. HIDE DEF N
  <2>. QED  BY ONLY <1>0, <2>3, SameSteps, Zenon
<1>6. UndoBlock(t, es) = text[N]
  BY DEF UndoBlock, text, Step
<1>7. F[N] = WithLines(t, c[0])
  BY <1>0
<1>. QED  BY <1>0, <1>5, <1>6, <1>7

(* Redoing a block leads along its texts.                                  *)
LEMMA RedoneBlock ==
  ASSUME NEW es \in Seq(LineEdit), NEW c, Follows(c, es),
         NEW t \in Text, t.lines = c[0]
  PROVE  RedoBlock(t, es) = WithLines(t, c[Len(es)])
<1>. DEFINE N == Len(es)
            Step(u, k) == Written(u, es[k].start, Len(es[k].before), es[k].after)
            F == [k \in 0..N |-> WithLines(t, c[k])]
            text == CHOOSE f : f = [k \in 0..N |-> IF k = 0 THEN t ELSE Step(f[k - 1], k)]
<1>0. N \in Nat
  OBVIOUS
<1>1. ASSUME NEW k \in 1..N PROVE Step(WithLines(t, c[k - 1]), k) = WithLines(t, c[k])
  <2>1. Fits(es[k], c[k - 1]) /\ c[k] = Applied(es[k], c[k - 1]) /\ c[k - 1] \in Lines /\ c[k] \in Lines
    BY <1>0 DEF Follows
  <2>2. WithLines(t, c[k - 1]) \in Text /\ WithLines(t, c[k - 1]).lines = c[k - 1]
    BY <2>1 DEF WithLines, Text, Lines
  <2>3. Written(WithLines(t, c[k - 1]), es[k].start, Len(es[k].before), es[k].after) = WithLines(WithLines(t, c[k - 1]), c[k])
    BY <2>1, <2>2, AppliedEdit
  <2>4. WithLines(WithLines(t, c[k - 1]), c[k]) = WithLines(t, c[k])
    BY DEF WithLines
  <2>. QED  BY <2>3, <2>4
<1>2. WithLines(t, c[0]) = t
  BY DEF WithLines, Text
<1>. HIDE DEF Step
<1>3. F = [k \in 0..N |-> IF k = 0 THEN t ELSE Step(F[k - 1], k)]
  <2>1. ASSUME NEW k \in 1..N PROVE WithLines(t, c[k]) = Step(F[k - 1], k)
    <3>1. k - 1 \in 0..N
      BY <1>0
    <3>. QED  BY <1>1, <3>1
  <2>2. ASSUME NEW k \in 0..N PROVE WithLines(t, c[k]) = IF k = 0 THEN t ELSE Step(F[k - 1], k)
    <3>1. CASE k = 0
      BY <1>2, <3>1
    <3>2. CASE k # 0
      <4>1. k \in 1..N
        BY <1>0, <3>2
      <4>. QED  BY <2>1, <3>2, <4>1
    <3>. QED  BY <3>1, <3>2
  <2>. QED  BY <2>2
<1>4. text = [k \in 0..N |-> IF k = 0 THEN t ELSE Step(text[k - 1], k)]
  <2>. HIDE DEF F
  <2>. QED  BY <1>3
<1>. HIDE DEF text
<1>5. \A k \in 0..N : text[k] = F[k]
  <2>. HIDE DEF F
  <2>1. text[0] = t /\ F[0] = t
    BY <1>0, <1>3, <1>4
  <2>2. ASSUME NEW k \in 1..N
        PROVE  text[k] = Step(text[k - 1], k) /\ F[k] = Step(F[k - 1], k)
    <3>1. k \in 0..N /\ k # 0
      BY <1>0
    <3>2. text[k] = IF k = 0 THEN t ELSE Step(text[k - 1], k)
      BY <1>4, <3>1
    <3>3. F[k] = IF k = 0 THEN t ELSE Step(F[k - 1], k)
      BY <1>3, <3>1
    <3>. QED  BY <3>1, <3>2, <3>3
  <2>3. Alike(N, text, F)
    BY <2>1, <2>2 DEF Alike
  <2>. HIDE DEF N
  <2>. QED  BY ONLY <1>0, <2>3, SameSteps, Zenon
<1>6. RedoBlock(t, es) = text[N]
  BY DEF RedoBlock, text, Step
<1>7. F[N] = WithLines(t, c[N])
  BY <1>0
<1>. QED  BY <1>0, <1>5, <1>6, <1>7

(* The edits of h lead from the text it was recorded on to its own.        *)
BlockOf(h) ==
  \E c : Follows(c, edits[h]) /\ c[0] = version[parent[h]] /\ c[Len(edits[h])] = version[h]

BlocksInv ==
  /\ edits \in Seq(Seq(LineEdit)) /\ Len(edits) = Len(parent)
  /\ version \in [0..Len(parent) -> Lines]
  /\ \A h \in 1..Len(parent) : BlockOf(h)

BufferInv == buffer \in Text /\ buffer.lines \in Lines /\ buffer.lines = version[current]
HistoryInv == TreeInv /\ BlocksInv /\ BufferInv

LEMMA LoadedText ==
  ASSUME NEW t \in Files
  PROVE  t \in Text /\ t.lines \in Lines /\ t.eol \in BOOLEAN
BY TextAssumption DEF Text, Lines

LEMMA TextWithLines ==
  ASSUME NEW t \in Text, NEW ls \in Lines
  PROVE  WithLines(t, ls) \in Text /\ WithLines(t, ls).lines = ls /\ WithLines(t, ls).eol = t.eol
BY DEF WithLines, Text, Lines

LEMMA InitHistory == Init => HistoryInv
<1>. SUFFICES ASSUME Init PROVE HistoryInv
  OBVIOUS
<1>1. buffer \in Text /\ buffer.lines \in Lines
  BY LoadedText DEF Init
<1>2. parent = <<>> /\ edits = <<>> /\ current = 0 /\ version = [n \in {0} |-> buffer.lines]
  BY DEF Init
<1>3. Len(parent) = 0 /\ Len(edits) = 0 /\ edits \in Seq(Seq(LineEdit)) /\ 0..0 = {0} /\ 1..0 = {}
  BY <1>2, EmptySeq
<1>. QED  BY <1>1, <1>2, <1>3, InitTree DEF HistoryInv, BlocksInv, BufferInv

LEMMA LoadHistory == ASSUME NEW t \in Files, Load(t) PROVE HistoryInv'
<1>1. t \in Text /\ t.lines \in Lines
  BY LoadedText
<1>2. parent' = <<>> /\ edits' = <<>> /\ current' = 0 /\ version' = [n \in {0} |-> t.lines] /\ buffer' = t
      /\ EmptyTree
  BY DEF Load, EmptyTree
<1>3. Len(parent') = 0 /\ Len(edits') = 0 /\ edits' \in Seq(Seq(LineEdit)) /\ 0..0 = {0} /\ 1..0 = {}
  BY <1>2, EmptySeq
<1>4. BlocksInv' /\ BufferInv'
  BY <1>1, <1>2, <1>3 DEF BlocksInv, BufferInv
<1>. QED  BY <1>2, <1>4, LoadTree DEF HistoryInv

(***************************************************************************)
(* What a block that is undone or redone gives, whatever the final eol.    *)
(***************************************************************************)
LEMMA BlockUndone ==
  ASSUME BlocksInv, NEW h \in 1..Len(parent), NEW t \in Text, t.lines = version[h]
  PROVE  UndoBlock(t, edits[h]) = WithLines(t, version[parent[h]])
<1>1. PICK c : Follows(c, edits[h]) /\ c[0] = version[parent[h]] /\ c[Len(edits[h])] = version[h]
  BY DEF BlocksInv, BlockOf
<1>2. edits[h] \in Seq(LineEdit)
  BY DEF BlocksInv
<1>. QED  BY <1>1, <1>2, UndoneBlock

LEMMA BlockRedone ==
  ASSUME BlocksInv, NEW h \in 1..Len(parent), NEW t \in Text, t.lines = version[parent[h]]
  PROVE  RedoBlock(t, edits[h]) = WithLines(t, version[h])
<1>1. PICK c : Follows(c, edits[h]) /\ c[0] = version[parent[h]] /\ c[Len(edits[h])] = version[h]
  BY DEF BlocksInv, BlockOf
<1>2. edits[h] \in Seq(LineEdit)
  BY DEF BlocksInv
<1>. QED  BY <1>1, <1>2, RedoneBlock

(***************************************************************************)
(* What an edit writes is what its record stands for.                      *)
(***************************************************************************)
Record(s, n, ls) == [start |-> s, before |-> SubSeq(buffer.lines, s, s + n - 1), after |-> ls]

LEMMA EditWrites ==
  ASSUME ~Drains, BufferInv, NEW s \in Nat \ {0}, NEW n \in Nat, NEW ls \in Seq(Line), Edit(s, n, ls)
  PROVE  /\ Fits(Record(s, n, ls), buffer.lines)
         /\ buffer' = WithLines(buffer, Applied(Record(s, n, ls), buffer.lines))
         /\ buffer' \in Text /\ buffer'.lines \in Lines
<1>. DEFINE e == Record(s, n, ls)
            old == SubSeq(buffer.lines, s, s + n - 1)
<1>1. buffer \in Text /\ buffer.lines \in Lines /\ buffer.lines \in Seq(Line) /\ Len(buffer.lines) \in Nat
  BY DEF BufferInv, Lines
<1>2. s + n - 1 <= Len(buffer.lines) /\ (ls # <<>> \/ n < Len(buffer.lines))
      /\ buffer' = Written(buffer, s, n, ls)
  BY DEF Edit
<1>3. old \in Seq(Line) /\ Len(old) = n
  BY <1>1, <1>2, SpliceBack
<1>4. e.start = s /\ e.before = old /\ e.after = ls
  BY DEF Record
<1>5. e \in LineEdit
  BY <1>3 DEF Record, LineEdit
<1>. HIDE DEF e, old
<1>6. Fits(e, buffer.lines)
  BY <1>2, <1>3, <1>4, <1>5 DEF Fits, old
<1>7. Applied(e, buffer.lines) \in Lines
      /\ Written(buffer, e.start, Len(e.before), e.after) = WithLines(buffer, Applied(e, buffer.lines))
  BY <1>1, <1>6, AppliedEdit
<1>. QED  BY <1>1, <1>2, <1>3, <1>4, <1>6, <1>7, TextWithLines DEF e

(* One more edit in a block. *)
LEMMA FollowsOn ==
  ASSUME NEW es \in Seq(LineEdit), NEW c, Follows(c, es), NEW e, Fits(e, c[Len(es)])
  PROVE  \E d : /\ Follows(d, Append(es, e)) /\ d[0] = c[0]
                /\ d[Len(Append(es, e))] = Applied(e, c[Len(es)])
<1>. DEFINE N == Len(es)
            fs == Append(es, e)
            d == [k \in 0..(N + 1) |-> IF k = N + 1 THEN Applied(e, c[N]) ELSE c[k]]
<1>1. N \in Nat /\ c[N] \in Lines /\ e \in LineEdit
  BY DEF Follows, Fits
<1>2. Applied(e, c[N]) \in Lines
  BY <1>1, AppliedEdit
<1>3. Len(fs) = N + 1 /\ fs[N + 1] = e /\ \A k \in 1..N : fs[k] = es[k]
  BY <1>1
<1>4. d \in [0..(N + 1) -> Lines]
  BY <1>1, <1>2 DEF Follows
<1>5. d[N + 1] = Applied(e, c[N]) /\ \A k \in 0..N : d[k] = c[k]
  BY <1>1
<1>. HIDE DEF d, fs
<1>6. \A k \in 1..(N + 1) : Fits(fs[k], d[k - 1]) /\ d[k] = Applied(fs[k], d[k - 1])
  <2>. SUFFICES ASSUME NEW k \in 1..(N + 1) PROVE Fits(fs[k], d[k - 1]) /\ d[k] = Applied(fs[k], d[k - 1])
    OBVIOUS
  <2>1. CASE k = N + 1
    <3>1. k - 1 = N /\ d[N] = c[N]
      BY <1>1, <1>5, <2>1
    <3>. QED  BY <1>3, <1>5, <2>1, <3>1
  <2>2. CASE k # N + 1
    <3>1. k \in 1..N /\ k - 1 \in 0..N /\ k \in 0..N
      BY <1>1, <2>2
    <3>2. Fits(es[k], c[k - 1]) /\ c[k] = Applied(es[k], c[k - 1])
      BY <3>1 DEF Follows
    <3>. QED  BY <1>3, <1>5, <3>1, <3>2
  <2>. QED  BY <2>1, <2>2
<1>7. d[0] = c[0]
  BY <1>1, <1>5
<1>. QED  BY <1>3, <1>4, <1>5, <1>6, <1>7 DEF Follows, fs

(***************************************************************************)
(* An edit that joins the open block changes the version of that header    *)
(* only, and no other header was recorded on it.                           *)
(***************************************************************************)
LEMMA JoinedHistory ==
  ASSUME HistoryInv, NEW e, Fits(e, buffer.lines), JoinBlock(e),
         buffer' \in Text, buffer'.lines \in Lines, buffer'.lines = Applied(e, buffer.lines)
  PROVE  BlocksInv' /\ BufferInv'
<1>1. /\ current \in 1..Len(parent) /\ Len(parent) \in Nat /\ Children(current) = {}
      /\ Headers = 1..Len(parent)
      /\ parent' = parent /\ current' = current
      /\ edits' = [edits EXCEPT ![current] = Append(edits[current], e)]
      /\ version' = [version EXCEPT ![current] = buffer'.lines]
  BY HeadersAreNumbers DEF HistoryInv, TreeInv, Numbered, OpenIsLeaf, JoinBlock
<1>2. /\ edits \in Seq(Seq(LineEdit)) /\ Len(edits) = Len(parent)
      /\ version \in [0..Len(parent) -> Lines] /\ \A h \in 1..Len(parent) : BlockOf(h)
      /\ buffer.lines = version[current]
  BY DEF HistoryInv, BlocksInv, BufferInv
<1>3. e \in LineEdit /\ edits[current] \in Seq(LineEdit)
  BY <1>1, <1>2 DEF Fits
<1>4. Append(edits[current], e) \in Seq(LineEdit)
  BY <1>3
<1>5. /\ edits' \in Seq(Seq(LineEdit)) /\ Len(edits') = Len(parent)
      /\ edits'[current] = Append(edits[current], e)
      /\ \A h \in 1..Len(parent) : h # current => edits'[h] = edits[h]
  BY <1>1, <1>2, <1>4
<1>6. /\ version' \in [0..Len(parent) -> Lines] /\ version'[current] = buffer'.lines
      /\ \A n \in 0..Len(parent) : n # current => version'[n] = version[n]
  BY <1>1, <1>2
<1>7. \A h \in 1..Len(parent) : parent[h] \in 0..Len(parent) /\ parent[h] # current
  <2>. SUFFICES ASSUME NEW h \in 1..Len(parent) PROVE parent[h] \in 0..Len(parent) /\ parent[h] # current
    OBVIOUS
  <2>1. h \notin Children(current)
    BY <1>1
  <2>2. parent[h] \in Nat /\ parent[h] < h
    BY DEF HistoryInv, TreeInv, Numbered
  <2>. QED  BY <1>1, <2>1, <2>2 DEF Children
<1>8. ASSUME NEW h \in 1..Len(parent)
      PROVE  \E c : Follows(c, edits'[h]) /\ c[0] = version'[parent[h]] /\ c[Len(edits'[h])] = version'[h]
  <2>1. PICK c : Follows(c, edits[h]) /\ c[0] = version[parent[h]] /\ c[Len(edits[h])] = version[h]
    BY <1>2 DEF BlockOf
  <2>2. version'[parent[h]] = version[parent[h]]
    BY <1>6, <1>7
  <2>3. CASE h = current
    <3>0. edits[h] \in Seq(LineEdit) /\ Fits(e, c[Len(edits[h])])
      BY <1>2, <1>3, <2>1, <2>3
    <3>1. PICK d : /\ Follows(d, Append(edits[h], e)) /\ d[0] = c[0]
                   /\ d[Len(Append(edits[h], e))] = Applied(e, c[Len(edits[h])])
      BY ONLY <2>1, <3>0, FollowsOn, Zenon
    <3>. QED  BY <1>2, <1>5, <1>6, <2>1, <2>2, <2>3, <3>1
  <2>4. CASE h # current
    <3>1. h \in 0..Len(parent)
      BY <1>1
    <3>. QED  BY <1>5, <1>6, <2>1, <2>2, <2>4, <3>1
  <2>. QED  BY <2>3, <2>4
<1>9. BlocksInv'
  BY <1>1, <1>5, <1>6, <1>8 DEF BlocksInv, BlockOf
<1>. QED  BY <1>1, <1>6, <1>9 DEF BufferInv

(* An edit that opens a block gives it two texts, the old and the new one. *)
LEMMA NewHistory ==
  ASSUME HistoryInv, NEW e, Fits(e, buffer.lines), NewBlock(e),
         buffer' \in Text, buffer'.lines \in Lines, buffer'.lines = Applied(e, buffer.lines)
  PROVE  BlocksInv' /\ BufferInv'
<1>0. /\ parent \in Seq(Nat) /\ Len(parent) \in Nat /\ current \in 0..Len(parent)
      /\ \A n \in 1..Len(parent) : parent[n] \in Nat /\ parent[n] < n
  BY DEF HistoryInv, TreeInv, Numbered
<1>. DEFINE new == Len(parent) + 1
            lines == buffer'.lines
<1>1. /\ parent' = Append(parent, current) /\ edits' = Append(edits, <<e>>) /\ current' = new
      /\ version' = [n \in DOMAIN version \union {new} |-> IF n = new THEN lines ELSE version[n]]
  BY DEF NewBlock
<1>2. /\ edits \in Seq(Seq(LineEdit)) /\ Len(edits) = Len(parent)
      /\ version \in [0..Len(parent) -> Lines] /\ \A h \in 1..Len(parent) : BlockOf(h)
      /\ buffer.lines = version[current] /\ buffer.lines \in Lines
  BY DEF HistoryInv, BlocksInv, BufferInv
<1>3. e \in LineEdit /\ <<e>> \in Seq(LineEdit) /\ Len(<<e>>) = 1 /\ <<e>>[1] = e
  BY DEF Fits
<1>4. /\ Len(parent') = new /\ parent'[new] = current
      /\ \A h \in 1..Len(parent) : parent'[h] = parent[h]
  BY <1>0, <1>1
<1>5. /\ edits' \in Seq(Seq(LineEdit)) /\ Len(edits') = new /\ edits'[new] = <<e>>
      /\ \A h \in 1..Len(parent) : edits'[h] = edits[h]
  BY <1>0, <1>1, <1>2, <1>3
<1>6. /\ version' \in [0..new -> Lines] /\ version'[new] = lines
      /\ \A n \in 0..Len(parent) : version'[n] = version[n]
  <2>1. DOMAIN version \union {new} = 0..new /\ new \notin 0..Len(parent)
    BY <1>0, <1>2
  <2>. HIDE DEF lines, new
  <2>. QED  BY <1>1, <1>2, <2>1 DEF lines
<1>. HIDE DEF lines
<1>7. ASSUME NEW h \in 1..new
      PROVE  \E c : Follows(c, edits'[h]) /\ c[0] = version'[parent'[h]] /\ c[Len(edits'[h])] = version'[h]
  <2>1. CASE h = new
    <3>. DEFINE c == [k \in 0..1 |-> IF k = 0 THEN buffer.lines ELSE lines]
    <3>1. c \in [0..1 -> Lines] /\ c[0] = buffer.lines /\ c[1] = lines
      BY <1>2 DEF lines
    <3>. HIDE DEF c
    <3>2. \A k \in 1..1 : k = 1 /\ k - 1 = 0
      OBVIOUS
    <3>3. Follows(c, <<e>>)
      BY <1>3, <3>1, <3>2 DEF Follows, lines
    <3>4. version'[parent'[h]] = buffer.lines
      BY <1>0, <1>2, <1>4, <1>6, <2>1
    <3>. QED  BY <1>3, <1>5, <1>6, <2>1, <3>1, <3>3, <3>4
  <2>2. CASE h # new
    <3>1. h \in 1..Len(parent) /\ h \in 0..Len(parent) /\ parent[h] \in 0..Len(parent)
      BY <1>0, <2>2
    <3>2. PICK c : Follows(c, edits[h]) /\ c[0] = version[parent[h]] /\ c[Len(edits[h])] = version[h]
      BY <1>2, <3>1 DEF BlockOf
    <3>. QED  BY <1>4, <1>5, <1>6, <3>1, <3>2
  <2>. QED  BY <2>1, <2>2
<1>8. BlocksInv'
  BY <1>4, <1>5, <1>6, <1>7 DEF BlocksInv, BlockOf
<1>. QED  BY <1>1, <1>6, <1>8 DEF BufferInv, lines

(* Undo, redo and jumps move the buffer to the version of another header.  *)
LEMMA MovedHistory ==
  ASSUME BlocksInv, UNCHANGED <<parent, edits, version>>, buffer \in Text,
         current' \in 0..Len(parent), buffer' = WithLines(buffer, version[current'])
  PROVE  BlocksInv' /\ BufferInv' /\ buffer'.eol = buffer.eol
<1>1. BlocksInv'
  BY DEF BlocksInv, BlockOf
<1>2. version[current'] \in Lines
  BY DEF BlocksInv
<1>. QED  BY <1>1, <1>2, TextWithLines DEF BufferInv

LEMMA StillHistory ==
  ASSUME BlocksInv, BufferInv, UNCHANGED <<parent, edits, version, current>>, buffer' \in Text,
         buffer'.lines = buffer.lines
  PROVE  BlocksInv' /\ BufferInv'
BY DEF BlocksInv, BlockOf, BufferInv

-----------------------------------------------------------------------------
(* Paths to the root *)

(* path_to_root: the least set with n that holds the parents of its members. *)
LEMMA PathIs ==
  ASSUME Numbered, NEW n \in 0..Len(parent)
  PROVE  /\ n \in PathToRoot(n) /\ PathToRoot(n) \subseteq 0..Len(parent)
         /\ \A m \in PathToRoot(n) \ {0} : parent[m] \in PathToRoot(n) /\ parent[m] < m
         /\ \A S \in SUBSET (0..Len(parent)) :
              n \in S /\ (\A k \in S \ {0} : parent[k] \in S) => PathToRoot(n) \subseteq S
<1>1. Len(parent) \in Nat /\ Headers \union {0} = 0..Len(parent)
  BY HeadersAreNumbers
<1>2. PathToRoot(n) = {m \in 0..Len(parent) : \A S \in SUBSET (0..Len(parent)) :
                         n \in S /\ (\A k \in S \ {0} : parent[k] \in S) => m \in S}
  BY <1>1 DEF PathToRoot
<1>3. ASSUME NEW m \in PathToRoot(n) \ {0} PROVE parent[m] \in PathToRoot(n) /\ parent[m] < m
  <2>1. m \in 0..Len(parent) /\ m # 0
    BY <1>2
  <2>2. m \in 1..Len(parent)
    BY <1>1, <2>1
  <2>3. parent[m] \in Nat /\ parent[m] < m
    BY <2>2 DEF Numbered
  <2>4. parent[m] \in 0..Len(parent)
    BY <1>1, <2>2, <2>3
  <2>. QED  BY <1>2, <2>3, <2>4
<1>. QED  BY <1>2, <1>3

LEMMA PathDown ==
  ASSUME Numbered, NEW n \in 0..Len(parent)
  PROVE  0 \in PathToRoot(n) /\ \A a \in PathToRoot(n) : a <= n
<1>1. /\ n \in PathToRoot(n) /\ PathToRoot(n) \subseteq 0..Len(parent) /\ Len(parent) \in Nat
      /\ \A m \in PathToRoot(n) \ {0} : parent[m] \in PathToRoot(n) /\ parent[m] < m
  BY PathIs, HeadersAreNumbers
<1>2. 0 \in PathToRoot(n)
  <2>. DEFINE P == PathToRoot(n)
  <2>1. P \subseteq Nat /\ P # {}
    BY <1>1
  <2>2. PICK m \in P : \A k \in P : m <= k
    <3>. HIDE DEF P
    <3>. QED  BY <2>1, LeastHeader
  <2>3. m # 0 => parent[m] \in P /\ parent[m] < m
    BY <1>1
  <2>4. \A k \in P : k \in Nat
    BY <2>1
  <2>. HIDE DEF P
  <2>5. m = 0
    BY <2>2, <2>3, <2>4
  <2>. QED  BY <2>2, <2>5 DEF P
<1>3. PathToRoot(n) \subseteq {m \in 0..Len(parent) : m <= n}
  <2>. DEFINE S == {m \in 0..Len(parent) : m <= n}
  <2>1. \A k \in S \ {0} : parent[k] \in S
    <3>. SUFFICES ASSUME NEW k \in S \ {0} PROVE parent[k] \in S
      OBVIOUS
    <3>1. parent[k] \in Nat /\ parent[k] < k
      BY <1>1 DEF Numbered
    <3>. QED  BY <1>1, <3>1
  <2>2. S \in SUBSET (0..Len(parent)) /\ n \in S
    BY <1>1
  <2>. HIDE DEF S
  <2>3. PathToRoot(n) \subseteq S
    BY <2>1, <2>2, PathIs
  <2>. QED  BY <2>3 DEF S
<1>. QED  BY <1>2, <1>3

LEMMA PathWithin ==
  ASSUME Numbered, NEW n \in 0..Len(parent), NEW m \in PathToRoot(n)
  PROVE  m \in 0..Len(parent) /\ PathToRoot(m) \subseteq PathToRoot(n)
<1>1. m \in 0..Len(parent)
  BY PathIs
<1>2. /\ PathToRoot(n) \in SUBSET (0..Len(parent))
      /\ \A k \in PathToRoot(n) \ {0} : parent[k] \in PathToRoot(n)
  BY PathIs
<1>. QED  BY <1>1, <1>2, PathIs

LEMMA PathAbove ==
  ASSUME Numbered, NEW n \in 0..Len(parent), n # 0
  PROVE  parent[n] \in 0..Len(parent) /\ PathToRoot(n) \subseteq {n} \union PathToRoot(parent[n])
<1>1. parent[n] \in 0..Len(parent)
  <2>1. parent[n] \in PathToRoot(n)
    BY PathIs
  <2>. QED  BY <2>1, PathIs
<1>. DEFINE S == {n} \union PathToRoot(parent[n])
<1>2. S \in SUBSET (0..Len(parent)) /\ n \in S
  BY <1>1, PathIs
<1>3. \A k \in S \ {0} : parent[k] \in S
  BY <1>1, PathIs
<1>. HIDE DEF S
<1>4. PathToRoot(n) \subseteq S
  BY <1>2, <1>3, PathIs
<1>. QED  BY <1>1, <1>4 DEF S

(* Of two nodes on a path the lower numbered one is above the other.       *)
LEMMA PathIsChain ==
  ASSUME Numbered, NEW n \in 0..Len(parent), NEW m \in PathToRoot(n), NEW a \in PathToRoot(n), a <= m
  PROVE  a \in PathToRoot(m)
<1>. DEFINE S == {k \in PathToRoot(n) : \A b \in PathToRoot(n) : b <= k => b \in PathToRoot(k)}
<1>1. Len(parent) \in Nat /\ PathToRoot(n) \subseteq 0..Len(parent) /\ n \in PathToRoot(n)
  BY PathIs, HeadersAreNumbers
<1>2. n \in S /\ S \in SUBSET (0..Len(parent))
  BY <1>1
<1>3. ASSUME NEW k \in S \ {0} PROVE parent[k] \in S
  <2>1. k \in PathToRoot(n) /\ k \in 0..Len(parent) /\ k # 0
    BY <1>1
  <2>2. parent[k] \in PathToRoot(n) /\ parent[k] < k /\ parent[k] \in 0..Len(parent)
    BY <1>1, <2>1, PathIs
  <2>3. ASSUME NEW b \in PathToRoot(n), b <= parent[k] PROVE b \in PathToRoot(parent[k])
    <3>1. b \in 0..Len(parent) /\ b <= k /\ b # k
      BY <1>1, <2>1, <2>2, <2>3
    <3>2. b \in PathToRoot(k)
      BY <3>1
    <3>. QED  BY <2>1, <3>1, <3>2, PathAbove
  <2>. QED  BY <2>2, <2>3
<1>. HIDE DEF S
<1>4. PathToRoot(n) \subseteq S
  BY <1>2, <1>3, PathIs
<1>. QED  BY <1>4 DEF S

(***************************************************************************)
(* The nodes on the way from p to the root that count at height m of a     *)
(* route to q: those that q shares, and those numbered up to m.            *)
(***************************************************************************)
UpTo(p, q, m) == {a \in PathToRoot(p) : a <= m \/ a \in PathToRoot(q)}

(* At the bottom the route is at p, at the top at what p and q share.      *)
LEMMA RouteEnds ==
  ASSUME Numbered, NEW p \in 0..Len(parent), NEW q \in 0..Len(parent)
  PROVE  MaxOf(UpTo(p, q, Len(parent))) = p /\ UpTo(p, q, 0) = UpTo(q, p, 0)
<1>1. /\ Len(parent) \in Nat /\ p \in PathToRoot(p)
      /\ PathToRoot(p) \subseteq 0..Len(parent) /\ PathToRoot(q) \subseteq 0..Len(parent)
      /\ 0 \in PathToRoot(p) /\ 0 \in PathToRoot(q) /\ \A a \in PathToRoot(p) : a <= p
  BY PathIs, PathDown, HeadersAreNumbers
<1>2. UpTo(p, q, Len(parent)) = PathToRoot(p)
  BY <1>1 DEF UpTo
<1>3. MaxOf(PathToRoot(p)) = p
  BY <1>1, MaxOfIs
<1>4. \A a \in 0..Len(parent) : a <= 0 <=> a = 0
  BY <1>1
<1>5. UpTo(p, q, 0) = UpTo(q, p, 0)
  BY <1>1, <1>4 DEF UpTo
<1>. QED  BY <1>2, <1>3, <1>5

(* A header of the path of p alone is left for, or entered from, its parent. *)
LEMMA RouteStep ==
  ASSUME Numbered, NEW p \in 0..Len(parent), NEW q \in 0..Len(parent),
         NEW h \in PathToRoot(p) \ PathToRoot(q)
  PROVE  /\ h \in 1..Len(parent)
         /\ MaxOf(UpTo(p, q, h)) = h /\ MaxOf(UpTo(p, q, h - 1)) = parent[h]
<1>1. /\ Len(parent) \in Nat /\ PathToRoot(p) \subseteq 0..Len(parent)
      /\ PathToRoot(q) \subseteq 0..Len(parent) /\ 0 \in PathToRoot(q)
  BY PathIs, PathDown, HeadersAreNumbers
<1>2. h \in 1..Len(parent) /\ h \in 0..Len(parent) /\ h # 0
  BY <1>1
<1>3. parent[h] \in PathToRoot(p) /\ parent[h] < h /\ parent[h] \in 0..Len(parent)
  BY <1>1, <1>2, PathIs
<1>4. ASSUME NEW a \in PathToRoot(p), a \in PathToRoot(q) PROVE a < h
  <2>1. a \in 0..Len(parent)
    BY <1>1
  <2>. SUFFICES ASSUME h <= a PROVE FALSE
    BY <1>1, <1>2, <2>1
  <2>2. h \in PathToRoot(a)
    BY PathIsChain
  <2>. QED  BY <1>4, <2>2, PathWithin
<1>5. MaxOf(UpTo(p, q, h)) = h
  <2>1. UpTo(p, q, h) \subseteq 0..Len(parent) /\ h \in UpTo(p, q, h)
    BY <1>1, <1>2 DEF UpTo
  <2>2. \A a \in UpTo(p, q, h) : a <= h
    BY <1>1, <1>2, <1>4 DEF UpTo
  <2>. QED  BY <2>1, <2>2, MaxOfIs
<1>6. MaxOf(UpTo(p, q, h - 1)) = parent[h]
  <2>1. UpTo(p, q, h - 1) \subseteq 0..Len(parent) /\ parent[h] \in UpTo(p, q, h - 1)
    BY <1>1, <1>2, <1>3 DEF UpTo
  <2>2. ASSUME NEW a \in UpTo(p, q, h - 1) PROVE a <= parent[h]
    <3>1. a \in PathToRoot(p) /\ a \in 0..Len(parent) /\ a < h
      BY <1>1, <1>2, <1>4 DEF UpTo
    <3>2. a \in PathToRoot(h) /\ a # h
      BY <1>2, <3>1, PathIsChain
    <3>3. a \in PathToRoot(parent[h])
      BY <1>2, <3>2, PathAbove
    <3>. QED  BY <1>3, <3>3, PathDown
  <2>. QED  BY <2>1, <2>2, MaxOfIs
<1>. QED  BY <1>2, <1>5, <1>6

(* Any other header leaves the route where it is.                          *)
LEMMA RouteStays ==
  ASSUME Numbered, NEW p \in 0..Len(parent), NEW q \in 0..Len(parent),
         NEW h \in 1..Len(parent), h \notin PathToRoot(p) \ PathToRoot(q)
  PROVE  UpTo(p, q, h - 1) = UpTo(p, q, h)
<1>1. /\ Len(parent) \in Nat /\ PathToRoot(p) \subseteq 0..Len(parent)
      /\ PathToRoot(q) \subseteq 0..Len(parent)
  BY PathIs, HeadersAreNumbers
<1>2. \A a \in PathToRoot(p) : a \notin PathToRoot(q) => (a <= h - 1 <=> a <= h)
  BY <1>1
<1>. QED  BY <1>2 DEF UpTo

(* The climb ends in the version of the deepest common ancestor ...        *)
LEMMA ClimbedText ==
  ASSUME Numbered, BlocksInv, BufferInv, NEW n \in 0..Len(parent)
  PROVE  Climbed(n) = WithLines(buffer, version[MaxOf(UpTo(current, n, 0))])
<1>. DEFINE N == Len(parent)
            left == Left(n)
            Height(k) == MaxOf(UpTo(current, n, N - k))
            Step(u, k) == IF N - k + 1 \in left THEN UndoBlock(u, edits[N - k + 1]) ELSE u
            F == [k \in 0..N |-> WithLines(buffer, version[Height(k)])]
            text == CHOOSE f : f = [k \in 0..N |-> IF k = 0 THEN buffer ELSE Step(f[k - 1], k)]
<1>0. N \in Nat /\ current \in 0..N /\ buffer \in Text /\ buffer.lines = version[current]
  BY HeadersAreNumbers DEF Numbered, BufferInv
<1>1. ASSUME NEW k \in 1..N
      PROVE  WithLines(buffer, version[Height(k)]) = Step(WithLines(buffer, version[Height(k - 1)]), k)
  <2>. DEFINE h == N - k + 1
  <2>1. h \in 1..N /\ h - 1 = N - k /\ h = N - (k - 1)
    BY <1>0
  <2>2. Height(k) = MaxOf(UpTo(current, n, h - 1)) /\ Height(k - 1) = MaxOf(UpTo(current, n, h))
    BY <2>1
  <2>. HIDE DEF h, Height
  <2>3. CASE h \in left
    <3>1. h \in PathToRoot(current) \ PathToRoot(n)
      BY <2>3 DEF Left
    <3>2. Height(k - 1) = h /\ Height(k) = parent[h]
      BY <1>0, <2>2, <3>1, RouteStep
    <3>3. version[h] \in Lines
      <4>1. h \in 0..N
        BY <1>0, <2>1
      <4>. QED  BY <4>1 DEF BlocksInv
    <3>4. WithLines(buffer, version[h]) \in Text /\ WithLines(buffer, version[h]).lines = version[h]
      BY <1>0, <3>3, TextWithLines
    <3>5. UndoBlock(WithLines(buffer, version[h]), edits[h]) = WithLines(WithLines(buffer, version[h]), version[parent[h]])
      BY <2>1, <3>4, BlockUndone
    <3>6. WithLines(WithLines(buffer, version[h]), version[parent[h]]) = WithLines(buffer, version[parent[h]])
      BY DEF WithLines
    <3>. QED  BY <2>3, <3>2, <3>5, <3>6 DEF h
  <2>4. CASE h \notin left
    <3>1. h \notin PathToRoot(current) \ PathToRoot(n)
      BY <2>4 DEF Left
    <3>2. UpTo(current, n, h - 1) = UpTo(current, n, h)
      BY <1>0, <2>1, <3>1, RouteStays
    <3>. QED  BY <2>2, <2>4, <3>2 DEF h
  <2>. QED  BY <2>3, <2>4
<1>2. WithLines(buffer, version[Height(0)]) = buffer
  <2>1. N - 0 = N
    BY <1>0
  <2>2. Height(0) = current
    BY <1>0, <2>1, RouteEnds
  <2>3. buffer = WithLines(buffer, buffer.lines)
    BY <1>0 DEF WithLines, Text
  <2>. QED  BY <1>0, <2>2, <2>3
<1>. HIDE DEF Step, Height, left
<1>3. F = [k \in 0..N |-> IF k = 0 THEN buffer ELSE Step(F[k - 1], k)]
  <2>1. ASSUME NEW k \in 1..N PROVE WithLines(buffer, version[Height(k)]) = Step(F[k - 1], k)
    <3>1. k - 1 \in 0..N
      BY <1>0
    <3>. QED  BY <1>1, <3>1
  <2>2. ASSUME NEW k \in 0..N
        PROVE  WithLines(buffer, version[Height(k)]) = IF k = 0 THEN buffer ELSE Step(F[k - 1], k)
    <3>1. CASE k = 0
      BY <1>2, <3>1
    <3>2. CASE k # 0
      <4>1. k \in 1..N
        BY <1>0, <3>2
      <4>. QED  BY <2>1, <3>2, <4>1
    <3>. QED  BY <3>1, <3>2
  <2>. QED  BY <2>2
<1>4. text = [k \in 0..N |-> IF k = 0 THEN buffer ELSE Step(text[k - 1], k)]
  <2>. HIDE DEF F
  <2>. QED  BY <1>3
<1>. HIDE DEF text
<1>5. \A k \in 0..N : text[k] = F[k]
  <2>. HIDE DEF F
  <2>1. text[0] = buffer /\ F[0] = buffer
    BY <1>0, <1>3, <1>4
  <2>2. ASSUME NEW k \in 1..N
        PROVE  text[k] = Step(text[k - 1], k) /\ F[k] = Step(F[k - 1], k)
    <3>1. k \in 0..N /\ k # 0
      BY <1>0
    <3>2. text[k] = IF k = 0 THEN buffer ELSE Step(text[k - 1], k)
      BY <1>4, <3>1
    <3>3. F[k] = IF k = 0 THEN buffer ELSE Step(F[k - 1], k)
      BY <1>3, <3>1
    <3>. QED  BY <3>1, <3>2, <3>3
  <2>3. Alike(N, text, F)
    BY <2>1, <2>2 DEF Alike
  <2>. HIDE DEF N
  <2>. QED  BY ONLY <1>0, <2>3, SameSteps, Zenon
<1>6. Climbed(n) = text[N]
  BY DEF Climbed, text, Step, left
<1>7. F[N] = WithLines(buffer, version[MaxOf(UpTo(current, n, 0))])
  <2>1. N - N = 0
    BY <1>0
  <2>. QED  BY <1>0, <2>1 DEF Height
<1>. QED  BY <1>0, <1>5, <1>6, <1>7

(* ... and the descent in the version of the target.                       *)
LEMMA DescendedText ==
  ASSUME Numbered, BlocksInv, BufferInv, NEW n \in 0..Len(parent)
  PROVE  Descended(n) = WithLines(buffer, version[n])
<1>. DEFINE N == Len(parent)
            entered == Entered(n)
            Height(k) == MaxOf(UpTo(n, current, k))
            Step(u, k) == IF k \in entered THEN RedoBlock(u, edits[k]) ELSE u
            F == [k \in 0..N |-> WithLines(buffer, version[Height(k)])]
            top == Climbed(n)
            text == CHOOSE f : f = [k \in 0..N |-> IF k = 0 THEN top ELSE Step(f[k - 1], k)]
<1>0. N \in Nat /\ current \in 0..N /\ buffer \in Text
  BY HeadersAreNumbers DEF Numbered, BufferInv
<1>1. ASSUME NEW k \in 1..N
      PROVE  WithLines(buffer, version[Height(k)]) = Step(WithLines(buffer, version[Height(k - 1)]), k)
  <2>1. CASE k \in entered
    <3>1. k \in PathToRoot(n) \ PathToRoot(current)
      BY <2>1 DEF Entered
    <3>2. Height(k - 1) = parent[k] /\ Height(k) = k
      BY <1>0, <3>1, RouteStep
    <3>3. parent[k] \in 0..N
      BY <1>0 DEF Numbered
    <3>4. version[parent[k]] \in Lines
      BY <3>3 DEF BlocksInv
    <3>5. WithLines(buffer, version[parent[k]]) \in Text
          /\ WithLines(buffer, version[parent[k]]).lines = version[parent[k]]
      BY <1>0, <3>4, TextWithLines
    <3>6. RedoBlock(WithLines(buffer, version[parent[k]]), edits[k]) = WithLines(WithLines(buffer, version[parent[k]]), version[k])
      BY <3>5, BlockRedone
    <3>7. WithLines(WithLines(buffer, version[parent[k]]), version[k]) = WithLines(buffer, version[k])
      BY DEF WithLines
    <3>. HIDE DEF Height
    <3>. QED  BY <2>1, <3>2, <3>6, <3>7
  <2>2. CASE k \notin entered
    <3>1. k \notin PathToRoot(n) \ PathToRoot(current)
      BY <2>2 DEF Entered
    <3>2. UpTo(n, current, k - 1) = UpTo(n, current, k)
      BY <1>0, <3>1, RouteStays
    <3>. QED  BY <2>2, <3>2
  <2>. QED  BY <2>1, <2>2
<1>2. WithLines(buffer, version[Height(0)]) = top
  <2>1. UpTo(n, current, 0) = UpTo(current, n, 0)
    BY <1>0, RouteEnds
  <2>. QED  BY <2>1, ClimbedText
<1>. HIDE DEF Step, Height, entered, top
<1>3. F = [k \in 0..N |-> IF k = 0 THEN top ELSE Step(F[k - 1], k)]
  <2>1. ASSUME NEW k \in 1..N PROVE WithLines(buffer, version[Height(k)]) = Step(F[k - 1], k)
    <3>1. k - 1 \in 0..N
      BY <1>0
    <3>. QED  BY <1>1, <3>1
  <2>2. ASSUME NEW k \in 0..N
        PROVE  WithLines(buffer, version[Height(k)]) = IF k = 0 THEN top ELSE Step(F[k - 1], k)
    <3>1. CASE k = 0
      BY <1>2, <3>1
    <3>2. CASE k # 0
      <4>1. k \in 1..N
        BY <1>0, <3>2
      <4>. QED  BY <2>1, <3>2, <4>1
    <3>. QED  BY <3>1, <3>2
  <2>. QED  BY <2>2
<1>4. text = [k \in 0..N |-> IF k = 0 THEN top ELSE Step(text[k - 1], k)]
  <2>. HIDE DEF F
  <2>. QED  BY <1>3
<1>. HIDE DEF text
<1>5. \A k \in 0..N : text[k] = F[k]
  <2>. HIDE DEF F
  <2>1. text[0] = top /\ F[0] = top
    BY <1>0, <1>3, <1>4
  <2>2. ASSUME NEW k \in 1..N
        PROVE  text[k] = Step(text[k - 1], k) /\ F[k] = Step(F[k - 1], k)
    <3>1. k \in 0..N /\ k # 0
      BY <1>0
    <3>2. text[k] = IF k = 0 THEN top ELSE Step(text[k - 1], k)
      BY <1>4, <3>1
    <3>3. F[k] = IF k = 0 THEN top ELSE Step(F[k - 1], k)
      BY <1>3, <3>1
    <3>. QED  BY <3>1, <3>2, <3>3
  <2>3. Alike(N, text, F)
    BY <2>1, <2>2 DEF Alike
  <2>. HIDE DEF N
  <2>. QED  BY ONLY <1>0, <2>3, SameSteps, Zenon
<1>6. Descended(n) = text[N]
  BY DEF Descended, text, Step, entered, top
<1>7. Height(N) = n
  BY <1>0, RouteEnds DEF Height
<1>. QED  BY <1>0, <1>5, <1>6, <1>7

LEMMA EditArguments ==
  ASSUME NEW s \in 1..(MaxLines + 1), NEW n \in 0..MaxLines, NEW ls \in BoundedSeq(Line, MaxLines)
  PROVE  s \in Nat \ {0} /\ n \in Nat /\ ls \in Seq(Line)
<1>1. MaxLines \in Nat
  BY TextAssumption
<1>2. PICK m \in 0..MaxLines : ls \in [1..m -> Line]
  BY DEF BoundedSeq, SeqOf
<1>3. ls \in Seq(Line)
  BY <1>1, <1>2
<1>. QED  BY <1>1, <1>3

LEMMA HistoryNext ==
  ASSUME ~Drains, HistoryInv, [Next]_vars
  PROVE  HistoryInv'
<1>1. TreeInv'
  BY NextTree DEF HistoryInv
<1>2. /\ TreeInv /\ BlocksInv /\ BufferInv /\ Numbered /\ current \in 0..Len(parent)
      /\ Len(parent) \in Nat /\ buffer \in Text /\ Headers = 1..Len(parent)
  BY HeadersAreNumbers DEF HistoryInv, TreeInv, Numbered, BufferInv
<1>. SUFFICES BlocksInv' /\ BufferInv'
  BY <1>1 DEF HistoryInv
<1>3. ASSUME NEW s \in 1..(MaxLines + 1), NEW n \in 0..MaxLines, NEW ls \in BoundedSeq(Line, MaxLines),
             Edit(s, n, ls)
      PROVE  BlocksInv' /\ BufferInv'
  <2>. DEFINE e == Record(s, n, ls)
  <2>1. s \in Nat \ {0} /\ n \in Nat /\ ls \in Seq(Line)
    BY EditArguments
  <2>2. /\ Fits(e, buffer.lines) /\ buffer' = WithLines(buffer, Applied(e, buffer.lines))
        /\ buffer' \in Text /\ buffer'.lines \in Lines
    BY <1>2, <1>3, <2>1, EditWrites
  <2>3. buffer'.lines = Applied(e, buffer.lines)
    BY <2>2 DEF WithLines
  <2>4. JoinBlock(e) \/ NewBlock(e)
    BY <1>3 DEF Edit, Record
  <2>. HIDE DEF e
  <2>. QED  BY <2>2, <2>3, <2>4, JoinedHistory, NewHistory
<1>4. ASSUME Sync \/ Undojoin \/ MarkModified \/ MarkSaved PROVE BlocksInv' /\ BufferInv'
  <2>1. UNCHANGED <<buffer, parent, edits, version, current>>
    BY <1>4 DEF Sync, Undojoin, MarkModified, MarkSaved, treeVars
  <2>. QED  BY <1>2, <2>1, StillHistory
<1>5. CASE Undo
  <2>1. current \in 1..Len(parent) /\ UNCHANGED <<parent, edits, version>> /\ current' = parent[current]
        /\ buffer' = UndoBlock(buffer, edits[current])
    BY <1>2, <1>5 DEF Undo
  <2>2. parent[current] \in 0..Len(parent)
    BY <1>2, <2>1, ParentIsNode
  <2>3. buffer' = WithLines(buffer, version[parent[current]])
    BY <1>2, <2>1, BlockUndone DEF BufferInv
  <2>. QED  BY <1>2, <2>1, <2>2, <2>3, MovedHistory
<1>6. CASE Redo
  <2>. DEFINE a == Active(current)
  <2>1. a # 0 /\ UNCHANGED <<parent, edits, version>> /\ current' = a
        /\ buffer' = RedoBlock(buffer, edits[a])
    BY <1>6 DEF Redo
  <2>2. a \in Children(current)
    BY <1>2, <2>1, ActiveIsChild
  <2>3. a \in 1..Len(parent) /\ a \in 0..Len(parent) /\ parent[a] = current
    BY <1>2, <2>2, ChildIsHeader
  <2>. HIDE DEF a
  <2>4. buffer' = WithLines(buffer, version[a])
    BY <1>2, <2>1, <2>3, BlockRedone DEF BufferInv
  <2>. QED  BY <1>2, <2>1, <2>3, <2>4, MovedHistory
<1>7. ASSUME NEW n \in 0..Len(parent), UndoToSeq(n) PROVE BlocksInv' /\ BufferInv'
  <2>1. UNCHANGED <<parent, edits, version>> /\ current' = n /\ buffer' = WithLines(buffer, version[n])
    BY <1>2, <1>7, DescendedText DEF UndoToSeq
  <2>. QED  BY <1>2, <2>1, MovedHistory
<1>8. ASSUME NEW b \in BOOLEAN, SetEol(b) PROVE BlocksInv' /\ BufferInv'
  <2>1. buffer' = [buffer EXCEPT !.eol = b] /\ UNCHANGED <<parent, edits, version, current>>
    BY <1>8 DEF SetEol, treeVars
  <2>2. buffer' \in Text /\ buffer'.lines = buffer.lines
    BY <1>2, <2>1 DEF Text
  <2>. QED  BY <1>2, <2>1, <2>2, StillHistory
<1>9. ASSUME NEW t \in Files, Load(t) PROVE BlocksInv' /\ BufferInv'
  BY <1>9, LoadHistory DEF HistoryInv
<1>10. CASE UNCHANGED vars
  <2>1. UNCHANGED <<buffer, parent, edits, version, current>>
    BY <1>10 DEF vars, treeVars
  <2>. QED  BY <1>2, <2>1, StillHistory
<1>. QED  BY <1>3, <1>4, <1>5, <1>6, <1>7, <1>8, <1>9, <1>10 DEF Next

(***************************************************************************)
(* Unless callers delete every line of a buffer, whatever route of edits,  *)
(* undo, redo and undo_to_seq led to the state of a header, the buffer     *)
(* holds the lines it had when that header was last recorded: for trees,   *)
(* blocks and texts of any size.                                           *)
(***************************************************************************)
THEOREM ReplayGivesVersion == ~Drains => (Spec => []TextIsVersion)
<1>. SUFFICES ASSUME ~Drains PROVE Spec => []TextIsVersion
  OBVIOUS
<1>1. Init => HistoryInv
  BY InitHistory
<1>2. HistoryInv /\ [Next]_vars => HistoryInv'
  BY HistoryNext
<1>3. HistoryInv => TextIsVersion
  BY DEF HistoryInv, BufferInv, TextIsVersion
<1>. QED  BY <1>1, <1>2, <1>3, PTL DEF Spec

-----------------------------------------------------------------------------
(* The save point *)

(* The saved state names a header and a length its block has or had; a     *)
(* block still of that length holds what was saved.                        *)
SavedInv ==
  \E n \in 0..Len(parent), k \in Nat :
    /\ savedAt = <<n, k>>
    /\ n = 0 => k = 0 /\ savedLines = version[0]
    /\ n # 0 => k <= Len(edits[n]) /\ (k = Len(edits[n]) => savedLines = version[n])
CleanInv == ~modified => savedAt = UndoState(current, edits) /\ buffer.eol = savedEol
SaveInv == HistoryInv /\ SavedInv /\ CleanInv

(* A saved state that is the current one holds the lines of the buffer.    *)
LEMMA SaveClean == SaveInv => SavedMeansClean
<1>. SUFFICES ASSUME SaveInv, ~modified PROVE buffer.lines = savedLines /\ buffer.eol = savedEol
  BY DEF SavedMeansClean
<1>1. savedAt = UndoState(current, edits) /\ buffer.eol = savedEol /\ buffer.lines = version[current]
  BY DEF SaveInv, CleanInv, HistoryInv, BufferInv
<1>2. PICK n \in 0..Len(parent), k \in Nat :
    /\ savedAt = <<n, k>>
    /\ n = 0 => k = 0 /\ savedLines = version[0]
    /\ n # 0 => k <= Len(edits[n]) /\ (k = Len(edits[n]) => savedLines = version[n])
  BY DEF SaveInv, SavedInv
<1>3. n = current /\ k = IF n = 0 THEN 0 ELSE Len(edits[n])
  BY <1>1, <1>2 DEF UndoState
<1>. QED  BY <1>1, <1>2, <1>3

(* refresh_modified leaves a flag that tells the truth. *)
LEMMA RefreshedClean ==
  ASSUME Refreshed, UNCHANGED <<savedAt, savedEol>>
  PROVE  CleanInv'
BY DEF Refreshed, CleanInv, UndoState

(* Steps that leave the save point alone never shorten a block, and give a *)
(* block that grows another length.                                        *)
LEMMA SavedStays ==
  ASSUME HistoryInv, SavedInv, UNCHANGED <<savedAt, savedLines>>, Len(parent) <= Len(parent'),
         Len(parent') \in Nat,
         version'[0] = version[0],
         \A n \in 1..Len(parent) :
           /\ Len(edits[n]) \in Nat /\ Len(edits'[n]) \in Nat /\ Len(edits[n]) <= Len(edits'[n])
           /\ Len(edits[n]) = Len(edits'[n]) => version'[n] = version[n]
  PROVE  SavedInv'
<1>1. PICK n \in 0..Len(parent), k \in Nat :
        /\ savedAt = <<n, k>>
        /\ n = 0 => k = 0 /\ savedLines = version[0]
        /\ n # 0 => k <= Len(edits[n]) /\ (k = Len(edits[n]) => savedLines = version[n])
  BY DEF SavedInv
<1>2. Len(parent) \in Nat
  BY HeadersAreNumbers DEF HistoryInv, TreeInv
<1>3. n \in 0..Len(parent')
  BY <1>2
<1>4. CASE n = 0
  BY <1>1, <1>3, <1>4 DEF SavedInv
<1>5. CASE n # 0
  <2>1. n \in 1..Len(parent)
    BY <1>2, <1>5
  <2>2. k <= Len(edits'[n]) /\ (k = Len(edits'[n]) => savedLines' = version'[n])
    <3>1. /\ Len(edits[n]) \in Nat /\ Len(edits'[n]) \in Nat /\ Len(edits[n]) <= Len(edits'[n])
          /\ Len(edits[n]) = Len(edits'[n]) => version'[n] = version[n]
          /\ k <= Len(edits[n]) /\ (k = Len(edits[n]) => savedLines = version[n])
      BY <1>1, <1>5, <2>1
    <3>. DEFINE a == Len(edits[n])
                b == Len(edits'[n])
    <3>2. k <= b
      <4>. HIDE DEF a, b
      <4>. QED  BY <3>1 DEF a, b
    <3>3. k = b => a = b
      <4>. HIDE DEF a, b
      <4>. QED  BY <3>1 DEF a, b
    <3>. QED  BY <3>1, <3>2, <3>3
  <2>. QED  BY <1>1, <1>3, <1>5, <2>2 DEF SavedInv
<1>. QED  BY <1>4, <1>5

LEMMA SameSaved ==
  ASSUME SavedInv, UNCHANGED <<savedAt, savedLines, parent, edits, version>>
  PROVE  SavedInv'
BY DEF SavedInv

LEMMA SameClean ==
  ASSUME CleanInv, UNCHANGED <<savedAt, savedEol, modified, current, edits>>, buffer'.eol = buffer.eol
  PROVE  CleanInv'
BY DEF CleanInv, UndoState

LEMMA EditSaved ==
  ASSUME HistoryInv, SavedInv, UNCHANGED <<savedAt, savedLines>>, NEW e, e \in LineEdit,
         JoinBlock(e) \/ NewBlock(e)
  PROVE  SavedInv'
<1>1. /\ parent \in Seq(Nat) /\ Len(parent) \in Nat /\ current \in 0..Len(parent)
      /\ edits \in Seq(Seq(LineEdit)) /\ Len(edits) = Len(parent)
      /\ version \in [0..Len(parent) -> Lines]
      /\ \A n \in 1..Len(parent) : edits[n] \in Seq(LineEdit) /\ Len(edits[n]) \in Nat
  BY DEF HistoryInv, TreeInv, Numbered, BlocksInv
<1>2. CASE JoinBlock(e)
  <2>1. current # 0 /\ parent' = parent /\ edits' = [edits EXCEPT ![current] = Append(edits[current], e)]
        /\ version' = [version EXCEPT ![current] = buffer'.lines]
    BY <1>2 DEF JoinBlock
  <2>2. current \in 1..Len(parent) /\ 0 \in 0..Len(parent)
    BY <1>1, <2>1
  <2>3. version'[0] = version[0]
    BY <1>1, <2>1, <2>2
  <2>4. ASSUME NEW n \in 1..Len(parent)
        PROVE  /\ Len(edits[n]) \in Nat /\ Len(edits'[n]) \in Nat /\ Len(edits[n]) <= Len(edits'[n])
               /\ Len(edits[n]) = Len(edits'[n]) => version'[n] = version[n]
    <3>1. CASE n = current
      <4>1. edits'[n] = Append(edits[n], e)
        BY <1>1, <2>1, <3>1
      <4>2. Len(edits'[n]) = Len(edits[n]) + 1
        BY <1>1, <4>1
      <4>. QED  BY <1>1, <4>2
    <3>2. CASE n # current
      <4>1. edits'[n] = edits[n] /\ version'[n] = version[n]
        BY <1>1, <2>1, <3>2
      <4>. QED  BY <1>1, <4>1
    <3>. QED  BY <3>1, <3>2
  <2>. QED  BY <1>1, <2>1, <2>3, <2>4, SavedStays
<1>3. CASE NewBlock(e)
  <2>. DEFINE new == Len(parent) + 1
              lines == buffer'.lines
  <2>1. /\ parent' = Append(parent, current) /\ edits' = Append(edits, <<e>>)
        /\ version' = [n \in DOMAIN version \union {new} |-> IF n = new THEN lines ELSE version[n]]
    BY <1>3 DEF NewBlock
  <2>2. Len(parent') = Len(parent) + 1
    BY <1>1, <2>1
  <2>3. \A n \in 1..Len(parent) : edits'[n] = edits[n]
    BY <1>1, <2>1
  <2>4. \A n \in 0..Len(parent) : version'[n] = version[n]
    <3>1. DOMAIN version = 0..Len(parent) /\ new \notin 0..Len(parent)
      BY <1>1
    <3>. HIDE DEF lines, new
    <3>. QED  BY <2>1, <3>1
  <2>5. 0 \in 0..Len(parent) /\ \A n \in 1..Len(parent) : n \in 0..Len(parent)
    BY <1>1
  <2>6. ASSUME NEW n \in 1..Len(parent)
        PROVE  /\ Len(edits[n]) \in Nat /\ Len(edits'[n]) \in Nat /\ Len(edits[n]) <= Len(edits'[n])
               /\ Len(edits[n]) = Len(edits'[n]) => version'[n] = version[n]
    BY <1>1, <2>3, <2>4, <2>5
  <2>. QED  BY <1>1, <2>2, <2>4, <2>5, <2>6, SavedStays
<1>. QED  BY <1>2, <1>3

LEMMA SaveNext ==
  ASSUME ~Drains, SaveInv, [Next]_vars
  PROVE  SaveInv'
<1>1. HistoryInv /\ HistoryInv' /\ SavedInv /\ CleanInv
  BY HistoryNext DEF SaveInv
<1>2. /\ TreeInv /\ BlocksInv /\ BufferInv /\ Numbered /\ current \in 0..Len(parent)
      /\ Len(parent) \in Nat /\ buffer \in Text /\ Headers = 1..Len(parent)
  BY <1>1, HeadersAreNumbers DEF HistoryInv, TreeInv, Numbered, BufferInv
<1>. SUFFICES SavedInv' /\ CleanInv'
  BY <1>1 DEF SaveInv
<1>3. ASSUME NEW s \in 1..(MaxLines + 1), NEW n \in 0..MaxLines, NEW ls \in BoundedSeq(Line, MaxLines),
             Edit(s, n, ls)
      PROVE  SavedInv' /\ CleanInv'
  <2>. DEFINE e == Record(s, n, ls)
  <2>1. s \in Nat \ {0} /\ n \in Nat /\ ls \in Seq(Line)
    BY EditArguments
  <2>2. e \in LineEdit
    BY <1>2, <1>3, <2>1, EditWrites DEF Fits
  <2>3. JoinBlock(e) \/ NewBlock(e)
    BY <1>3 DEF Edit, Record
  <2>4. UNCHANGED <<savedAt, savedLines, savedEol>> /\ Refreshed
    BY <1>3 DEF Edit, saveVars
  <2>. HIDE DEF e
  <2>. QED  BY <1>1, <2>2, <2>3, <2>4, EditSaved, RefreshedClean
<1>4. CASE Sync \/ Undojoin \/ UNCHANGED vars
  <2>1. UNCHANGED <<buffer, parent, edits, version, current, savedAt, savedLines, savedEol, modified>>
    BY <1>4 DEF Sync, Undojoin, saveVars, vars, treeVars
  <2>. QED  BY <1>1, <2>1, SameSaved, SameClean
<1>5. ASSUME Undo \/ Redo PROVE SavedInv' /\ CleanInv'
  <2>1. UNCHANGED <<parent, edits, version, savedAt, savedLines, savedEol>> /\ Refreshed
    BY <1>5 DEF Undo, Redo, saveVars
  <2>. QED  BY <1>1, <2>1, SameSaved, RefreshedClean
<1>6. ASSUME NEW b \in BOOLEAN, SetEol(b) PROVE SavedInv' /\ CleanInv'
  <2>1. UNCHANGED <<parent, edits, version, savedAt, savedLines, savedEol>> /\ Refreshed
    BY <1>6 DEF SetEol, saveVars, treeVars
  <2>. QED  BY <1>1, <2>1, SameSaved, RefreshedClean
<1>7. ASSUME NEW n \in 0..Len(parent), UndoToSeq(n) PROVE SavedInv' /\ CleanInv'
  <2>1. UNCHANGED <<parent, edits, version, savedAt, savedLines, savedEol>> /\ current' = n
        /\ buffer' = WithLines(buffer, version[n])
        /\ IF n = current THEN modified' = modified ELSE Refreshed
    BY <1>2, <1>7, DescendedText DEF UndoToSeq, saveVars
  <2>2. CASE n = current
    <3>1. buffer'.eol = buffer.eol /\ UNCHANGED <<modified, current>>
      BY <2>1, <2>2 DEF WithLines
    <3>. QED  BY <1>1, <2>1, <3>1, SameSaved, SameClean
  <2>3. CASE n # current
    BY <1>1, <2>1, <2>3, SameSaved, RefreshedClean
  <2>. QED  BY <2>2, <2>3
<1>8. CASE MarkModified
  <2>1. UNCHANGED <<parent, edits, version, savedAt, savedLines>> /\ modified' = TRUE
    BY <1>8 DEF MarkModified, treeVars
  <2>. QED  BY <1>1, <2>1, SameSaved DEF CleanInv
<1>9. CASE MarkSaved
  <2>1. /\ UNCHANGED <<buffer, parent, edits, version, current>>
        /\ savedAt' = UndoState(current, edits) /\ savedEol' = buffer.eol
        /\ savedLines' = buffer.lines
    BY <1>9 DEF MarkSaved, treeVars
  <2>2. CleanInv'
    BY <2>1 DEF CleanInv, UndoState
  <2>3. SavedInv'
    <3>. DEFINE k == IF current = 0 THEN 0 ELSE Len(edits[current])
    <3>1. k \in Nat /\ savedAt' = <<current, k>>
      <4>1. CASE current = 0
        BY <2>1, <4>1 DEF UndoState
      <4>2. CASE current # 0
        <5>1. current \in 1..Len(parent)
          BY <1>2, <4>2
        <5>2. edits[current] \in Seq(LineEdit)
          BY <1>2, <5>1 DEF BlocksInv
        <5>. QED  BY <2>1, <4>2, <5>2 DEF UndoState
      <4>. QED  BY <4>1, <4>2
    <3>2. savedLines' = version[current]
      BY <1>2, <2>1 DEF BufferInv
    <3>. QED  BY <1>2, <2>1, <3>1, <3>2 DEF SavedInv
  <2>. QED  BY <2>2, <2>3
<1>10. ASSUME NEW t \in Files, Load(t) PROVE SavedInv' /\ CleanInv'
  <2>1. /\ parent' = <<>> /\ current' = 0 /\ version' = [n \in {0} |-> t.lines]
        /\ buffer' = t /\ savedAt' = <<0, 0>> /\ savedEol' = t.eol /\ savedLines' = t.lines
    BY <1>10 DEF Load, EmptyTree
  <2>2. Len(parent') = 0 /\ 0 \in 0..0
    BY <2>1
  <2>3. SavedInv'
    BY <2>1, <2>2 DEF SavedInv
  <2>4. CleanInv'
    BY <2>1 DEF CleanInv, UndoState
  <2>. QED  BY <2>3, <2>4
<1>. QED  BY <1>3, <1>4, <1>5, <1>6, <1>7, <1>8, <1>9, <1>10 DEF Next

LEMMA InitSave == Init => SaveInv
<1>. SUFFICES ASSUME Init PROVE SaveInv
  OBVIOUS
<1>1. parent = <<>> /\ current = 0 /\ version = [n \in {0} |-> buffer.lines]
      /\ savedAt = <<0, 0>> /\ savedEol = buffer.eol /\ savedLines = buffer.lines
  BY DEF Init
<1>2. Len(parent) = 0 /\ 0 \in 0..0
  BY <1>1
<1>3. SavedInv
  BY <1>1, <1>2 DEF SavedInv
<1>4. CleanInv
  BY <1>1 DEF CleanInv, UndoState
<1>. QED  BY <1>3, <1>4, InitHistory DEF SaveInv

(***************************************************************************)
(* Unless callers delete every line of a buffer, one that is not modified  *)
(* holds the lines and the final end-of-line that were saved last, however *)
(* saves, joined blocks, undo and jumps follow each other.                 *)
(***************************************************************************)
THEOREM UnmodifiedIsSaved == ~Drains => (Spec => []SavedMeansClean)
<1>. SUFFICES ASSUME ~Drains PROVE Spec => []SavedMeansClean
  OBVIOUS
<1>1. Init => SaveInv
  BY InitSave
<1>2. SaveInv /\ [Next]_vars => SaveInv'
  BY SaveNext
<1>. QED  BY <1>1, <1>2, SaveClean, PTL DEF Spec
=============================================================================
