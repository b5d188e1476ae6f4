------------------------- MODULE NotificationsProofs -------------------------
(* Proofs about the panes, the renderer that draws them and the unread rings  *)
(* on them: SplitTree, Panes, PaneRenderer, Notifications.                    *)
EXTENDS Notifications, PaneRenderer, FiniteSetTheorems, SequenceTheorems, WellFoundedInduction, TLAPS
-----------------------------------------------------------------------------
(* Paths.                                                                    *)

Paths == Seq(Branches)

Under(a, p) == \E s \in Paths : p = a \o s

\* A branch and its sibling are the two branches.
LEMMA SiblingIsOther ==
  ASSUME NEW b \in Branches
  PROVE  /\ Sibling(b) \in Branches /\ Sibling(b) # b
         /\ \A e \in Branches : e = b \/ e = Sibling(b)
<1>1. \E e \in Branches : e # b
  BY DEF Branches
<1>2. Sibling(b) \in Branches /\ Sibling(b) # b
  BY <1>1 DEF Sibling
<1> QED
  BY <1>2 DEF Branches

\* One step down from a path, and back.
LEMMA PathAppend ==
  ASSUME NEW u \in Paths, NEW b \in Branches
  PROVE  /\ Append(u, b) \in Paths /\ Append(u, b) # <<>>
         /\ Front(Append(u, b)) = u /\ Last(Append(u, b)) = b
<1> DEFINE v == Append(u, b)
<1>1. /\ v \in Paths /\ v # <<>> /\ Len(u) \in Nat /\ Len(v) = Len(u) + 1
      /\ \A i \in 1..Len(u) : v[i] = u[i]
      /\ v[Len(u) + 1] = b
  BY AppendProperties, LenProperties DEF Paths
<1>2. \A i \in 1..Len(u) : u[i] \in Branches
  BY ElementOfSeq DEF Paths
<1> HIDE DEF v
<1>3. /\ SubSeq(v, 1, Len(u)) \in Paths /\ Len(SubSeq(v, 1, Len(u))) = Len(u)
      /\ \A i \in 1..Len(u) : SubSeq(v, 1, Len(u))[i] = u[i]
  <2>1. 1 \in Int /\ Len(u) \in Int /\ \A i \in 1..Len(u) : v[i] \in Branches
    BY <1>1, <1>2
  <2>2. /\ SubSeq(v, 1, Len(u)) \in Seq(Branches)
        /\ Len(SubSeq(v, 1, Len(u))) = IF 1 <= Len(u) THEN Len(u) - 1 + 1 ELSE 0
        /\ \A i \in 1 .. Len(u) - 1 + 1 : SubSeq(v, 1, Len(u))[i] = v[1 + i - 1]
    BY <2>1, SubSeqProperties
  <2> QED
    BY <1>1, <2>2 DEF Paths
<1>4. SubSeq(v, 1, Len(u)) = u
  BY <1>3, SeqEqual DEF Paths
<1>5. Front(v) = u /\ Last(v) = b
  BY <1>1, <1>4 DEF Front, Last
<1> QED
  BY <1>1, <1>5 DEF v

\* A path other than the root is one step down from its parent.
LEMMA PathFront ==
  ASSUME NEW s \in Paths, s # <<>>
  PROVE  /\ Front(s) \in Paths /\ Last(s) \in Branches
         /\ s = Append(Front(s), Last(s))
<1>1. PICK u \in Paths, b \in Branches : s = Append(u, b)
  BY SequenceEmptyOrAppend DEF Paths
<1> QED
  BY <1>1, PathAppend

\* A place is one step down from its parent in one way only.
LEMMA PathAppendInjective ==
  ASSUME NEW s \in Paths, NEW t \in Paths, NEW b \in Branches, NEW c \in Branches,
         Append(s, b) = Append(t, c)
  PROVE  s = t /\ b = c
  BY AppendInjective DEF Paths

\* The root is a path.
LEMMA EmptyPath == <<>> \in Paths
  BY EmptySeq DEF Paths

\* One path after another is a path.
LEMMA Glue ==
  ASSUME NEW a \in Paths, NEW s \in Paths
  PROVE  a \o s \in Paths
  BY ConcatProperties DEF Paths

\* The root, before a path or after it, adds nothing.
LEMMA GlueEmpty ==
  ASSUME NEW a \in Paths
  PROVE  a \o <<>> = a /\ <<>> \o a = a
  BY ConcatEmptySeq DEF Paths

\* It does not matter which of three paths are joined first.
LEMMA GlueAssociates ==
  ASSUME NEW a \in Paths, NEW s \in Paths, NEW u \in Paths
  PROVE  (a \o s) \o u = a \o (s \o u)
  BY ConcatAssociative DEF Paths

\* A step down at the end of the second path is one at the end of both.
LEMMA GlueAppend ==
  ASSUME NEW a \in Paths, NEW s \in Paths, NEW b \in Branches
  PROVE  a \o Append(s, b) = Append(a \o s, b)
<1>1. <<b>> \in Paths
  BY DEF Paths
<1>2. a \o s \in Seq(Branches)
  BY Glue DEF Paths
<1> QED
  BY <1>1, <1>2, AppendIsConcat, ConcatAssociative DEF Paths

\* What is below a path is there in one way only.
LEMMA GlueCancels ==
  ASSUME NEW a \in Paths, NEW s \in Paths, NEW u \in Paths, a \o s = a \o u
  PROVE  s = u
<1> DEFINE n == Len(a)
<1>1. /\ Len(a) \in Nat /\ Len(s) \in Nat /\ Len(u) \in Nat
      /\ Len(a \o s) = Len(a) + Len(s) /\ Len(a \o u) = Len(a) + Len(u)
      /\ \A i \in 1..Len(a) + Len(s) : (a \o s)[i] = IF i <= Len(a) THEN a[i] ELSE s[i - Len(a)]
      /\ \A i \in 1..Len(a) + Len(u) : (a \o u)[i] = IF i <= Len(a) THEN a[i] ELSE u[i - Len(a)]
  BY ConcatProperties, LenProperties DEF Paths
<1>2. Len(s) = Len(u)
  BY <1>1
<1>3. ASSUME NEW i \in 1..Len(s) PROVE s[i] = u[i]
  <2>1. /\ Len(a) + i \in 1..Len(a) + Len(s) /\ Len(a) + i \in 1..Len(a) + Len(u)
        /\ ~(Len(a) + i <= Len(a)) /\ Len(a) + i - Len(a) = i
    BY <1>1, <1>2
  <2> QED
    BY <1>1, <2>1
<1> QED
  BY <1>2, <1>3, SeqEqual DEF Paths

\* IsPrefix and SubSeq of ClosePane: a path under another and the rest of it.
LEMMA PrefixIsUnder ==
  ASSUME NEW a \in Paths, NEW p \in Paths
  PROVE  /\ IsPrefix(a, p) <=> Under(a, p)
         /\ \A s \in Paths : p = a \o s => SubSeq(p, Len(a) + 1, Len(p)) = s
<1> DEFINE n == Len(a)
           m == Len(p)
<1>1. n \in Nat /\ m \in Nat /\ SubSeq(a, 1, n) = a
  BY LenProperties, SubSeqFull DEF Paths
<1>2. \A i \in 1..m : p[i] \in Branches
  BY ElementOfSeq DEF Paths
<1>3. ASSUME NEW s \in Paths, p = a \o s
      PROVE  IsPrefix(a, p) /\ SubSeq(p, n + 1, m) = s
  <2>1. /\ Len(s) \in Nat /\ m = n + Len(s)
        /\ \A i \in 1..m : p[i] = IF i <= n THEN a[i] ELSE s[i - n]
    BY <1>1, <1>3, ConcatProperties, LenProperties DEF Paths
  <2> HIDE DEF n, m
  <2>2. SubSeq(p, 1, n) = a
    <3>1. \A i \in 1..n : p[i] = a[i] /\ p[i] \in Branches
      BY <1>1, <1>2, <2>1
    <3>2. /\ SubSeq(p, 1, n) \in Seq(Branches)
          /\ Len(SubSeq(p, 1, n)) = IF 1 <= n THEN n - 1 + 1 ELSE 0
          /\ \A i \in 1 .. n - 1 + 1 : SubSeq(p, 1, n)[i] = p[1 + i - 1]
      BY <1>1, <3>1, SubSeqProperties
    <3>3. /\ Len(SubSeq(p, 1, n)) = Len(a)
          /\ \A i \in 1..Len(SubSeq(p, 1, n)) : SubSeq(p, 1, n)[i] = a[i]
      BY <1>1, <3>1, <3>2 DEF n
    <3> QED
      BY <3>2, <3>3, SeqEqual DEF Paths
  <2>3. SubSeq(p, n + 1, m) = s
    <3>1. \A i \in n + 1..m : p[i] = s[i - n] /\ p[i] \in Branches
      BY <1>1, <1>2, <2>1
    <3>2. /\ SubSeq(p, n + 1, m) \in Seq(Branches)
          /\ Len(SubSeq(p, n + 1, m)) = IF n + 1 <= m THEN m - (n + 1) + 1 ELSE 0
          /\ \A i \in 1 .. m - (n + 1) + 1 : SubSeq(p, n + 1, m)[i] = p[n + 1 + i - 1]
      <4>1. n + 1 \in Int /\ m \in Int
        BY <1>1
      <4> QED
        BY <3>1, <4>1, SubSeqProperties
    <3>3. /\ Len(SubSeq(p, n + 1, m)) = Len(s)
          /\ \A i \in 1..Len(SubSeq(p, n + 1, m)) : SubSeq(p, n + 1, m)[i] = s[i]
      BY <1>1, <2>1, <3>1, <3>2
    <3> QED
      BY <3>2, <3>3, SeqEqual DEF Paths
  <2>4. n <= m
    BY <1>1, <2>1
  <2> QED
    BY <1>1, <2>2, <2>3, <2>4 DEF IsPrefix, n, m
<1>4. ASSUME IsPrefix(a, p)
      PROVE  Under(a, p)
  <2>1. n <= m /\ SubSeq(p, 1, n) = a
    BY <1>1, <1>4 DEF IsPrefix
  <2> DEFINE s == SubSeq(p, n + 1, m)
  <2>2. s \in Paths
    <3>1. n + 1 \in Int /\ m \in Int /\ \A i \in n + 1..m : p[i] \in Branches
      BY <1>1, <1>2
    <3> HIDE DEF n, m
    <3> QED
      BY <3>1, SubSeqProperties DEF Paths
  <2>3. p = a \o s
    <3>1. 1 \in 1..m + 1 /\ n \in 1 - 1..m /\ m \in n..m
      BY <1>1, <2>1
    <3>2. SubSeq(p, 1, n) \o SubSeq(p, n + 1, m) = SubSeq(p, 1, m)
      BY <3>1, ConcatAdjacentSubSeq DEF Paths
    <3> QED
      BY <2>1, <3>2, SubSeqFull DEF Paths
  <2> QED
    BY <2>2, <2>3 DEF Under
<1> QED
  BY <1>3, <1>4 DEF Under

\* A step down leads under a path from under it, or arrives at the path itself.
LEMMA UnderStep ==
  ASSUME NEW a \in Paths, NEW p \in Paths, NEW b \in Branches
  PROVE  Under(a, Append(p, b)) <=> Under(a, p) \/ a = Append(p, b)
<1>1. ASSUME Under(a, Append(p, b)), a # Append(p, b)
      PROVE  Under(a, p)
  <2>1. PICK s \in Paths : Append(p, b) = a \o s
    BY <1>1 DEF Under
  <2>2. s # <<>>
    BY <1>1, <2>1, GlueEmpty
  <2>3. PICK u \in Paths, c \in Branches : s = Append(u, c)
    BY <2>2, PathFront
  <2>4. Append(p, b) = Append(a \o u, c) /\ a \o u \in Paths
    BY <2>1, <2>3, GlueAppend, Glue
  <2>5. p = a \o u
    BY <2>4, PathAppendInjective
  <2> QED
    BY <2>5 DEF Under
<1>2. ASSUME Under(a, p)
      PROVE  Under(a, Append(p, b))
  <2>1. PICK s \in Paths : p = a \o s
    BY <1>2 DEF Under
  <2>2. Append(p, b) = a \o Append(s, b) /\ Append(s, b) \in Paths
    BY <2>1, PathAppend, GlueAppend
  <2> QED
    BY <2>2 DEF Under
<1>3. ASSUME a = Append(p, b)
      PROVE  Under(a, Append(p, b))
  BY <1>3, PathAppend, GlueEmpty, EmptyPath DEF Under
<1> QED
  BY <1>1, <1>2, <1>3

-----------------------------------------------------------------------------
(* Trees.                                                                    *)

Nodes ==
  [type : {"pane"}, panel : Panels]
    \cup [type : {"split"}, orientation : {"horizontal", "vertical"}, divider : 1..9]

\* A binary tree of panes and splits: a path is in it with both its children if it
\* leads to a split, with none if it leads to a pane; no pane is there twice.
Tree(t) ==
  /\ t = [p \in DOMAIN t |-> t[p]]
  /\ DOMAIN t \subseteq Paths
  /\ <<>> \in DOMAIN t
  /\ \A p \in DOMAIN t : t[p] \in Nodes
  /\ \A p \in Paths, b \in Branches :
       Append(p, b) \in DOMAIN t <=> p \in DOMAIN t /\ t[p].type = "split"
  /\ \A p, q \in Leaves(t) : t[p].panel = t[q].panel => p = q

\* A tree satisfies what the run checks of it.
LEMMA TreeIsOK ==
  ASSUME Tree(tree)
  PROVE  TreeOK
<1>1. \A p \in DOMAIN tree : p \in Paths /\ tree[p] \in Nodes
  BY DEF Tree
<1>2. ASSUME NEW p \in DOMAIN tree
      PROVE  /\ tree[p].type = "pane" => tree[p].panel \in Panels
             /\ tree[p].type = "split" => tree[p].divider \in 1..9
  BY <1>1 DEF Nodes
<1>3. ASSUME NEW p \in DOMAIN tree, p # <<>>
      PROVE  Front(p) \in DOMAIN tree
  <2>1. Front(p) \in Paths /\ Last(p) \in Branches /\ p = Append(Front(p), Last(p))
    BY <1>1, <1>3, PathFront
  <2> QED
    BY <2>1 DEF Tree
<1>4. ASSUME NEW p \in DOMAIN tree, NEW b \in Branches
      PROVE  Append(p, b) \in DOMAIN tree <=> tree[p].type = "split"
  BY <1>1 DEF Tree
<1>5. /\ <<>> \in DOMAIN tree
      /\ \A p, q \in Leaves(tree) : tree[p].panel = tree[q].panel => p = q
  BY DEF Tree
<1> QED
  BY <1>2, <1>3, <1>4, <1>5 DEF TreeOK

\* The place of a pane is where a leaf names it.
LEMMA PlaceOfPane ==
  ASSUME NEW t, Tree(t), NEW p \in Leaves(t)
  PROVE  PathOf(t, t[p].panel) = p /\ t[p] = PaneNode(t[p].panel)
<1>1. p \in DOMAIN t /\ t[p].type = "pane" /\ t[p] \in Nodes
  BY DEF Tree, Leaves
<1>2. t[p] = PaneNode(t[p].panel)
  BY <1>1 DEF Nodes, PaneNode
<1>3. ASSUME NEW q \in DOMAIN t, t[q] = PaneNode(t[p].panel)
      PROVE  q = p
  <2>1. t[q].type = "pane" /\ t[q].panel = t[p].panel
    BY <1>3 DEF PaneNode
  <2>2. q \in Leaves(t)
    BY <2>1 DEF Leaves
  <2> QED
    BY <2>1, <2>2 DEF Tree
<1> QED
  BY <1>1, <1>2, <1>3 DEF PathOf

\* Every set of numbers that is not empty has a least one.
LEMMA LeastNat ==
  ASSUME NEW T \in SUBSET Nat, T # {}
  PROVE \E x \in T : \A y \in T : x <= y
<1> DEFINE R == OpToRel(<, Nat)
<1>1. \A x, y \in Nat : y < x => <<y, x>> \in R
  BY DEF OpToRel
<1>2. IsWellFoundedOn(R, Nat)
  BY NatLessThanWellFounded
<1> HIDE DEF R
<1>3. \E x \in T : \A y \in T : ~(<<y, x>> \in R)
  BY <1>2, WFMin
<1>4. PICK x \in T : \A y \in T : ~(<<y, x>> \in R)
  BY <1>3
<1>5. ASSUME NEW y \in T PROVE x <= y
  <2>1. x \in Nat /\ y \in Nat /\ ~(y < x)
    BY <1>1, <1>4
  <2> QED
    BY <2>1
<1> QED
  BY <1>5

\* Nothing is below a leaf.
LEMMA LeafIsLast ==
  ASSUME NEW t, Tree(t), NEW p \in Leaves(t), NEW s \in Paths, p \o s \in DOMAIN t
  PROVE  s = <<>>
<1> DEFINE T == {n \in Nat : \E u \in Paths : Len(u) = n /\ u # <<>> /\ p \o u \in DOMAIN t}
<1>1. p \in Paths
  BY DEF Tree, Leaves
<1>2. SUFFICES ASSUME s # <<>> PROVE FALSE
  OBVIOUS
<1>3. T # {} /\ T \in SUBSET Nat
  <2>1. Len(s) \in Nat
    BY LenProperties DEF Paths
  <2> QED
    BY <1>2, <2>1
<1>4. PICK n \in T : \A m \in T : n <= m
  <2> HIDE DEF T
  <2> QED
    BY <1>3, LeastNat
<1>5. PICK u \in Paths : Len(u) = n /\ u # <<>> /\ p \o u \in DOMAIN t
  BY <1>4
<1>6. PICK v \in Paths, b \in Branches : u = Append(v, b)
  BY <1>5, PathFront
<1>7. p \o u = Append(p \o v, b) /\ p \o v \in Paths
  BY <1>1, <1>6, GlueAppend, Glue
<1>8. p \o v \in DOMAIN t /\ t[p \o v].type = "split"
  BY <1>5, <1>7 DEF Tree
<1>9. CASE v = <<>>
  BY <1>1, <1>8, <1>9, GlueEmpty DEF Leaves
<1>10. CASE v # <<>>
  <2>1. Len(v) \in Nat /\ Len(u) = Len(v) + 1
    BY <1>6, AppendProperties, LenProperties DEF Paths
  <2>2. Len(v) \in T
    BY <1>8, <1>10, <2>1
  <2> QED
    BY <1>4, <1>5, <2>1, <2>2
<1> QED
  BY <1>9, <1>10

-----------------------------------------------------------------------------
(* Splitting.                                                                *)

\* Splitting a leaf makes a tree of a tree.
LEMMA SplitKeepsTree ==
  ASSUME NEW t, Tree(t), NEW path \in Leaves(t), NEW k \in Panels \ Keys(t),
         NEW branch \in Branches, NEW orientation \in {"horizontal", "vertical"},
         NEW position \in Int,
         NEW u, u = SplitLeaf(t, path, SplitNode(orientation, position), k, branch)
  PROVE  /\ Tree(u)
         /\ path \in Paths
         /\ Append(path, branch) \in Leaves(u) /\ u[Append(path, branch)].panel = k
         /\ Append(path, Sibling(branch)) \in Leaves(u)
         /\ u[Append(path, Sibling(branch))] = t[path]
         /\ Leaves(u) = (Leaves(t) \ {path}) \cup {Append(path, branch), Append(path, Sibling(branch))}
         /\ \A p \in Leaves(t) \ {path} : u[p] = t[p]
<1> DEFINE new == Append(path, branch)
           old == Append(path, Sibling(branch))
           node == SplitNode(orientation, position)
<1>1. /\ path \in DOMAIN t /\ path \in Paths /\ t[path].type = "pane"
      /\ Sibling(branch) \in Branches /\ Sibling(branch) # branch
      /\ \A b \in Branches : b = branch \/ b = Sibling(branch)
  BY SiblingIsOther DEF Leaves, Tree
<1>2. /\ new \in Paths /\ old \in Paths /\ new # <<>> /\ old # <<>>
      /\ new \notin DOMAIN t /\ old \notin DOMAIN t
  BY <1>1, PathAppend DEF Tree
<1>3. new # old
  BY <1>1, PathAppendInjective
<1>4. node \in Nodes /\ node.type = "split"
  <2>1. ClampDivider(position) \in 1..9
    BY DEF ClampDivider
  <2> QED
    BY <2>1 DEF SplitNode, Nodes
<1>5. PaneNode(k) \in Nodes /\ PaneNode(k).type = "pane" /\ PaneNode(k).panel = k
  BY DEF PaneNode, Nodes
<1>6. path # new /\ path # old
  BY <1>1, <1>2
<1>7. /\ DOMAIN u = DOMAIN t \cup {new, old}
      /\ u[path] = node /\ u[new] = PaneNode(k) /\ u[old] = t[path]
      /\ \A p \in DOMAIN t \ {path} : u[p] = t[p]
      /\ u = [p \in DOMAIN u |-> u[p]]
  <2>1. u = [p \in DOMAIN t \cup {new, old} |->
                CASE p = path -> node
                  [] p = new -> PaneNode(k)
                  [] p = old -> t[path]
                  [] OTHER -> t[p]]
    BY DEF SplitLeaf
  <2> HIDE DEF new, old, node
  <2> QED
    BY <1>1, <1>2, <1>3, <1>6, <2>1
<1> HIDE DEF node
<1>8. \A p \in DOMAIN u : u[p] \in Nodes
  <2>1. \A p \in DOMAIN t : t[p] \in Nodes
    BY DEF Tree
  <2> HIDE DEF new, old
  <2> QED
    BY <1>1, <1>4, <1>5, <1>7, <2>1
<1>9. Leaves(u) = (Leaves(t) \ {path}) \cup {new, old}
  BY <1>1, <1>2, <1>4, <1>5, <1>6, <1>7 DEF Leaves
<1>10. ASSUME NEW p \in Paths, NEW b \in Branches
       PROVE  Append(p, b) \in DOMAIN u <=> p \in DOMAIN u /\ u[p].type = "split"
  <2>1. Append(p, b) \in DOMAIN t <=> p \in DOMAIN t /\ t[p].type = "split"
    BY DEF Tree
  <2>2. Append(p, b) \in {new, old} <=> p = path
    BY <1>1, PathAppendInjective
  <2>3. CASE p = path
    BY <1>1, <1>4, <1>7, <2>2, <2>3
  <2>4. CASE p \in {new, old}
    BY <1>1, <1>2, <1>5, <1>6, <1>7, <2>1, <2>2, <2>4
  <2>5. CASE p \notin {path, new, old}
    BY <1>7, <2>1, <2>2, <2>5
  <2> QED
    BY <2>3, <2>4, <2>5
<1>11. ASSUME NEW p \in Leaves(u), NEW q \in Leaves(u), u[p].panel = u[q].panel
       PROVE  p = q
  <2>1. \A r \in Leaves(t) : t[r].panel # k
    BY DEF Keys
  <2>2. \A r, w \in Leaves(t) : t[r].panel = t[w].panel => r = w
    BY DEF Tree
  <2>3. \A r \in Leaves(t) \ {path} : u[r] = t[r]
    BY <1>7 DEF Leaves
  <2> HIDE DEF new, old
  <2> QED
    BY <1>5, <1>7, <1>9, <1>11, <2>1, <2>2, <2>3
<1>12. Tree(u)
  BY <1>2, <1>7, <1>8, <1>10, <1>11 DEF Tree
<1> QED
  BY <1>1, <1>5, <1>7, <1>9, <1>12 DEF Leaves

-----------------------------------------------------------------------------
(* Closing.                                                                  *)

\* What closing does to a tree: beside the parent of the pane nothing changes, and
\* what was below the sibling is now below the parent.
LEMMA CloseShape ==
  ASSUME NEW t, Tree(t), NEW a \in Paths, NEW c \in Branches, Append(a, c) \in Leaves(t),
         NEW u, u = ClosePane(t, Append(a, c))
  PROVE  /\ u = [p \in DOMAIN u |-> u[p]] /\ DOMAIN u \subseteq Paths
         /\ \A q \in Paths : ~Under(a, q) =>
              /\ q \in DOMAIN u <=> q \in DOMAIN t
              /\ q \in DOMAIN t => u[q] = t[q]
         /\ \A s \in Paths :
              /\ a \o s \in DOMAIN u <=> Append(a, Sibling(c)) \o s \in DOMAIN t
              /\ a \o s \in DOMAIN u => u[a \o s] = t[Append(a, Sibling(c)) \o s]
<1> DEFINE path == Append(a, c)
           up == Append(a, Sibling(c))
           Lifted(p) == a \o SubSeq(p, Len(up) + 1, Len(p))
           moved == {p \in DOMAIN t : IsPrefix(up, p)}
           stay == {p \in DOMAIN t : ~IsPrefix(a, p)}
<1>1. DOMAIN t \subseteq Paths
  BY DEF Tree
<1>2. up \in Paths /\ Front(path) = a /\ Last(path) = c
  BY SiblingIsOther, PathAppend
<1>3. u = [q \in stay \cup {Lifted(p) : p \in moved} |->
             IF q \in stay THEN t[q] ELSE t[CHOOSE p \in moved : Lifted(p) = q]]
  BY <1>2 DEF ClosePane, Surviving
<1> HIDE DEF up
<1>4. moved = {p \in DOMAIN t : Under(up, p)} /\ stay = {p \in DOMAIN t : ~Under(a, p)}
  BY <1>1, <1>2, PrefixIsUnder
<1>5. ASSUME NEW s \in Paths PROVE Lifted(up \o s) = a \o s
  BY <1>2, PrefixIsUnder, Glue
<1> HIDE DEF moved, stay, Lifted
<1>6. \A q \in DOMAIN u : q \in stay \/ \E s \in Paths : up \o s \in moved /\ q = a \o s
  <2>1. DOMAIN u = stay \cup {Lifted(p) : p \in moved}
    BY <1>3
  <2>2. ASSUME NEW p \in moved
        PROVE  \E s \in Paths : up \o s \in moved /\ Lifted(p) = a \o s
    <3>1. PICK s \in Paths : p = up \o s
      BY <1>4, <2>2 DEF Under
    <3> QED
      BY <1>5, <3>1
  <2> QED
    BY <2>1, <2>2
<1>7. ASSUME NEW q \in Paths, ~Under(a, q)
      PROVE  /\ q \in DOMAIN u <=> q \in DOMAIN t
             /\ q \in DOMAIN t => u[q] = t[q]
  <2>1. q \in stay <=> q \in DOMAIN t
    BY <1>4, <1>7
  <2>2. \A s \in Paths : q # a \o s
    BY <1>7 DEF Under
  <2>3. q \in DOMAIN u <=> q \in stay
    BY <1>3, <1>6, <2>2
  <2> QED
    BY <1>3, <2>1, <2>3
<1>8. ASSUME NEW s \in Paths
      PROVE  /\ a \o s \in DOMAIN u <=> up \o s \in DOMAIN t
             /\ a \o s \in DOMAIN u => u[a \o s] = t[up \o s]
  <2>1. a \o s \notin stay
    BY <1>4 DEF Under
  <2>2. up \o s \in DOMAIN t <=> up \o s \in moved
    BY <1>4 DEF Under
  <2>3. up \o s \in moved => a \o s \in DOMAIN u
    BY <1>3, <1>5
  <2>4. ASSUME NEW p \in moved, Lifted(p) = a \o s
        PROVE  p = up \o s
    <3>1. PICK v \in Paths : p = up \o v
      BY <1>4, <2>4 DEF Under
    <3>2. a \o v = a \o s
      BY <1>5, <2>4, <3>1
    <3>3. v = s
      BY <3>2, GlueCancels
    <3> QED
      BY <3>1, <3>3
  <2>5. a \o s \in DOMAIN u => up \o s \in moved
    BY <1>3, <2>1, <2>4
  <2>6. a \o s \in DOMAIN u => u[a \o s] = t[CHOOSE p \in moved : Lifted(p) = a \o s]
    BY <1>3, <2>1
  <2>7. up \o s \in moved => (CHOOSE p \in moved : Lifted(p) = a \o s) = up \o s
    BY <1>5, <2>4
  <2> QED
    BY <2>2, <2>3, <2>5, <2>6, <2>7
<1>9. u = [p \in DOMAIN u |-> u[p]]
  BY <1>3
<1>10. DOMAIN u \subseteq Paths
  BY <1>1, <1>4, <1>6, Glue
<1> QED
  BY <1>7, <1>8, <1>9, <1>10 DEF up

\* The paths of a tree: beside the parent, the parent, below the sibling, and the
\* pane that is closed.
LEMMA CloseCases ==
  ASSUME NEW t, Tree(t), NEW a \in Paths, NEW c \in Branches, Append(a, c) \in Leaves(t)
  PROVE  /\ a \in DOMAIN t /\ t[a].type = "split"
         /\ Append(a, Sibling(c)) \in DOMAIN t /\ Append(a, Sibling(c)) \in Paths
         /\ ~Under(Append(a, Sibling(c)), Append(a, c))
         /\ \A p \in DOMAIN t : Under(a, p) =>
              p = a \/ p = Append(a, c) \/ Under(Append(a, Sibling(c)), p)
<1> DEFINE path == Append(a, c)
           up == Append(a, Sibling(c))
<1>1. a \in DOMAIN t /\ t[a].type = "split"
  BY DEF Tree, Leaves
<1>2. up \in DOMAIN t /\ up \in Paths /\ path \in Paths
  BY <1>1, SiblingIsOther, PathAppend DEF Tree
<1>3. ~Under(up, path)
  <2> SUFFICES ASSUME NEW s \in Paths, path = up \o s
               PROVE  FALSE
    BY DEF Under
  <2>1. Len(path) = Len(a) + 1 /\ Len(up) = Len(a) + 1 /\ Len(up \o s) = Len(up) + Len(s)
        /\ Len(s) \in Nat /\ Len(a) \in Nat
    BY <1>2, SiblingIsOther, AppendProperties, ConcatProperties, LenProperties DEF Paths
  <2>2. Len(s) = 0
    BY <2>1
  <2>3. s = <<>>
    BY <2>2, EmptySeq DEF Paths
  <2>4. path = up
    BY <1>2, <2>3, GlueEmpty
  <2> QED
    BY <2>4, SiblingIsOther, PathAppendInjective
<1>4. ASSUME NEW p \in DOMAIN t, Under(a, p), p # a, p # path
      PROVE  Under(up, p)
  <2>1. PICK s \in Paths : p = a \o s
    BY <1>4 DEF Under
  <2>2. s # <<>>
    BY <1>4, <2>1, GlueEmpty
  <2>3. s[1] \in Branches /\ Tail(s) \in Paths /\ s = <<s[1]>> \o Tail(s)
    <3>1. /\ Len(s) \in Nat \ {0} /\ Tail(s) \in Paths /\ Len(Tail(s)) = Len(s) - 1
          /\ \A i \in 1..Len(Tail(s)) : Tail(s)[i] = s[i + 1]
      BY <2>2, EmptySeq, HeadTailProperties DEF Paths
    <3>2. s[1] \in Branches
      BY <3>1, ElementOfSeq DEF Paths
    <3>3. <<s[1]>> \in Paths /\ Len(<<s[1]>>) = 1 /\ <<s[1]>>[1] = s[1]
      BY <3>2 DEF Paths
    <3>4. /\ <<s[1]>> \o Tail(s) \in Paths
          /\ Len(<<s[1]>> \o Tail(s)) = Len(s)
          /\ \A i \in 1..Len(s) : (<<s[1]>> \o Tail(s))[i] = s[i]
      <4>1. /\ <<s[1]>> \o Tail(s) \in Paths
            /\ Len(<<s[1]>> \o Tail(s)) = 1 + Len(Tail(s))
            /\ \A i \in 1..1 + Len(Tail(s)) :
                 (<<s[1]>> \o Tail(s))[i] = IF i <= 1 THEN <<s[1]>>[i] ELSE Tail(s)[i - 1]
        BY <3>1, <3>3, ConcatProperties DEF Paths
      <4> QED
        BY <3>1, <3>3, <4>1
    <3> QED
      BY <3>1, <3>2, <3>4, SeqEqual DEF Paths
  <2> DEFINE e == s[1]
             v == Tail(s)
  <2> HIDE DEF e, v
  <2>4. e \in Branches /\ v \in Paths /\ s = <<e>> \o v
    BY <2>3 DEF e, v
  <2>5. p = Append(a, e) \o v
    <3>1. <<e>> \in Paths
      BY <2>4 DEF Paths
    <3>2. Append(a, e) = a \o <<e>>
      BY <2>4, AppendIsConcat DEF Paths
    <3> QED
      BY <2>1, <2>4, <3>1, <3>2, GlueAssociates
  <2>6. CASE e = c
    <3>1. v = <<>>
      BY <2>4, <2>5, <2>6, LeafIsLast
    <3> QED
      BY <1>2, <1>4, <2>5, <2>6, <3>1, GlueEmpty
  <2>7. CASE e # c
    <3>1. e = Sibling(c)
      BY <2>4, <2>7, SiblingIsOther
    <3> QED
      BY <2>4, <2>5, <3>1 DEF Under
  <2> QED
    BY <2>6, <2>7
<1> QED
  BY <1>1, <1>2, <1>3, <1>4

\* Closing a leaf makes a tree of a tree.
LEMMA CloseKeepsTree ==
  ASSUME NEW t, Tree(t), NEW a \in Paths, NEW c \in Branches, Append(a, c) \in Leaves(t),
         NEW u, u = ClosePane(t, Append(a, c))
  PROVE  Tree(u)
<1> DEFINE up == Append(a, Sibling(c))
<1>1. /\ u = [p \in DOMAIN u |-> u[p]] /\ DOMAIN u \subseteq Paths
      /\ \A q \in Paths : ~Under(a, q) =>
           /\ q \in DOMAIN u <=> q \in DOMAIN t
           /\ q \in DOMAIN t => u[q] = t[q]
      /\ \A s \in Paths :
           /\ a \o s \in DOMAIN u <=> up \o s \in DOMAIN t
           /\ a \o s \in DOMAIN u => u[a \o s] = t[up \o s]
  BY CloseShape
<1>2. /\ a \in DOMAIN t /\ t[a].type = "split" /\ up \in DOMAIN t /\ up \in Paths
  BY CloseCases
<1> HIDE DEF up
<1>3. a \in DOMAIN u
  BY <1>1, <1>2, GlueEmpty, EmptyPath
<1>4. <<>> \in DOMAIN u
  <2>1. CASE Under(a, <<>>)
    <3>1. PICK s \in Paths : a \o s = <<>>
      BY <2>1 DEF Under
    <3>2. a = <<>>
      BY <3>1, ConcatEqualIffEmpty DEF Paths
    <3> QED
      BY <1>3, <3>2
  <2>2. CASE ~Under(a, <<>>)
    BY <1>1, <2>2, EmptyPath DEF Tree
  <2> QED
    BY <2>1, <2>2
<1>5. ASSUME NEW q \in DOMAIN u
      PROVE  \E p \in DOMAIN t : u[q] = t[p]
  <2>1. CASE Under(a, q)
    <3>1. PICK s \in Paths : q = a \o s
      BY <2>1 DEF Under
    <3> QED
      BY <1>1, <3>1
  <2>2. CASE ~Under(a, q)
    BY <1>1, <2>2
  <2> QED
    BY <2>1, <2>2
<1>6. \A q \in DOMAIN u : u[q] \in Nodes
  BY <1>5 DEF Tree
<1>7. ASSUME NEW q \in Paths, NEW b \in Branches
      PROVE  Append(q, b) \in DOMAIN u <=> q \in DOMAIN u /\ u[q].type = "split"
  <2>1. Append(q, b) \in Paths
    BY PathAppend
  <2>2. CASE Under(a, q)
    <3>1. PICK s \in Paths : q = a \o s
      BY <2>2 DEF Under
    <3>2. /\ Append(q, b) = a \o Append(s, b) /\ Append(s, b) \in Paths
          /\ up \o Append(s, b) = Append(up \o s, b) /\ up \o s \in Paths
      <4>1. Append(q, b) = a \o Append(s, b)
        BY <3>1, GlueAppend
      <4>2. up \o Append(s, b) = Append(up \o s, b)
        BY <1>2, GlueAppend
      <4>3. Append(s, b) \in Paths /\ up \o s \in Paths
        BY <1>2, PathAppend, Glue
      <4> QED
        BY <4>1, <4>2, <4>3
    <3>3. Append(q, b) \in DOMAIN u <=> Append(up \o s, b) \in DOMAIN t
      BY <1>1, <3>2
    <3>4. Append(up \o s, b) \in DOMAIN t <=> up \o s \in DOMAIN t /\ t[up \o s].type = "split"
      BY <3>2 DEF Tree
    <3> QED
      BY <1>1, <3>1, <3>3, <3>4
  <2>3. CASE ~Under(a, q)
    <3>1. Append(q, b) \in DOMAIN t <=> q \in DOMAIN t /\ t[q].type = "split"
      BY DEF Tree
    <3>2. q \in DOMAIN u /\ u[q].type = "split" <=> q \in DOMAIN t /\ t[q].type = "split"
      BY <1>1, <2>3
    <3>3. CASE Append(q, b) = a
      BY <1>2, <1>3, <3>1, <3>2, <3>3
    <3>4. CASE Append(q, b) # a
      <4>1. ~Under(a, Append(q, b))
        BY <2>3, <3>4, UnderStep
      <4> QED
        BY <1>1, <2>1, <3>1, <3>2, <4>1
    <3> QED
      BY <3>3, <3>4
  <2> QED
    BY <2>2, <2>3
<1>8. ASSUME NEW p \in Leaves(u), NEW q \in Leaves(u), u[p].panel = u[q].panel
      PROVE  p = q
  <2>1. p \in DOMAIN u /\ q \in DOMAIN u /\ u[p].type = "pane" /\ u[q].type = "pane"
    BY DEF Leaves
  <2>2. \A r, w \in DOMAIN t : t[r].type = "pane" /\ t[w].type = "pane" /\ t[r].panel = t[w].panel
          => r = w
    BY DEF Tree, Leaves
  <2>3. CASE Under(a, p) /\ Under(a, q)
    <3>1. PICK s \in Paths, w \in Paths : p = a \o s /\ q = a \o w
      BY <2>3 DEF Under
    <3>2. /\ up \o s \in DOMAIN t /\ u[p] = t[up \o s]
          /\ up \o w \in DOMAIN t /\ u[q] = t[up \o w]
      BY <1>1, <2>1, <3>1
    <3>3. up \o s = up \o w
      BY <1>8, <2>1, <2>2, <3>2
    <3> QED
      BY <1>2, <3>1, <3>3, GlueCancels
  <2>4. CASE ~Under(a, p) /\ ~Under(a, q)
    BY <1>1, <1>8, <2>1, <2>2, <2>4
  <2>5. ASSUME NEW r \in DOMAIN u, NEW w \in DOMAIN u, Under(a, r), ~Under(a, w),
               u[r].type = "pane", u[w].type = "pane", u[r].panel = u[w].panel
        PROVE  FALSE
    <3>1. PICK s \in Paths : r = a \o s
      BY <2>5 DEF Under
    <3>2. up \o s = w
      BY <1>1, <2>2, <2>5, <3>1
    <3>3. Under(a, w)
      <4>1. <<Sibling(c)>> \in Paths /\ up = a \o <<Sibling(c)>>
        BY SiblingIsOther, AppendIsConcat DEF up, Paths
      <4>2. w = a \o (<<Sibling(c)>> \o s) /\ <<Sibling(c)>> \o s \in Paths
        BY <3>2, <4>1, GlueAssociates, Glue
      <4> QED
        BY <4>2 DEF Under
    <3> QED
      BY <2>5, <3>3
  <2> QED
    BY <1>8, <2>1, <2>3, <2>4, <2>5
<1> QED
  BY <1>1, <1>4, <1>6, <1>7, <1>8 DEF Tree

-----------------------------------------------------------------------------
(* Reading order.                                                            *)

\* Paths p and q part at i, p to the first child.
Part(p, q, i) ==
  /\ i \in 1..Len(p) /\ i \in 1..Len(q)
  /\ p[i] = "first" /\ q[i] = "second"
  /\ \A m \in 1..(i - 1) : p[m] = q[m]

\* Before, with the place where the two paths part as a parameter.
LEMMA BeforeIsPart ==
  ASSUME NEW p \in Paths, NEW q \in Paths
  PROVE  Before(p, q) <=> \E i \in Nat : Part(p, q, i)
<1>1. /\ Len(p) \in Nat /\ Len(q) \in Nat
      /\ DOMAIN p = 1..Len(p) /\ DOMAIN q = 1..Len(q)
      /\ \A i \in 1..Len(p) : p[i] \in Branches
      /\ \A i \in 1..Len(q) : q[i] \in Branches
  BY LenProperties, ElementOfSeq DEF Paths
<1>2. ASSUME NEW i \in 1..Len(p), i \in 1..Len(q)
      PROVE  SubSeq(p, 1, i - 1) = SubSeq(q, 1, i - 1) <=> \A m \in 1..(i - 1) : p[m] = q[m]
  <2>1. i - 1 \in Int /\ 1 \in Int /\ i - 1 \in Nat
        /\ \A m \in 1..(i - 1) : p[m] \in Branches /\ q[m] \in Branches
    BY <1>1, <1>2
  <2>2. /\ SubSeq(p, 1, i - 1) \in Seq(Branches)
        /\ Len(SubSeq(p, 1, i - 1)) = IF 1 <= i - 1 THEN i - 1 - 1 + 1 ELSE 0
        /\ \A m \in 1 .. i - 1 - 1 + 1 : SubSeq(p, 1, i - 1)[m] = p[1 + m - 1]
    BY <2>1, SubSeqProperties
  <2>3. /\ SubSeq(q, 1, i - 1) \in Seq(Branches)
        /\ Len(SubSeq(q, 1, i - 1)) = IF 1 <= i - 1 THEN i - 1 - 1 + 1 ELSE 0
        /\ \A m \in 1 .. i - 1 - 1 + 1 : SubSeq(q, 1, i - 1)[m] = q[1 + m - 1]
    BY <2>1, SubSeqProperties
  <2> DEFINE x == SubSeq(p, 1, i - 1)
             y == SubSeq(q, 1, i - 1)
  <2>4. /\ x \in Seq(Branches) /\ y \in Seq(Branches) /\ Len(x) = i - 1 /\ Len(y) = i - 1
        /\ \A m \in 1..(i - 1) : x[m] = p[m] /\ y[m] = q[m]
    BY <2>1, <2>2, <2>3
  <2> HIDE DEF x, y
  <2>5. x = y => \A m \in 1..(i - 1) : p[m] = q[m]
    BY <2>4
  <2>6. (\A m \in 1..(i - 1) : p[m] = q[m]) => x = y
    <3> SUFFICES ASSUME \A m \in 1..(i - 1) : p[m] = q[m]
                 PROVE  x = y
      OBVIOUS
    <3>1. \A m \in 1..Len(x) : x[m] = y[m]
      BY <2>4
    <3> QED
      BY <2>4, <3>1, SeqEqual
  <2> QED
    BY <2>5, <2>6 DEF x, y
<1>3. Before(p, q) => \E i \in Nat : Part(p, q, i)
  BY <1>1, <1>2 DEF Before, Part
<1>4. ASSUME NEW i \in Nat, Part(p, q, i)
      PROVE  Before(p, q)
  <2>1. /\ i \in 1..Len(p) /\ i \in 1..Len(q) /\ p[i] = "first" /\ q[i] = "second"
        /\ SubSeq(p, 1, i - 1) = SubSeq(q, 1, i - 1)
    BY <1>2, <1>4 DEF Part
  <2>2. i \in DOMAIN p \cap DOMAIN q
    BY <1>1, <2>1
  <2> QED
    BY <2>1, <2>2 DEF Before
<1> QED
  BY <1>3, <1>4

\* A concatenation by its places.
LEMMA GluePlaces ==
  ASSUME NEW p \in Paths, NEW s \in Paths
  PROVE  /\ p \o s \in Paths /\ Len(p) \in Nat /\ Len(s) \in Nat
         /\ Len(p \o s) = Len(p) + Len(s)
         /\ \A i \in 1..Len(p) : (p \o s)[i] = p[i]
         /\ \A i \in 1..Len(s) : (p \o s)[Len(p) + i] = s[i]
<1>1. Len(p) \in Nat /\ Len(s) \in Nat
  BY LenProperties DEF Paths
<1>2. /\ p \o s \in Paths
      /\ Len(p \o s) = Len(p) + Len(s)
      /\ \A i \in 1 .. Len(p) + Len(s) : (p \o s)[i] =
            IF i <= Len(p) THEN p[i] ELSE s[i - Len(p)]
  BY ConcatProperties DEF Paths
<1>3. \A i \in 1..Len(p) : (p \o s)[i] = p[i]
  BY <1>1, <1>2
<1>4. ASSUME NEW i \in 1..Len(s) PROVE (p \o s)[Len(p) + i] = s[i]
  <2>1. /\ Len(p) + i \in 1 .. Len(p) + Len(s) /\ ~(Len(p) + i <= Len(p))
        /\ Len(p) + i - Len(p) = i
    BY <1>1
  <2> QED
    BY <1>2, <2>1
<1> QED
  BY <1>1, <1>2, <1>3, <1>4

\* Panes keep their order when their paths grow.
LEMMA BeforeGrows ==
  ASSUME NEW p \in Paths, NEW q \in Paths, NEW s \in Paths, NEW w \in Paths, Before(p, q)
  PROVE  Before(p \o s, q \o w)
<1>1. PICK i \in Nat : Part(p, q, i)
  BY BeforeIsPart
<1>2. /\ p \o s \in Paths /\ Len(p) \in Nat /\ Len(s) \in Nat
      /\ Len(p \o s) = Len(p) + Len(s)
      /\ \A m \in 1..Len(p) : (p \o s)[m] = p[m]
  BY GluePlaces
<1>3. /\ q \o w \in Paths /\ Len(q) \in Nat /\ Len(w) \in Nat
      /\ Len(q \o w) = Len(q) + Len(w)
      /\ \A m \in 1..Len(q) : (q \o w)[m] = q[m]
  BY GluePlaces
<1>4. Part(p \o s, q \o w, i)
  BY <1>1, <1>2, <1>3 DEF Part
<1> QED
  BY <1>2, <1>3, <1>4, BeforeIsPart

\* A path that begins with all of a is below it.
LEMMA UnderByPlaces ==
  ASSUME NEW a \in Paths, NEW p \in Paths, Len(a) <= Len(p),
         \A m \in 1..Len(a) : p[m] = a[m]
  PROVE  Under(a, p)
<1> DEFINE s == SubSeq(p, Len(a) + 1, Len(p))
<1>1. /\ Len(a) \in Nat /\ Len(p) \in Nat
      /\ \A i \in 1..Len(p) : p[i] \in Branches
  BY LenProperties, ElementOfSeq DEF Paths
<1>2. /\ s \in Seq(Branches)
      /\ Len(s) = IF Len(a) + 1 <= Len(p) THEN Len(p) - (Len(a) + 1) + 1 ELSE 0
      /\ \A i \in 1 .. Len(p) - (Len(a) + 1) + 1 : s[i] = p[Len(a) + 1 + i - 1]
  <2>1. Len(a) + 1 \in Int /\ Len(p) \in Int
        /\ \A i \in Len(a) + 1..Len(p) : p[i] \in Branches
    BY <1>1
  <2> QED
    BY <2>1, SubSeqProperties
<1> HIDE DEF s
<1>3. /\ s \in Paths /\ Len(s) = Len(p) - Len(a)
      /\ \A i \in 1..Len(s) : s[i] = p[Len(a) + i]
  BY <1>1, <1>2 DEF Paths
<1>4. /\ a \o s \in Paths /\ Len(a \o s) = Len(a) + Len(s)
      /\ \A i \in 1 .. Len(a) + Len(s) : (a \o s)[i] =
            IF i <= Len(a) THEN a[i] ELSE s[i - Len(a)]
  BY <1>3, ConcatProperties DEF Paths
<1>5. ASSUME NEW i \in 1..Len(p) PROVE p[i] = (a \o s)[i]
  <2>1. CASE i <= Len(a)
    BY <1>1, <1>3, <1>4, <2>1
  <2>2. CASE ~(i <= Len(a))
    <3>1. i - Len(a) \in 1..Len(s) /\ Len(a) + (i - Len(a)) = i /\ i \in 1..Len(a) + Len(s)
      BY <1>1, <1>3, <2>2
    <3> QED
      BY <1>3, <1>4, <2>2, <3>1
  <2> QED
    BY <2>1, <2>2
<1>6. p = a \o s
  <2>1. Len(p) = Len(a \o s)
    BY <1>1, <1>3, <1>4
  <2> QED
    BY <1>4, <1>5, <2>1, SeqEqual DEF Paths
<1> QED
  BY <1>3, <1>6 DEF Under

\* Panes below the same split keep their order when it moves up.
LEMMA BeforeLifted ==
  ASSUME NEW a \in Paths, NEW up \in Paths, NEW s \in Paths, NEW w \in Paths,
         Before(up \o s, up \o w)
  PROVE  Before(a \o s, a \o w)
<1>1. PICK i \in Nat : Part(up \o s, up \o w, i)
  BY Glue, BeforeIsPart
<1>2. /\ Len(up) \in Nat /\ Len(s) \in Nat /\ Len(w) \in Nat
      /\ Len(up \o s) = Len(up) + Len(s) /\ Len(up \o w) = Len(up) + Len(w)
      /\ \A m \in 1..Len(up) : (up \o s)[m] = up[m] /\ (up \o w)[m] = up[m]
      /\ \A m \in 1..Len(s) : (up \o s)[Len(up) + m] = s[m]
      /\ \A m \in 1..Len(w) : (up \o w)[Len(up) + m] = w[m]
  BY GluePlaces
<1>3. ~(i <= Len(up))
  BY <1>1, <1>2 DEF Part
<1> DEFINE j == i - Len(up)
<1>4. /\ j \in Nat /\ j \in 1..Len(s) /\ j \in 1..Len(w) /\ Len(up) + j = i
  BY <1>1, <1>2, <1>3 DEF Part
<1> HIDE DEF j
<1>5. s[j] = "first" /\ w[j] = "second"
  BY <1>1, <1>2, <1>4 DEF Part
<1>6. ASSUME NEW m \in 1..(j - 1) PROVE s[m] = w[m]
  <2>1. m \in 1..Len(s) /\ m \in 1..Len(w) /\ Len(up) + m \in 1..(i - 1)
    BY <1>2, <1>4
  <2> QED
    BY <1>1, <1>2, <2>1 DEF Part
<1>7. Part(s, w, j)
  BY <1>4, <1>5, <1>6 DEF Part
<1>8. /\ a \o s \in Paths /\ a \o w \in Paths /\ Len(a) \in Nat
      /\ Len(a \o s) = Len(a) + Len(s) /\ Len(a \o w) = Len(a) + Len(w)
      /\ \A m \in 1..Len(a) : (a \o s)[m] = a[m] /\ (a \o w)[m] = a[m]
      /\ \A m \in 1..Len(s) : (a \o s)[Len(a) + m] = s[m]
      /\ \A m \in 1..Len(w) : (a \o w)[Len(a) + m] = w[m]
  BY GluePlaces
<1>9. ASSUME NEW m \in 1..(Len(a) + j - 1) PROVE (a \o s)[m] = (a \o w)[m]
  <2>1. CASE m <= Len(a)
    BY <1>8, <2>1
  <2>2. CASE ~(m <= Len(a))
    <3>1. /\ m - Len(a) \in 1..(j - 1) /\ Len(a) + (m - Len(a)) = m
          /\ m - Len(a) \in 1..Len(s) /\ m - Len(a) \in 1..Len(w)
      BY <1>2, <1>4, <1>8, <2>2
    <3> QED
      BY <1>6, <1>8, <3>1
  <2> QED
    BY <2>1, <2>2
<1>10. /\ Len(a) + j \in Nat
       /\ Len(a) + j \in 1..Len(a \o s) /\ Len(a) + j \in 1..Len(a \o w)
  BY <1>2, <1>4, <1>8
<1>11. Part(a \o s, a \o w, Len(a) + j)
  BY <1>4, <1>5, <1>8, <1>9, <1>10 DEF Part
<1> QED
  BY <1>8, <1>10, <1>11, BeforeIsPart

\* A pane beside the split keeps its place among them.
LEMMA BeforeBeside ==
  ASSUME NEW a \in Paths, NEW e \in Branches, NEW s \in Paths, NEW p \in Paths, ~Under(a, p)
  PROVE  /\ Before(p, Append(a, e) \o s) => Before(p, a \o s)
         /\ Before(Append(a, e) \o s, p) => Before(a \o s, p)
<1> DEFINE up == Append(a, e)
<1>1. /\ up \in Paths /\ Len(up) = Len(a) + 1 /\ Len(a) \in Nat /\ Len(p) \in Nat /\ Len(s) \in Nat
      /\ \A m \in 1..Len(a) : up[m] = a[m]
  BY AppendProperties, LenProperties DEF Paths
<1> HIDE DEF up
<1>2. /\ up \o s \in Paths /\ a \o s \in Paths
      /\ Len(up \o s) = Len(a) + 1 + Len(s) /\ Len(a \o s) = Len(a) + Len(s)
      /\ \A m \in 1..Len(a) : (up \o s)[m] = a[m] /\ (a \o s)[m] = a[m]
  <2>1. /\ up \o s \in Paths /\ Len(up \o s) = Len(up) + Len(s)
        /\ \A m \in 1..Len(up) : (up \o s)[m] = up[m]
    BY <1>1, GluePlaces
  <2>2. /\ a \o s \in Paths /\ Len(a \o s) = Len(a) + Len(s)
        /\ \A m \in 1..Len(a) : (a \o s)[m] = a[m]
    BY GluePlaces
  <2> QED
    BY <1>1, <2>1, <2>2
<1>3. ASSUME NEW i \in Nat, i \in 1..Len(p), \A m \in 1..(i - 1) : p[m] = (up \o s)[m]
      PROVE  i <= Len(a)
  <2> SUFFICES ASSUME ~(i <= Len(a)) PROVE FALSE
    OBVIOUS
  <2>1. \A m \in 1..Len(a) : p[m] = a[m]
    BY <1>1, <1>2, <1>3
  <2> QED
    BY <1>1, <1>3, <2>1, UnderByPlaces
<1>4. ASSUME NEW i \in Nat, Part(p, up \o s, i)
      PROVE  Part(p, a \o s, i)
  <2>1. i <= Len(a)
    BY <1>3, <1>4 DEF Part
  <2> QED
    BY <1>1, <1>2, <1>4, <2>1 DEF Part
<1>5. ASSUME NEW i \in Nat, Part(up \o s, p, i)
      PROVE  Part(a \o s, p, i)
  <2>1. i <= Len(a)
    BY <1>3, <1>5 DEF Part
  <2> QED
    BY <1>1, <1>2, <1>5, <2>1 DEF Part
<1> QED
  BY <1>2, <1>4, <1>5, BeforeIsPart DEF up

-----------------------------------------------------------------------------
(* The operations.                                                           *)

\* What an operation may do to tree t: panes stay in their order, and one comes or
\* goes at most.
Keeps(t, u) ==
  /\ \E k : (Keys(t) \ Keys(u)) \cup (Keys(u) \ Keys(t)) \subseteq {k}
  /\ \A j, k \in Keys(t) \cap Keys(u) :
       Before(PathOf(t, j), PathOf(t, k)) => Before(PathOf(u, j), PathOf(u, k))

\* R leads from the leaves of t to where those that are left are in u, and keeps
\* their order.
MovedBy(t, u, R) ==
  /\ \A p \in Leaves(t) : t[p].panel \in Keys(u) =>
       \E p2 \in Leaves(u) : u[p2] = t[p] /\ <<p, p2>> \in R
  /\ \A p, q \in Leaves(t), p2, q2 \in Leaves(u) :
       <<p, p2>> \in R /\ <<q, q2>> \in R /\ Before(p, q) => Before(p2, q2)

\* Then the places of the panes are in the same order.
LEMMA MovedInOrder ==
  ASSUME NEW t, NEW u, Tree(t), Tree(u), NEW R, MovedBy(t, u, R)
  PROVE  \A j, k \in Keys(t) \cap Keys(u) :
           Before(PathOf(t, j), PathOf(t, k)) => Before(PathOf(u, j), PathOf(u, k))
<1> SUFFICES ASSUME NEW j \in Keys(t) \cap Keys(u), NEW k \in Keys(t) \cap Keys(u),
                    Before(PathOf(t, j), PathOf(t, k))
             PROVE  Before(PathOf(u, j), PathOf(u, k))
  OBVIOUS
<1>1. PICK p \in Leaves(t), q \in Leaves(t) : t[p].panel = j /\ t[q].panel = k
  BY DEF Keys
<1>2. PathOf(t, j) = p /\ PathOf(t, k) = q
  BY <1>1, PlaceOfPane
<1>3. PICK p2 \in Leaves(u), q2 \in Leaves(u) :
        u[p2] = t[p] /\ <<p, p2>> \in R /\ u[q2] = t[q] /\ <<q, q2>> \in R
  BY <1>1 DEF MovedBy
<1>4. PathOf(u, j) = p2 /\ PathOf(u, k) = q2
  BY <1>1, <1>3, PlaceOfPane
<1> QED
  BY <1>2, <1>3, <1>4 DEF MovedBy

\* splitLeaf keeps the panes and their order, and adds one.
LEMMA SplitKeeps ==
  ASSUME NEW t, Tree(t), NEW path \in Leaves(t), NEW k \in Panels \ Keys(t),
         NEW branch \in Branches, NEW orientation \in {"horizontal", "vertical"},
         NEW position \in Int,
         NEW u, u = SplitLeaf(t, path, SplitNode(orientation, position), k, branch)
  PROVE  Tree(u) /\ Keeps(t, u)
<1> DEFINE new == Append(path, branch)
           old == Append(path, Sibling(branch))
           R == {x \in Leaves(t) \X Leaves(u) : x[2] = IF x[1] = path THEN old ELSE x[1]}
<1>1. /\ Tree(u) /\ path \in Paths
      /\ new \in Leaves(u) /\ u[new].panel = k /\ old \in Leaves(u) /\ u[old] = t[path]
      /\ Leaves(u) = (Leaves(t) \ {path}) \cup {new, old}
      /\ \A p \in Leaves(t) \ {path} : u[p] = t[p]
  BY SplitKeepsTree
<1>2. \A p \in Leaves(t) : p \in Paths
  BY DEF Leaves, Tree
<1>3. \A p \in Leaves(t) : \E p2 \in Leaves(u) : u[p2] = t[p] /\ <<p, p2>> \in R
  <2> HIDE DEF new, old
  <2> QED
    BY <1>1
<1>4. ASSUME NEW p \in Leaves(t), NEW q \in Leaves(t), NEW p2 \in Leaves(u), NEW q2 \in Leaves(u),
             <<p, p2>> \in R, <<q, q2>> \in R, Before(p, q)
      PROVE  Before(p2, q2)
  <2>1. p2 = (IF p = path THEN old ELSE p) /\ q2 = (IF q = path THEN old ELSE q)
    BY <1>4
  <2> DEFINE e == <<Sibling(branch)>>
  <2>2. e \in Paths /\ old = path \o e
    BY <1>1, SiblingIsOther, AppendIsConcat DEF Paths
  <2> HIDE DEF new, old, e, R
  <2>3. \E s, w \in Paths : p2 = p \o s /\ q2 = q \o w
    <3>1. \E s \in Paths : p2 = p \o s
      BY <1>2, <2>1, <2>2, GlueEmpty, EmptyPath
    <3>2. \E w \in Paths : q2 = q \o w
      BY <1>2, <2>1, <2>2, GlueEmpty, EmptyPath
    <3> QED
      BY <3>1, <3>2
  <2> QED
    BY <1>2, <1>4, <2>3, BeforeGrows
<1>5. (Keys(t) \ Keys(u)) \cup (Keys(u) \ Keys(t)) \subseteq {k}
  <2> HIDE DEF new, old, R
  <2> QED
    BY <1>1 DEF Keys
<1> HIDE DEF R
<1>6. \A j, m \in Keys(t) \cap Keys(u) :
        Before(PathOf(t, j), PathOf(t, m)) => Before(PathOf(u, j), PathOf(u, m))
  <2>1. MovedBy(t, u, R)
    BY <1>3, <1>4 DEF MovedBy
  <2> QED
    BY <1>1, <2>1, MovedInOrder
<1> QED
  BY <1>1, <1>5, <1>6 DEF Keeps

\* removeAt keeps the other panes and their order.
LEMMA CloseKeeps ==
  ASSUME NEW t, Tree(t), NEW path \in Leaves(t), path # <<>>,
         NEW u, u = ClosePane(t, path)
  PROVE  Tree(u) /\ Keeps(t, u)
<1>1. path \in Paths /\ path \in DOMAIN t
  BY DEF Leaves, Tree
<1>2. PICK a \in Paths, c \in Branches : path = Append(a, c)
  BY <1>1, PathFront
<1> DEFINE up == Append(a, Sibling(c))
           R == {x \in Leaves(t) \X Leaves(u) :
                   \/ ~Under(a, x[1]) /\ x[2] = x[1]
                   \/ \E s \in Paths : x[1] = up \o s /\ x[2] = a \o s}
<1>3. Tree(u)
  BY <1>2, CloseKeepsTree
<1>4. /\ \A q \in Paths : ~Under(a, q) =>
           /\ q \in DOMAIN u <=> q \in DOMAIN t
           /\ q \in DOMAIN t => u[q] = t[q]
      /\ \A s \in Paths :
           /\ a \o s \in DOMAIN u <=> up \o s \in DOMAIN t
           /\ a \o s \in DOMAIN u => u[a \o s] = t[up \o s]
  BY <1>2, CloseShape
<1>5. /\ a \in DOMAIN t /\ t[a].type = "split" /\ up \in Paths
      /\ ~Under(up, path)
      /\ \A p \in DOMAIN t : Under(a, p) => p = a \/ p = path \/ Under(up, p)
  BY <1>2, CloseCases
<1>6. \A s \in Paths : Under(a, up \o s)
  <2> SUFFICES ASSUME NEW s \in Paths PROVE Under(a, up \o s)
    OBVIOUS
  <2>1. <<Sibling(c)>> \in Paths /\ up = a \o <<Sibling(c)>>
    BY SiblingIsOther, AppendIsConcat DEF Paths
  <2>2. up \o s = a \o (<<Sibling(c)>> \o s) /\ <<Sibling(c)>> \o s \in Paths
    BY <2>1, GlueAssociates, Glue
  <2> QED
    BY <2>2 DEF Under
<1> HIDE DEF up
<1>7. ASSUME NEW p \in Leaves(t), p # path
      PROVE  \E p2 \in Leaves(u) : u[p2] = t[p] /\ <<p, p2>> \in R
  <2>1. p \in DOMAIN t /\ t[p].type = "pane" /\ p \in Paths /\ p # a
    BY <1>5 DEF Leaves, Tree
  <2>2. CASE ~Under(a, p)
    <3>1. p \in Leaves(u) /\ u[p] = t[p]
      BY <1>4, <2>1, <2>2 DEF Leaves
    <3> QED
      BY <2>2, <3>1
  <2>3. CASE Under(a, p)
    <3>1. PICK s \in Paths : p = up \o s
      BY <1>5, <1>7, <2>1, <2>3 DEF Under
    <3>2. a \o s \in Leaves(u) /\ u[a \o s] = t[p]
      BY <1>4, <2>1, <3>1 DEF Leaves
    <3> QED
      BY <3>1, <3>2
  <2> QED
    BY <2>2, <2>3
<1>8. ASSUME NEW q \in Leaves(u)
      PROVE  \E p \in Leaves(t) : p # path /\ u[q] = t[p]
  <2>1. q \in DOMAIN u /\ u[q].type = "pane" /\ q \in Paths
    BY <1>3 DEF Leaves, Tree
  <2>2. CASE ~Under(a, q)
    <3>1. Under(a, path)
      <4>1. <<c>> \in Paths /\ path = a \o <<c>>
        BY <1>2, AppendIsConcat DEF Paths
      <4> QED
        BY <4>1 DEF Under
    <3> QED
      BY <1>4, <2>1, <2>2, <3>1 DEF Leaves
  <2>3. CASE Under(a, q)
    <3>1. PICK s \in Paths : q = a \o s
      BY <2>3 DEF Under
    <3>2. up \o s \in DOMAIN t /\ u[q] = t[up \o s]
      BY <1>4, <2>1, <3>1
    <3>3. up \o s # path
      BY <1>5 DEF Under
    <3> QED
      BY <2>1, <3>2, <3>3 DEF Leaves
  <2> QED
    BY <2>2, <2>3
<1>9. \A p \in Leaves(t) : p # path => t[p].panel # t[path].panel
  BY DEF Tree
<1>10. (Keys(t) \ Keys(u)) \cup (Keys(u) \ Keys(t)) \subseteq {t[path].panel}
  <2> HIDE DEF R
  <2>1. \A p \in Leaves(t) : p # path => t[p].panel \in Keys(u)
    BY <1>7 DEF Keys
  <2>2. \A q \in Leaves(u) : u[q].panel \in Keys(t)
    BY <1>8 DEF Keys
  <2> QED
    BY <2>1, <2>2 DEF Keys
<1>11. \A p \in Leaves(t) : t[p].panel \in Keys(u) =>
         \E p2 \in Leaves(u) : u[p2] = t[p] /\ <<p, p2>> \in R
  <2> HIDE DEF R
  <2>1. t[path].panel \notin Keys(u)
    BY <1>8, <1>9 DEF Keys
  <2> QED
    BY <1>7, <2>1
<1>12. ASSUME NEW p \in Leaves(t), NEW q \in Leaves(t), NEW p2 \in Leaves(u), NEW q2 \in Leaves(u),
              <<p, p2>> \in R, <<q, q2>> \in R, Before(p, q)
       PROVE  Before(p2, q2)
  <2>1. /\ (~Under(a, p) /\ p2 = p) \/ (\E s \in Paths : p = up \o s /\ p2 = a \o s)
        /\ (~Under(a, q) /\ q2 = q) \/ (\E s \in Paths : q = up \o s /\ q2 = a \o s)
    BY <1>12
  <2>2. p \in Paths /\ q \in Paths
    BY DEF Leaves, Tree
  <2> HIDE DEF R
  <2>3. CASE (~Under(a, p) /\ p2 = p) /\ (~Under(a, q) /\ q2 = q)
    BY <1>12, <2>3
  <2>4. CASE (~Under(a, p) /\ p2 = p) /\ (\E s \in Paths : q = up \o s /\ q2 = a \o s)
    BY <1>12, <2>2, <2>4, SiblingIsOther, BeforeBeside DEF up
  <2>5. CASE (\E s \in Paths : p = up \o s /\ p2 = a \o s) /\ (~Under(a, q) /\ q2 = q)
    BY <1>12, <2>2, <2>5, SiblingIsOther, BeforeBeside DEF up
  <2>6. CASE /\ \E s \in Paths : p = up \o s /\ p2 = a \o s
             /\ \E s \in Paths : q = up \o s /\ q2 = a \o s
    BY <1>5, <1>12, <2>6, BeforeLifted
  <2> QED
    BY <2>1, <2>3, <2>4, <2>5, <2>6
<1> HIDE DEF R
<1>13. \A j, k \in Keys(t) \cap Keys(u) :
         Before(PathOf(t, j), PathOf(t, k)) => Before(PathOf(u, j), PathOf(u, k))
  <2>1. MovedBy(t, u, R)
    BY <1>11, <1>12 DEF MovedBy
  <2> QED
    BY <1>3, <2>1, MovedInOrder
<1> QED
  BY <1>3, <1>10, <1>13 DEF Keeps

\* Moving dividers leaves every pane where it is.
LEMMA SameLeavesKeep ==
  ASSUME NEW t, Tree(t), NEW u, u = [p \in DOMAIN t |-> u[p]],
         \A p \in DOMAIN t : /\ u[p] \in Nodes /\ u[p].type = t[p].type
                             /\ t[p].type = "pane" => u[p] = t[p]
  PROVE  Tree(u) /\ Keeps(t, u)
<1>1. DOMAIN u = DOMAIN t
  OBVIOUS
<1>2. Leaves(u) = Leaves(t) /\ \A p \in Leaves(t) : u[p] = t[p]
  BY <1>1 DEF Leaves
<1>3. \A p \in Paths, b \in Branches :
        Append(p, b) \in DOMAIN u <=> p \in DOMAIN u /\ u[p].type = "split"
  BY <1>1 DEF Tree
<1>4. Tree(u)
  BY <1>1, <1>2, <1>3 DEF Tree
<1>5. Keys(u) = Keys(t)
  BY <1>2 DEF Keys
<1>6. \A k \in Keys(t) : PathOf(u, k) = PathOf(t, k)
  <2> SUFFICES ASSUME NEW p \in Leaves(t)
               PROVE  PathOf(u, t[p].panel) = PathOf(t, t[p].panel)
    BY DEF Keys
  <2>1. PathOf(t, t[p].panel) = p /\ PathOf(u, u[p].panel) = p
    BY <1>2, <1>4, PlaceOfPane
  <2> QED
    BY <1>2, <2>1
<1> QED
  BY <1>4, <1>5, <1>6 DEF Keeps

\* So every operation on a tree makes a tree and keeps the order of its panes.
LEMMA TreeOperationKeeps ==
  ASSUME Tree(tree), TreeOperation
  PROVE  Tree(tree') /\ Keeps(tree, tree') /\ UNCHANGED <<hosts, content>>
<1>1. UNCHANGED <<hosts, content>>
  BY DEF TreeOperation, Split, Close, ResizeDivider, Equalize
<1>2. PICK t, u : t = tree /\ u = tree'
  OBVIOUS
<1>3. ASSUME NEW k \in Panels \ Keys(tree), NEW path \in Leaves(tree), NEW branch \in Branches,
             NEW orientation \in {"horizontal", "vertical"}, NEW position \in Positions,
             Split(path, orientation, position, k, branch)
      PROVE  Tree(u) /\ Keeps(t, u)
  <2>1. position \in Int
    BY PanesAssumption
  <2> QED
    BY <1>2, <1>3, <2>1, SplitKeeps DEF Split
<1>4. ASSUME NEW path \in Leaves(tree), Close(path)
      PROVE  Tree(u) /\ Keeps(t, u)
  BY <1>2, <1>4, CloseKeeps DEF Close
<1>5. ASSUME NEW path \in DOMAIN tree \ Leaves(tree), NEW position \in Positions,
             ResizeDivider(path, position)
      PROVE  Tree(u) /\ Keeps(t, u)
  <2>1. u = [t EXCEPT ![path] = [t[path] EXCEPT !.divider = ClampDivider(position)]]
    BY <1>2, <1>5 DEF ResizeDivider
  <2>2. ClampDivider(position) \in 1..9
    BY PanesAssumption DEF ClampDivider
  <2>3. path \in DOMAIN t /\ t[path].type # "pane" /\ t = [p \in DOMAIN t |-> t[p]]
        /\ \A p \in DOMAIN t : t[p] \in Nodes
    BY <1>2 DEF Leaves, Tree
  <2>4. /\ u = [p \in DOMAIN t |-> u[p]]
        /\ \A p \in DOMAIN t : p # path => u[p] = t[p]
        /\ u[path] = [t[path] EXCEPT !.divider = ClampDivider(position)]
    BY <2>1, <2>3
  <2>5. u[path] \in Nodes /\ u[path].type = t[path].type
    BY <2>2, <2>3, <2>4 DEF Nodes
  <2> QED
    BY <1>2, <2>3, <2>4, <2>5, SameLeavesKeep
<1>6. ASSUME Equalize
      PROVE  Tree(u) /\ Keeps(t, u)
  <2>1. u = [p \in DOMAIN t |->
               IF t[p].type = "split" THEN [t[p] EXCEPT !.divider = 5] ELSE t[p]]
    BY <1>2, <1>6 DEF Equalize, EqualizeTree
  <2>2. \A p \in DOMAIN t : t[p] \in Nodes
    BY <1>2 DEF Tree
  <2>3. \A p \in DOMAIN t : /\ u[p] \in Nodes /\ u[p].type = t[p].type
                            /\ t[p].type = "pane" => u[p] = t[p]
    BY <2>1, <2>2 DEF Nodes
  <2>4. u = [p \in DOMAIN t |-> u[p]]
    BY <2>1
  <2>5. Tree(t)
    BY <1>2
  <2> QED
    BY <2>3, <2>4, <2>5, SameLeavesKeep
<1>7. Tree(u) /\ Keeps(t, u)
  <2>1. CASE \E k \in Panels \ Keys(tree), path \in Leaves(tree), branch \in Branches,
               orientation \in {"horizontal", "vertical"}, position \in Positions :
                 Split(path, orientation, position, k, branch)
    BY <1>3, <2>1
  <2>2. CASE \E path \in Leaves(tree) : Close(path)
    BY <1>4, <2>2
  <2>3. CASE \E path \in DOMAIN tree \ Leaves(tree), position \in Positions :
               ResizeDivider(path, position)
    BY <1>5, <2>3
  <2> QED
    BY <1>6, <2>1, <2>2, <2>3 DEF TreeOperation
<1> QED
  BY <1>1, <1>2, <1>7
-----------------------------------------------------------------------------
(* The panes through the steps of the system.                                *)

\* What a step does to the panes is an operation on the tree, a layout, output of a
\* shell, or nothing.
LEMMA StepsOfPanes ==
  ASSUME [Next]_vars
  PROVE  \/ TreeOperation \/ Render
         \/ \E k \in Panels : Output(k)
         \/ UNCHANGED panesVars
<1>1. CASE Arrange \/ RenderPanes \/ UNCHANGED vars
  BY <1>1 DEF Arrange, RenderPanes, vars
<1>2. CASE \E p \in Printing :
             Prints(p) \/ OscHandler(p) \/ ClearOnFocus(p) \/ MarkRead(p) \/ SyncPane(p)
  BY <1>2, PanesAssumption DEF Prints, OscHandler, ClearOnFocus, MarkRead, SyncPane, Invoke
<1>3. CASE IngestOsc \/ NotifyMarkRead \/ NotifyClear \/ NotifyPaneState
  BY <1>3 DEF IngestOsc, NotifyMarkRead, NotifyClear, NotifyPaneState, Serves
<1>4. CASE ApplyEvent \/ ApplyReply
  BY <1>4 DEF ApplyEvent, ApplyReply
<1> QED
  BY <1>1, <1>2, <1>3, <1>4 DEF Next

\* The tree is a tree, the hosts are those of panes, and only hosts have output.
LayoutInv ==
  /\ Tree(tree)
  /\ hosts \subseteq Panels
  /\ content \subseteq hosts

\* The panes of a tree are panels.
LEMMA PanesOfTree ==
  ASSUME NEW t, Tree(t)
  PROVE  Keys(t) \subseteq Panels
BY DEF Tree, Keys, Leaves, Nodes

\* The workspace starts as a tree of one pane.
LEMMA OnePaneIsTree ==
  ASSUME NEW k \in Panels, NEW t, t = [p \in {<<>>} |-> PaneNode(k)]
  PROVE  Tree(t)
<1>1. DOMAIN t = {<<>>} /\ t[<<>>] = PaneNode(k) /\ t[<<>>] \in Nodes
      /\ t[<<>>].type = "pane"
  BY DEF PaneNode, Nodes
<1>2. \A p \in Paths, b \in Branches : Append(p, b) # <<>>
  BY PathAppend
<1> QED
  BY <1>1, <1>2, EmptyPath DEF Tree, Leaves

\* Every step of the system keeps the layout sound.
LEMMA LayoutStep ==
  ASSUME LayoutInv, [Next]_vars
  PROVE  LayoutInv'
<1>1. CASE TreeOperation
  BY <1>1, TreeOperationKeeps DEF LayoutInv
<1>2. CASE Render
  <2>1. Keys(tree) \subseteq Panels /\ UNCHANGED tree
    BY <1>2, PanesOfTree DEF LayoutInv, Render
  <2> QED
    BY <1>2, <2>1 DEF LayoutInv, Render
<1>3. CASE \E k \in Panels : Output(k)
  BY <1>3 DEF LayoutInv, Output
<1>4. CASE UNCHANGED panesVars
  BY <1>4 DEF LayoutInv, panesVars
<1> QED
  BY <1>1, <1>2, <1>3, <1>4, StepsOfPanes

\* The first conjunct of OthersStay, of a step that changes the tree.
LEMMA OneComesOrGoes ==
  ASSUME NEW t, NEW u, Keeps(t, u)
  PROVE  Cardinality((Keys(t) \ Keys(u)) \cup (Keys(u) \ Keys(t))) <= 1
<1> DEFINE S == (Keys(t) \ Keys(u)) \cup (Keys(u) \ Keys(t))
<1>1. PICK k : S \subseteq {k}
  BY DEF Keeps
<1>2. S = {} \/ S = {k}
  BY <1>1
<1> HIDE DEF S
<1>3. Cardinality(S) = 0 \/ Cardinality(S) = 1
  BY <1>2, FS_EmptySet, FS_Singleton
<1>4. Cardinality(S) <= 1
  BY <1>3
<1> QED
  BY <1>4 DEF S

\* Splitting, closing and resizing keep the order in which the panes are read,
\* however deep the subtree that moves, and touch one pane at most
\* (splitPane, closePane, setDivider, equalize of split-tree.ts).
THEOREM PanesKeepTheirOrder == Spec => OthersStay
<1> DEFINE A == tree' # tree =>
       /\ Cardinality((Keys(tree) \ Keys(tree')) \cup (Keys(tree') \ Keys(tree))) <= 1
       /\ \A j, k \in Keys(tree) \cap Keys(tree') :
            Before(PathOf(tree, j), PathOf(tree, k))
              => Before(PathOf(tree', j), PathOf(tree', k))
<1>1. Init => LayoutInv
  BY OnePaneIsTree DEF Init, PanesInit, LayoutInv
<1>2. LayoutInv /\ [Next]_vars => LayoutInv'
  BY LayoutStep
<1>3. LayoutInv /\ [Next]_vars => [A]_panesVars
  <2> SUFFICES ASSUME LayoutInv, [Next]_vars, tree' # tree
               PROVE  A
    OBVIOUS
  <2>1. TreeOperation
    BY StepsOfPanes DEF Render, Output, panesVars
  <2>2. Keeps(tree, tree')
    BY <2>1, TreeOperationKeeps DEF LayoutInv
  <2> QED
    BY <2>2, OneComesOrGoes DEF Keeps
<1>4. LayoutInv /\ [Next]_vars =>
      [tree' # tree =>
       /\ Cardinality((Keys(tree) \ Keys(tree')) \cup (Keys(tree') \ Keys(tree))) <= 1
       /\ \A j, k \in Keys(tree) \cap Keys(tree') :
            Before(PathOf(tree, j), PathOf(tree, k))
              => Before(PathOf(tree', j), PathOf(tree', k))]_panesVars
  BY <1>3 DEF A
<1> HIDE DEF A
<1> QED
  BY <1>1, <1>2, <1>4, PTL DEF Spec, OthersStay

-----------------------------------------------------------------------------
(* The renderer.                                                             *)

\* A function is what it does.
Maps(f) == f = [x \in DOMAIN f |-> f[x]]

\* A leaf that is built has the host of its pane; the hosts are those there were and
\* those of the leaves that are built, and a new one has nothing to lose.
SkeletonInv ==
  /\ DOMAIN skeleton \subseteq Leaves(layout)
  /\ seen = {layout[p].panel : p \in DOMAIN skeleton}
  /\ \A p \in DOMAIN skeleton :
       layout[p].panel \in DOMAIN host /\ skeleton[p] = host[layout[p].panel]

RendererInv ==
  /\ phase \in {"stale", "building", "evicting", "drawn"}
  /\ Maps(host) /\ Maps(dom) /\ Maps(skeleton)
  /\ \A j, k \in DOMAIN host : host[j] = host[k] => j = k
  /\ phase \in {"building", "evicting"} => SkeletonInv
  /\ phase = "building" =>
       DOMAIN host = before \cup seen /\ \A k \in seen \ before : host[k] \notin scrollback
  /\ phase = "evicting" => DOMAIN skeleton = Leaves(layout) /\ dom = skeleton
  /\ phase = "drawn" => DrawnAsLaidOut

\* A leaf that is built: the others keep their hosts, and its own is in no one's place.
LEMMA BuiltPane ==
  ASSUME RendererInv, NEW path \in Leaves(layout), BuildPane(path)
  PROVE  LET k == layout[path].panel
         IN /\ Maps(host') /\ DOMAIN host' = DOMAIN host \cup {k}
            /\ \A j \in DOMAIN host : host'[j] = host[j]
            /\ Maps(skeleton') /\ DOMAIN skeleton' = DOMAIN skeleton \cup {path}
            /\ skeleton'[path] = host'[k]
            /\ \A q \in DOMAIN skeleton : skeleton'[q] = skeleton[q]
            /\ k \notin DOMAIN host =>
                 host'[k] \notin scrollback /\ \A j \in DOMAIN host : host'[k] # host[j]
<1> DEFINE k == layout[path].panel
<1>1. PICK e \in Host(k, path) :
        host' = Assign(host, k, e) /\ skeleton' = Assign(skeleton, path, e)
  BY DEF BuildPane
<1>2. path \notin DOMAIN skeleton
  BY DEF BuildPane, NextLeaf
<1>3. /\ Maps(host') /\ DOMAIN host' = DOMAIN host \cup {k} /\ host'[k] = e
      /\ \A j \in DOMAIN host : j # k => host'[j] = host[j]
  BY <1>1 DEF Assign, Maps
<1>4. /\ Maps(skeleton') /\ DOMAIN skeleton' = DOMAIN skeleton \cup {path}
      /\ skeleton'[path] = e
      /\ \A q \in DOMAIN skeleton : q # path => skeleton'[q] = skeleton[q]
  BY <1>1 DEF Assign, Maps
<1>5. CASE k \in DOMAIN host
  <2>1. e = host[k]
    BY <1>5 DEF Host
  <2> QED
    BY <1>2, <1>3, <1>4, <1>5, <2>1
<1>6. CASE k \notin DOMAIN host
  <2>1. e \notin scrollback /\ \A j \in DOMAIN host : e # host[j]
    BY <1>6 DEF Host, Created, Range
  <2> QED
    BY <1>2, <1>3, <1>4, <1>6, <2>1
<1> QED
  BY <1>5, <1>6

\* Every step of the renderer, and every change of the tree, keeps it.
LEMMA RendererStep ==
  ASSUME RendererInv, [RendererNext]_rendererVars
  PROVE  RendererInv'
<1>1. CASE LayoutChanges
  BY <1>1 DEF LayoutChanges, Resting, renderVars, RendererInv, Maps
<1>2. ASSUME NEW k \in Panels, TerminalPrints(k)
      PROVE  RendererInv'
  <2>1. Resting /\ UNCHANGED <<layout, phase, host, dom, skeleton, seen, before>>
    BY <1>2 DEF TerminalPrints
  <2> QED
    BY <2>1 DEF Resting, RendererInv, DrawnAsLaidOut, Maps, Keys, Leaves
<1>3. CASE RenderBegins
  BY <1>3 DEF RenderBegins, RendererInv, SkeletonInv, Maps
<1>4. ASSUME NEW path \in Leaves(layout), BuildPane(path)
      PROVE  RendererInv'
  <2> DEFINE k == layout[path].panel
  <2>1. /\ phase = "building" /\ seen' = seen \cup {k}
        /\ UNCHANGED <<layout, phase, dom, before, scrollback>>
    BY <1>4 DEF BuildPane
  <2>2. /\ Maps(host') /\ DOMAIN host' = DOMAIN host \cup {k}
        /\ \A j \in DOMAIN host : host'[j] = host[j]
        /\ Maps(skeleton') /\ DOMAIN skeleton' = DOMAIN skeleton \cup {path}
        /\ skeleton'[path] = host'[k]
        /\ \A q \in DOMAIN skeleton : skeleton'[q] = skeleton[q]
        /\ k \notin DOMAIN host =>
             host'[k] \notin scrollback /\ \A j \in DOMAIN host : host'[k] # host[j]
    BY <1>4, BuiltPane
  <2>3. /\ SkeletonInv /\ Maps(dom)
        /\ \A i, j \in DOMAIN host : host[i] = host[j] => i = j
        /\ DOMAIN host = before \cup seen
        /\ \A j \in seen \ before : host[j] \notin scrollback
    BY <2>1 DEF RendererInv
  <2>4. SkeletonInv'
    <3>1. DOMAIN skeleton' \subseteq Leaves(layout)
      BY <2>2, <2>3 DEF SkeletonInv
    <3>2. seen' = {layout[p].panel : p \in DOMAIN skeleton'}
      BY <2>1, <2>2, <2>3 DEF SkeletonInv
    <3>3. \A p \in DOMAIN skeleton' :
            layout[p].panel \in DOMAIN host' /\ skeleton'[p] = host'[layout[p].panel]
      BY <2>2, <2>3 DEF SkeletonInv
    <3>4. Leaves(layout)' = Leaves(layout) /\ layout' = layout
      BY <2>1 DEF Leaves
    <3> QED
      BY <3>1, <3>2, <3>3, <3>4 DEF SkeletonInv
  <2>5. \A i, j \in DOMAIN host' : host'[i] = host'[j] => i = j
    BY <2>2, <2>3
  <2>6. DOMAIN host' = before' \cup seen'
    BY <2>1, <2>2, <2>3
  <2>7. \A j \in seen' \ before' : host'[j] \notin scrollback'
    BY <2>1, <2>2, <2>3
  <2>8. Maps(dom)'
    BY <2>1, <2>3 DEF Maps
  <2> QED
    BY <2>1, <2>2, <2>4, <2>5, <2>6, <2>7, <2>8 DEF RendererInv, Maps
<1>5. CASE Swap
  <2>1. /\ phase = "building" /\ phase' = "evicting" /\ dom' = skeleton
        /\ DOMAIN skeleton = Leaves(layout)
        /\ UNCHANGED <<layout, host, skeleton, seen, before, scrollback>>
    BY <1>5 DEF Swap
  <2>2. SkeletonInv
    BY <2>1 DEF RendererInv
  <2>3. SkeletonInv' /\ DOMAIN skeleton' = Leaves(layout')
    BY <2>1, <2>2 DEF SkeletonInv, Leaves
  <2> QED
    BY <2>1, <2>3 DEF RendererInv, Maps
<1>6. ASSUME NEW k \in Panels, Evict(k)
      PROVE  RendererInv'
  <2>1. /\ phase = "evicting" /\ k \in DOMAIN host \ seen
        /\ host' = [j \in DOMAIN host \ {k} |-> host[j]]
        /\ dom' = [p \in {q \in DOMAIN dom : dom[q] # host[k]} |-> dom[p]]
        /\ UNCHANGED <<layout, phase, skeleton, seen, before>>
    BY <1>6 DEF Evict
  <2>2. /\ SkeletonInv /\ dom = skeleton /\ Maps(skeleton) /\ DOMAIN skeleton = Leaves(layout)
        /\ \A i, j \in DOMAIN host : host[i] = host[j] => i = j
    BY <2>1 DEF RendererInv
  <2>3. \A p \in DOMAIN skeleton : layout[p].panel \in seen
    BY <2>2 DEF SkeletonInv
  <2>4. \A p \in DOMAIN skeleton : skeleton[p] # host[k]
    BY <2>1, <2>2, <2>3 DEF SkeletonInv
  <2>5. dom' = skeleton
    <3>1. {q \in DOMAIN dom : dom[q] # host[k]} = DOMAIN skeleton
      BY <2>2, <2>4
    <3> QED
      BY <2>1, <2>2, <3>1 DEF Maps
  <2>6. \A p \in DOMAIN skeleton :
          layout[p].panel \in DOMAIN host' /\ skeleton[p] = host'[layout[p].panel]
    BY <2>1, <2>2, <2>3 DEF SkeletonInv
  <2>7. SkeletonInv' /\ DOMAIN skeleton' = Leaves(layout')
    BY <2>1, <2>2, <2>6 DEF SkeletonInv, Leaves
  <2>8. Maps(host')
    BY <2>1 DEF Maps
  <2>9. \A i, j \in DOMAIN host' : host'[i] = host'[j] => i = j
    BY <2>1, <2>2
  <2> QED
    BY <2>1, <2>2, <2>5, <2>7, <2>8, <2>9 DEF RendererInv, Maps
<1>7. CASE RenderEnds
  <2>1. /\ phase = "evicting" /\ phase' = "drawn" /\ DOMAIN host \subseteq seen
        /\ UNCHANGED <<layout, renderVars>>
    BY <1>7 DEF RenderEnds
  <2>2. /\ SkeletonInv /\ dom = skeleton /\ Maps(skeleton) /\ DOMAIN skeleton = Leaves(layout)
        /\ \A i, j \in DOMAIN host : host[i] = host[j] => i = j
    BY <2>1 DEF RendererInv
  <2>3. DOMAIN host = Keys(layout)
    <3>1. seen = Keys(layout)
      BY <2>2 DEF SkeletonInv, Keys
    <3>2. seen \subseteq DOMAIN host
      BY <2>2 DEF SkeletonInv
    <3> QED
      BY <2>1, <3>1, <3>2
  <2>4. dom = [p \in Leaves(layout) |-> host[layout[p].panel]]
    BY <2>2 DEF SkeletonInv, Maps
  <2>5. DrawnAsLaidOut'
    BY <2>1, <2>2, <2>3, <2>4 DEF DrawnAsLaidOut, renderVars, Keys, Leaves
  <2> QED
    BY <2>1, <2>5 DEF RendererInv, renderVars, Maps
<1>8. CASE UNCHANGED rendererVars
  BY <1>8 DEF rendererVars, renderVars, RendererInv, SkeletonInv, DrawnAsLaidOut, Maps, Keys, Leaves
<1> QED
  BY <1>1, <1>2, <1>3, <1>4, <1>5, <1>6, <1>7, <1>8 DEF RendererNext

\* Before the first render there is no host.
LEMMA RendererStart ==
  ASSUME RendererInit
  PROVE  RendererInv
BY DEF RendererInit, RendererInv, Maps

\* For any trees and any renders between their operations, what is drawn is the
\* layout: at every leaf the host of its pane, each at one place, and nothing of a
\* pane that is gone (pane-renderer.ts, render).
THEOREM AlwaysDrawnAsLaidOut == RendererSpec => []DrawnAsLaidOut
<1>1. RendererInv => DrawnAsLaidOut
  BY DEF RendererInv, DrawnAsLaidOut
<1>2. RendererInit => RendererInv
  BY RendererStart
<1>3. RendererInv /\ [RendererNext]_rendererVars => RendererInv'
  BY RendererStep
<1> QED
  BY <1>1, <1>2, <1>3, PTL DEF RendererSpec

\* For any trees and any renders between their operations, build, swap and evict come
\* to what Panes takes a render to be: the panes of the tree have hosts, those that
\* had one the same with its scrollback (pane-renderer.ts: "a re-layout MUST reuse
\* the existing DOM host").
THEOREM RendererAlwaysImplementsPanes == RendererSpec => RendererImplementsPanes
<1> DEFINE Content == {k \in Drawn : host[k] \in scrollback}
<1>1. RendererInit => RendererInv
  BY RendererStart
<1>2. RendererInv /\ [RendererNext]_rendererVars => RendererInv'
  BY RendererStep
<1>3. RendererInit => Layout!PanesInit
  <2> SUFFICES ASSUME RendererInit PROVE Layout!PanesInit
    OBVIOUS
  <2>1. Drawn = {}
    BY DEF RendererInit, Drawn
  <2> QED
    BY <2>1 DEF RendererInit, Layout!PanesInit, PaneNode, Layout!PaneNode
<1>4. RendererInv /\ RendererInv' /\ [RendererNext]_rendererVars
        => [Layout!PanesNext]_(Layout!panesVars)
  <2> SUFFICES ASSUME RendererInv, RendererInv', [RendererNext]_rendererVars
               PROVE  Layout!PanesNext \/ UNCHANGED <<layout, Drawn, Content>>
    BY DEF Layout!panesVars
  <2>1. CASE LayoutChanges
    BY <2>1 DEF LayoutChanges, Layout!PanesNext
  <2>2. ASSUME NEW k \in Panels, TerminalPrints(k)
        PROVE  Layout!Output(k)
    <3>1. /\ Drawn = DOMAIN host /\ Drawn' = DOMAIN host /\ k \in Drawn \cap Printing
          /\ scrollback' = scrollback \cup {host[k]} /\ host' = host /\ layout' = layout
      BY <2>2 DEF TerminalPrints, Resting, Drawn
    <3>2. \A i, j \in DOMAIN host : host[i] = host[j] => i = j
      BY DEF RendererInv
    <3>3. Content' = Content \cup {k}
      BY <3>1, <3>2
    <3> QED
      BY <3>1, <3>3 DEF Layout!Output
  <2>3. CASE RenderBegins
    <3>1. /\ Drawn = DOMAIN host /\ Drawn' = DOMAIN host
          /\ UNCHANGED <<layout, host, scrollback>>
      BY <2>3 DEF RenderBegins, Resting, Drawn
    <3> QED
      BY <3>1
  <2>4. ASSUME NEW path \in Leaves(layout), BuildPane(path)
        PROVE  UNCHANGED <<layout, Drawn, Content>>
    <3>1. /\ phase = "building" /\ Drawn = before /\ Drawn' = before
          /\ UNCHANGED <<layout, scrollback>>
      BY <2>4 DEF BuildPane, Drawn
    <3>2. \A j \in before : host'[j] = host[j]
      <4>1. before \subseteq DOMAIN host
        BY <3>1 DEF RendererInv
      <4>2. \A j \in DOMAIN host : host'[j] = host[j]
        BY <2>4, BuiltPane
      <4> QED
        BY <4>1, <4>2
    <3> QED
      BY <3>1, <3>2
  <2>5. CASE Swap
    <3>1. /\ phase = "building" /\ Drawn = before /\ Drawn' = seen
          /\ DOMAIN skeleton = Leaves(layout)
          /\ UNCHANGED <<layout, host, scrollback>>
      BY <2>5 DEF Swap, Drawn
    <3>2. /\ seen = Keys(layout) /\ DOMAIN host = before \cup seen
          /\ \A k \in seen \ before : host[k] \notin scrollback
      BY <3>1 DEF RendererInv, SkeletonInv, Keys
    <3>3. Content' = Content \cap Keys(layout)
      BY <3>1, <3>2
    <3>4. Layout!Keys(layout) = Keys(layout)
      BY DEF Layout!Keys, Layout!Leaves, Keys, Leaves
    <3>5. Layout!Render
      BY <3>1, <3>2, <3>3, <3>4 DEF Layout!Render
    <3> QED
      BY <3>5 DEF Layout!PanesNext
  <2>6. ASSUME NEW k \in Panels, Evict(k)
        PROVE  UNCHANGED <<layout, Drawn, Content>>
    <3>1. /\ phase = "evicting" /\ Drawn = seen /\ Drawn' = seen /\ k \in DOMAIN host \ seen
          /\ host' = [j \in DOMAIN host \ {k} |-> host[j]]
          /\ scrollback' = scrollback \ {host[k]} /\ layout' = layout
      BY <2>6 DEF Evict, Drawn
    <3>2. /\ \A i, j \in DOMAIN host : host[i] = host[j] => i = j
          /\ seen \subseteq DOMAIN host
      BY <3>1 DEF RendererInv, SkeletonInv
    <3>3. \A j \in seen : host'[j] = host[j] /\ host[j] # host[k]
      BY <3>1, <3>2
    <3> QED
      BY <3>1, <3>3
  <2>7. CASE RenderEnds
    <3>1. /\ phase = "evicting" /\ DOMAIN host \subseteq seen
          /\ Drawn = seen /\ Drawn' = DOMAIN host
          /\ UNCHANGED <<layout, host, scrollback>>
      BY <2>7 DEF RenderEnds, renderVars, Drawn
    <3>2. seen \subseteq DOMAIN host
      BY <3>1 DEF RendererInv, SkeletonInv
    <3> QED
      BY <3>1, <3>2
  <2>8. CASE UNCHANGED rendererVars
    BY <2>8 DEF rendererVars, renderVars, Drawn
  <2> QED
    BY <2>1, <2>2, <2>3, <2>4, <2>5, <2>6, <2>7, <2>8 DEF RendererNext, Layout!PanesNext
<1> QED
  BY <1>1, <1>2, <1>3, <1>4, PTL
     DEF RendererSpec, RendererImplementsPanes, Layout!PanesSpec

-----------------------------------------------------------------------------
(* Types of what is under way.                                               *)

Call ==
  [command : {"notify_ingest_osc", "notify_clear", "notify_mark_read", "notify_pane_state"},
   pane : Printing]
Event == [pane : Printing, ring : BOOLEAN]
Answer == [pane : Printing, ring : BOOLEAN, overtaken : BOOLEAN]

NotifyTypeOK ==
  /\ latest \in [Printing -> {"none", "unread", "read"}]
  /\ calls \in Seq(Call)
  /\ events \in Seq(Event)
  /\ reply = NoReply \/ reply \in Answer
  /\ ringState \subseteq Printing

\* A command invoked is the last one under way.
LEMMA CallAdded ==
  ASSUME calls \in Seq(Call), NEW c \in Call, calls' = Append(calls, c)
  PROVE  /\ calls' \in Seq(Call)
         /\ Len(calls) \in Nat /\ Len(calls') = Len(calls) + 1
         /\ \A k \in 1..Len(calls) : calls'[k] = calls[k]
         /\ calls'[Len(calls) + 1] = c
  BY AppendProperties, LenProperties

\* Serving a command moves the others up by one.
LEMMA CallTaken ==
  ASSUME calls \in Seq(Call), calls # <<>>, calls' = Tail(calls)
  PROVE  /\ calls' \in Seq(Call)
         /\ Len(calls) \in Nat \ {0} /\ Len(calls') = Len(calls) - 1
         /\ Head(calls) = calls[1] /\ Head(calls) \in Call
         /\ \A k \in 1..(Len(calls) - 1) : calls'[k] = calls[k + 1]
<1>1. Len(calls) \in Nat \ {0}
  BY LenProperties, EmptySeq
<1> QED
  BY <1>1, HeadTailProperties, ElementOfSeq

\* An event emitted is the last one under way.
LEMMA EventAdded ==
  ASSUME events \in Seq(Event), NEW e \in Event, events' = Append(events, e)
  PROVE  /\ events' \in Seq(Event)
         /\ Len(events) \in Nat /\ Len(events') = Len(events) + 1
         /\ \A k \in 1..Len(events) : events'[k] = events[k]
         /\ events'[Len(events) + 1] = e
  BY AppendProperties, LenProperties

\* Delivering an event moves the others up by one.
LEMMA EventTaken ==
  ASSUME events \in Seq(Event), events # <<>>, events' = Tail(events)
  PROVE  /\ events' \in Seq(Event)
         /\ Len(events) \in Nat \ {0} /\ Len(events') = Len(events) - 1
         /\ Head(events) = events[1] /\ Head(events) \in Event
         /\ \A k \in 1..(Len(events) - 1) : events'[k] = events[k + 1]
<1>1. Len(events) \in Nat \ {0}
  BY LenProperties, EmptySeq
<1> QED
  BY <1>1, HeadTailProperties, ElementOfSeq

-----------------------------------------------------------------------------
(* The invariant.                                                            *)

\* A decoration is a ring on a host.
ShownInv == shown = ringState \cap hosts

\* Event i is the last one about its pane.
LastAbout(i) == \A j \in 1..Len(events) : i < j => events[j].pane # events[i].pane

NoEvent(p) == \A i \in 1..Len(events) : events[i].pane # p
NoClear(p) == \A i \in 1..Len(calls) : calls[i] # [command |-> "notify_clear", pane |-> p]

\* The last event about a pane tells what is true of it now.
EventInv == \A i \in 1..Len(events) : LastAbout(i) => events[i].ring = HasRing(events[i].pane)

\* So does a reply that no event has overtaken, if none is on its way.
ReplyInv ==
  reply # NoReply /\ ~reply.overtaken /\ NoEvent(reply.pane) => reply.ring = HasRing(reply.pane)

\* With no event about a pane on its way the view of it is right, unless an
\* overtaken reply set it: but for a ring that was taken off before the
\* notification, which a command on its way will clear.
ViewInv ==
  \A p \in Printing \ misled : NoEvent(p) =>
    /\ p \in ringState => HasRing(p)
    /\ NoClear(p) => (p \in ringState <=> HasRing(p))

RingInv == ShownInv /\ EventInv /\ ReplyInv /\ ViewInv

-----------------------------------------------------------------------------
(* The queue of events.                                                      *)

\* An event that is emitted is the last one about its pane, and what was the last
\* one about another stays so.
LEMMA EmittedIsLast ==
  ASSUME NotifyTypeOK, EventInv, NEW p \in Printing, NEW v \in {"none", "unread", "read"},
         latest' = [latest EXCEPT ![p] = v], EmitChanged(p)
  PROVE  /\ events' \in Seq(Event)
         /\ EventInv'
         /\ ~NoEvent(p)'
         /\ \A q \in Printing : NoEvent(q)' => NoEvent(q)
<1> DEFINE n == Len(events)
           e == [pane |-> p, ring |-> latest'[p] = "unread"]
<1>1. /\ events' \in Seq(Event)
      /\ n \in Nat /\ Len(events') = n + 1
      /\ \A k \in 1..n : events'[k] = events[k]
      /\ events'[n + 1] = e
  BY EventAdded DEF EmitChanged, NotifyTypeOK, Event
<1>2. \A q \in Printing : q # p => latest'[q] = latest[q]
  BY DEF NotifyTypeOK
<1>3. \A k \in 1..n : events[k] \in Event
  BY ElementOfSeq DEF NotifyTypeOK
<1> HIDE DEF n
<1>4. EventInv'
  <2> SUFFICES ASSUME NEW i \in 1..Len(events'), LastAbout(i)'
               PROVE  events'[i].ring = (latest'[events'[i].pane] = "unread")
    BY DEF EventInv, HasRing
  <2>1. CASE i = n + 1
    BY <1>1, <2>1 DEF HasRing
  <2>2. CASE i # n + 1
    <3>1. i \in 1..n /\ events'[i] = events[i]
      BY <1>1, <2>2
    <3>2. events[i].pane # p
      BY <1>1, <3>1 DEF LastAbout
    <3>3. LastAbout(i)
      BY <1>1, <3>1 DEF LastAbout, n
    <3>4. events[i].ring = HasRing(events[i].pane)
      BY <3>1, <3>3 DEF EventInv, n
    <3>5. events[i].pane \in Printing
      BY <1>3, <3>1 DEF Event
    <3> QED
      BY <1>2, <3>1, <3>2, <3>4, <3>5 DEF HasRing
  <2> QED
    BY <2>1, <2>2
<1>5. ~NoEvent(p)'
  BY <1>1 DEF NoEvent
<1>6. \A q \in Printing : NoEvent(q)' => NoEvent(q)
  BY <1>1 DEF NoEvent, n
<1> QED
  BY <1>1, <1>4, <1>5, <1>6

\* The event in front is gone: the others are the last ones they were, and one that
\* leaves no other about its pane told the truth.
LEMMA DeliveredWasTrue ==
  ASSUME NotifyTypeOK, EventInv, events # <<>>, events' = Tail(events), UNCHANGED latest,
         NEW e, e = Head(events)
  PROVE  /\ events' \in Seq(Event) /\ e \in Event
         /\ EventInv'
         /\ NoEvent(e.pane)' => e.ring = HasRing(e.pane)
         /\ \A q \in Printing : q # e.pane /\ NoEvent(q)' => NoEvent(q)
<1> DEFINE n == Len(events)
<1>1. /\ events' \in Seq(Event) /\ e \in Event /\ e = events[1]
      /\ n \in Nat \ {0} /\ Len(events') = n - 1
      /\ \A k \in 1..(n - 1) : events'[k] = events[k + 1]
  BY EventTaken DEF NotifyTypeOK
<1> HIDE DEF n
<1>2. EventInv'
  <2> SUFFICES ASSUME NEW i \in 1..Len(events'), LastAbout(i)'
               PROVE  events'[i].ring = (latest'[events'[i].pane] = "unread")
    BY DEF EventInv, HasRing
  <2>1. i + 1 \in 1..n /\ events'[i] = events[i + 1]
    BY <1>1
  <2>2. LastAbout(i + 1)
    <3> SUFFICES ASSUME NEW j \in 1..n, i + 1 < j
                 PROVE  events[j].pane # events[i + 1].pane
      BY DEF LastAbout, n
    <3>1. j - 1 \in 1..Len(events') /\ i < j - 1 /\ events'[j - 1] = events[j]
      BY <1>1
    <3> QED
      BY <2>1, <3>1 DEF LastAbout
  <2> QED
    BY <2>1, <2>2 DEF EventInv, HasRing, n
<1>3. ASSUME NEW q \in Printing, NoEvent(q)', NEW j \in 1..n, j > 1
      PROVE  events[j].pane # q
  <2>1. j - 1 \in 1..Len(events') /\ events'[j - 1] = events[j]
    BY <1>1, <1>3
  <2> QED
    BY <1>3, <2>1 DEF NoEvent
<1>4. NoEvent(e.pane)' => e.ring = HasRing(e.pane)
  <2> SUFFICES ASSUME NoEvent(e.pane)'
               PROVE  events[1].ring = HasRing(events[1].pane)
    BY <1>1
  <2>1. ASSUME NEW j \in 1..n, 1 < j PROVE events[j].pane # e.pane
    BY <1>1, <1>3, <2>1 DEF Event
  <2>2. LastAbout(1)
    BY <1>1, <2>1 DEF LastAbout, n
  <2> QED
    BY <1>1, <2>2 DEF EventInv, n
<1>5. \A q \in Printing : q # e.pane /\ NoEvent(q)' => NoEvent(q)
  <2> SUFFICES ASSUME NEW q \in Printing, q # e.pane, NoEvent(q)', NEW j \in 1..n
               PROVE  events[j].pane # q
    BY DEF NoEvent, n
  <2> QED
    BY <1>1, <1>3
<1> QED
  BY <1>1, <1>2, <1>4, <1>5

-----------------------------------------------------------------------------
(* The queue of commands, and the rings.                                     *)

\* A command that is invoked leaves the others in their places: a pane with no
\* notify_clear on its way now had none before.
LEMMA InvokedIsLast ==
  ASSUME NotifyTypeOK, NEW p \in Printing,
         NEW c \in {"notify_ingest_osc", "notify_clear", "notify_mark_read",
                    "notify_pane_state"},
         Invoke(c, p)
  PROVE  /\ calls' \in Seq(Call)
         /\ \A q \in Printing : NoClear(q)' => NoClear(q)
         /\ c = "notify_clear" => ~NoClear(p)'
<1> DEFINE n == Len(calls)
           call == [command |-> c, pane |-> p]
<1>1. /\ calls' \in Seq(Call) /\ n \in Nat /\ Len(calls') = n + 1
      /\ \A k \in 1..n : calls'[k] = calls[k]
      /\ calls'[n + 1] = call
  BY CallAdded DEF Invoke, NotifyTypeOK, Call
<1> HIDE DEF n
<1>2. \A q \in Printing : NoClear(q)' => NoClear(q)
  BY <1>1 DEF NoClear, n
<1>3. c = "notify_clear" => ~NoClear(p)'
  BY <1>1 DEF NoClear
<1> QED
  BY <1>1, <1>2, <1>3

\* A command is served: but for its own, a pane with no notify_clear on its way
\* now had none before.
LEMMA ServedWasFirst ==
  ASSUME NotifyTypeOK, NEW c, Serves(c)
  PROVE  /\ calls' \in Seq(Call)
         /\ Head(calls).pane \in Printing
         /\ \A q \in Printing :
              NoClear(q)' => NoClear(q) \/ (c = "notify_clear" /\ q = Head(calls).pane)
<1> DEFINE n == Len(calls)
<1>1. /\ calls' \in Seq(Call) /\ n \in Nat \ {0} /\ Len(calls') = n - 1
      /\ Head(calls) = calls[1] /\ Head(calls) \in Call
      /\ \A k \in 1..(n - 1) : calls'[k] = calls[k + 1]
  BY CallTaken DEF Serves, NotifyTypeOK
<1> HIDE DEF n
<1>2. ASSUME NEW q \in Printing, NoClear(q)', ~(c = "notify_clear" /\ q = Head(calls).pane)
      PROVE  NoClear(q)
  <2> SUFFICES ASSUME NEW k \in 1..n
               PROVE  calls[k] # [command |-> "notify_clear", pane |-> q]
    BY DEF NoClear, n
  <2>1. CASE k = 1
    BY <1>1, <1>2, <2>1 DEF Serves
  <2>2. CASE k # 1
    <3>1. k - 1 \in 1..Len(calls') /\ calls'[k - 1] = calls[k]
      BY <1>1, <2>2
    <3> QED
      BY <1>2, <3>1 DEF NoClear
  <2> QED
    BY <2>1, <2>2
<1> QED
  BY <1>1, <1>2 DEF Call

\* Setting the ring of a pane decorates its host, if there is one, and no other.
LEMMA RingIsSet ==
  ASSUME NotifyTypeOK, ShownInv, NEW p \in Printing, NEW ring \in BOOLEAN,
         SetPaneRing(p, ring), UNCHANGED hosts
  PROVE  /\ ShownInv'
         /\ ringState' \subseteq Printing
         /\ p \in ringState' <=> ring
         /\ \A q \in Printing : q # p => (q \in ringState' <=> q \in ringState)
<1>1. CASE ring
  BY <1>1 DEF SetPaneRing, Put, ShownInv, NotifyTypeOK
<1>2. CASE ~ring
  BY <1>2 DEF SetPaneRing, Put, ShownInv, NotifyTypeOK
<1> QED
  BY <1>1, <1>2

-----------------------------------------------------------------------------
(* The steps.                                                                *)

RInv == NotifyTypeOK /\ RingInv

\* A step that leaves the messages, the notifications and the views alone.
LEMMA RingFrame ==
  ASSUME RInv, UNCHANGED <<latest, calls, events, reply, ringState, misled>>,
         ShownInv'
  PROVE  RInv'
<1>1. NotifyTypeOK'
  BY DEF RInv, NotifyTypeOK
<1>2. \A p : NoEvent(p)' = NoEvent(p) /\ NoClear(p)' = NoClear(p)
  BY DEF NoEvent, NoClear
<1>3. EventInv' /\ ReplyInv'
  BY DEF RInv, RingInv, EventInv, ReplyInv, LastAbout, HasRing, NoEvent
<1>4. ViewInv'
  BY <1>2 DEF RInv, RingInv, ViewInv, HasRing
<1> QED
  BY <1>1, <1>3, <1>4 DEF RInv, RingInv

\* What happens to the panes disturbs no ring.
LEMMA RingPanes ==
  ASSUME RInv,
         \/ Arrange \/ RenderPanes
         \/ \E p \in Printing : Prints(p)
         \/ UNCHANGED vars
  PROVE  RInv'
<1>1. CASE RenderPanes
  BY <1>1, RingFrame DEF RenderPanes, Decorate, Render, ShownInv, notifyVars
<1>2. CASE Arrange \/ (\E p \in Printing : Prints(p)) \/ UNCHANGED vars
  <2>1. UNCHANGED <<hosts, notifyVars, view>>
    BY <1>2 DEF Arrange, TreeOperation, Split, Close, ResizeDivider, Equalize, Prints, Output,
       vars, panesVars
  <2> QED
    BY <2>1, RingFrame DEF RInv, RingInv, ShownInv, notifyVars, view
<1> QED
  BY <1>1, <1>2

\* What the frontend asks.
LEMMA RingAsks ==
  ASSUME RInv, NEW p \in Printing, OscHandler(p) \/ ClearOnFocus(p) \/ MarkRead(p) \/ SyncPane(p)
  PROVE  RInv'
<1> USE DEF RInv, RingInv
<1>1. PICK c \in {"notify_ingest_osc", "notify_clear", "notify_mark_read", "notify_pane_state"} :
        /\ Invoke(c, p)
        /\ \/ c = "notify_clear" /\ SetPaneRing(p, FALSE)
           \/ UNCHANGED view
  BY DEF OscHandler, ClearOnFocus, MarkRead, SyncPane
<1>2. UNCHANGED <<tree, hosts, latest, events, misled, reply>>
  BY DEF OscHandler, ClearOnFocus, MarkRead, SyncPane, Invoke, panesVars
<1>3. /\ calls' \in Seq(Call)
      /\ \A q \in Printing : NoClear(q)' => NoClear(q)
      /\ c = "notify_clear" => ~NoClear(p)'
  BY <1>1, InvokedIsLast
<1>4. /\ ShownInv' /\ ringState' \subseteq Printing
      /\ \A q \in Printing : q # p => (q \in ringState' <=> q \in ringState)
      /\ p \in ringState' => p \in ringState
      /\ p \in ringState => p \in ringState' \/ c = "notify_clear"
  <2>1. CASE c = "notify_clear" /\ SetPaneRing(p, FALSE)
    BY <1>2, <2>1, RingIsSet
  <2>2. CASE UNCHANGED view
    BY <1>2, <2>2 DEF view, ShownInv, NotifyTypeOK
  <2> QED
    BY <1>1, <2>1, <2>2
<1>5. NotifyTypeOK'
  BY <1>2, <1>3, <1>4 DEF NotifyTypeOK
<1>6. EventInv' /\ ReplyInv'
  BY <1>2 DEF EventInv, ReplyInv, LastAbout, HasRing, NoEvent
<1>7. ViewInv'
  <2> SUFFICES ASSUME NEW q \in Printing \ misled, NoEvent(q)
               PROVE  /\ q \in ringState' => HasRing(q)
                      /\ NoClear(q)' => (q \in ringState' <=> HasRing(q))
    BY <1>2 DEF ViewInv, NoEvent, HasRing
  <2>1. /\ q \in ringState => HasRing(q)
        /\ NoClear(q) => (q \in ringState <=> HasRing(q))
    BY DEF ViewInv
  <2> QED
    BY <1>3, <1>4, <2>1
<1> QED
  BY <1>4, <1>5, <1>6, <1>7

\* The backend changes what is true of a pane, and says so.
LEMMA RingChanges ==
  ASSUME RInv, NEW c, Serves(c), UNCHANGED reply,
         NEW v \in {"none", "unread", "read"},
         latest' = [latest EXCEPT ![Head(calls).pane] = v], EmitChanged(Head(calls).pane)
  PROVE  RInv'
<1> USE DEF RInv, RingInv
<1>1. PICK p \in Printing : p = Head(calls).pane
  BY ServedWasFirst
<1>2. /\ calls' \in Seq(Call)
      /\ \A q \in Printing : q # p => (NoClear(q)' => NoClear(q))
  BY <1>1, ServedWasFirst
<1>3. /\ events' \in Seq(Event) /\ EventInv' /\ ~NoEvent(p)'
      /\ \A q \in Printing : NoEvent(q)' => NoEvent(q)
  <2>1. latest' = [latest EXCEPT ![p] = v] /\ EmitChanged(p)
    BY <1>1
  <2> QED
    BY <2>1, EmittedIsLast
<1>4. UNCHANGED <<hosts, ringState, shown, misled>>
  BY DEF Serves, panesVars, view
<1>5. latest' \in [Printing -> {"none", "unread", "read"}]
      /\ \A q \in Printing : q # p => latest'[q] = latest[q]
  BY <1>1 DEF NotifyTypeOK
<1>6. NotifyTypeOK'
  BY <1>2, <1>3, <1>4, <1>5 DEF NotifyTypeOK
<1>7. ReplyInv'
  <2> SUFFICES ASSUME reply # NoReply, ~reply.overtaken, NoEvent(reply.pane)'
               PROVE  reply.ring = (latest'[reply.pane] = "unread")
    BY DEF ReplyInv, HasRing
  <2>1. reply.pane \in Printing
    BY DEF NotifyTypeOK, Answer
  <2>2. NoEvent(reply.pane) /\ reply.pane # p
    BY <1>3, <2>1
  <2> QED
    BY <1>5, <2>1, <2>2 DEF ReplyInv, HasRing
<1>8. ViewInv'
  <2> SUFFICES ASSUME NEW q \in Printing \ misled, NoEvent(q)'
               PROVE  /\ q \in ringState => latest'[q] = "unread"
                      /\ NoClear(q)' => (q \in ringState <=> latest'[q] = "unread")
    BY <1>4 DEF ViewInv, HasRing
  <2>1. NoEvent(q) /\ q # p
    BY <1>3
  <2> QED
    BY <1>2, <1>5, <2>1 DEF ViewInv, HasRing
<1> QED
  BY <1>3, <1>4, <1>6, <1>7, <1>8 DEF ShownInv

\* The backend changes nothing: if it was asked to clear there was nothing to clear.
LEMMA RingKept ==
  ASSUME RInv, NEW c, Serves(c), UNCHANGED <<latest, events>>,
         c = "notify_clear" => latest[Head(calls).pane] = "none",
         \/ UNCHANGED reply
         \/ reply' = [pane |-> Head(calls).pane, ring |-> HasRing(Head(calls).pane),
                      overtaken |-> FALSE]
  PROVE  RInv'
<1> USE DEF RInv, RingInv
<1> DEFINE p == Head(calls).pane
<1>1. /\ calls' \in Seq(Call) /\ p \in Printing
      /\ \A q \in Printing : NoClear(q)' => NoClear(q) \/ (c = "notify_clear" /\ q = p)
  BY ServedWasFirst
<1>2. UNCHANGED <<hosts, ringState, shown, misled>>
  BY DEF Serves, panesVars, view
<1>3. \A q : NoEvent(q)' = NoEvent(q) /\ HasRing(q)' = HasRing(q)
  BY DEF NoEvent, HasRing
<1>4. NotifyTypeOK'
  <2>1. HasRing(p) \in BOOLEAN
    BY DEF HasRing
  <2>2. \A b \in BOOLEAN : [pane |-> p, ring |-> b, overtaken |-> FALSE] \in Answer
    BY <1>1 DEF Answer
  <2>3. [pane |-> p, ring |-> HasRing(p), overtaken |-> FALSE] \in Answer
    BY <2>1, <2>2, Zenon
  <2>4. reply' = NoReply \/ reply' \in Answer
    BY <2>3, Zenon DEF NotifyTypeOK
  <2> QED
    BY <1>1, <1>2, <2>4 DEF NotifyTypeOK
<1>5. EventInv'
  BY DEF EventInv, LastAbout, HasRing
<1>6. ReplyInv'
  <2>1. CASE UNCHANGED reply
    BY <2>1 DEF ReplyInv, NoEvent, HasRing
  <2>2. CASE reply' = [pane |-> p, ring |-> HasRing(p), overtaken |-> FALSE]
    BY <2>2 DEF ReplyInv, HasRing
  <2> QED
    BY <2>1, <2>2
<1>7. ViewInv'
  <2> SUFFICES ASSUME NEW q \in Printing \ misled, NoEvent(q)
               PROVE  /\ q \in ringState => HasRing(q)
                      /\ NoClear(q)' => (q \in ringState <=> HasRing(q))
    BY <1>2, <1>3 DEF ViewInv
  <2>1. /\ q \in ringState => HasRing(q)
        /\ NoClear(q) => (q \in ringState <=> HasRing(q))
    BY DEF ViewInv
  <2>2. CASE c = "notify_clear" /\ q = p
    BY <2>1, <2>2 DEF HasRing
  <2>3. CASE ~(c = "notify_clear" /\ q = p)
    BY <1>1, <2>1, <2>3
  <2> QED
    BY <2>2, <2>3
<1> QED
  BY <1>2, <1>4, <1>5, <1>6, <1>7 DEF ShownInv

\* The backend runs a command.
LEMMA RingServes ==
  ASSUME RInv, IngestOsc \/ NotifyMarkRead \/ NotifyClear \/ NotifyPaneState
  PROVE  RInv'
<1>1. CASE IngestOsc
  <2>1. /\ Serves("notify_ingest_osc") /\ UNCHANGED reply
        /\ \/ /\ latest' = [latest EXCEPT ![Head(calls).pane] = "unread"]
              /\ EmitChanged(Head(calls).pane)
           \/ UNCHANGED <<latest, events>>
    BY <1>1 DEF IngestOsc
  <2>2. CASE latest' = [latest EXCEPT ![Head(calls).pane] = "unread"] /\ EmitChanged(Head(calls).pane)
    BY <2>1, <2>2, RingChanges
  <2>3. CASE UNCHANGED <<latest, events>>
    BY <2>1, <2>3, RingKept
  <2> QED
    BY <2>1, <2>2, <2>3
<1>2. CASE NotifyMarkRead
  <2>1. /\ Serves("notify_mark_read") /\ UNCHANGED reply
        /\ \/ /\ latest' = [latest EXCEPT ![Head(calls).pane] = "read"]
              /\ EmitChanged(Head(calls).pane)
           \/ UNCHANGED <<latest, events>>
    BY <1>2 DEF NotifyMarkRead
  <2>2. CASE latest' = [latest EXCEPT ![Head(calls).pane] = "read"] /\ EmitChanged(Head(calls).pane)
    BY <2>1, <2>2, RingChanges
  <2>3. CASE UNCHANGED <<latest, events>>
    BY <2>1, <2>3, RingKept
  <2> QED
    BY <2>1, <2>2, <2>3
<1>3. CASE NotifyClear
  <2>1. /\ Serves("notify_clear") /\ UNCHANGED reply
        /\ \/ /\ latest' = [latest EXCEPT ![Head(calls).pane] = "none"]
              /\ EmitChanged(Head(calls).pane)
           \/ latest[Head(calls).pane] = "none" /\ UNCHANGED <<latest, events>>
    BY <1>3 DEF NotifyClear
  <2>2. CASE latest' = [latest EXCEPT ![Head(calls).pane] = "none"] /\ EmitChanged(Head(calls).pane)
    BY <2>1, <2>2, RingChanges
  <2>3. CASE latest[Head(calls).pane] = "none" /\ UNCHANGED <<latest, events>>
    BY <2>1, <2>3, RingKept
  <2> QED
    BY <2>1, <2>2, <2>3
<1>4. CASE NotifyPaneState
  BY <1>4, RingKept DEF NotifyPaneState
<1> QED
  BY <1>1, <1>2, <1>3, <1>4
\* An event arrives: it is believed, and a reply about its pane is now late.
LEMMA RingApplyEvent ==
  ASSUME RInv, ApplyEvent
  PROVE  RInv'
<1> USE DEF RInv, RingInv
<1>1. PICK event \in Event : event = Head(events)
  BY EventTaken DEF ApplyEvent, NotifyTypeOK
<1> DEFINE p == event.pane
<1>2. /\ events # <<>> /\ events' = Tail(events)
      /\ SetPaneRing(p, event.ring)
      /\ reply' = IF reply # NoReply /\ reply.pane = p
                  THEN [reply EXCEPT !.overtaken = TRUE] ELSE reply
      /\ misled' = misled \ {p}
      /\ UNCHANGED <<tree, hosts, latest, calls>>
  BY <1>1 DEF ApplyEvent, panesVars
<1>3. p \in Printing /\ event.ring \in BOOLEAN
  BY DEF Event
<1>4. /\ events' \in Seq(Event) /\ EventInv'
      /\ NoEvent(p)' => event.ring = HasRing(p)
      /\ \A q \in Printing : q # p /\ NoEvent(q)' => NoEvent(q)
  <2>1. events' \in Seq(Event) /\ EventInv'
    BY <1>2, DeliveredWasTrue
  <2>2. NoEvent(p)' => event.ring = HasRing(p)
    BY <1>1, <1>2, DeliveredWasTrue
  <2>3. \A q \in Printing : q # p /\ NoEvent(q)' => NoEvent(q)
    BY <1>1, <1>2, DeliveredWasTrue
  <2> QED
    BY <2>1, <2>2, <2>3
<1>5. /\ ShownInv' /\ ringState' \subseteq Printing
      /\ p \in ringState' <=> event.ring
      /\ \A q \in Printing : q # p => (q \in ringState' <=> q \in ringState)
  BY <1>2, <1>3, RingIsSet
<1> HIDE DEF p
<1>6. NotifyTypeOK'
  BY <1>2, <1>4, <1>5 DEF NotifyTypeOK, Answer
<1>7. ReplyInv'
  <2> SUFFICES ASSUME reply' # NoReply, ~reply'.overtaken, NoEvent(reply.pane)'
               PROVE  reply'.ring = (latest[reply'.pane] = "unread")
    BY <1>2 DEF ReplyInv, HasRing
  <2>1. CASE reply # NoReply /\ reply.pane = p
    BY <1>2, <2>1 DEF NotifyTypeOK, Answer
  <2>2. CASE ~(reply # NoReply /\ reply.pane = p)
    BY <1>2, <1>4, <2>2 DEF ReplyInv, HasRing, NotifyTypeOK, Answer
  <2> QED
    BY <2>1, <2>2
<1>8. ViewInv'
  <2> SUFFICES ASSUME NEW q \in Printing \ misled', NoEvent(q)'
               PROVE  /\ q \in ringState' => HasRing(q)
                      /\ NoClear(q) => (q \in ringState' <=> HasRing(q))
    BY <1>2 DEF ViewInv, NoClear, HasRing
  <2>1. CASE q = p
    BY <1>4, <1>5, <2>1
  <2>2. CASE q # p
    BY <1>2, <1>4, <1>5, <2>2 DEF ViewInv
  <2> QED
    BY <2>1, <2>2
<1> QED
  BY <1>4, <1>5, <1>6, <1>7, <1>8

\* The answer arrives: it is believed, and told from one that an event overtook.
LEMMA RingApplyReply ==
  ASSUME RInv, ApplyReply
  PROVE  RInv'
<1> USE DEF RInv, RingInv
<1>1. PICK r \in Answer : r = reply
  BY DEF ApplyReply, NotifyTypeOK
<1> DEFINE p == r.pane
<1>2. /\ SetPaneRing(p, r.ring)
      /\ misled' = Put(misled, p, r.overtaken)
      /\ reply # NoReply /\ reply' = NoReply
      /\ UNCHANGED <<tree, hosts, latest, calls, events>>
  BY <1>1 DEF ApplyReply, panesVars
<1>3. p \in Printing /\ r.ring \in BOOLEAN
  BY DEF Answer
<1>4. /\ ShownInv' /\ ringState' \subseteq Printing
      /\ p \in ringState' <=> r.ring
      /\ \A q \in Printing : q # p => (q \in ringState' <=> q \in ringState)
  BY <1>2, <1>3, RingIsSet
<1>5. NoEvent(p) /\ ~r.overtaken => r.ring = HasRing(p)
  BY <1>1, <1>2 DEF ReplyInv
<1> HIDE DEF p
<1>6. NotifyTypeOK'
  BY <1>2, <1>4 DEF NotifyTypeOK
<1>7. EventInv' /\ ReplyInv'
  BY <1>2 DEF EventInv, ReplyInv, LastAbout, HasRing
<1>8. ViewInv'
  <2> SUFFICES ASSUME NEW q \in Printing \ misled', NoEvent(q)
               PROVE  /\ q \in ringState' => HasRing(q)
                      /\ NoClear(q) => (q \in ringState' <=> HasRing(q))
    BY <1>2 DEF ViewInv, NoClear, NoEvent, HasRing
  <2>1. CASE q = p
    <3>1. ~r.overtaken
      BY <1>2, <2>1 DEF Put
    <3> QED
      BY <1>4, <1>5, <2>1, <3>1
  <2>2. CASE q # p
    <3>1. q \notin misled
      BY <1>2, <2>2 DEF Put
    <3> QED
      BY <1>4, <2>2, <3>1 DEF ViewInv
  <2> QED
    BY <2>1, <2>2
<1> QED
  BY <1>4, <1>6, <1>7, <1>8

\* The invariant holds when nothing has happened.
LEMMA RingStart == Init => RInv
BY EmptySeq DEF Init, RInv, RingInv, NotifyTypeOK, ShownInv, EventInv, ReplyInv, ViewInv,
   PanesInit, HasRing

\* Every step keeps it.
LEMMA RingStep == RInv /\ [Next]_vars => RInv'
BY RingPanes, RingAsks, RingServes, RingApplyEvent, RingApplyReply DEF Next

-----------------------------------------------------------------------------
\* Whatever the order in which commands, events and replies pass each other, and
\* however the hosts come and go, a pane about which nothing is under way has its
\* ring exactly while its notification is unread, unless an overtaken reply set it
\* (manager.rs, commands.rs; notification-client.ts, pane-ring-binding.ts).
THEOREM RingsAlwaysSettle == Spec => []RingSettles
<1>1. Init => RInv
  BY RingStart
<1>2. RInv /\ [Next]_vars => RInv'
  BY RingStep
<1>3. RInv => RingSettles
  <2> SUFFICES ASSUME RInv, NEW p \in Printing \ misled, Quiet(p)
               PROVE  /\ p \in ringState <=> HasRing(p)
                      /\ p \in hosts => (p \in shown <=> HasRing(p))
    BY DEF RingSettles
  <2>1. NoEvent(p) /\ NoClear(p)
    BY DEF Quiet, NoEvent, NoClear, RInv, NotifyTypeOK
  <2>2. p \in ringState <=> HasRing(p)
    BY <2>1 DEF RInv, RingInv, ViewInv
  <2> QED
    BY <2>2 DEF RInv, RingInv, ShownInv
<1> QED
  BY <1>1, <1>2, <1>3, PTL DEF Spec

\* The split tree stays a binary tree of different panes with legal dividers, only
\* panes have hosts, and only hosts have output or a decoration, whatever is split,
\* closed, moved, rendered and rung in between (split-tree.ts, pane-renderer.ts).
THEOREM LayoutAlwaysTyped == Spec => []TypeOK
<1> DEFINE Inv == RInv /\ LayoutInv /\ misled \subseteq Printing
<1>1. Init => Inv
  BY RingStart, OnePaneIsTree DEF Init, PanesInit, LayoutInv
<1>2. Inv /\ [Next]_vars => Inv'
  <2> SUFFICES ASSUME Inv, [Next]_vars
               PROVE  misled' \subseteq Printing
    BY RingStep, LayoutStep
  <2>1. CASE ApplyEvent
    BY <2>1 DEF ApplyEvent
  <2>2. CASE ApplyReply
    <3>1. reply.pane \in Printing
      BY <2>2 DEF ApplyReply, RInv, NotifyTypeOK, Answer
    <3> QED
      BY <2>2, <3>1 DEF ApplyReply, Put
  <2>3. CASE ~ApplyEvent /\ ~ApplyReply
    <3>1. UNCHANGED misled
      BY <2>3 DEF Next, vars, notifyVars, Arrange, RenderPanes, Prints, OscHandler, ClearOnFocus,
         MarkRead, SyncPane, Invoke, IngestOsc, NotifyMarkRead, NotifyClear, NotifyPaneState,
         Serves
    <3> QED
      BY <3>1
  <2> QED
    BY <2>1, <2>2, <2>3
<1>3. Inv => TypeOK
  BY TreeIsOK DEF LayoutInv, RInv, RingInv, NotifyTypeOK, ShownInv, TypeOK
<1> HIDE DEF Inv
<1> QED
  BY <1>1, <1>2, <1>3, PTL DEF Spec
-----------------------------------------------------------------------------
(* Rectangles: that the recursive definitions have solutions, and what a       *)
(* rectangle and that of its child have to do with each other.                *)

\* f holds the powers up to the n-th.
Powers(f, n) ==
  f = [i \in 0..n |-> IF i = 0 THEN 1 ELSE 10 * f[i - 1]]

LEMMA PowersExist ==
  \A n \in Nat : \E f : Powers(f, n)
<1> DEFINE T == {n \in Nat : ~\E f : Powers(f, n)}
<1> SUFFICES ASSUME T # {} PROVE FALSE
  OBVIOUS
<1>1. PICK n \in T : \A m \in T : n <= m
  <2>1. T \in SUBSET Nat
    OBVIOUS
  <2> QED
    BY <2>1, LeastNat
<1>2. CASE n = 0
  <2>1. Powers([i \in 0..0 |-> 1], 0)
    BY DEF Powers
  <2> QED
    BY <1>1, <1>2, <2>1
<1>3. CASE n # 0
  <2>1. n - 1 \in Nat /\ n - 1 \notin T /\ n \in Nat
    BY <1>1, <1>3
  <2>2. PICK f : Powers(f, n - 1)
    BY <2>1
  <2> DEFINE g == [i \in 0..n |-> IF i = n THEN 10 * f[n - 1] ELSE f[i]]
  <2>3. ASSUME NEW i \in 0..n
        PROVE  g[i] = IF i = 0 THEN 1 ELSE 10 * g[i - 1]
    <3>1. CASE i = n
      BY <1>3, <2>1, <3>1
    <3>2. CASE i # n /\ i # 0
      <4>1. i \in 0..(n - 1) /\ i - 1 \in 0..n /\ i - 1 # n
        BY <2>1, <3>2
      <4>2. g[i] = f[i] /\ g[i - 1] = f[i - 1]
        BY <3>2, <4>1
      <4>3. f[i] = 10 * f[i - 1]
        BY <2>2, <3>2, <4>1 DEF Powers
      <4> QED
        BY <3>2, <4>2, <4>3
    <3>3. CASE i = 0
      <4>1. f[0] = 1 /\ 0 \in 0..n
        BY <2>1, <2>2 DEF Powers
      <4> QED
        BY <1>3, <3>3, <4>1
    <3> QED
      BY <3>1, <3>2, <3>3
  <2>4. Powers(g, n)
    <3>1. g = [i \in 0..n |-> g[i]]
      OBVIOUS
    <3> HIDE DEF g
    <3> QED
      BY <2>3, <3>1 DEF Powers
  <2> QED
    BY <1>1, <2>4
<1> QED
  BY <1>2, <1>3

LEMMA PowersAgree ==
  ASSUME NEW m \in Nat, NEW n \in Nat, NEW f, NEW g, Powers(f, m), Powers(g, n),
         NEW k \in 0..m, k \in 0..n
  PROVE  f[k] = g[k]
<1> DEFINE T == {i \in 0..k : f[i] # g[i]}
<1> SUFFICES ASSUME T # {} PROVE FALSE
  OBVIOUS
<1>1. PICK i \in T : \A j \in T : i <= j
  <2>1. T \in SUBSET Nat
    OBVIOUS
  <2> QED
    BY <2>1, LeastNat
<1>2. CASE i = 0
  BY <1>1, <1>2 DEF Powers
<1>3. CASE i # 0
  <2>1. i \in 0..m /\ i \in 0..n /\ i - 1 \in 0..k /\ i - 1 \notin T
    BY <1>1, <1>3
  <2>2. f[i - 1] = g[i - 1]
    BY <2>1
  <2>3. f[i] = 10 * f[i - 1] /\ g[i] = 10 * g[i - 1]
    BY <1>3, <2>1 DEF Powers
  <2> QED
    BY <2>2, <2>3
<1> QED
  BY <1>2, <1>3

\* So Power solves its definition.
LEMMA PowerDef ==
  Power = [n \in Nat |-> IF n = 0 THEN 1 ELSE 10 * Power[n - 1]]
<1> DEFINE At(n) == CHOOSE f : Powers(f, n)
           D == [n \in Nat |-> At(n)[n]]
<1>1. \A n \in Nat : Powers(At(n), n)
  BY PowersExist
<1> HIDE DEF At
<1>2. ASSUME NEW n \in Nat
      PROVE  D[n] = IF n = 0 THEN 1 ELSE 10 * D[n - 1]
  <2>1. CASE n = 0
    BY <1>1, <2>1 DEF Powers
  <2>2. CASE n # 0
    <3>1. n - 1 \in Nat /\ n - 1 \in 0..n /\ n - 1 \in 0..(n - 1) /\ n \in 0..n
      BY <2>2
    <3>2. At(n)[n] = 10 * At(n)[n - 1]
      BY <1>1, <2>2, <3>1 DEF Powers
    <3>3. At(n)[n - 1] = At(n - 1)[n - 1]
      BY <1>1, <3>1, PowersAgree
    <3> QED
      BY <2>2, <3>1, <3>2, <3>3
  <2> QED
    BY <2>1, <2>2
<1> HIDE DEF D
<1>3. D = [n \in Nat |-> IF n = 0 THEN 1 ELSE 10 * D[n - 1]]
  BY <1>2 DEF D
<1> QED
  BY <1>3 DEF Power

\* Powers of ten are positive.
LEMMA PowerType ==
  ASSUME NEW n \in Nat
  PROVE  Power[n] \in Nat \ {0} /\ Power[n + 1] = 10 * Power[n]
<1> DEFINE T == {i \in Nat : Power[i] \notin Nat \ {0}}
<1>1. ASSUME T # {} PROVE FALSE
  <2>1. PICK i \in T : \A j \in T : i <= j
    <3>1. T \in SUBSET Nat
      OBVIOUS
    <3> QED
      BY <1>1, <3>1, LeastNat
  <2>2. i # 0
    BY <2>1, PowerDef
  <2>3. i - 1 \in Nat /\ i - 1 \notin T
    BY <2>1, <2>2
  <2>4. Power[i] = 10 * Power[i - 1]
    BY <2>1, <2>2, PowerDef
  <2> QED
    BY <2>1, <2>3, <2>4
<1>2. Power[n + 1] = 10 * Power[n + 1 - 1]
  BY PowerDef
<1> QED
  BY <1>1, <1>2

-----------------------------------------------------------------------------
\* f holds the rectangles on the way down a path, as far as its n-th branch.
Descent(t, path, f, n) ==
  f = [i \in 0..n |-> IF i = 0 THEN Whole
                      ELSE Cut(f[i - 1], t[SubSeq(path, 1, i - 1)], path[i])]

LEMMA DescentExists ==
  ASSUME NEW t, NEW path
  PROVE  \A n \in Nat : \E f : Descent(t, path, f, n)
<1> DEFINE T == {n \in Nat : ~\E f : Descent(t, path, f, n)}
<1> SUFFICES ASSUME T # {} PROVE FALSE
  OBVIOUS
<1>1. PICK n \in T : \A m \in T : n <= m
  <2>1. T \in SUBSET Nat
    OBVIOUS
  <2> QED
    BY <2>1, LeastNat
<1>2. CASE n = 0
  <2>1. Descent(t, path, [i \in 0..0 |-> Whole], 0)
    BY DEF Descent
  <2> QED
    BY <1>1, <1>2, <2>1
<1>3. CASE n # 0
  <2>1. n - 1 \in Nat /\ n - 1 \notin T /\ n \in Nat
    BY <1>1, <1>3
  <2>2. PICK f : Descent(t, path, f, n - 1)
    BY <2>1
  <2> DEFINE c(h, i) == Cut(h[i - 1], t[SubSeq(path, 1, i - 1)], path[i])
             g == [i \in 0..n |-> IF i = n THEN c(f, n) ELSE f[i]]
  <2>3. ASSUME NEW i \in 0..n
        PROVE  g[i] = IF i = 0 THEN Whole ELSE c(g, i)
    <3>1. i # 0 => i - 1 \in 0..n /\ i - 1 # n /\ g[i - 1] = f[i - 1]
      BY <2>1
    <3> HIDE DEF c
    <3>2. CASE i = n
      <4>1. g[i] = c(f, n)
        BY <3>2
      <4>2. c(f, n) = c(g, n)
        BY <1>3, <3>1, <3>2 DEF c
      <4> QED
        BY <1>3, <3>2, <4>1, <4>2
    <3>3. CASE i # n /\ i # 0
      <4>1. i \in 0..(n - 1)
        BY <2>1, <3>3
      <4>2. g[i] = f[i]
        BY <3>3
      <4>3. f[i] = c(f, i)
        BY <2>2, <3>3, <4>1 DEF Descent, c
      <4>4. c(f, i) = c(g, i)
        BY <3>1, <3>3 DEF c
      <4> QED
        BY <3>3, <4>2, <4>3, <4>4
    <3>4. CASE i = 0
      <4>1. f[0] = Whole
        BY <2>1, <2>2 DEF Descent
      <4> QED
        BY <1>3, <3>4, <4>1
    <3> QED
      BY <3>2, <3>3, <3>4
  <2>4. Descent(t, path, g, n)
    <3>1. g = [i \in 0..n |-> g[i]]
      OBVIOUS
    <3> HIDE DEF g
    <3> QED
      BY <2>3, <3>1 DEF Descent
  <2> QED
    BY <1>1, <2>4
<1> QED
  BY <1>2, <1>3

\* Two descents agree as far as their paths do.
LEMMA DescentsAgree ==
  ASSUME NEW t, NEW p, NEW q, NEW m \in Nat, NEW n \in Nat, NEW f, NEW g,
         Descent(t, p, f, m), Descent(t, q, g, n), NEW k \in 0..m, k \in 0..n,
         \A i \in 1..k : p[i] = q[i] /\ SubSeq(p, 1, i - 1) = SubSeq(q, 1, i - 1)
  PROVE  f[k] = g[k]
<1> DEFINE T == {i \in 0..k : f[i] # g[i]}
<1> SUFFICES ASSUME T # {} PROVE FALSE
  OBVIOUS
<1>1. PICK i \in T : \A j \in T : i <= j
  <2>1. T \in SUBSET Nat
    OBVIOUS
  <2> QED
    BY <2>1, LeastNat
<1>2. CASE i = 0
  BY <1>1, <1>2 DEF Descent
<1>3. CASE i # 0
  <2>1. i \in 0..m /\ i \in 0..n /\ i - 1 \in 0..k /\ i - 1 \notin T /\ i \in 1..k
    BY <1>1, <1>3
  <2>2. f[i - 1] = g[i - 1]
    BY <2>1
  <2>3. /\ f[i] = Cut(f[i - 1], t[SubSeq(p, 1, i - 1)], p[i])
        /\ g[i] = Cut(g[i - 1], t[SubSeq(q, 1, i - 1)], q[i])
    BY <1>3, <2>1 DEF Descent
  <2> QED
    BY <2>1, <2>2, <2>3
<1> QED
  BY <1>2, <1>3

\* So a rectangle is the last of a descent.
LEMMA RectIsDescent ==
  ASSUME NEW t, NEW path \in Paths
  PROVE  \E f : Descent(t, path, f, Len(path)) /\ Rect(t, path) = f[Len(path)]
<1> DEFINE f == CHOOSE rect : Descent(t, path, rect, Len(path))
<1>1. Len(path) \in Nat
  BY LenProperties DEF Paths
<1>2. Descent(t, path, f, Len(path))
  BY <1>1, DescentExists
<1>3. Rect(t, path) = f[Len(path)]
  BY DEF Rect, Descent
<1> QED
  BY <1>2, <1>3

\* The beginning of a path one step longer.
LEMMA StepBegins ==
  ASSUME NEW p \in Paths, NEW b \in Branches, NEW i \in 1..Len(p)
  PROVE  /\ Append(p, b)[i] = p[i]
         /\ SubSeq(Append(p, b), 1, i - 1) = SubSeq(p, 1, i - 1)
<1> DEFINE q == Append(p, b)
<1>1. /\ Len(p) \in Nat /\ q \in Seq(Branches) /\ Len(q) = Len(p) + 1
      /\ \A j \in 1..Len(p) : q[j] = p[j]
      /\ \A j \in 1..Len(p) : p[j] \in Branches
  BY AppendProperties, LenProperties, ElementOfSeq DEF Paths
<1> HIDE DEF q
<1>2. i - 1 \in Int /\ 1 \in Int /\ i - 1 \in Nat
      /\ \A m \in 1..(i - 1) : p[m] \in Branches /\ q[m] = p[m]
  BY <1>1
<1>3. /\ SubSeq(p, 1, i - 1) \in Seq(Branches)
      /\ Len(SubSeq(p, 1, i - 1)) = IF 1 <= i - 1 THEN i - 1 - 1 + 1 ELSE 0
      /\ \A m \in 1 .. i - 1 - 1 + 1 : SubSeq(p, 1, i - 1)[m] = p[1 + m - 1]
  BY <1>2, SubSeqProperties
<1>4. /\ SubSeq(q, 1, i - 1) \in Seq(Branches)
      /\ Len(SubSeq(q, 1, i - 1)) = IF 1 <= i - 1 THEN i - 1 - 1 + 1 ELSE 0
      /\ \A m \in 1 .. i - 1 - 1 + 1 : SubSeq(q, 1, i - 1)[m] = q[1 + m - 1]
  BY <1>2, SubSeqProperties
<1> DEFINE x == SubSeq(p, 1, i - 1)
           y == SubSeq(q, 1, i - 1)
<1>5. /\ x \in Seq(Branches) /\ y \in Seq(Branches) /\ Len(x) = i - 1 /\ Len(y) = i - 1
      /\ \A m \in 1..(i - 1) : x[m] = p[m] /\ y[m] = q[m]
  BY <1>2, <1>3, <1>4
<1> HIDE DEF x, y
<1>6. \A m \in 1..Len(y) : y[m] = x[m]
  BY <1>2, <1>5
<1>7. y = x
  BY <1>5, <1>6, SeqEqual
<1> QED
  BY <1>1, <1>7 DEF x, y, q

\* The workspace belongs to the root, and a child has what is cut for it.
LEMMA RectSteps ==
  ASSUME NEW t
  PROVE  /\ Rect(t, <<>>) = Whole
         /\ \A p \in Paths, b \in Branches : Rect(t, Append(p, b)) = Cut(Rect(t, p), t[p], b)
<1>1. Rect(t, <<>>) = Whole
  <2>1. PICK f : Descent(t, <<>>, f, Len(<<>>)) /\ Rect(t, <<>>) = f[Len(<<>>)]
    BY EmptyPath, RectIsDescent
  <2>2. Len(<<>>) = 0
    BY EmptySeq
  <2> QED
    BY <2>1, <2>2 DEF Descent
<1>2. ASSUME NEW p \in Paths, NEW b \in Branches
      PROVE  Rect(t, Append(p, b)) = Cut(Rect(t, p), t[p], b)
  <2> DEFINE q == Append(p, b)
             n == Len(p)
  <2>1. /\ n \in Nat /\ q \in Paths /\ Len(q) = n + 1 /\ q[n + 1] = b
    BY AppendProperties, LenProperties DEF Paths
  <2>2. PICK f : Descent(t, p, f, n) /\ Rect(t, p) = f[n]
    BY RectIsDescent
  <2>3. PICK g : Descent(t, q, g, n + 1) /\ Rect(t, q) = g[n + 1]
    BY <2>1, RectIsDescent
  <2>4. \A i \in 1..n : p[i] = q[i] /\ SubSeq(p, 1, i - 1) = SubSeq(q, 1, i - 1)
    BY StepBegins
  <2>5. SubSeq(q, 1, n) = p
    <3>1. Front(q) = p
      BY PathAppend
    <3>2. Len(q) - 1 = n
      BY <2>1
    <3> QED
      BY <3>1, <3>2 DEF Front
  <2> HIDE DEF q, n
  <2>6. f[n] = g[n]
    <3>1. n + 1 \in Nat /\ n \in 0..n /\ n \in 0..(n + 1)
      BY <2>1
    <3> QED
      BY <2>1, <2>2, <2>3, <2>4, <3>1, DescentsAgree
  <2>7. g[n + 1] = Cut(g[n], t[SubSeq(q, 1, n)], q[n + 1])
    <3>1. PICK j \in Nat : j = n + 1
      BY <2>1
    <3>2. j \in 0..(n + 1) /\ j # 0 /\ j - 1 = n
      BY <2>1, <3>1
    <3>3. g[j] = Cut(g[j - 1], t[SubSeq(q, 1, j - 1)], q[j])
      BY <2>3, <3>2 DEF Descent
    <3>4. g[j] = Cut(g[n], t[SubSeq(q, 1, n)], q[j])
      BY <3>2, <3>3
    <3> QED
      BY <3>1, <3>4
  <2> QED
    BY <2>1, <2>2, <2>3, <2>5, <2>6, <2>7 DEF q
<1> QED
  BY <1>1, <1>2
-----------------------------------------------------------------------------
(* How deep a tree is.                                                       *)

\* A tree has so many panes at most, and its paths do not grow without end.
Small(t) ==
  /\ IsFiniteSet(Leaves(t)) /\ Cardinality(Leaves(t)) <= MaxPanes
  /\ \E n \in Nat : \A p \in DOMAIN t : Len(p) <= n

\* Of the paths in a part of a tree one is the longest.
LEMMA LongestPath ==
  ASSUME NEW t, Tree(t), Small(t), NEW S \in SUBSET DOMAIN t, S # {}
  PROVE  \E q \in S : \A p \in S : Len(p) <= Len(q)
<1>1. PICK n \in Nat : \A p \in DOMAIN t : Len(p) <= n
  BY DEF Small
<1>2. \A p \in S : Len(p) \in Nat /\ n - Len(p) \in Nat
  <2> SUFFICES ASSUME NEW p \in S PROVE Len(p) \in Nat /\ n - Len(p) \in Nat
    OBVIOUS
  <2>1. Len(p) \in Nat /\ Len(p) <= n
    BY <1>1, LenProperties DEF Tree, Paths
  <2> QED
    BY <2>1
<1> DEFINE T == {n - Len(p) : p \in S}
<1>3. PICK m \in T : \A y \in T : m <= y
  <2>1. T \in SUBSET Nat /\ T # {}
    BY <1>2
  <2> HIDE DEF T
  <2> QED
    BY <2>1, LeastNat
<1>4. PICK q \in S : m = n - Len(q)
  BY <1>3
<1>5. ASSUME NEW p \in S PROVE Len(p) <= Len(q)
  <2>1. n - Len(q) <= n - Len(p)
    BY <1>3, <1>4
  <2> QED
    BY <1>2, <2>1
<1> QED
  BY <1>5

\* A path below another begins with it.
LEMMA UnderPlaces ==
  ASSUME NEW a \in Paths, NEW p \in Paths, Under(a, p)
  PROVE  /\ Len(a) \in Nat /\ Len(p) \in Nat /\ Len(a) <= Len(p)
         /\ \A m \in 1..Len(a) : p[m] = a[m]
<1>1. PICK s \in Paths : p = a \o s
  BY DEF Under
<1>2. /\ Len(a) \in Nat /\ Len(s) \in Nat /\ Len(a \o s) = Len(a) + Len(s)
      /\ \A m \in 1..Len(a) : (a \o s)[m] = a[m]
  BY GluePlaces
<1> QED
  BY <1>1, <1>2

\* Where a path goes on from an earlier place.
LEMMA StepOfPath ==
  ASSUME NEW p \in Paths, NEW i \in 1..Len(p)
  PROVE  /\ SubSeq(p, 1, i - 1) \in Paths /\ Len(SubSeq(p, 1, i - 1)) = i - 1
         /\ p[i] \in Branches
         /\ \A m \in 1..(i - 1) : SubSeq(p, 1, i - 1)[m] = p[m]
         /\ Under(Append(SubSeq(p, 1, i - 1), p[i]), p)
<1> DEFINE a == SubSeq(p, 1, i - 1)
<1>1. Len(p) \in Nat /\ \A j \in 1..Len(p) : p[j] \in Branches
  BY LenProperties, ElementOfSeq DEF Paths
<1>2. i - 1 \in Int /\ 1 \in Int /\ i - 1 \in Nat /\ \A m \in 1..(i - 1) : p[m] \in Branches
  BY <1>1
<1>3. /\ a \in Seq(Branches)
      /\ Len(a) = IF 1 <= i - 1 THEN i - 1 - 1 + 1 ELSE 0
      /\ \A m \in 1 .. i - 1 - 1 + 1 : a[m] = p[1 + m - 1]
  BY <1>2, SubSeqProperties
<1> HIDE DEF a
<1>4. /\ a \in Paths /\ Len(a) = i - 1
      /\ \A m \in 1..(i - 1) : a[m] = p[m]
  BY <1>2, <1>3 DEF Paths
<1> DEFINE c == Append(a, p[i])
<1>5. /\ c \in Paths /\ Len(c) = i
      /\ \A m \in 1..(i - 1) : c[m] = p[m]
      /\ c[i] = p[i]
  <2>1. p[i] \in Branches
    BY <1>1
  <2>2. /\ c \in Seq(Branches) /\ Len(c) = Len(a) + 1
        /\ \A m \in 1..Len(a) : c[m] = a[m]
        /\ c[Len(a) + 1] = p[i]
    BY <1>4, <2>1, AppendProperties DEF Paths
  <2> HIDE DEF c
  <2>3. Len(a) + 1 = i
    BY <1>4
  <2> QED
    BY <1>4, <2>2, <2>3 DEF Paths
<1> HIDE DEF c
<1>6. \A m \in 1..Len(c) : p[m] = c[m]
  BY <1>1, <1>5
<1>7. Under(c, p)
  BY <1>1, <1>5, <1>6, UnderByPlaces
<1> QED
  BY <1>1, <1>4, <1>7 DEF a, c

\* And the other way round.
LEMMA UnderChild ==
  ASSUME NEW a \in Paths, NEW b \in Branches, NEW p \in Paths, Under(Append(a, b), p)
  PROVE  /\ Len(a) \in Nat /\ Len(p) \in Nat /\ Len(a) + 1 <= Len(p) /\ Len(a) + 1 \in 1..Len(p)
         /\ p[Len(a) + 1] = b
         /\ SubSeq(p, 1, Len(a)) = a
         /\ Under(a, p)
<1> DEFINE c == Append(a, b)
<1>1. /\ c \in Paths /\ Len(c) = Len(a) + 1 /\ Len(a) \in Nat
      /\ \A m \in 1..Len(a) : c[m] = a[m]
      /\ c[Len(a) + 1] = b
  BY AppendProperties, LenProperties DEF Paths
<1> HIDE DEF c
<1>2. /\ Len(p) \in Nat /\ Len(c) <= Len(p)
      /\ \A m \in 1..Len(c) : p[m] = c[m]
  <2>1. Under(c, p)
    BY DEF c
  <2> QED
    BY <1>1, <2>1, UnderPlaces
<1>3. Len(a) + 1 <= Len(p) /\ Len(a) + 1 \in 1..Len(p) /\ p[Len(a) + 1] = b
  BY <1>1, <1>2
<1>4. \A m \in 1..Len(a) : p[m] = a[m]
  BY <1>1, <1>2
<1>5. Under(a, p)
  BY <1>1, <1>3, <1>4, <1>2, UnderByPlaces
<1>6. IsPrefix(a, p)
  BY <1>5, PrefixIsUnder
<1>7. SubSeq(p, 1, Len(a)) = a
  BY <1>6, SubSeqFull DEF IsPrefix, Paths
<1> QED
  BY <1>1, <1>2, <1>3, <1>5, <1>7

\* What is above a path of a tree is a split of the tree.
LEMMA AboveInTree ==
  ASSUME NEW t, Tree(t), NEW a \in Paths, NEW p \in DOMAIN t, Under(a, p)
  PROVE  a \in DOMAIN t /\ (a # p => t[a].type = "split")
<1> DEFINE T == {n \in Nat : \E s \in Paths : /\ Len(s) = n /\ a \o s \in DOMAIN t
                               /\ ~(a \in DOMAIN t /\ (a # a \o s => t[a].type = "split"))}
<1>1. ASSUME T # {} PROVE FALSE
  <2>1. PICK n \in T : \A m \in T : n <= m
    <3>1. T \in SUBSET Nat
      OBVIOUS
    <3> HIDE DEF T
    <3> QED
      BY <1>1, <3>1, LeastNat
  <2>2. PICK s \in Paths : /\ Len(s) = n /\ a \o s \in DOMAIN t
                           /\ ~(a \in DOMAIN t /\ (a # a \o s => t[a].type = "split"))
    BY <2>1
  <2>3. s # <<>>
    BY <2>2, GlueEmpty
  <2>4. PICK u \in Paths, b \in Branches : s = Append(u, b)
    BY <2>3, PathFront
  <2>5. a \o s = Append(a \o u, b) /\ a \o u \in Paths
    BY <2>4, GlueAppend, Glue
  <2>6. a \o u \in DOMAIN t /\ t[a \o u].type = "split"
    BY <2>2, <2>5 DEF Tree
  <2>7. Len(u) \in Nat /\ Len(s) = Len(u) + 1
    BY <2>4, AppendProperties, LenProperties DEF Paths
  <2>8. Len(u) \notin T
    BY <2>1, <2>2, <2>7
  <2>9. a \in DOMAIN t /\ (a # a \o u => t[a].type = "split")
    BY <2>6, <2>7, <2>8
  <2>10. CASE a = a \o u
    BY <2>2, <2>6, <2>9, <2>10
  <2>11. CASE a # a \o u
    BY <2>2, <2>9, <2>11
  <2> QED
    BY <2>10, <2>11
<1>2. PICK s \in Paths : p = a \o s
  BY DEF Under
<1>3. Len(s) \in Nat
  BY LenProperties DEF Paths
<1> QED
  BY <1>1, <1>2, <1>3

\* Below every path of a tree is a pane.
LEMMA PaneBelow ==
  ASSUME NEW t, Tree(t), Small(t), NEW a \in DOMAIN t
  PROVE  \E q \in Leaves(t) : Under(a, q)
<1> DEFINE S == {q \in DOMAIN t : Under(a, q)}
<1>1. a \in Paths /\ Under(a, a)
  BY GlueEmpty, EmptyPath DEF Under, Tree
<1>2. PICK q \in S : \A p \in S : Len(p) <= Len(q)
  <2>1. S \in SUBSET DOMAIN t /\ S # {}
    BY <1>1
  <2> HIDE DEF S
  <2> QED
    BY <2>1, LongestPath
<1>3. q \in Paths /\ t[q] \in Nodes
  BY DEF Tree
<1>4. ASSUME t[q].type # "pane" PROVE FALSE
  <2>1. t[q].type = "split" /\ "first" \in Branches
    BY <1>3, <1>4 DEF Nodes, Branches
  <2>2. Append(q, "first") \in DOMAIN t
    BY <1>3, <2>1 DEF Tree
  <2>3. Under(a, Append(q, "first"))
    BY <1>1, <1>2, <1>3, <2>1, UnderStep
  <2>4. Len(Append(q, "first")) = Len(q) + 1 /\ Len(q) \in Nat
    BY <1>3, <2>1, AppendProperties, LenProperties DEF Paths
  <2>5. Append(q, "first") \in S
    BY <2>2, <2>3
  <2>6. Len(Append(q, "first")) <= Len(q)
    BY <1>2, <2>5
  <2> HIDE DEF S
  <2> QED
    BY <2>4, <2>6
<1>5. q \in Leaves(t)
  BY <1>2, <1>4 DEF Leaves
<1> QED
  BY <1>2, <1>5

\* A pane lies no deeper than there are other panes: beside each of its branches
\* is one.
LEMMA DepthOfPane ==
  ASSUME NEW t, Tree(t), Small(t), NEW p \in Leaves(t)
  PROVE  Len(p) \in Nat /\ Len(p) + 1 <= MaxPanes
<1>1. p \in DOMAIN t /\ p \in Paths /\ Len(p) \in Nat
  BY LenProperties DEF Tree, Leaves, Paths
<1> DEFINE n == Len(p)
           beside(i) == Append(SubSeq(p, 1, i - 1), Sibling(p[i]))
           g == [i \in 1..n |-> CHOOSE q \in Leaves(t) : Under(beside(i), q)]
           L == Leaves(t) \ {p}
<1>2. ASSUME NEW i \in 1..n
      PROVE  /\ g[i] \in Leaves(t) /\ g[i] \in Paths
             /\ Len(g[i]) \in Nat /\ i <= Len(g[i])
             /\ g[i][i] # p[i] /\ \A m \in 1..(i - 1) : g[i][m] = p[m]
  <2> DEFINE a == SubSeq(p, 1, i - 1)
             c == Sibling(p[i])
  <2>1. /\ a \in Paths /\ Len(a) = i - 1 /\ p[i] \in Branches
        /\ \A m \in 1..(i - 1) : a[m] = p[m]
        /\ Under(Append(a, p[i]), p)
    BY <1>1, StepOfPath
  <2>2. c \in Branches /\ c # p[i]
    BY <2>1, SiblingIsOther
  <2> HIDE DEF a, c
  <2>3. Append(a, p[i]) \in DOMAIN t
    BY <1>1, <2>1, PathAppend, AboveInTree
  <2>4. Append(a, c) \in DOMAIN t
    BY <2>1, <2>2, <2>3 DEF Tree
  <2>5. \E q \in Leaves(t) : Under(Append(a, c), q)
    BY <2>4, PaneBelow
  <2>6. g[i] \in Leaves(t) /\ Under(Append(a, c), g[i])
    BY <2>5 DEF a, c
  <2>7. g[i] \in Paths
    BY <2>6 DEF Leaves, Tree
  <2> HIDE DEF g
  <2>8. /\ Len(g[i]) \in Nat /\ Len(a) + 1 \in 1..Len(g[i])
        /\ g[i][Len(a) + 1] = c /\ Under(a, g[i])
    BY <2>1, <2>2, <2>6, <2>7, UnderChild
  <2>9. \A m \in 1..Len(a) : g[i][m] = a[m]
    BY <2>1, <2>7, <2>8, UnderPlaces
  <2>10. Len(a) + 1 = i
    BY <2>1
  <2> QED
    BY <2>1, <2>2, <2>6, <2>7, <2>8, <2>9, <2>10
<1>3. ASSUME NEW i \in 1..n PROVE g[i] \in L
  BY <1>2
<1>4. g \in [1..n -> L]
  BY <1>3
<1> HIDE DEF g
<1>5. ASSUME NEW i \in 1..n, NEW j \in 1..n, i < j PROVE g[i] # g[j]
  <2>1. i \in 1..(j - 1)
    BY <1>1, <1>5
  <2>2. g[j][i] = p[i] /\ g[i][i] # p[i]
    BY <1>2, <2>1
  <2> QED
    BY <2>2
<1>6. g \in Injection(1..n, L)
  <2>1. ASSUME NEW i \in 1..n, NEW j \in 1..n, i # j PROVE g[i] # g[j]
    <3>1. i < j \/ j < i
      BY <1>1, <2>1
    <3> QED
      BY <1>5, <3>1
  <2>2. \A i, j \in 1..n : g[i] = g[j] => i = j
    BY <2>1
  <2> HIDE DEF n
  <2> QED
    BY <1>4, <2>2 DEF Injection, IsInjective
<1>7. IsFiniteSet(L) /\ Cardinality(L) = Cardinality(Leaves(t)) - 1
  BY FS_RemoveElement DEF Small
<1>8. Cardinality(1..n) = n
  <2>1. n \in Nat /\ n \in Int /\ 1 \in Int
    BY <1>1
  <2> HIDE DEF n
  <2> QED
    BY <2>1, FS_Interval
<1>9. Cardinality(1..n) <= Cardinality(L)
  <2> HIDE DEF n, L
  <2> QED
    BY <1>6, <1>7, FS_Injection
<1>10. Cardinality(Leaves(t)) \in Nat /\ Cardinality(Leaves(t)) <= MaxPanes /\ MaxPanes \in Nat
  BY FS_CardinalityType, PanesAssumption DEF Small
<1> QED
  BY <1>1, <1>7, <1>8, <1>9, <1>10

\* So a path of the tree has room below it, a split for one step more.
LEMMA DepthOfPath ==
  ASSUME NEW t, Tree(t), Small(t), NEW p \in DOMAIN t
  PROVE  /\ Len(p) \in Nat /\ Len(p) + 1 <= MaxPanes
         /\ t[p].type = "split" => Len(p) + 2 <= MaxPanes
<1>1. PICK q \in Leaves(t) : Under(p, q)
  BY PaneBelow
<1>2. Len(q) \in Nat /\ Len(q) + 1 <= MaxPanes /\ MaxPanes \in Nat
  BY DepthOfPane, PanesAssumption
<1>3. p \in Paths /\ q \in Paths
  BY DEF Tree, Leaves
<1>4. Len(p) \in Nat /\ Len(p) <= Len(q)
  BY <1>1, <1>3, UnderPlaces
<1>5. ASSUME t[p].type = "split" PROVE Len(p) + 1 <= Len(q)
  <2>1. PICK s \in Paths : q = p \o s
    BY <1>1 DEF Under
  <2>2. s # <<>>
    <3>1. t[q].type = "pane"
      BY DEF Leaves
    <3> QED
      BY <1>3, <1>5, <2>1, <3>1, GlueEmpty
  <2>3. PICK u \in Paths, b \in Branches : s = Append(u, b)
    BY <2>2, PathFront
  <2>4. Len(u) \in Nat /\ Len(s) = Len(u) + 1 /\ Len(q) = Len(p) + Len(s)
    BY <1>3, <2>1, <2>3, GluePlaces, AppendProperties DEF Paths
  <2> QED
    BY <1>4, <2>4
<1> QED
  BY <1>2, <1>4, <1>5
-----------------------------------------------------------------------------
(* Where the rectangles lie, along one axis at a time.                       *)

Axes == {"horizontal", "vertical"}
Cross(axis) == IF axis = "horizontal" THEN "vertical" ELSE "horizontal"

Boxes == [x : Int, y : Int, width : Int, height : Int]

From(r, axis) == IF axis = "horizontal" THEN r.x ELSE r.y
To(r, axis) == IF axis = "horizontal" THEN r.x + r.width ELSE r.y + r.height

Wide(r, n) == r \in Boxes /\ \A axis \in Axes : From(r, axis) + n <= To(r, axis)

\* Rectangles f and s share r: one beside the other along the axis of the cut, and
\* both from end to end across it.
Shared(r, f, s, cut) ==
  \A axis \in Axes :
    /\ From(f, axis) = From(r, axis) /\ To(s, axis) = To(r, axis)
    /\ axis = cut => To(f, axis) = From(s, axis)
    /\ axis # cut => To(f, axis) = To(r, axis) /\ From(s, axis) = From(r, axis)

LEMMA TenthsOf ==
  ASSUME NEW w \in Int, NEW d \in 1..9, NEW k \in Nat, w >= 10 * k
  PROVE  /\ (w * d) \div 10 \in Int
         /\ k <= (w * d) \div 10 /\ (w * d) \div 10 + k <= w
<1>1. d = 1 \/ d = 2 \/ d = 3 \/ d = 4 \/ d = 5 \/ d = 6 \/ d = 7 \/ d = 8 \/ d = 9
  OBVIOUS
<1>2. CASE d = 1
  BY <1>2
<1>3. CASE d = 2
  BY <1>3
<1>4. CASE d = 3
  BY <1>4
<1>5. CASE d = 4
  BY <1>5
<1>6. CASE d = 5
  BY <1>6
<1>7. CASE d = 6
  BY <1>7
<1>8. CASE d = 7
  BY <1>8
<1>9. CASE d = 8
  BY <1>9
<1>10. CASE d = 9
  BY <1>10
<1> QED
  BY <1>1, <1>2, <1>3, <1>4, <1>5, <1>6, <1>7, <1>8, <1>9, <1>10

\* A wide box has its ends apart along both axes.
LEMMA WideBox ==
  ASSUME NEW r, NEW n \in Nat
  PROVE  Wide(r, n) <=> r \in Boxes /\ n <= r.width /\ n <= r.height
  BY DEF Wide, Axes, From, To, Boxes

\* A split gives each of its children a tenth of its own width at least.
LEMMA CutShares ==
  ASSUME NEW r, NEW k \in Nat, Wide(r, 10 * k), NEW node \in Nodes, node.type = "split"
  PROVE  /\ Wide(Cut(r, node, "first"), k) /\ Wide(Cut(r, node, "second"), k)
         /\ Shared(r, Cut(r, node, "first"), Cut(r, node, "second"), node.orientation)
         /\ node.orientation \in Axes
<1> DEFINE w == (r.width * node.divider) \div 10
           h == (r.height * node.divider) \div 10
<1>1. /\ r \in Boxes /\ 10 * k <= r.width /\ 10 * k <= r.height
      /\ r.width \in Int /\ r.height \in Int /\ r.x \in Int /\ r.y \in Int
      /\ r = [x |-> r.x, y |-> r.y, width |-> r.width, height |-> r.height]
  <2>1. 10 * k \in Nat
    OBVIOUS
  <2>2. r \in Boxes /\ 10 * k <= r.width /\ 10 * k <= r.height
    BY <2>1, WideBox
  <2> QED
    BY <2>2 DEF Boxes
<1>2. k <= r.width /\ k <= r.height
  <2>1. PICK a \in Int, b \in Int : a = r.width /\ b = r.height /\ 10 * k <= a /\ 10 * k <= b
    BY <1>1
  <2>2. k <= a /\ k <= b
    BY <2>1
  <2> QED
    BY <2>1, <2>2
<1>3. node.divider \in 1..9 /\ node.orientation \in Axes
  BY DEF Nodes, Axes
<1>4. w \in Int /\ k <= w /\ w + k <= r.width
  BY <1>1, <1>3, TenthsOf
<1>5. h \in Int /\ k <= h /\ h + k <= r.height
  BY <1>1, <1>3, TenthsOf
<1> DEFINE f == Cut(r, node, "first")
           s == Cut(r, node, "second")
<1>6. CASE node.orientation = "horizontal"
  <2>1. f = [r EXCEPT !.width = w] /\ s = [r EXCEPT !.x = r.x + w, !.width = r.width - w]
    BY <1>6 DEF Cut
  <2> HIDE DEF f, s, w, h
  <2>2. /\ f \in Boxes /\ f.x = r.x /\ f.y = r.y /\ f.width = w /\ f.height = r.height
    BY <1>1, <1>4, <2>1 DEF Boxes
  <2>3. /\ s \in Boxes /\ s.x = r.x + w /\ s.y = r.y /\ s.width = r.width - w
        /\ s.height = r.height
    <3> DEFINE q == [r EXCEPT !.x = r.x + w]
    <3>1. q \in Boxes /\ q = [x |-> r.x + w, y |-> r.y, width |-> r.width, height |-> r.height]
      BY <1>1, <1>4 DEF Boxes
    <3>2. s = [q EXCEPT !.width = r.width - w]
      BY <2>1
    <3> HIDE DEF q
    <3> QED
      BY <1>1, <1>4, <3>1, <3>2 DEF Boxes
  <2>4. k <= f.width /\ k <= f.height /\ k <= s.width /\ k <= s.height
    <3>1. k <= r.width - w
      BY <1>1, <1>4
    <3> QED
      BY <1>4, <1>2, <2>2, <2>3, <3>1
  <2>5. Wide(f, k) /\ Wide(s, k)
    BY <2>2, <2>3, <2>4, WideBox
  <2>6. Shared(r, f, s, "horizontal")
    BY <1>1, <1>4, <2>2, <2>3 DEF Shared, Axes, From, To
  <2> QED
    BY <1>3, <1>6, <2>5, <2>6 DEF f, s
<1>7. CASE node.orientation = "vertical"
  <2>1. f = [r EXCEPT !.height = h] /\ s = [r EXCEPT !.y = r.y + h, !.height = r.height - h]
    BY <1>7 DEF Cut
  <2> HIDE DEF f, s, w, h
  <2>2. /\ f \in Boxes /\ f.x = r.x /\ f.y = r.y /\ f.width = r.width /\ f.height = h
    BY <1>1, <1>5, <2>1 DEF Boxes
  <2>3. /\ s \in Boxes /\ s.x = r.x /\ s.y = r.y + h /\ s.width = r.width
        /\ s.height = r.height - h
    <3> DEFINE q == [r EXCEPT !.y = r.y + h]
    <3>1. q \in Boxes /\ q = [x |-> r.x, y |-> r.y + h, width |-> r.width, height |-> r.height]
      BY <1>1, <1>5 DEF Boxes
    <3>2. s = [q EXCEPT !.height = r.height - h]
      BY <2>1
    <3> HIDE DEF q
    <3> QED
      BY <1>1, <1>5, <3>1, <3>2 DEF Boxes
  <2>4. k <= f.width /\ k <= f.height /\ k <= s.width /\ k <= s.height
    <3>1. k <= r.height - h
      BY <1>1, <1>5
    <3> QED
      BY <1>5, <1>2, <2>2, <2>3, <3>1
  <2>5. Wide(f, k) /\ Wide(s, k)
    BY <2>2, <2>3, <2>4, WideBox
  <2>6. Shared(r, f, s, "vertical")
    BY <1>1, <1>5, <2>2, <2>3 DEF Shared, Axes, From, To
  <2> QED
    BY <1>3, <1>7, <2>5, <2>6 DEF f, s
<1> QED
  BY <1>3, <1>6, <1>7 DEF Axes

\* Every path of a tree has a rectangle, with room for the cuts below it.
LEMMA RectIsWide ==
  ASSUME NEW t, Tree(t), Small(t)
  PROVE  \A p \in DOMAIN t : Wide(Rect(t, p), Power[MaxPanes - 1 - Len(p)])
<1> DEFINE T == {n \in Nat : \E p \in DOMAIN t : Len(p) = n
                               /\ ~Wide(Rect(t, p), Power[MaxPanes - 1 - Len(p)])}
<1>1. ASSUME T # {} PROVE FALSE
  <2>1. PICK n \in T : \A m \in T : n <= m
    <3>1. T \in SUBSET Nat
      OBVIOUS
    <3> HIDE DEF T
    <3> QED
      BY <1>1, <3>1, LeastNat
  <2>2. PICK p \in DOMAIN t : Len(p) = n /\ ~Wide(Rect(t, p), Power[MaxPanes - 1 - Len(p)])
    BY <2>1
  <2>3. p \in Paths
    BY DEF Tree
  <2>4. p # <<>>
    <3> SUFFICES ASSUME p = <<>> PROVE FALSE
      OBVIOUS
    <3>1. Len(p) = 0 /\ MaxPanes - 1 \in Nat /\ MaxPanes - 1 - Len(p) = MaxPanes - 1
      BY EmptySeq, PanesAssumption
    <3>2. Power[MaxPanes - 1] \in Nat
      BY <3>1, PowerType
    <3>3. Wide(Whole, Power[MaxPanes - 1])
      BY <3>2 DEF Wide, Boxes, Whole, Unit, Axes, From, To
    <3> QED
      BY <2>2, <3>1, <3>3, RectSteps
  <2>5. PICK u \in Paths, b \in Branches : p = Append(u, b)
    BY <2>3, <2>4, PathFront
  <2>6. u \in DOMAIN t /\ t[u].type = "split"
    BY <2>5 DEF Tree
  <2>7. Len(u) \in Nat /\ Len(p) = Len(u) + 1
    BY <2>5, AppendProperties, LenProperties DEF Paths
  <2>8. Len(u) \notin T
    BY <2>1, <2>2, <2>7
  <2>9. Wide(Rect(t, u), Power[MaxPanes - 1 - Len(u)])
    BY <2>6, <2>7, <2>8
  <2>10. PICK m \in Nat : m = MaxPanes - 1 - Len(p) /\ m + 1 = MaxPanes - 1 - Len(u)
    <3>1. Len(u) + 2 <= MaxPanes
      BY <2>6, DepthOfPath
    <3> QED
      <4>1. PICK l \in Nat : l = Len(u) /\ l + 2 <= MaxPanes /\ Len(p) = l + 1
        BY <2>7, <3>1
      <4>2. MaxPanes - 1 - (l + 1) \in Nat /\ MaxPanes - 1 - (l + 1) + 1 = MaxPanes - 1 - l
        BY <4>1, PanesAssumption
      <4> QED
        BY <4>1, <4>2
  <2>11. Power[m] \in Nat /\ Wide(Rect(t, u), 10 * Power[m])
    <3>1. Power[m] \in Nat /\ Power[m + 1] = 10 * Power[m]
      BY PowerType
    <3>2. Wide(Rect(t, u), Power[m + 1])
      BY <2>9, <2>10
    <3> QED
      BY <3>1, <3>2
  <2>12. t[u] \in Nodes
    BY <2>6 DEF Tree
  <2>13. Wide(Cut(Rect(t, u), t[u], "first"), Power[m]) /\ Wide(Cut(Rect(t, u), t[u], "second"), Power[m])
    BY <2>6, <2>11, <2>12, CutShares
  <2>14. Wide(Rect(t, p), Power[m])
    <3>1. Rect(t, p) = Cut(Rect(t, u), t[u], b)
      BY <2>5, RectSteps
    <3>2. b = "first" \/ b = "second"
      BY DEF Branches
    <3> QED
      BY <2>13, <3>1, <3>2
  <2> QED
    BY <2>2, <2>10, <2>14
<1>2. ASSUME NEW p \in DOMAIN t PROVE Wide(Rect(t, p), Power[MaxPanes - 1 - Len(p)])
  <2>1. Len(p) \in Nat
    BY LenProperties DEF Tree, Paths
  <2> QED
    BY <1>1, <2>1
<1> QED
  BY <1>2

\* Every path has a rectangle with something in it, and the children of a split
\* share that of the split.
LEMMA RectShares ==
  ASSUME NEW t, Tree(t), Small(t), NEW p \in DOMAIN t
  PROVE  /\ Wide(Rect(t, p), 1)
         /\ t[p].type = "split" =>
              /\ t[p].orientation \in Axes
              /\ Shared(Rect(t, p), Rect(t, Append(p, "first")), Rect(t, Append(p, "second")),
                        t[p].orientation)
<1>1. p \in Paths /\ t[p] \in Nodes
  BY DEF Tree
<1>2. Len(p) \in Nat /\ Len(p) + 1 <= MaxPanes /\ MaxPanes \in Nat
      /\ (t[p].type = "split" => Len(p) + 2 <= MaxPanes)
  BY DepthOfPath, PanesAssumption
<1>3. PICK m \in Nat : m = MaxPanes - 1 - Len(p)
  BY <1>2
<1>4. Wide(Rect(t, p), Power[m])
  BY <1>3, RectIsWide
<1>5. Wide(Rect(t, p), 1)
  <2>1. Power[m] \in Nat /\ 1 <= Power[m] /\ 1 \in Nat
    BY PowerType
  <2>2. PICK k \in Nat : k = 1 /\ k <= Power[m]
    BY <2>1
  <2>3. Rect(t, p) \in Boxes /\ Power[m] <= Rect(t, p).width /\ Power[m] <= Rect(t, p).height
    BY <1>4, <2>1, WideBox
  <2>4. Rect(t, p).width \in Int /\ Rect(t, p).height \in Int
    BY <2>3 DEF Boxes
  <2>5. k <= Rect(t, p).width /\ k <= Rect(t, p).height
    BY <2>1, <2>2, <2>3, <2>4
  <2>6. Wide(Rect(t, p), k)
    BY <2>3, <2>5, WideBox
  <2> QED
    BY <2>2, <2>6
<1>6. ASSUME t[p].type = "split"
      PROVE  /\ t[p].orientation \in Axes
             /\ Shared(Rect(t, p), Rect(t, Append(p, "first")), Rect(t, Append(p, "second")),
                       t[p].orientation)
  <2>1. PICK j \in Nat : m = j + 1
    <3>1. m # 0
      BY <1>2, <1>3, <1>6
    <3>2. m - 1 \in Nat /\ m = m - 1 + 1
      BY <3>1
    <3> QED
      BY <3>2
  <2>2. Power[j] \in Nat /\ Wide(Rect(t, p), 10 * Power[j])
    <3>1. Power[j] \in Nat /\ Power[j + 1] = 10 * Power[j]
      BY PowerType
    <3>2. Wide(Rect(t, p), Power[j + 1])
      BY <1>4, <2>1
    <3> QED
      BY <3>1, <3>2
  <2>3. /\ Rect(t, Append(p, "first")) = Cut(Rect(t, p), t[p], "first")
        /\ Rect(t, Append(p, "second")) = Cut(Rect(t, p), t[p], "second")
    BY <1>1, RectSteps DEF Branches
  <2> QED
    BY <1>1, <1>6, <2>2, <2>3, CutShares
<1> QED
  BY <1>5, <1>6

Inside(q, r) ==
  \A axis \in Axes : From(r, axis) <= From(q, axis) /\ To(q, axis) <= To(r, axis)

\* The ends of a box are numbers.
LEMMA EndsOfBox ==
  ASSUME NEW r, Wide(r, 1), NEW axis \in Axes
  PROVE  From(r, axis) \in Int /\ To(r, axis) \in Int /\ From(r, axis) < To(r, axis)
  BY DEF Wide, Boxes, From, To, Axes

\* What lies below a path lies inside its rectangle.
LEMMA BelowIsInside ==
  ASSUME NEW t, Tree(t), Small(t), NEW a \in Paths, NEW p \in DOMAIN t, Under(a, p)
  PROVE  Inside(Rect(t, p), Rect(t, a))
<1> DEFINE T == {n \in Nat : \E s \in Paths : Len(s) = n /\ a \o s \in DOMAIN t
                               /\ ~Inside(Rect(t, a \o s), Rect(t, a))}
<1>1. a \in DOMAIN t
  BY AboveInTree
<1>2. ASSUME T # {} PROVE FALSE
  <2>1. PICK n \in T : \A m \in T : n <= m
    <3>1. T \in SUBSET Nat
      OBVIOUS
    <3> HIDE DEF T
    <3> QED
      BY <1>2, <3>1, LeastNat
  <2>2. PICK s \in Paths : Len(s) = n /\ a \o s \in DOMAIN t
                           /\ ~Inside(Rect(t, a \o s), Rect(t, a))
    BY <2>1
  <2>3. s # <<>>
    <3> SUFFICES ASSUME s = <<>> PROVE FALSE
      OBVIOUS
    <3>1. a \o s = a
      BY GlueEmpty
    <3>2. Wide(Rect(t, a), 1)
      BY <1>1, RectShares
    <3>3. Inside(Rect(t, a), Rect(t, a))
      <4>1. ASSUME NEW axis \in Axes
            PROVE  /\ From(Rect(t, a), axis) <= From(Rect(t, a), axis)
                   /\ To(Rect(t, a), axis) <= To(Rect(t, a), axis)
        <5>1. From(Rect(t, a), axis) \in Int /\ To(Rect(t, a), axis) \in Int
          BY <3>2, EndsOfBox
        <5> QED
          BY <5>1
      <4> QED
        BY <4>1 DEF Inside
    <3> QED
      BY <2>2, <3>1, <3>3
  <2>4. PICK u \in Paths, b \in Branches : s = Append(u, b)
    BY <2>3, PathFront
  <2>5. a \o s = Append(a \o u, b) /\ a \o u \in Paths
    BY <2>4, GlueAppend, Glue
  <2>6. a \o u \in DOMAIN t /\ t[a \o u].type = "split"
    BY <2>2, <2>5 DEF Tree
  <2>7. Len(u) \in Nat /\ Len(s) = Len(u) + 1
    BY <2>4, AppendProperties, LenProperties DEF Paths
  <2>8. Len(u) \notin T
    BY <2>1, <2>2, <2>7
  <2> DEFINE A == Rect(t, a)
             P == Rect(t, a \o u)
             F == Rect(t, Append(a \o u, "first"))
             S == Rect(t, Append(a \o u, "second"))
             cut == t[a \o u].orientation
  <2>9. Inside(P, A)
    BY <2>6, <2>7, <2>8
  <2>10. Shared(P, F, S, cut) /\ Wide(P, 1)
    BY <2>6, RectShares
  <2>11. Wide(F, 1) /\ Wide(S, 1)
    <3>1. Append(a \o u, "first") \in DOMAIN t /\ Append(a \o u, "second") \in DOMAIN t
      BY <2>5, <2>6 DEF Tree, Branches
    <3> QED
      BY <3>1, RectShares
  <2>12. Wide(A, 1)
    BY <1>1, RectShares
  <2> HIDE DEF A, P, F, S, cut
  <2>13. ASSUME NEW axis \in Axes
         PROVE  /\ From(A, axis) <= From(F, axis) /\ To(F, axis) <= To(A, axis)
                /\ From(A, axis) <= From(S, axis) /\ To(S, axis) <= To(A, axis)
    <3>1. /\ From(A, axis) \in Int /\ To(A, axis) \in Int
          /\ From(P, axis) \in Int /\ To(P, axis) \in Int
          /\ From(F, axis) \in Int /\ To(F, axis) \in Int /\ From(F, axis) < To(F, axis)
          /\ From(S, axis) \in Int /\ To(S, axis) \in Int /\ From(S, axis) < To(S, axis)
      BY <2>10, <2>11, <2>12, EndsOfBox
    <3>2. From(A, axis) <= From(P, axis) /\ To(P, axis) <= To(A, axis)
      BY <2>9 DEF Inside
    <3>3. /\ From(F, axis) = From(P, axis) /\ To(S, axis) = To(P, axis)
          /\ axis = cut => To(F, axis) = From(S, axis)
          /\ axis # cut => To(F, axis) = To(P, axis) /\ From(S, axis) = From(P, axis)
      BY <2>10 DEF Shared
    <3> QED
      BY <3>1, <3>2, <3>3
  <2>14. Inside(F, A) /\ Inside(S, A)
    BY <2>13 DEF Inside
  <2>15. b = "first" \/ b = "second"
    BY DEF Branches
  <2> QED
    BY <2>2, <2>5, <2>14, <2>15 DEF A, F, S
<1>3. PICK s \in Paths : p = a \o s
  BY DEF Under
<1>4. Len(s) \in Nat
  BY LenProperties DEF Paths
<1> QED
  BY <1>2, <1>3, <1>4
-----------------------------------------------------------------------------
(* The neighbour a focus key finds.                                          *)

Axis(direction) == IF direction \in {"left", "right"} THEN "horizontal" ELSE "vertical"
Far(direction) == IF direction \in {"left", "up"} THEN "second" ELSE "first"
Directions == {"left", "right", "up", "down"}

Meet(from, r, axis) == From(from, axis) < To(r, axis) /\ From(r, axis) < To(from, axis)

\* InDirection, with the axis as a parameter.
LEMMA DirectionByAxis ==
  ASSUME NEW from, NEW r, NEW direction \in Directions
  PROVE  /\ Axis(direction) \in Axes /\ Cross(Axis(direction)) \in Axes
         /\ Cross(Axis(direction)) # Axis(direction)
         /\ Far(direction) \in Branches
         /\ InDirection(from, r, direction) <=>
              /\ IF Far(direction) = "second"
                 THEN To(r, Axis(direction)) <= From(from, Axis(direction))
                 ELSE From(r, Axis(direction)) >= To(from, Axis(direction))
              /\ Meet(from, r, Cross(Axis(direction)))
  BY DEF Directions, Axes, Cross, Axis, Far, Branches, InDirection, Overlap, Meet, From, To

\* Two panes are below the two children of one split.
LEMMA PanesPart ==
  ASSUME NEW t, Tree(t), NEW p \in Leaves(t), NEW q \in Leaves(t), p # q
  PROVE  \E a \in Paths, b \in Branches :
           /\ a \in DOMAIN t /\ t[a].type = "split"
           /\ Under(Append(a, b), p) /\ Under(Append(a, Sibling(b)), q)
           /\ p[Len(a) + 1] = b /\ q[Len(a) + 1] = Sibling(b)
           /\ Len(a) + 1 \in 1..Len(p) /\ Len(a) + 1 \in 1..Len(q)
           /\ \A m \in 1..Len(a) : p[m] = q[m]
<1>1. /\ p \in Paths /\ q \in Paths /\ p \in DOMAIN t /\ q \in DOMAIN t
      /\ Len(p) \in Nat /\ Len(q) \in Nat
  BY LenProperties DEF Tree, Leaves, Paths
<1> DEFINE T == {i \in Nat : i \in 1..Len(p) /\ i \in 1..Len(q) /\ p[i] # q[i]}
<1>2. ASSUME T = {} PROVE FALSE
  <2>1. ASSUME NEW x \in Leaves(t), NEW y \in Leaves(t), Len(x) <= Len(y), x # y,
               \A i \in 1..Len(x) : y[i] = x[i]
        PROVE  FALSE
    <3>1. x \in Paths /\ y \in Paths /\ y \in DOMAIN t
      BY DEF Tree, Leaves
    <3>2. Under(x, y)
      BY <2>1, <3>1, UnderByPlaces
    <3>3. PICK s \in Paths : y = x \o s
      BY <3>2 DEF Under
    <3>4. s = <<>>
      BY <3>1, <3>3, LeafIsLast
    <3> QED
      BY <2>1, <3>1, <3>3, <3>4, GlueEmpty
  <2>2. CASE Len(p) <= Len(q)
    <3>1. \A i \in 1..Len(p) : q[i] = p[i]
      BY <1>1, <1>2, <2>2
    <3> QED
      BY <2>1, <2>2, <3>1
  <2>3. CASE Len(q) <= Len(p)
    <3>1. \A i \in 1..Len(q) : p[i] = q[i]
      BY <1>1, <1>2, <2>3
    <3> QED
      BY <2>1, <2>3, <3>1
  <2> QED
    BY <1>1, <2>2, <2>3
<1>3. PICK i \in T : \A j \in T : i <= j
  <2>1. T \in SUBSET Nat
    OBVIOUS
  <2> HIDE DEF T
  <2> QED
    BY <1>2, <2>1, LeastNat
<1>4. i \in Nat /\ i \in 1..Len(p) /\ i \in 1..Len(q) /\ p[i] # q[i]
      /\ \A m \in 1..(i - 1) : p[m] = q[m]
  BY <1>1, <1>3
<1> DEFINE a == SubSeq(p, 1, i - 1)
           c == SubSeq(q, 1, i - 1)
<1>5. /\ a \in Paths /\ Len(a) = i - 1 /\ p[i] \in Branches
      /\ \A m \in 1..(i - 1) : a[m] = p[m]
      /\ Under(Append(a, p[i]), p)
  BY <1>1, <1>4, StepOfPath
<1>6. /\ c \in Paths /\ Len(c) = i - 1 /\ q[i] \in Branches
      /\ \A m \in 1..(i - 1) : c[m] = q[m]
      /\ Under(Append(c, q[i]), q)
  BY <1>1, <1>4, StepOfPath
<1> HIDE DEF a, c, T
<1>7. a = c
  <2>1. Len(a) = Len(c) /\ \A m \in 1..Len(a) : a[m] = c[m]
    BY <1>4, <1>5, <1>6
  <2> QED
    BY <1>5, <1>6, <2>1, SeqEqual DEF Paths
<1>8. q[i] = Sibling(p[i])
  BY <1>4, <1>5, <1>6, SiblingIsOther
<1>9. a \in DOMAIN t /\ t[a].type = "split"
  <2>1. Append(a, p[i]) \in DOMAIN t
    BY <1>1, <1>5, PathAppend, AboveInTree
  <2> QED
    BY <1>5, <2>1 DEF Tree
<1>10. Len(a) + 1 = i
  BY <1>4, <1>5
<1> QED
  BY <1>4, <1>5, <1>6, <1>7, <1>8, <1>9, <1>10

\* AtEdge, by the splits above a pane.
LEMMA EdgeBySplits ==
  ASSUME NEW p \in Paths, NEW direction \in Directions
  PROVE  AtEdge(p, direction) <=>
           \A a \in Paths, b \in Branches :
             Under(Append(a, b), p) /\ tree[a].orientation = Axis(direction) => b # Far(direction)
<1>1. /\ Len(p) \in Nat /\ DOMAIN p = 1..Len(p)
  BY LenProperties DEF Paths
<1>2. AtEdge(p, direction) <=>
        \A i \in 1..Len(p) :
          tree[SubSeq(p, 1, i - 1)].orientation = Axis(direction) => p[i] # Far(direction)
  BY <1>1 DEF AtEdge, Axis, Far
<1>3. ASSUME AtEdge(p, direction), NEW a \in Paths, NEW b \in Branches,
             Under(Append(a, b), p), tree[a].orientation = Axis(direction)
      PROVE  b # Far(direction)
  <2>1. PICK i \in 1..Len(p) : i = Len(a) + 1 /\ Len(a) = i - 1 /\ p[i] = b
                                /\ SubSeq(p, 1, Len(a)) = a
    <3>1. /\ Len(a) \in Nat /\ Len(a) + 1 \in 1..Len(p) /\ p[Len(a) + 1] = b
          /\ SubSeq(p, 1, Len(a)) = a
      BY <1>3, UnderChild
    <3>2. Len(a) = Len(a) + 1 - 1
      BY <3>1
    <3> QED
      BY <3>1, <3>2
  <2>2. SubSeq(p, 1, i - 1) = a
    BY <2>1
  <2> QED
    BY <1>2, <1>3, <2>1, <2>2
<1>4. ASSUME \A a \in Paths, b \in Branches :
               Under(Append(a, b), p) /\ tree[a].orientation = Axis(direction)
                 => b # Far(direction),
             NEW i \in 1..Len(p), tree[SubSeq(p, 1, i - 1)].orientation = Axis(direction)
      PROVE  p[i] # Far(direction)
  BY <1>4, StepOfPath
<1> QED
  BY <1>2, <1>3, <1>4

\* At the edge there is nobody: a pane beside it is on its other side, or in
\* another row.
LEMMA NobodyBeyondEdge ==
  ASSUME Tree(tree), Small(tree), NEW p \in Leaves(tree), NEW q \in Leaves(tree), p # q,
         NEW direction \in Directions, AtEdge(p, direction)
  PROVE  ~InDirection(Rect(tree, p), Rect(tree, q), direction)
<1>1. /\ p \in Paths /\ q \in Paths /\ p \in DOMAIN tree /\ q \in DOMAIN tree
  BY DEF Tree, Leaves
<1>2. PICK a \in Paths, b \in Branches :
           /\ a \in DOMAIN tree /\ tree[a].type = "split"
           /\ Under(Append(a, b), p) /\ Under(Append(a, Sibling(b)), q)
  BY PanesPart
<1>3. Append(a, b) \in Paths /\ Append(a, Sibling(b)) \in Paths
      /\ Sibling(b) \in Branches /\ Sibling(b) # b
  BY PathAppend, SiblingIsOther
<1> DEFINE P == Rect(tree, p)
           Q == Rect(tree, q)
           F == Rect(tree, Append(a, "first"))
           S == Rect(tree, Append(a, "second"))
           cut == tree[a].orientation
<1>4. cut \in Axes /\ Shared(Rect(tree, a), F, S, cut)
  BY <1>2, RectShares
<1>5. Wide(P, 1) /\ Wide(Q, 1)
  BY <1>1, RectShares
<1>6. Wide(F, 1) /\ Wide(S, 1)
  <2>1. Append(a, "first") \in DOMAIN tree /\ Append(a, "second") \in DOMAIN tree
    BY <1>2 DEF Tree, Branches
  <2> QED
    BY <2>1, RectShares
<1>7. Inside(P, Rect(tree, Append(a, b))) /\ Inside(Q, Rect(tree, Append(a, Sibling(b))))
  BY <1>1, <1>2, <1>3, BelowIsInside
<1>8. cut = Axis(direction) => b # Far(direction)
  BY <1>1, <1>2, EdgeBySplits
<1>9. (b = "first" /\ Sibling(b) = "second") \/ (b = "second" /\ Sibling(b) = "first")
  <2>1. b \in Branches /\ Sibling(b) \in Branches /\ Sibling(b) # b
    BY <1>3
  <2> PICK c : c = Sibling(b)
    OBVIOUS
  <2>2. c \in Branches /\ c # b
    BY <2>1
  <2>3. (b = "first" /\ c = "second") \/ (b = "second" /\ c = "first")
    BY <2>1, <2>2 DEF Branches
  <2> QED
    BY <2>3
<1>10. (Inside(P, F) /\ Inside(Q, S) /\ b = "first") \/ (Inside(P, S) /\ Inside(Q, F) /\ b = "second")
  <2>1. CASE b = "first" /\ Sibling(b) = "second"
    BY <1>7, <2>1
  <2>2. CASE b = "second" /\ Sibling(b) = "first"
    BY <1>7, <2>2
  <2> QED
    BY <1>9, <2>1, <2>2
<1> DEFINE ax == Axis(direction)
           cr == Cross(Axis(direction))
<1>11. ax \in Axes /\ cr \in Axes /\ cr # ax /\ Far(direction) \in Branches
  BY DirectionByAxis
<1> HIDE DEF P, Q, F, S, cut, ax, cr
<1>12. ASSUME NEW axis \in Axes
       PROVE  /\ From(P, axis) \in Int /\ To(P, axis) \in Int /\ From(P, axis) < To(P, axis)
              /\ From(Q, axis) \in Int /\ To(Q, axis) \in Int /\ From(Q, axis) < To(Q, axis)
              /\ From(F, axis) \in Int /\ To(F, axis) \in Int
              /\ From(S, axis) \in Int /\ To(S, axis) \in Int
  BY <1>5, <1>6, EndsOfBox
<1>13. To(F, cut) = From(S, cut)
  BY <1>4 DEF Shared
<1>14. CASE cut = ax
  <2>1. b # Far(direction)
    BY <1>8, <1>14 DEF ax
  <2>2. CASE b = "first"
    <3>1. Far(direction) = "second"
      BY <1>11, <2>1, <2>2 DEF Branches
    <3>2. Inside(P, F) /\ Inside(Q, S)
      BY <1>10, <2>2
    <3>3. To(P, ax) <= To(F, ax) /\ From(S, ax) <= From(Q, ax)
      BY <1>11, <3>2 DEF Inside
    <3>4. ~(To(Q, ax) <= From(P, ax))
      BY <1>11, <1>12, <1>13, <1>14, <3>3
    <3> QED
      BY <3>1, <3>4, DirectionByAxis DEF P, Q, ax
  <2>3. CASE b = "second"
    <3>1. Far(direction) = "first"
      BY <1>11, <2>1, <2>3 DEF Branches
    <3>2. Inside(P, S) /\ Inside(Q, F)
      BY <1>10, <2>3
    <3>3. To(Q, ax) <= To(F, ax) /\ From(S, ax) <= From(P, ax)
      BY <1>11, <3>2 DEF Inside
    <3>4. ~(From(Q, ax) >= To(P, ax))
      BY <1>11, <1>12, <1>13, <1>14, <3>3
    <3> QED
      BY <3>1, <3>4, DirectionByAxis DEF P, Q, ax
  <2> QED
    BY <2>2, <2>3 DEF Branches
<1>15. CASE cut # ax
  <2>1. cut = cr
    BY <1>4, <1>11, <1>15 DEF Axes
  <2>2. To(F, cr) = From(S, cr)
    BY <1>13, <2>1
  <2>3. ~Meet(P, Q, cr)
    <3>1. CASE Inside(P, F) /\ Inside(Q, S)
      <4>1. To(P, cr) <= To(F, cr) /\ From(S, cr) <= From(Q, cr)
        BY <1>11, <3>1 DEF Inside
      <4> QED
        BY <1>11, <1>12, <2>2, <4>1 DEF Meet
    <3>2. CASE Inside(P, S) /\ Inside(Q, F)
      <4>1. To(Q, cr) <= To(F, cr) /\ From(S, cr) <= From(P, cr)
        BY <1>11, <3>2 DEF Inside
      <4> QED
        BY <1>11, <1>12, <2>2, <4>1 DEF Meet
    <3> QED
      BY <1>10, <3>1, <3>2
  <2> QED
    BY <2>3, DirectionByAxis DEF P, Q, cr
<1> QED
  BY <1>14, <1>15

\* Anywhere else there is somebody: below the sibling of the pane's ancestor lies
\* a pane in its row.
LEMMA SomebodyElsewhere ==
  ASSUME Tree(tree), Small(tree), NEW p \in Leaves(tree),
         NEW direction \in Directions, ~AtEdge(p, direction)
  PROVE  \E q \in Leaves(tree) \ {p} : InDirection(Rect(tree, p), Rect(tree, q), direction)
<1>1. p \in Paths /\ p \in DOMAIN tree
  BY DEF Tree, Leaves
<1> DEFINE far == Far(direction)
           near == Sibling(Far(direction))
           ax == Axis(direction)
           cr == Cross(Axis(direction))
<1>2. ax \in Axes /\ cr \in Axes /\ cr # ax /\ far \in Branches
  BY DirectionByAxis
<1>3. PICK a \in Paths : Under(Append(a, far), p) /\ tree[a].orientation = ax
  BY <1>1, EdgeBySplits
<1>4. near \in Branches /\ near # far /\ Append(a, far) \in Paths /\ Append(a, near) \in Paths
  BY <1>2, SiblingIsOther, PathAppend
<1>5. a \in DOMAIN tree /\ tree[a].type = "split" /\ Append(a, near) \in DOMAIN tree
      /\ Append(a, far) \in DOMAIN tree
  <2>1. Append(a, far) \in DOMAIN tree
    BY <1>1, <1>3, <1>4, AboveInTree
  <2> QED
    BY <1>2, <1>4, <2>1 DEF Tree
<1> DEFINE P == Rect(tree, p)
           N == Rect(tree, Append(a, near))
           D == Rect(tree, Append(a, far))
           F == Rect(tree, Append(a, "first"))
           S == Rect(tree, Append(a, "second"))
           M == {q \in DOMAIN tree : Under(Append(a, near), q) /\ Meet(P, Rect(tree, q), cr)}
<1>6. Wide(P, 1) /\ Wide(N, 1) /\ Wide(D, 1)
  BY <1>1, <1>5, RectShares
<1>7. Shared(Rect(tree, a), F, S, ax)
  BY <1>3, <1>5, RectShares
<1>8. Inside(P, D)
  BY <1>1, <1>3, <1>4, BelowIsInside
<1>9. (far = "first" /\ near = "second" /\ D = F /\ N = S)
        \/ (far = "second" /\ near = "first" /\ D = S /\ N = F)
  <2>1. D = Rect(tree, Append(a, far)) /\ N = Rect(tree, Append(a, near))
    OBVIOUS
  <2> HIDE DEF D, N, far, near
  <2>2. (far = "first" /\ near = "second") \/ (far = "second" /\ near = "first")
    BY <1>2, <1>4 DEF Branches
  <2> QED
    BY <2>1, <2>2
<1>10. Append(a, near) \in M
  <2> HIDE DEF P, N, D, F, S
  <2>1. From(N, cr) = From(D, cr) /\ To(N, cr) = To(D, cr)
    BY <1>2, <1>7, <1>9 DEF Shared
  <2>2. From(D, cr) <= From(P, cr) /\ To(P, cr) <= To(D, cr)
    BY <1>2, <1>8 DEF Inside
  <2>3. /\ From(P, cr) \in Int /\ To(P, cr) \in Int /\ From(P, cr) < To(P, cr)
        /\ From(D, cr) \in Int /\ To(D, cr) \in Int
    BY <1>2, <1>6, EndsOfBox
  <2>4. Meet(P, N, cr)
    BY <2>1, <2>2, <2>3 DEF Meet
  <2>5. Under(Append(a, near), Append(a, near))
    BY <1>4, GlueEmpty, EmptyPath DEF Under
  <2> QED
    BY <1>5, <2>4, <2>5 DEF N
<1>11. PICK q \in M : \A o \in M : Len(o) <= Len(q)
  <2>1. M \in SUBSET DOMAIN tree /\ M # {}
    BY <1>10
  <2> HIDE DEF M
  <2> QED
    BY <2>1, LongestPath
<1>12. /\ q \in DOMAIN tree /\ q \in Paths /\ tree[q] \in Nodes
       /\ Under(Append(a, near), q) /\ Meet(P, Rect(tree, q), cr)
  BY <1>11 DEF Tree
<1>13. ASSUME tree[q].type # "pane" PROVE FALSE
  <2>1. tree[q].type = "split"
    BY <1>12, <1>13 DEF Nodes
  <2> DEFINE Q == Rect(tree, q)
             G == Rect(tree, Append(q, "first"))
             H == Rect(tree, Append(q, "second"))
             cut == tree[q].orientation
  <2>2. cut \in Axes /\ Shared(Q, G, H, cut) /\ Wide(Q, 1)
    BY <1>12, <2>1, RectShares
  <2>3. /\ Append(q, "first") \in DOMAIN tree /\ Append(q, "second") \in DOMAIN tree
        /\ "first" \in Branches /\ "second" \in Branches
    BY <1>12, <2>1 DEF Tree, Branches
  <2>4. Wide(G, 1) /\ Wide(H, 1)
    BY <2>3, RectShares
  <2>5. Meet(P, Q, cr)
    BY <1>12
  <2> HIDE DEF P, Q, G, H, cut
  <2>6. Meet(P, G, cr) \/ Meet(P, H, cr)
    <3>1. /\ From(P, cr) \in Int /\ To(P, cr) \in Int /\ From(P, cr) < To(P, cr)
          /\ From(G, cr) \in Int /\ To(G, cr) \in Int /\ From(H, cr) \in Int /\ To(H, cr) \in Int
          /\ From(Q, cr) \in Int /\ To(Q, cr) \in Int
      BY <1>2, <1>6, <2>2, <2>4, EndsOfBox
    <3>2. /\ From(G, cr) = From(Q, cr) /\ To(H, cr) = To(Q, cr)
          /\ cr = cut => To(G, cr) = From(H, cr)
          /\ cr # cut => To(G, cr) = To(Q, cr) /\ From(H, cr) = From(Q, cr)
      BY <1>2, <2>2 DEF Shared
    <3> QED
      BY <2>5, <3>1, <3>2 DEF Meet
  <2>7. \A b \in Branches : /\ Under(Append(a, near), Append(q, b))
                            /\ Len(Append(q, b)) = Len(q) + 1 /\ Len(q) \in Nat
    BY <1>4, <1>12, UnderStep, AppendProperties, LenProperties DEF Paths
  <2>8. \E b \in Branches : Append(q, b) \in M
    BY <2>3, <2>6, <2>7 DEF G, H
  <2>9. PICK b \in Branches : Append(q, b) \in M
    BY <2>8
  <2>10. Len(Append(q, b)) <= Len(q)
    BY <1>11, <2>9
  <2> HIDE DEF M
  <2> QED
    BY <2>7, <2>10
<1>14. q \in Leaves(tree)
  BY <1>12, <1>13 DEF Leaves
<1>15. q # p
  <2>1. p[Len(a) + 1] = far
    BY <1>1, <1>2, <1>3, UnderChild
  <2>2. q[Len(a) + 1] = near
    BY <1>4, <1>12, UnderChild
  <2> QED
    BY <1>4, <2>1, <2>2
<1>16. InDirection(P, Rect(tree, q), direction)
  <2> DEFINE Q == Rect(tree, q)
  <2>1. Inside(Q, N)
    BY <1>4, <1>12, BelowIsInside
  <2>2. Wide(Q, 1)
    BY <1>12, RectShares
  <2>3. Meet(P, Q, cr)
    BY <1>12
  <2> HIDE DEF P, N, D, F, S, Q, M
  <2>4. /\ From(P, ax) \in Int /\ To(P, ax) \in Int /\ From(Q, ax) \in Int /\ To(Q, ax) \in Int
        /\ From(D, ax) \in Int /\ To(D, ax) \in Int /\ From(N, ax) \in Int /\ To(N, ax) \in Int
    BY <1>2, <1>6, <2>2, EndsOfBox
  <2>5. To(F, ax) = From(S, ax)
    BY <1>2, <1>7 DEF Shared
  <2>6. From(D, ax) <= From(P, ax) /\ To(P, ax) <= To(D, ax)
    BY <1>2, <1>8 DEF Inside
  <2>7. From(N, ax) <= From(Q, ax) /\ To(Q, ax) <= To(N, ax)
    BY <1>2, <2>1 DEF Inside
  <2>8. IF far = "second" THEN To(Q, ax) <= From(P, ax) ELSE From(Q, ax) >= To(P, ax)
    <3>1. CASE far = "second" /\ D = S /\ N = F
      BY <2>4, <2>5, <2>6, <2>7, <3>1
    <3>2. CASE far = "first" /\ D = F /\ N = S
      BY <2>4, <2>5, <2>6, <2>7, <3>2
    <3> QED
      BY <1>9, <3>1, <3>2
  <2> QED
    BY <2>3, <2>8, DirectionByAxis DEF Q, far, ax, cr
<1>17. q \in Leaves(tree) \ {p} /\ InDirection(Rect(tree, p), Rect(tree, q), direction)
  BY <1>14, <1>15, <1>16
<1> HIDE DEF P, N, D, F, S, M
<1> QED
  BY <1>17
-----------------------------------------------------------------------------
(* The pane a focus key chooses.                                             *)

\* The reading order of the panes of a tree is a total order.
LEMMA ReadingOrder ==
  ASSUME NEW t, Tree(t)
  PROVE  /\ \A p, q, r \in Leaves(t) : Before(p, q) /\ Before(q, r) => Before(p, r)
         /\ \A p \in Leaves(t) : ~Before(p, p)
         /\ \A p, q \in Leaves(t) : p # q => Before(p, q) \/ Before(q, p)
<1>1. \A p \in Leaves(t) : p \in Paths
  BY DEF Tree, Leaves
<1>2. ASSUME NEW p \in Leaves(t), NEW q \in Leaves(t), NEW r \in Leaves(t),
             Before(p, q), Before(q, r)
      PROVE  Before(p, r)
  <2>1. PICK i \in Nat : Part(p, q, i)
    BY <1>1, <1>2, BeforeIsPart
  <2>2. PICK j \in Nat : Part(q, r, j)
    BY <1>1, <1>2, BeforeIsPart
  <2>3. Len(p) \in Nat /\ Len(q) \in Nat /\ Len(r) \in Nat
    BY <1>1, LenProperties DEF Paths
  <2>4. /\ i \in 1..Len(p) /\ i \in 1..Len(q) /\ p[i] = "first" /\ q[i] = "second"
        /\ \A m \in 1..(i - 1) : p[m] = q[m]
    BY <2>1 DEF Part
  <2>5. /\ j \in 1..Len(q) /\ j \in 1..Len(r) /\ q[j] = "first" /\ r[j] = "second"
        /\ \A m \in 1..(j - 1) : q[m] = r[m]
    BY <2>2 DEF Part
  <2>6. "first" # "second"
    OBVIOUS
  <2>7. i # j
    BY <2>4, <2>5, <2>6
  <2>8. CASE i < j
    <3>1. i \in 1..(j - 1) /\ \A m \in 1..(i - 1) : m \in 1..(j - 1)
      BY <2>3, <2>4, <2>5, <2>8
    <3>2. i \in 1..Len(r)
      BY <2>3, <2>4, <2>5, <2>8
    <3>3. Part(p, r, i)
      BY <2>4, <2>5, <3>1, <3>2 DEF Part
    <3> QED
      BY <1>1, <3>3, BeforeIsPart
  <2>9. CASE j < i
    <3>1. j \in 1..(i - 1) /\ \A m \in 1..(j - 1) : m \in 1..(i - 1)
      BY <2>3, <2>4, <2>5, <2>9
    <3>2. j \in 1..Len(p)
      BY <2>3, <2>4, <2>5, <2>9
    <3>3. Part(p, r, j)
      BY <2>4, <2>5, <3>1, <3>2 DEF Part
    <3> QED
      BY <1>1, <3>3, BeforeIsPart
  <2> QED
    BY <2>7, <2>8, <2>9
<1>3. ASSUME NEW p \in Leaves(t) PROVE ~Before(p, p)
  <2>1. ASSUME NEW i \in Nat, Part(p, p, i) PROVE FALSE
    <3>1. p[i] = "first" /\ p[i] = "second"
      BY <2>1 DEF Part
    <3> QED
      BY <3>1
  <2> QED
    BY <1>1, <2>1, BeforeIsPart
<1>4. ASSUME NEW p \in Leaves(t), NEW q \in Leaves(t), p # q
      PROVE  Before(p, q) \/ Before(q, p)
  <2>1. PICK a \in Paths, b \in Branches :
           /\ p[Len(a) + 1] = b /\ q[Len(a) + 1] = Sibling(b)
           /\ Len(a) + 1 \in 1..Len(p) /\ Len(a) + 1 \in 1..Len(q)
           /\ \A m \in 1..Len(a) : p[m] = q[m]
    BY <1>4, PanesPart
  <2>2. PICK i \in Nat : i = Len(a) + 1 /\ i - 1 = Len(a)
    <3>1. Len(a) \in Nat
      BY LenProperties DEF Paths
    <3>2. Len(a) + 1 \in Nat /\ Len(a) + 1 - 1 = Len(a)
      BY <3>1
    <3> QED
      BY <3>2
  <2>3. PICK c : c = Sibling(b)
    OBVIOUS
  <2>4. c \in Branches /\ c # b
    BY <2>3, SiblingIsOther
  <2>5. (b = "first" /\ c = "second") \/ (b = "second" /\ c = "first")
    BY <2>4 DEF Branches
  <2>6. /\ i \in 1..Len(p) /\ i \in 1..Len(q) /\ p[i] = b /\ q[i] = c
        /\ \A m \in 1..(i - 1) : p[m] = q[m] /\ q[m] = p[m]
    BY <2>1, <2>2, <2>3
  <2>7. Part(p, q, i) \/ Part(q, p, i)
    BY <2>5, <2>6 DEF Part
  <2> QED
    BY <1>1, <2>7, BeforeIsPart
<1> QED
  BY <1>2, <1>3, <1>4

\* Of any panes one is the first.
LEMMA FirstPane ==
  ASSUME NEW t, Tree(t), Small(t), NEW S \in SUBSET Leaves(t), S # {}
  PROVE  \E p \in S : \A q \in S \ {p} : Before(p, q)
<1> DEFINE earlier(p) == {q \in S : Before(q, p)}
           T == {Cardinality(earlier(p)) : p \in S}
<1>1. IsFiniteSet(S)
  BY FS_Subset DEF Small
<1>2. ASSUME NEW p \in S
      PROVE  IsFiniteSet(earlier(p)) /\ Cardinality(earlier(p)) \in Nat
  <2>1. earlier(p) \in SUBSET S
    OBVIOUS
  <2> HIDE DEF earlier
  <2> QED
    BY <1>1, <2>1, FS_Subset, FS_CardinalityType
<1>3. PICK p \in S : \A q \in S : Cardinality(earlier(p)) <= Cardinality(earlier(q))
  <2>1. T \in SUBSET Nat /\ T # {}
    BY <1>2
  <2>2. \E n \in T : \A m \in T : n <= m
    <3> HIDE DEF T
    <3> QED
      BY <2>1, LeastNat
  <2> HIDE DEF earlier
  <2> QED
    BY <2>2
<1>4. ASSUME NEW q \in S \ {p}, ~Before(p, q)
      PROVE  FALSE
  <2>1. Before(q, p) /\ ~Before(q, q)
    BY <1>4, ReadingOrder
  <2>2. \A r \in S : Before(r, q) => Before(r, p)
    BY <2>1, ReadingOrder
  <2>3. earlier(q) \in SUBSET earlier(p) /\ q \in earlier(p) /\ q \notin earlier(q)
    BY <2>1, <2>2
  <2> HIDE DEF earlier
  <2>4. /\ Cardinality(earlier(q)) <= Cardinality(earlier(p))
        /\ Cardinality(earlier(p)) = Cardinality(earlier(q)) => earlier(p) = earlier(q)
    BY <1>2, <2>3, FS_Subset
  <2>5. Cardinality(earlier(p)) <= Cardinality(earlier(q))
    BY <1>3
  <2>6. Cardinality(earlier(p)) = Cardinality(earlier(q))
    BY <1>2, <2>4, <2>5
  <2> QED
    BY <2>3, <2>4, <2>6
<1> QED
  BY <1>4

\* A square is not negative.
LEMMA Square ==
  ASSUME NEW z \in Int
  PROVE  z * z \in Nat
<1>1. CASE z >= 0
  BY <1>1
<1>2. CASE z < 0
  <2>1. -z \in Nat /\ (-z) * (-z) = z * z
    BY <1>2
  <2>2. (-z) * (-z) \in Nat
    BY <2>1
  <2> QED
    BY <2>1, <2>2
<1> QED
  BY <1>1, <1>2

LEMMA DistanceIsNat ==
  ASSUME NEW r \in Boxes, NEW s \in Boxes
  PROVE  Distance(r, s) \in Nat
<1>1. PICK dx \in Int, dy \in Int :
         /\ dx = 2 * r.x + r.width - 2 * s.x - s.width
         /\ dy = 2 * r.y + r.height - 2 * s.y - s.height
  BY DEF Boxes
<1>2. dx * dx \in Nat /\ dy * dy \in Nat
  BY Square
<1>3. dx * dx + dy * dy \in Nat
  BY <1>2
<1> QED
  BY <1>1, <1>3 DEF Distance

\* Of any panes one is the nearest to a pane, and the first of those.
LEMMA NearestPane ==
  ASSUME NEW t, Tree(t), Small(t), NEW S \in SUBSET Leaves(t), S # {},
         NEW d, \A p \in S : d[p] \in Nat
  PROVE  \E p \in S : \A q \in S \ {p} : d[p] < d[q] \/ (d[p] = d[q] /\ Before(p, q))
<1> DEFINE T == {d[p] : p \in S}
<1>1. PICK n \in T : \A m \in T : n <= m
  <2>1. T \in SUBSET Nat /\ T # {}
    OBVIOUS
  <2> HIDE DEF T
  <2> QED
    BY <2>1, LeastNat
<1> DEFINE E == {p \in S : d[p] = n}
<1>2. E \in SUBSET Leaves(t) /\ E # {}
  OBVIOUS
<1>3. PICK p \in E : \A q \in E \ {p} : Before(p, q)
  <2> HIDE DEF E
  <2> QED
    BY <1>2, FirstPane
<1>4. ASSUME NEW q \in S \ {p}
      PROVE  d[p] < d[q] \/ (d[p] = d[q] /\ Before(p, q))
  <2>1. d[p] = n /\ d[p] \in Nat /\ d[q] \in Nat /\ n <= d[q]
    BY <1>1
  <2>2. CASE d[q] = n
    BY <1>3, <2>1, <2>2
  <2>3. CASE d[q] # n
    BY <2>1, <2>3
  <2> QED
    BY <2>2, <2>3
<1> QED
  BY <1>3, <1>4

\* A focus key finds nothing only if there is nobody.
LEMMA FocusFinds ==
  ASSUME Tree(tree), Small(tree), NEW path \in Leaves(tree), NEW direction \in Directions
  PROVE  FocusInDirection(tree, path, direction) = None <=>
           \A q \in Leaves(tree) \ {path} :
             ~InDirection(Rect(tree, path), Rect(tree, q), direction)
<1> DEFINE rects == Rects(tree)
           there == {p \in Leaves(tree) \ {path} : InDirection(rects[path], rects[p], direction)}
           far == [p \in there |-> Distance(rects[p], rects[path])]
           Nearest(p) == \A q \in there \ {p} :
                           far[p] < far[q] \/ (far[p] = far[q] /\ Before(p, q))
<1>1. \A p \in Leaves(tree) : rects[p] = Rect(tree, p)
  BY DEF Rects
<1>2. FocusInDirection(tree, path, direction) =
        IF there = {} THEN None ELSE CHOOSE p \in there : Nearest(p)
  BY DEF FocusInDirection
<1>3. \A p \in Leaves(tree) : p \in Paths /\ p \in DOMAIN tree
  BY DEF Tree, Leaves
<1>4. there = {} <=> \A q \in Leaves(tree) \ {path} :
                       ~InDirection(Rect(tree, path), Rect(tree, q), direction)
  <2> HIDE DEF rects
  <2> QED
    BY <1>1
<1>5. ASSUME there # {}
      PROVE  (CHOOSE p \in there : Nearest(p)) # None
  <2>1. ASSUME NEW p \in there PROVE far[p] \in Nat
    <3>1. rects[p] = Rect(tree, p) /\ rects[path] = Rect(tree, path) /\ p \in Leaves(tree)
      BY <1>1
    <3>2. Rect(tree, p) \in Boxes /\ Rect(tree, path) \in Boxes
      BY <1>3, <3>1, RectShares DEF Wide
    <3>3. far[p] = Distance(rects[p], rects[path])
      OBVIOUS
    <3> HIDE DEF far, rects
    <3> QED
      BY <3>1, <3>2, <3>3, DistanceIsNat
  <2>2. there \in SUBSET Leaves(tree)
    OBVIOUS
  <2>3. \E p \in there : Nearest(p)
    <3> HIDE DEF there, far, rects
    <3> QED
      BY <1>5, <2>1, <2>2, NearestPane
  <2> HIDE DEF Nearest
  <2>4. (CHOOSE p \in there : Nearest(p)) \in there
    BY <2>3
  <2>5. (CHOOSE p \in there : Nearest(p)) \in Paths
    <3> HIDE DEF there
    <3> QED
      BY <1>3, <2>2, <2>4
  <2> QED
    BY <2>5, PanesAssumption DEF Paths, Branches
<1> HIDE DEF there, Nearest
<1> QED
  BY <1>2, <1>4, <1>5

\* So it finds nothing exactly at the edge.
LEMMA FocusStops ==
  ASSUME Tree(tree), Small(tree)
  PROVE  FocusStopsAtEdge
<1> SUFFICES ASSUME NEW path \in Leaves(tree), NEW direction \in Directions
             PROVE  FocusInDirection(tree, path, direction) = None <=> AtEdge(path, direction)
  BY DEF FocusStopsAtEdge, Directions
<1>1. CASE AtEdge(path, direction)
  BY <1>1, NobodyBeyondEdge, FocusFinds
<1>2. CASE ~AtEdge(path, direction)
  BY <1>2, SomebodyElsewhere, FocusFinds
<1> QED
  BY <1>1, <1>2
-----------------------------------------------------------------------------
(* No operation makes a tree too large.                                      *)

\* Leaves whose panes are also in another tree are no more than the leaves there.
LEMMA NoMoreLeaves ==
  ASSUME NEW t, Tree(t), IsFiniteSet(Leaves(t)), NEW u, Tree(u), NEW S \in SUBSET Leaves(u),
         \A q \in S : u[q].panel \in Keys(t)
  PROVE  IsFiniteSet(S) /\ Cardinality(S) <= Cardinality(Leaves(t))
<1> DEFINE g == [q \in S |-> CHOOSE p \in Leaves(t) : t[p].panel = u[q].panel]
<1>1. ASSUME NEW q \in S
      PROVE  g[q] \in Leaves(t) /\ t[g[q]].panel = u[q].panel
  <2>1. \E p \in Leaves(t) : t[p].panel = u[q].panel
    BY DEF Keys
  <2> QED
    BY <2>1
<1>2. g \in [S -> Leaves(t)]
  BY <1>1
<1> HIDE DEF g
<1>3. \A p, q \in S : g[p] = g[q] => p = q
  BY <1>1 DEF Tree
<1>4. g \in Injection(S, Leaves(t))
  BY <1>2, <1>3 DEF Injection, IsInjective
<1> QED
  BY <1>4, FS_Injection

LEMMA OnePaneIsSmall ==
  ASSUME NEW k \in Panels, NEW t, t = [p \in {<<>>} |-> PaneNode(k)]
  PROVE  Small(t)
<1>1. Leaves(t) = {<<>>} /\ DOMAIN t = {<<>>}
  BY DEF Leaves, PaneNode
<1>2. IsFiniteSet({<<>>}) /\ Cardinality({<<>>}) = 1
  BY FS_Singleton
<1>3. 1 <= MaxPanes
  BY PanesAssumption
<1>4. Len(<<>>) = 0
  BY EmptySeq
<1>5. \A p \in DOMAIN t : Len(p) <= 0
  BY <1>1, <1>4
<1> QED
  BY <1>1, <1>2, <1>3, <1>5 DEF Small

LEMMA SplitIsSmall ==
  ASSUME NEW t, Tree(t), Small(t), Cardinality(Leaves(t)) < MaxPanes,
         NEW path \in Leaves(t), NEW k \in Panels \ Keys(t),
         NEW branch \in Branches, NEW orientation \in {"horizontal", "vertical"},
         NEW position \in Int,
         NEW u, u = SplitLeaf(t, path, SplitNode(orientation, position), k, branch)
  PROVE  Small(u)
<1> DEFINE new == Append(path, branch)
           old == Append(path, Sibling(branch))
<1>1. /\ Tree(u) /\ path \in Paths
      /\ new \in Leaves(u) /\ u[new].panel = k /\ old \in Leaves(u) /\ u[old] = t[path]
      /\ Leaves(u) = (Leaves(t) \ {path}) \cup {new, old}
      /\ \A p \in Leaves(t) \ {path} : u[p] = t[p]
  BY SplitKeepsTree
<1>2. DOMAIN u = DOMAIN t \cup {new, old}
  BY DEF SplitLeaf
<1>3. Len(path) \in Nat /\ Len(new) = Len(path) + 1 /\ Len(old) = Len(path) + 1
  BY <1>1, SiblingIsOther, AppendProperties, LenProperties DEF Paths
<1>4. \A p \in DOMAIN t : Len(p) \in Nat
  BY LenProperties DEF Tree, Paths
<1> HIDE DEF new, old
<1>5. \E n \in Nat : \A p \in DOMAIN u : Len(p) <= n
  <2>1. PICK n \in Nat : \A p \in DOMAIN t : Len(p) <= n
    BY DEF Small
  <2>2. path \in DOMAIN t
    BY DEF Leaves
  <2>3. \A p \in DOMAIN u : Len(p) <= n + 1
    BY <1>2, <1>3, <1>4, <2>1, <2>2
  <2>4. n + 1 \in Nat
    OBVIOUS
  <2> QED
    BY <2>3, <2>4
<1>6. /\ IsFiniteSet(Leaves(u) \ {new})
      /\ Cardinality(Leaves(u) \ {new}) <= Cardinality(Leaves(t))
  <2>1. \A q \in Leaves(u) \ {new} : u[q].panel \in Keys(t)
    BY <1>1 DEF Keys
  <2> QED
    BY <1>1, <2>1, NoMoreLeaves DEF Small
<1>7. /\ IsFiniteSet(Leaves(u))
      /\ Cardinality(Leaves(u)) = Cardinality(Leaves(u) \ {new}) + 1
  <2>1. Leaves(u) = (Leaves(u) \ {new}) \cup {new}
    BY <1>1
  <2>2. PICK L : L = Leaves(u) \ {new}
    OBVIOUS
  <2>3. new \notin L /\ IsFiniteSet(L) /\ Leaves(u) = L \cup {new}
    BY <1>6, <2>1, <2>2
  <2>4. IsFiniteSet(L \cup {new}) /\ Cardinality(L \cup {new}) = Cardinality(L) + 1
    BY <2>3, FS_AddElement
  <2> QED
    BY <2>2, <2>3, <2>4
<1>8. /\ Cardinality(Leaves(t)) \in Nat /\ Cardinality(Leaves(u) \ {new}) \in Nat
      /\ MaxPanes \in Nat
  BY <1>6, FS_CardinalityType, PanesAssumption DEF Small
<1>9. Cardinality(Leaves(u)) <= MaxPanes
  BY <1>6, <1>7, <1>8
<1> QED
  BY <1>5, <1>7, <1>9 DEF Small

LEMMA CloseIsSmall ==
  ASSUME NEW t, Tree(t), Small(t), NEW path \in Leaves(t), path # <<>>,
         NEW u, u = ClosePane(t, path)
  PROVE  Small(u)
<1>1. path \in Paths /\ path \in DOMAIN t
  BY DEF Leaves, Tree
<1>2. PICK a \in Paths, c \in Branches : path = Append(a, c)
  BY <1>1, PathFront
<1> DEFINE up == Append(a, Sibling(c))
<1>3. Tree(u)
  BY <1>2, CloseKeepsTree
<1>4. /\ \A q \in Paths : ~Under(a, q) =>
           /\ q \in DOMAIN u <=> q \in DOMAIN t
           /\ q \in DOMAIN t => u[q] = t[q]
      /\ \A s \in Paths :
           /\ a \o s \in DOMAIN u <=> up \o s \in DOMAIN t
           /\ a \o s \in DOMAIN u => u[a \o s] = t[up \o s]
  BY <1>2, CloseShape
<1>5. up \in Paths /\ Len(a) \in Nat /\ Len(up) = Len(a) + 1
  BY SiblingIsOther, PathAppend, AppendProperties, LenProperties DEF Paths
<1> HIDE DEF up
<1>6. ASSUME NEW q \in DOMAIN u
      PROVE  \E p \in DOMAIN t : t[p] = u[q] /\ Len(q) <= Len(p)
  <2>1. q \in Paths /\ Len(q) \in Nat
    BY <1>3, LenProperties DEF Tree, Paths
  <2>2. CASE ~Under(a, q)
    <3>1. q \in DOMAIN t /\ t[q] = u[q] /\ Len(q) <= Len(q)
      BY <1>4, <2>1, <2>2
    <3> QED
      BY <3>1
  <2>3. CASE Under(a, q)
    <3>1. PICK s \in Paths : q = a \o s
      BY <2>3 DEF Under
    <3>2. up \o s \in DOMAIN t /\ t[up \o s] = u[q]
      BY <1>4, <3>1
    <3>3. Len(q) = Len(a) + Len(s) /\ Len(up \o s) = Len(up) + Len(s) /\ Len(s) \in Nat
      BY <1>5, <3>1, GluePlaces
    <3>4. Len(q) <= Len(up \o s)
      BY <1>5, <3>3
    <3> QED
      BY <3>2, <3>4
  <2> QED
    BY <2>2, <2>3
<1>7. \E n \in Nat : \A p \in DOMAIN u : Len(p) <= n
  <2>1. PICK n \in Nat : \A p \in DOMAIN t : Len(p) <= n
    BY DEF Small
  <2>2. ASSUME NEW q \in DOMAIN u PROVE Len(q) <= n
    <3>1. PICK p \in DOMAIN t : Len(q) <= Len(p)
      BY <1>6
    <3>2. Len(p) \in Nat /\ Len(q) \in Nat /\ Len(p) <= n
      BY <1>3, <2>1, LenProperties DEF Tree, Paths
    <3> QED
      BY <3>1, <3>2
  <2> QED
    BY <2>2
<1>8. \A q \in Leaves(u) : u[q].panel \in Keys(t)
  <2> SUFFICES ASSUME NEW q \in Leaves(u) PROVE u[q].panel \in Keys(t)
    OBVIOUS
  <2>1. q \in DOMAIN u /\ u[q].type = "pane"
    BY DEF Leaves
  <2>2. PICK p \in DOMAIN t : t[p] = u[q]
    BY <1>6, <2>1
  <2> QED
    BY <2>1, <2>2 DEF Leaves, Keys
<1>9. IsFiniteSet(Leaves(u)) /\ Cardinality(Leaves(u)) <= Cardinality(Leaves(t))
  BY <1>3, <1>8, NoMoreLeaves DEF Small
<1>10. /\ Cardinality(Leaves(t)) \in Nat /\ Cardinality(Leaves(u)) \in Nat
       /\ Cardinality(Leaves(t)) <= MaxPanes /\ MaxPanes \in Nat
  BY <1>9, FS_CardinalityType, PanesAssumption DEF Small
<1>11. Cardinality(Leaves(u)) <= MaxPanes
  BY <1>9, <1>10
<1> QED
  BY <1>7, <1>9, <1>11 DEF Small

\* Moving the dividers leaves the panes where they are.
LEMMA SamePathsSmall ==
  ASSUME NEW t, Small(t), NEW u, DOMAIN u = DOMAIN t,
         \A p \in DOMAIN t : u[p].type = t[p].type
  PROVE  Small(u)
<1>1. Leaves(u) = Leaves(t)
  BY DEF Leaves
<1> QED
  BY <1>1 DEF Small

LEMMA TreeOperationIsSmall ==
  ASSUME Tree(tree), Small(tree), TreeOperation
  PROVE  Small(tree')
<1>1. PICK t, u : t = tree /\ u = tree'
  OBVIOUS
<1>2. Tree(t) /\ Small(t)
  BY <1>1
<1>3. ASSUME NEW k \in Panels \ Keys(tree), NEW path \in Leaves(tree), NEW branch \in Branches,
             NEW orientation \in {"horizontal", "vertical"}, NEW position \in Positions,
             Split(path, orientation, position, k, branch)
      PROVE  Small(u)
  <2>1. position \in Int
    BY PanesAssumption
  <2> QED
    BY <1>1, <1>3, <2>1, SplitIsSmall DEF Split
<1>4. ASSUME NEW path \in Leaves(tree), Close(path)
      PROVE  Small(u)
  BY <1>1, <1>4, CloseIsSmall DEF Close
<1>5. ASSUME NEW path \in DOMAIN tree \ Leaves(tree), NEW position \in Positions,
             ResizeDivider(path, position)
      PROVE  Small(u)
  <2>1. u = [t EXCEPT ![path] = [t[path] EXCEPT !.divider = ClampDivider(position)]]
    BY <1>1, <1>5 DEF ResizeDivider
  <2>2. path \in DOMAIN t /\ t[path].type # "pane" /\ t = [p \in DOMAIN t |-> t[p]]
        /\ \A p \in DOMAIN t : t[p] \in Nodes
    BY <1>1, <1>2 DEF Leaves, Tree
  <2>3. /\ DOMAIN u = DOMAIN t
        /\ \A p \in DOMAIN t : p # path => u[p] = t[p]
        /\ u[path] = [t[path] EXCEPT !.divider = ClampDivider(position)]
    BY <2>1, <2>2
  <2>4. u[path].type = t[path].type
    BY <2>2, <2>3 DEF Nodes
  <2> QED
    BY <1>2, <2>3, <2>4, SamePathsSmall
<1>6. ASSUME Equalize
      PROVE  Small(u)
  <2>1. u = [p \in DOMAIN t |->
               IF t[p].type = "split" THEN [t[p] EXCEPT !.divider = 5] ELSE t[p]]
    BY <1>1, <1>6 DEF Equalize, EqualizeTree
  <2>2. \A p \in DOMAIN t : t[p] \in Nodes
    BY <1>2 DEF Tree
  <2>3. \A p \in DOMAIN t : u[p].type = t[p].type
    BY <2>1, <2>2 DEF Nodes
  <2>4. DOMAIN u = DOMAIN t
    BY <2>1
  <2> QED
    BY <1>2, <2>3, <2>4, SamePathsSmall
<1>7. Small(u)
  <2>1. CASE \E k \in Panels \ Keys(tree), path \in Leaves(tree), branch \in Branches,
               orientation \in {"horizontal", "vertical"}, position \in Positions :
                 Split(path, orientation, position, k, branch)
    BY <1>3, <2>1
  <2>2. CASE \E path \in Leaves(tree) : Close(path)
    BY <1>4, <2>2
  <2>3. CASE \E path \in DOMAIN tree \ Leaves(tree), position \in Positions :
               ResizeDivider(path, position)
    BY <1>5, <2>3
  <2> QED
    BY <1>6, <2>1, <2>2, <2>3 DEF TreeOperation
<1> QED
  BY <1>1, <1>7

\* The tree and what is drawn of it agree in every layout: it is well formed, and a
\* focus key finds a pane everywhere but at the edge of the workspace, whatever was
\* split, closed and resized before (focusInDirection of focus-nav.ts).
THEOREM LayoutAlwaysSound == Spec => []LayoutSound
<1> DEFINE Inv == LayoutInv /\ Small(tree)
<1>1. Init => Inv
  BY OnePaneIsTree, OnePaneIsSmall DEF Init, PanesInit, LayoutInv
<1>2. Inv /\ [Next]_vars => Inv'
  <2> SUFFICES ASSUME Inv, [Next]_vars
               PROVE  Small(tree)'
    BY LayoutStep
  <2>1. CASE TreeOperation
    BY <2>1, TreeOperationIsSmall DEF LayoutInv
  <2>2. CASE UNCHANGED tree
    BY <2>2
  <2> QED
    BY <2>1, <2>2, StepsOfPanes DEF Render, Output, panesVars
<1>3. Inv => FocusStopsAtEdge
  BY FocusStops DEF LayoutInv
<1> HIDE DEF Inv
<1> QED
  BY <1>1, <1>2, <1>3, LayoutAlwaysTyped, PTL DEF Spec, LayoutSound
=============================================================================
