------------------------------- MODULE SplitTree -------------------------------
(***************************************************************************)
(* The split tree of a workspace (src/panes/split-tree.ts) and where its   *)
(* panes are (focus-nav.ts).                                               *)
(*                                                                         *)
(* A tree is a function from paths to nodes.  A pane holds one surface and *)
(* goes by its panel id.  Fractions count tenths.                          *)
(***************************************************************************)
EXTENDS Integers, Sequences, FiniteSets, SequencesExt

CONSTANTS
  Panels,     \* panel ids: each names at most one pane of a tree
  Positions,  \* divider positions asked for, legal or not
  Printing,   \* the panes whose shells print something
  MaxPanes,   \* bound: panes in a tree
  None        \* no pane in that direction

ASSUME PanesAssumption ==
  /\ Panels # {} /\ Printing \subseteq Panels
  /\ Positions \subseteq Int
  /\ MaxPanes \in Nat \ {0}
  /\ None \notin Seq({"first", "second"})

-----------------------------------------------------------------------------
(* The tree.                                                               *)

Branches == {"first", "second"}

Sibling(branch) == CHOOSE other \in Branches : other # branch

PaneNode(k) == [type |-> "pane", panel |-> k]

ClampDivider(position) ==
  IF position < 1 THEN 1 ELSE IF position > 9 THEN 9 ELSE position

SplitNode(orientation, position) ==
  [type |-> "split", orientation |-> orientation, divider |-> ClampDivider(position)]

\* collectPanes: the paths of the leaves, and the panes there.
Leaves(t) == {p \in DOMAIN t : t[p].type = "pane"}
Keys(t) == {t[p].panel : p \in Leaves(t)}

PathOf(t, k) == CHOOSE p \in DOMAIN t : t[p] = PaneNode(k)

\* Depth first, first before second.
Before(p, q) ==
  \E i \in DOMAIN p \cap DOMAIN q :
    p[i] = "first" /\ q[i] = "second" /\ SubSeq(p, 1, i - 1) = SubSeq(q, 1, i - 1)

\* splitLeaf: the leaf at `path` becomes a split of itself and a new leaf,
\* which goes to `branch`.
SplitLeaf(t, path, node, k, branch) ==
  LET new == Append(path, branch)
      old == Append(path, Sibling(branch))
  IN [p \in DOMAIN t \cup {new, old} |->
        CASE p = path -> node
          [] p = new -> PaneNode(k)
          [] p = old -> t[path]
          [] OTHER -> t[p]]

\* Mutant of Surviving: the child at the path stays and its sibling goes.
SurvivingTarget(path) == path

\* The child of a split that is left when the one at `path` is closed.
Surviving(path) == Append(Front(path), Sibling(Last(path)))

\* removeAt: the subtree of the sibling moves up to the place of their parent.
ClosePane(t, path) ==
  LET parent == Front(path)
      up == Surviving(path)
      Lifted(p) == parent \o SubSeq(p, Len(up) + 1, Len(p))
      moved == {p \in DOMAIN t : IsPrefix(up, p)}
      stay == {p \in DOMAIN t : ~IsPrefix(parent, p)}
  IN [q \in stay \cup {Lifted(p) : p \in moved} |->
        IF q \in stay THEN t[q] ELSE t[CHOOSE p \in moved : Lifted(p) = q]]

EqualizeTree(t) ==
  [p \in DOMAIN t |-> IF t[p].type = "split" THEN [t[p] EXCEPT !.divider = 5] ELSE t[p]]

-----------------------------------------------------------------------------
(* Where the panes are.                                                    *)

Power[n \in Nat] == IF n = 0 THEN 1 ELSE 10 * Power[n - 1]

\* The side of the workspace: every cut down to MaxPanes panes comes out even.
Unit == Power[MaxPanes - 1]

Whole == [x |-> 0, y |-> 0, width |-> Unit, height |-> Unit]

\* Mutant of Cut: the second child of a top-bottom split starts at the top.
CutFromTop(r, node, branch) ==
  LET w == (r.width * node.divider) \div 10
      h == (r.height * node.divider) \div 10
  IN CASE node.orientation = "horizontal" /\ branch = "first" -> [r EXCEPT !.width = w]
       [] node.orientation = "horizontal" /\ branch = "second" ->
            [r EXCEPT !.x = @ + w, !.width = @ - w]
       [] node.orientation = "vertical" /\ branch = "first" -> [r EXCEPT !.height = h]
       [] node.orientation = "vertical" /\ branch = "second" -> [r EXCEPT !.height = @ - h]

\* What a child of a split gets of the split's rectangle.
Cut(r, node, branch) ==
  LET w == (r.width * node.divider) \div 10
      h == (r.height * node.divider) \div 10
  IN CASE node.orientation = "horizontal" /\ branch = "first" -> [r EXCEPT !.width = w]
       [] node.orientation = "horizontal" /\ branch = "second" ->
            [r EXCEPT !.x = @ + w, !.width = @ - w]
       [] node.orientation = "vertical" /\ branch = "first" -> [r EXCEPT !.height = h]
       [] node.orientation = "vertical" /\ branch = "second" ->
            [r EXCEPT !.y = @ + h, !.height = @ - h]

\* The rectangle of the pane at a path.
Rect(t, path) ==
  LET rect[n \in 0..Len(path)] ==
        IF n = 0 THEN Whole ELSE Cut(rect[n - 1], t[SubSeq(path, 1, n - 1)], path[n])
  IN rect[Len(path)]

\* computeRects
Rects(t) == [p \in Leaves(t) |-> Rect(t, p)]

Overlap(start1, length1, start2, length2) ==
  start1 < start2 + length2 /\ start2 < start1 + length1

InDirection(from, r, direction) ==
  LET sameRow == Overlap(from.y, from.height, r.y, r.height)
      sameColumn == Overlap(from.x, from.width, r.x, r.width)
  IN CASE direction = "left" -> r.x + r.width <= from.x /\ sameRow
       [] direction = "right" -> r.x >= from.x + from.width /\ sameRow
       [] direction = "up" -> r.y + r.height <= from.y /\ sameColumn
       [] direction = "down" -> r.y >= from.y + from.height /\ sameColumn

\* Of the centres, four times the square of their distance.
Distance(r1, r2) ==
  LET dx == 2 * r1.x + r1.width - 2 * r2.x - r2.width
      dy == 2 * r1.y + r1.height - 2 * r2.y - r2.height
  IN dx * dx + dy * dy

\* focusInDirection: the nearest pane there, the first one if there are two.
FocusInDirection(t, path, direction) ==
  LET rects == Rects(t)
      from == rects[path]
      there == {p \in Leaves(t) \ {path} : InDirection(from, rects[p], direction)}
      far == [p \in there |-> Distance(rects[p], from)]
  IN IF there = {} THEN None
     ELSE CHOOSE p \in there : \A q \in there \ {p} :
            far[p] < far[q] \/ (far[p] = far[q] /\ Before(p, q))

=============================================================================
