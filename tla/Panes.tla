-------------------------------- MODULE Panes --------------------------------
(***************************************************************************)
(* The panes of a workspace: the operations on the split tree              *)
(* (src/panes/split-tree.ts), the neighbour a focus key looks for          *)
(* (focus-nav.ts), and what a render comes to: which panes have a host     *)
(* element, and which of these have something to lose.  How the renderer   *)
(* gets there is PaneRenderer.tla.                                         *)
(*                                                                         *)
(* The operations return a new tree; the renderer hears of it when the     *)
(* host next calls render, maybe several operations later.                 *)
(***************************************************************************)
EXTENDS SplitTree

VARIABLES
  tree,    \* the LayoutNode of the workspace
  hosts,   \* PaneRenderer.hosts: the panes that have a host element
  content  \* the hosts whose terminal has output: scrollback to lose

panesVars == <<tree, hosts, content>>

-----------------------------------------------------------------------------
PanesInit ==
  /\ \E k \in Panels : tree = [p \in {<<>>} |-> PaneNode(k)]
  /\ hosts = {}
  /\ content = {}

Split(path, orientation, position, k, branch) ==
  /\ path \in Leaves(tree)
  /\ k \notin Keys(tree)
  /\ Cardinality(Leaves(tree)) < MaxPanes
  /\ tree' = SplitLeaf(tree, path, SplitNode(orientation, position), k, branch)
  /\ UNCHANGED <<hosts, content>>

\* closePane of a pane.  It gives null for the last one, and leaves it to the
\* caller what that means: left out.
Close(path) ==
  /\ path \in Leaves(tree)
  /\ path # <<>>
  /\ tree' = ClosePane(tree, path)
  /\ UNCHANGED <<hosts, content>>

ResizeDivider(path, position) ==
  /\ path \in DOMAIN tree \ Leaves(tree)
  /\ tree' = [tree EXCEPT ![path].divider = ClampDivider(position)]
  /\ UNCHANGED <<hosts, content>>

Equalize ==
  /\ tree' = EqualizeTree(tree)
  /\ UNCHANGED <<hosts, content>>

\* PaneRenderer.render, from one call to its return: the panes of the tree have a
\* host, those that had one the same.
Render ==
  /\ hosts' = Keys(tree)
  /\ content' = content \cap Keys(tree)
  /\ UNCHANGED tree

\* The terminal in a host gets output.
Output(k) ==
  /\ k \in hosts \cap Printing
  /\ content' = content \cup {k}
  /\ UNCHANGED <<tree, hosts>>

TreeOperation ==
  \/ \E k \in Panels \ Keys(tree), path \in Leaves(tree), branch \in Branches,
        orientation \in {"horizontal", "vertical"}, position \in Positions :
       Split(path, orientation, position, k, branch)
  \/ \E path \in Leaves(tree) : Close(path)
  \/ \E path \in DOMAIN tree \ Leaves(tree), position \in Positions :
       ResizeDivider(path, position)
  \/ Equalize

PanesNext == TreeOperation \/ Render \/ \E k \in Panels : Output(k)

PanesSpec == PanesInit /\ [][PanesNext]_panesVars

-----------------------------------------------------------------------------
(* Properties.                                                             *)

\* The tree is a binary tree whose splits have two children each and a legal
\* divider, and whose leaves are different panes.
TreeOK ==
  /\ <<>> \in DOMAIN tree
  /\ \A p \in DOMAIN tree :
       /\ tree[p].type = "pane" => tree[p].panel \in Panels
       /\ tree[p].type = "split" => tree[p].divider \in 1..9
       /\ \A branch \in Branches :
            Append(p, branch) \in DOMAIN tree <=> tree[p].type = "split"
       /\ p # <<>> => Front(p) \in DOMAIN tree
  /\ \A p, q \in Leaves(tree) : tree[p].panel = tree[q].panel => p = q

\* An operation adds or removes one pane at most, and the panes it leaves alone
\* keep their reading order, however deep the subtree that moved up.
OthersStay ==
  [][tree' # tree =>
       /\ Cardinality((Keys(tree) \ Keys(tree')) \cup (Keys(tree') \ Keys(tree))) <= 1
       /\ \A j, k \in Keys(tree) \cap Keys(tree') :
            Before(PathOf(tree, j), PathOf(tree, k))
              => Before(PathOf(tree', j), PathOf(tree', k))]_panesVars

\* A pane is at an edge of the workspace if no split above it that cuts along
\* that axis has it on the far side.
AtEdge(path, direction) ==
  LET axis == IF direction \in {"left", "right"} THEN "horizontal" ELSE "vertical"
      far == IF direction \in {"left", "up"} THEN "second" ELSE "first"
  IN \A i \in DOMAIN path :
       tree[SubSeq(path, 1, i - 1)].orientation = axis => path[i] # far

\* In a layout that is drawn, a focus key does nothing at the edge of the
\* workspace, and anywhere else it finds a pane: the rectangles agree with the
\* tree (focus-nav.ts: "or `null` at the edge").
FocusStopsAtEdge ==
  hosts = Keys(tree) =>
    \A path \in Leaves(tree), direction \in {"left", "right", "up", "down"} :
      FocusInDirection(tree, path, direction) = None <=> AtEdge(path, direction)
=============================================================================
