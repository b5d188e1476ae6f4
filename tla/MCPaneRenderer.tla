---------------------------- MODULE MCPaneRenderer ----------------------------
(* PaneRenderer with constants for model checking: up to three panes, two of *)
(* which print, and one element more than there are panes.                   *)
EXTENDS PaneRenderer, TLC

CONSTANTS a, b, c, e1, e2, e3, e4

MCPanels == {a, b, c}
MCPrinting == {a, b}
MCPositions == {5}
MCElements == {e1, e2, e3, e4}

\* Elements are alike, and so are the panes that print.
Alike == {s @@ t : s \in Permutations({a, b}), t \in Permutations(MCElements)}
=============================================================================
