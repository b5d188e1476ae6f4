--------------------------- MODULE MCNotifications ---------------------------
(* Notifications, and the panes they ring on, with constants for model       *)
(* checking: up to three panes, one of which sends notifications.            *)
EXTENDS Notifications

CONSTANTS a, b, c

MCPanels == {a, b, c}
MCPrinting == {a}
MCPositions == {0, 5}

\* The silent panes are alike.
Silent == Permutations({b, c})
=============================================================================
