---------------------------- MODULE MCWorkspaces ----------------------------
(* Workspaces with its constants for model checking.                         *)
EXTENDS Workspaces

CONSTANTS a, b, c, drag, step

MCIds == {a, b, c}
MCGestures == {drag, step}
=============================================================================
