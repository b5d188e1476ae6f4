---------------------------- MODULE MCTerminalFlow ----------------------------
(* TerminalFlow with its constants for model checking.                        *)
EXTENDS TerminalFlow

CONSTANTS p1

MCPanes == {p1}
=============================================================================
