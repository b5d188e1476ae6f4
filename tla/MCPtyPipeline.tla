---------------------------- MODULE MCPtyPipeline ----------------------------
(* PtyPipeline with its constants for model checking.                        *)
EXTENDS PtyPipeline

CONSTANTS p1, p2

MCPanes == {p1, p2}

\* The panes are alike: the first spawn is for p1.  (A symmetry set would not be
\* sound for the liveness properties.)
FirstPane == paneOf[1] # p2
=============================================================================
