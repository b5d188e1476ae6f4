--------------------------- MODULE MCSshConnections ---------------------------
(* SshConnections with its constants for model checking.                      *)
EXTENDS SshConnections

CONSTANTS ws, k1, k2

MCIds == {ws}
MCHostKeys == {k1, k2}
=============================================================================
