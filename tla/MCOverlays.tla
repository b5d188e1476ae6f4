----------------------------- MODULE MCOverlays -----------------------------
(* Overlays with its constants for model checking.                           *)
EXTENDS Overlays

CONSTANTS p1, plain, proxied, u1, u2

MCPanes == {p1}
MCParams == {plain, proxied}
MCUrls == {u1, u2}
=============================================================================
