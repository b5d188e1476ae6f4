----------------------------- MODULE MCAgentRpc -----------------------------
(* AgentRpc with its constants for model checking.  The tokens are short    *)
(* and share a first byte: a verify that looks at less than all of it shows. *)
EXTENDS AgentRpc

CONSTANTS a1, a2, c1

MCApps == {a1, a2}
MCClients == {c1}
MCSecret == [a \in Apps |-> IF a = a1 THEN <<7, 1>> ELSE <<7, 2>>]
MCTries == {"get", "notify", "oversize", "unknown"}
=============================================================================
