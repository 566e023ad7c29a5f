---------------------------- MODULE MCAgentFleet ----------------------------
(* An agent that may be embedded and a standalone one, both Critics.        *)
EXTENDS AgentFleet

CONSTANTS i1, i2, critic

MCKind == [i \in Instance |-> critic]
=============================================================================
