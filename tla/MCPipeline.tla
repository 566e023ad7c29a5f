----------------------------- MODULE MCPipeline -----------------------------
(* One object, two orchestrators.                                           *)
EXTENDS Pipeline

CONSTANTS o1, w1, w2
=============================================================================
