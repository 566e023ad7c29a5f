---------------------------- MODULE MCInference ----------------------------
(* One task with two disputed conclusions and one stale premise, two agents. *)
EXTENDS InferenceResolver, TLC

CONSTANTS t1, w1, w2, c1, c2, p1

MCOnce == [w \in Worker |-> 1]
MCConclusion == [t \in Task |-> {c1, c2}]
MCPremise == [t \in Task |-> {p1}]

\* No property and no constant tells the agents or the conclusions apart.
MCSymmetry == Permutations(Worker) \cup Permutations({c1, c2})
=============================================================================
