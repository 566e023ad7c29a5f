------------------------------ MODULE MCForks ------------------------------
(* Three writes by two replicas, one agent of each policy.  The LCA Arbiter *)
(* is a function of the session's graph: its properties are evaluated over  *)
(* a set of graphs, once, in the initial state.                             *)
EXTENDS ForkResolution, LcaArbiter

CONSTANTS r1, r2, fa, cr

\* Five nodes and up to four of these relations: paths, cycles, a relation of three.
Node == 1..5
MCGraph == {[nodes |-> Node, edges |-> E] :
               E \in {F \in SUBSET {{1, 2}, {2, 3}, {3, 4}, {4, 5}, {1, 5}, {1, 2, 3}} : Cardinality(F) <= 4}}

(* The LCA Arbiter's ancestor is on a shortest path between the branches, at the depths of *)
(* search considered (LcaOnShortestPath); with some nodes that validation rejects, its     *)
(* verdict does not depend on the order of the branches (VerdictIsSymmetric) and drops the *)
(* one that is at fault (LoserIsAtFault).                                                  *)
LcaVerdictIsRight == written = {} => VerdictsAreRight
=============================================================================
