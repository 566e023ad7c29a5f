-------------------------- MODULE MCContradictions --------------------------
(* A mutual exclusion and a functional relation that share a relation, with *)
(* one Critic and two Arbiters.                                             *)
EXTENDS Contradictions

CONSTANTS cr, ar1, ar2

MCExclusive == {<<2, 1>>}
MCFunctional == {{2, 3}}
=============================================================================
