------------------------------ MODULE MCReview ------------------------------
(* Two requests of operators in flight beside two agents that give up after *)
(* two and after three attempts.                                            *)
EXTENDS DeadLetterReview, TLC

CONSTANTS t1, w1, w2, h1, h2

\* Requests differ in nothing.
MCSymmetry == Permutations(Handler)

MCBudget == [w \in Worker |-> IF w = w1 THEN 2 ELSE 3]
=============================================================================
