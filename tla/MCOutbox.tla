------------------------------ MODULE MCOutbox ------------------------------
(* Instances of Outbox for TLC: two agents with different retry budgets     *)
(* (the Critic's and the Fork agent's policies differ) on one queue.        *)
EXTENDS Outbox

CONSTANTS t1, w1, w2

MCBudget == [w \in Worker |-> IF w = w1 THEN 2 ELSE 3]
=============================================================================
