----------------------------- MODULE LcaArbiter -----------------------------
(***************************************************************************)
(* The LCA Arbiter: the point of a session's knowledge graph nearest to    *)
(* both branches of a fork, what each branch changed since, and the        *)
(* verdict that follows.  Every replica computes the verdict by itself, so *)
(* it may not depend on which branch is named first.                       *)
(*                                                                         *)
(* A graph G is [nodes, edges]; an edge is the set of a relation's         *)
(* participants.  Ids only matter by their order and are naturals.         *)
(***************************************************************************)
EXTENDS Naturals, FiniteSetsExt

CONSTANTS Graph,        \* the session graphs the verdict is stated for
          SearchDepth,  \* the values of max_depth
          Rejected      \* the sets of nodes that validation may find wrong

\* The relations of a graph hold between some of its nodes.
Hypergraph(G) ==
    /\ G.nodes \in SUBSET Nat /\ IsFiniteSet(G.nodes)
    /\ G.edges \in SUBSET SUBSET G.nodes /\ IsFiniteSet(G.edges)

ASSUME GraphAssumption == (\A G \in Graph : Hypergraph(G)) /\ SearchDepth \subseteq Nat

(* query_subgraph without filters or budget, by depth: the nodes within so many hops  *)
(* of the seeds, hops being undirected and over relations of any arity.               *)
Neighbourhood(G, seeds, depth) ==
    LET within[d \in 0..depth] ==
            IF d = 0 THEN seeds \cap G.nodes
            ELSE within[d - 1] \cup UNION {e \in G.edges : e \cap within[d - 1] # {}}
    IN  within

\* The depth at which a probe of increasing depth first returned the node.
FirstSeen(within, n) == Min({d \in DOMAIN within : n \in within[d]})
Grew(within, d) == Cardinality(within[d]) # Cardinality(within[d - 1])

NotFound == [found |-> FALSE, lca |-> 0, depthA |-> 0, depthB |-> 0]
Found(n, a, b) == [found |-> TRUE, lca |-> n, depthA |-> a, depthB |-> b]

\* Variant: the last depth is not tried.
SearchEndsShort(A, B, maxDepth) ==
    Min({maxDepth + 1} \cup {d \in 0..(maxDepth - 1) : A[d] \cap B[d] # {}})
(* The depth at which the search of find_lca ends: the neighbourhoods meet, or neither *)
(* has grown.  maxDepth + 1 when neither happens.                                      *)
SearchEnds(A, B, maxDepth) ==
    Min({maxDepth + 1} \cup
        {d \in 0..maxDepth : \/ A[d] \cap B[d] # {}
                             \/ d > 0 /\ ~Grew(A, d) /\ ~Grew(B, d)})

\* Of the common nodes the one with the least <<sum of depths, greater depth, id>>.
Nearest(A, B, common) ==
    LET sum(n) == FirstSeen(A, n) + FirstSeen(B, n)
        far(n) == Max({FirstSeen(A, n), FirstSeen(B, n)})
        before(n, o) == \/ sum(n) < sum(o)
                        \/ sum(n) = sum(o) /\ far(n) < far(o)
                        \/ sum(n) = sum(o) /\ far(n) = far(o) /\ n < o
    IN  CHOOSE n \in common : \A o \in common \ {n} : before(n, o)

\* The ancestor where the neighbourhoods meet at depth d, if they do.
AncestorAt(A, B, d) ==
    LET n == Nearest(A, B, A[d] \cap B[d]) IN
    IF A[d] \cap B[d] = {} THEN NotFound ELSE Found(n, FirstSeen(A, n), FirstSeen(B, n))

FindLca(G, a, b, maxDepth) ==
    LET A == Neighbourhood(G, {a}, maxDepth)
        B == Neighbourhood(G, {b}, maxDepth)
        d == SearchEnds(A, B, maxDepth)
    IN  IF a = b THEN Found(a, 0, 0)
        ELSE IF ~({a, b} \subseteq G.nodes) \/ d > maxDepth THEN NotFound
        ELSE AncestorAt(A, B, d)

\* The relations query_subgraph returns with the nodes: those whose participants are all there.
Induced(G, nodes) == {e \in G.edges : e \subseteq nodes}

(* extract_delta: the neighbourhood of the ancestor and the branch together, as wide   *)
(* as they are apart; the branch alone when it is the ancestor or out of reach.        *)
ExtractDelta(G, lca, object, maxDepth) ==
    LET probe == Neighbourhood(G, {lca}, maxDepth)
        distance == FirstSeen(probe, object)
        nodes == Neighbourhood(G, {lca, object}, distance)[distance]
    IN  IF lca = object \/ object \notin probe[maxDepth]
        THEN [nodes |-> {object} \cap G.nodes, edges |-> {}]
        ELSE [nodes |-> nodes, edges |-> Induced(G, nodes)]

ClassifyConflict(deltaA, deltaB) ==
    IF deltaA.nodes \cap deltaB.nodes # {} THEN "competing_claims" ELSE "non_overlapping"

Unresolved == [resolved |-> FALSE, strategy |-> "none", winner |-> 0, lca |-> 0, branches |-> {}]

WinnerOf(a, b, validA, validB) ==
    IF validA /\ ~validB THEN a ELSE IF validB /\ ~validA THEN b ELSE 0

\* _branch_is_valid, with validate_knowledge standing for: none of the nodes is bad.
Valid(delta, bad) == delta.nodes \cap bad = {}

(* The verdict on the deltas of a fork's branches.  The Resolution object is named by   *)
(* the strategy, the ancestor and the sorted branches.                                 *)
Verdict(a, b, lca, deltaA, deltaB, bad) ==
    LET overlap == ClassifyConflict(deltaA, deltaB)
        winner == IF overlap = "competing_claims" THEN WinnerOf(a, b, Valid(deltaA, bad), Valid(deltaB, bad))
                  ELSE 0
    IN  [resolved |-> TRUE, strategy |-> IF winner # 0 THEN "erroneous_branch" ELSE overlap,
         winner |-> winner, lca |-> lca, branches |-> {a, b}]

\* resolve_with_lca.
ResolveWithLca(G, a, b, bad, maxDepth) ==
    LET found == FindLca(G, a, b, maxDepth) IN
    IF ~found.found THEN Unresolved
    ELSE Verdict(a, b, found.lca, ExtractDelta(G, found.lca, a, maxDepth),
                 ExtractDelta(G, found.lca, b, maxDepth), bad)

(* _try_lca_resolution: the first pair of the candidates, in their order, whose branches *)
(* are both in the session and of which one wins; 0 leaves the fork to SelectWinner.   *)
TryLca(G, ids, bad, maxDepth) ==
    LET verdict(p) == ResolveWithLca(G, ids[p[1]], ids[p[2]], bad, maxDepth).winner
        conclusive == {p \in (DOMAIN ids) \X (DOMAIN ids) :
                          p[1] < p[2] /\ {ids[p[1]], ids[p[2]]} \subseteq G.nodes /\ verdict(p) # 0}
        first == CHOOSE p \in conclusive : \A q \in conclusive : p[1] < q[1] \/ (p[1] = q[1] /\ p[2] <= q[2])
    IN  IF conclusive = {} THEN 0 ELSE verdict(first)

-----------------------------------------------------------------------------
(* Reference definitions and properties                                     *)

\* E links a to b: no set of nodes that E does not leave has one without the other.
Links(G, E, a, b) ==
    \A S \in SUBSET G.nodes : a \in S /\ (\A e \in E : e \cap S # {} => e \subseteq S) => b \in S
Linked(G, a, b) == Links(G, G.edges, a, b)
\* The least number of relations that link them.
Distance(G, a, b) == Min({Cardinality(E) : E \in {F \in SUBSET G.edges : Links(G, F, a, b)}})

(* find_lca, which stops at the first depth where the neighbourhoods meet and gives up *)
(* when neither grows, finds an ancestor exactly when the branches are within twice    *)
(* the depth of each other, and one on a shortest path between them.                   *)
LcaOnShortestPath(G, a, b, maxDepth) ==
    LET f == FindLca(G, a, b, maxDepth) IN
    /\ f.found <=> Linked(G, a, b) /\ Distance(G, a, b) <= 2 * maxDepth
    /\ f.found => /\ f.depthA + f.depthB = Distance(G, a, b)
                  /\ f.depthA = Distance(G, a, f.lca) /\ f.depthB = Distance(G, b, f.lca)

(* Two replicas that list the branches in opposite orders reach the same verdict,      *)
(* record the same Resolution object and choose the same candidate of the fork.        *)
VerdictIsSymmetric(G, a, b, bad, maxDepth) ==
    /\ ResolveWithLca(G, a, b, bad, maxDepth) = ResolveWithLca(G, b, a, bad, maxDepth)
    /\ TryLca(G, <<a, b>>, bad, maxDepth) = TryLca(G, <<b, a>>, bad, maxDepth)

(* An erroneous_branch verdict drops the branch that is at fault: what is wrong is in  *)
(* the neighbourhood of the loser and not between the ancestor and the winner.         *)
LoserIsAtFault(G, a, b, bad, maxDepth) ==
    LET v == ResolveWithLca(G, a, b, bad, maxDepth)
        loser == IF v.winner = a THEN b ELSE a
    IN  v.winner # 0 =>
        /\ Valid(ExtractDelta(G, v.lca, v.winner, maxDepth), bad)
        /\ ~Valid(ExtractDelta(G, v.lca, loser, maxDepth), bad)

VerdictsAreRight ==
    \A G \in Graph : \A a, b \in G.nodes, depth \in SearchDepth :
        /\ LcaOnShortestPath(G, a, b, depth)
        /\ \A bad \in Rejected : /\ VerdictIsSymmetric(G, a, b, bad, depth)
                                 /\ LoserIsAtFault(G, a, b, bad, depth)
=============================================================================
