----------------------------- MODULE ForkPolicy -----------------------------
(***************************************************************************)
(* How a fork of an MV-Register pointer is decided: the comparison of      *)
(* version vectors, and the two policies that meet on the same queue, the  *)
(* Fork Resolution Agent's (causally newest, else last written, else first *)
(* by name) and the Critic's (last by name).  Object ids are content       *)
(* hashes; only their order matters, so they are naturals.                 *)
(***************************************************************************)
EXTENDS Naturals, Sequences, FiniteSetsExt

\* v is at or before w in every component (EQUAL or dominated, causality_check).
Before(v, w) == \A r \in DOMAIN v : v[r] <= w[r]
Dominates(v, w) == Before(w, v) /\ v # w

(* A candidate is [id, vv, at]; at is the created_at of its pointer row, 0 for none.   *)
(* The candidate at i strictly dominates another and is dominated by no other.         *)
IsCausallyNewest(candidates, i) ==
    LET others == DOMAIN candidates \ {i} IN
    /\ \A j \in others : Before(candidates[j].vv, candidates[i].vv)
    /\ others # {} => \E j \in others : Dominates(candidates[i].vv, candidates[j].vv)

Ids(candidates) == {candidates[i].id : i \in DOMAIN candidates}
Stamped(candidates) == {i \in DOMAIN candidates : candidates[i].at # 0}
LastWritten(candidates) ==
    {i \in Stamped(candidates) : \A j \in Stamped(candidates) : candidates[j].at <= candidates[i].at}
StampsDiffer(candidates) ==
    \E i, j \in Stamped(candidates) : candidates[i].at # candidates[j].at

\* Variant: equal timestamps are left to the order of the list.
LatestWriteFirstListed(candidates) == candidates[Min(LastWritten(candidates))].id
LatestWrite(candidates) == Max({candidates[i].id : i \in LastWritten(candidates)})

\* Variant: the timestamp is looked at before causality.
WinnerByTime(candidates) ==
    IF StampsDiffer(candidates) THEN LatestWrite(candidates) ELSE Min(Ids(candidates))

SelectWinner(candidates) ==
    LET newest == {i \in DOMAIN candidates : IsCausallyNewest(candidates, i)} IN
    IF newest # {} THEN candidates[Min(newest)].id
    ELSE IF StampsDiffer(candidates) THEN LatestWrite(candidates)
    ELSE Min(Ids(candidates))

CriticWinner(ids) == Max(ids)

\* As the store has them: no two rows have one vector, and no row has the empty one.
Stored(candidates) ==
    \A i, j \in DOMAIN candidates :
        /\ candidates[i].at = 0 <=> \A r \in DOMAIN candidates[i].vv : candidates[i].vv[r] = 0
        /\ candidates[i].at # 0 /\ candidates[i].vv = candidates[j].vv => i = j

\* The orders in which S can be listed, given one.
Orders(S) == {p \in [S -> S] : \A i, j \in S : p[i] = p[j] => i = j}

(* Agents that list the candidates of a fork in different orders, as replicas do,      *)
(* choose the same winner: otherwise the pointer would be collapsed to two objects.    *)
WinnerIsOrderFree(candidates) ==
    Stored(candidates) => \A p \in Orders(DOMAIN candidates) :
        SelectWinner([i \in DOMAIN candidates |-> candidates[p[i]]]) = SelectWinner(candidates)
=============================================================================
