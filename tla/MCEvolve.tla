------------------------------ MODULE MCEvolve ------------------------------
(* Two processes; a relation r that needs its participant a.                *)
EXTENDS EvolveCommit

CONSTANTS e1, e2, e3, e4, t1, p1, p2, a, r

Op(k, o) == [kind |-> k, obj |-> o]

MCProcessOf == [c \in Call |-> IF c \in {e1, t1} THEN p1 ELSE p2]

\* e1 adds the relation; e2 adds it too; e3 and e4 edit a; the tool removes it.
MCOps == [c \in Call |->
    IF c \in {e1, e2} THEN {Op("add", r)}
    ELSE IF c \in {e3, e4} THEN {Op("update", a)} ELSE {Op("remove", a)}]

MCInitial == [o \in Object |-> IF o = a THEN Original ELSE Absent]

MCValid == {s \in Structure : s[r] # Absent => s[a] # Absent}
=============================================================================
