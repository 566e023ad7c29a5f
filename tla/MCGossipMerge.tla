---------------------------- MODULE MCGossipMerge ----------------------------
(* Two objects and a relation between them.  A client of the server and a      *)
(* Critic with its own Runtime merge one branch, which changes another field   *)
(* of o1 than the target did and the same of o2; other processes edit.         *)
EXTENDS GossipMerge

CONSTANTS s1, b1, o1, o2, r, name, text, c1, k1, p1, p2

Content2(n, t) == [f \in Field |-> IF f = name THEN n ELSE t]
MCParticipants == [o \in Object |-> IF o = r THEN {o1, o2} ELSE {}]
MCProcessOf == [a \in Critic |-> p2]

MCTarget == [b \in Branch |-> s1]
MCOurs ==
    [s \in Session |->
        [o \in Object |-> IF o = r THEN Content2("edited", "base") ELSE Content2("base", "edited")]]
MCTheirs ==
    [b \in Branch |->
        [o \in Object |-> IF o = o1 THEN Content2(b, "base")
                          ELSE IF o = o2 THEN Content2("base", b) ELSE Fork]]
=============================================================================
