------------------------ MODULE ContradictionsProofs ------------------------
(***************************************************************************)
(* Theorems of Contradictions, for any relations, contradictions, agents   *)
(* and faults.                                                             *)
(***************************************************************************)
EXTENDS Contradictions, FiniteSetTheorems, NaturalsInduction, TLAPS

-----------------------------------------------------------------------------
(* The inductive invariant                                                 *)

\* Whoever is at work has a task, and whoever evolves has seen the relations it decides
\* about in its own copy.
SeenInCopy ==
    \A a \in Agent :
        /\ agent[a].pc # "idle" => agent[a].at \in Location
        /\ agent[a].pc = "evolve" =>
              /\ agent[a].about \in Contradiction
              /\ agent[a].about.relations \subseteq copy[a].relations
              /\ a \in Arbiter => agent[a].keep \in agent[a].about.relations

\* A relation that is in a copy and no longer in the session was taken away or lost.
Lost(d, r) == r \in d.about.relations /\ (d.critic => r = Min(d.about.relations))
Accounted ==
    \A a \in Agent : \A r \in copy[a].relations :
        \/ r \in head.relations \cup takenAway.relations
        \/ \E d \in decided : Lost(d, r)

\* The verdict of an Arbiter is there, unless it was taken away.
VerdictsKept ==
    \A d \in decided : ~d.critic => d.about \in head.verdicts \cup takenAway.verdicts

\* Critics leave a relation that comes after all that they dropped.
CriticsLeave ==
    \A R \in SUBSET Relation : Settled(R) /\ ByCritics(R) =>
        \E m \in R \cap head.relations : \A d \in DecidedIn(R) : Min(d.about.relations) < m

ArbitersLeave ==
    \A R \in SUBSET Relation : Settled(R) /\ ByOneVerdict(R) => R \cap head.relations # {}

SurvivalInv ==
    TypeOK /\ SeenInCopy /\ Accounted /\ VerdictsKept /\ CriticsLeave /\ ArbitersLeave

-----------------------------------------------------------------------------
(* What is found                                                           *)

LEMMA MinOfNaturals ==
    ASSUME NEW S \in SUBSET Nat, S # {}
    PROVE  Min(S) \in S /\ \A r \in S : Min(S) <= r
<1> DEFINE Less == {ss \in Nat \X Nat : ss[1] < ss[2]}
<1>1. PICK m \in S : \A r \in S : <<r, m>> \notin Less
  <2>1. IsWellFoundedOn(Less, Nat)
    BY NatLessThanWellFounded DEF OpToRel
  <2> HIDE DEF Less
  <2>2. QED BY <2>1, WFMin
<1>2. ASSUME NEW r \in S PROVE m <= r
  <2>1. <<r, m>> \in Nat \X Nat /\ ~(r < m)
    BY <1>1
  <2>2. QED BY <2>1
<1>3. QED BY <1>2 DEF Min

LEMMA FoundIsContradiction ==
    ASSUME NEW S \in SUBSET Relation, NEW c \in Contradicting(S)
    PROVE  c \in Contradiction /\ c.relations \subseteq S
<1>1. CASE \E p \in Exclusive :
              {p[1], p[2]} \subseteq S
              /\ c = [id |-> p[1], kind |-> "exclusive", relations |-> {p[1], p[2]}]
  <2>1. PICK p \in Exclusive :
              {p[1], p[2]} \subseteq S
              /\ c = [id |-> p[1], kind |-> "exclusive", relations |-> {p[1], p[2]}]
    BY <1>1
  <2>2. p[1] \in Relation /\ p[2] \in Relation /\ p[1] # p[2]
    BY RelationAssumption
  <2>3. {p[1], p[2]} \in {T \in SUBSET Relation : \E r, t \in T : r # t}
    BY <2>2
  <2>4. QED BY <2>1, <2>2, <2>3 DEF Contradiction
<1>2. ASSUME NEW F \in Functional, Cardinality(F \cap S) > 1,
             c = [id |-> Min(F \cap S), kind |-> "functional", relations |-> F \cap S]
      PROVE  c \in Contradiction /\ c.relations \subseteq S
  <2>1. F \cap S \in SUBSET Relation /\ F \cap S \in SUBSET Nat
    BY RelationAssumption
  <2>2. F \cap S # {}
    BY <1>2, FS_EmptySet
  <2>3. Min(F \cap S) \in F \cap S
    BY <2>1, <2>2, MinOfNaturals
  <2>4. F \cap S # {Min(F \cap S)}
    BY <1>2, FS_Singleton
  <2>5. \E r, t \in F \cap S : r # t
    BY <2>3, <2>4
  <2>6. QED BY <1>2, <2>1, <2>3, <2>5 DEF Contradiction
<1>3. QED BY <1>1, <1>2 DEF Contradicting

LEMMA AboutIsContradiction ==
    ASSUME TypeOK, NEW a \in Agent, About(a) # None
    PROVE  About(a) \in Contradiction /\ About(a).relations \subseteq copy[a].relations
<1>1. copy[a].relations \in SUBSET Relation
  BY DEF TypeOK, Structure
<1>2. About(a) \in Contradicting(copy[a].relations)
  BY DEF About, Named
<1>3. QED BY <1>1, <1>2, FoundIsContradiction

-----------------------------------------------------------------------------
(* Type correctness                                                        *)

LEMMA ContradictionsTypeInit == Init => TypeOK
BY RelationAssumption DEF Init, TypeOK, Run, Structure, Task, Ended, Idle

\* An agent that moves on within its attempt.
LEMMA GotoType ==
    ASSUME TypeOK, NEW a \in Agent, NEW p \in {"idle", "look", "evolve", "resolved", "failed"},
           Goto(a, p)
    PROVE  agent' \in [Agent -> Run]
BY DEF TypeOK, Run, Goto

LEMMA KeepType ==
    ASSUME TypeOK, NEW a \in Agent, NEW c \in Contradiction, NEW r \in Relation \cup {0},
           Keep(a, c, r)
    PROVE  agent' \in [Agent -> Run]
<1> DEFINE old == agent[a]
<1>1. agent' = [agent EXCEPT ![a] = [old EXCEPT !.pc = "evolve", !.about = c, !.keep = r]]
  BY DEF TypeOK, Keep
<1>2. old \in Run
  BY DEF TypeOK
<1>3. [old EXCEPT !.pc = "evolve", !.about = c, !.keep = r] \in Run
  <2> HIDE DEF old
  <2>1. QED BY <1>2 DEF Run
<1>4. QED BY <1>1, <1>3 DEF TypeOK

LEMMA DecisionIs ==
    ASSUME SeenInCopy, NEW a \in Agent, agent[a].pc = "evolve"
    PROVE  Decision(a) \in Verdict /\ Decision(a).relations = agent[a].about.relations
BY DEF SeenInCopy, Decision, VerdictOn, Verdict, Contradiction

\* A commit of what an agent has seen, from its copy or from the head.
LEMMA CommitType ==
    ASSUME TypeOK, SeenInCopy, NEW a \in Agent, NEW s \in Structure, agent[a].pc = "evolve",
           Committed(a, s), UNCHANGED <<task, edits, sweeps, faults>>
    PROVE  TypeOK'
<1>1. Decision(a) \in Verdict
  BY DecisionIs
<1>2. Evolved(a, s) \in Structure
  BY <1>1 DEF Evolved, Structure
<1>3. takenAway' \in Structure
  BY DEF Committed, TypeOK, Structure
<1>4. decided' \subseteq [about : Verdict, critic : BOOLEAN]
  <2> DEFINE critic == a \in Critic
  <2>1. critic \in BOOLEAN
    OBVIOUS
  <2>2. decided' = decided \cup {[about |-> Decision(a), critic |-> critic]}
    BY DEF Committed
  <2> HIDE DEF critic
  <2>3. QED BY <1>1, <2>1, <2>2 DEF TypeOK
<1>5. QED BY <1>2, <1>3, <1>4, GotoType DEF Committed, TypeOK

LEMMA ContradictionsTypeStep == TypeOK /\ SeenInCopy /\ [Next]_vars => TypeOK'
<1> SUFFICES ASSUME TypeOK, SeenInCopy, [Next]_vars PROVE TypeOK'
  OBVIOUS
<1>1. ASSUME NEW r \in Relation, AddRelation(r) \/ RemoveRelation(r) PROVE TypeOK'
  BY <1>1 DEF AddRelation, RemoveRelation, TypeOK, Structure
<1>2. ASSUME NEW l \in Location, LoseLease(l) PROVE TypeOK'
  BY <1>2 DEF LoseLease, TypeOK, Task
<1>3. ASSUME NEW c \in Contradicting(head.relations), Sweep(c) PROVE TypeOK'
  <2>1. c \in Contradiction
    BY FoundIsContradiction DEF TypeOK, Structure
  <2>2. LocationOf(c) \in Location
    BY <2>1 DEF Contradiction, Location, LocationOf
  <2>3. QED BY <1>3, <2>2 DEF Sweep, TypeOK, Task
<1>4. ASSUME NEW a \in Agent, Restart(a) PROVE TypeOK'
  <2>1. agent' \in [Agent -> Run] /\ copy' \in [Agent -> Structure] /\ faults' \in Nat
    BY <1>4 DEF Restart, TypeOK, Run, Idle
  <2>2. task' \in [Location -> Task]
    <3>1. CASE task' = [task EXCEPT ![agent[a].at].state = "pending"]
      BY <3>1 DEF TypeOK, Task
    <3>2. CASE task' = task
      BY <3>2 DEF TypeOK
    <3>3. QED BY <1>4, <3>1, <3>2 DEF Restart
  <2>3. QED BY <1>4, <2>1, <2>2 DEF Restart, TypeOK
<1>5. ASSUME NEW a \in Agent, NEW l \in Location, Claim(a, l) PROVE TypeOK'
  BY <1>5 DEF Claim, TypeOK, Run, Idle, Task
<1>6. ASSUME NEW a \in Agent, Gone(a) \/ Arbitrated(a) \/ LLMFails(a) PROVE TypeOK'
  BY <1>6, GotoType DEF Gone, Arbitrated, LLMFails, TypeOK
<1>7. ASSUME NEW a \in Agent, CriticDecides(a) PROVE TypeOK'
  BY <1>7, AboutIsContradiction, KeepType DEF CriticDecides, TypeOK
<1>8. ASSUME NEW a \in Agent, NEW r \in Relation, ArbiterDecides(a, r) PROVE TypeOK'
  BY <1>8, AboutIsContradiction, KeepType DEF ArbiterDecides, TypeOK
<1>9. ASSUME NEW a \in Agent, Evolve(a) PROVE TypeOK'
  <2>1. CASE Committed(a, copy[a]) /\ UNCHANGED <<task, edits, sweeps, faults>>
    BY <1>9, <2>1, CommitType DEF Evolve, TypeOK
  <2>2. CASE Refused(a) /\ UNCHANGED copy
    BY <1>9, <2>2, GotoType DEF Evolve, Refused, TypeOK
  <2>3. QED BY <1>9, <2>1, <2>2 DEF Evolve
<1>10. ASSUME NEW a \in Agent, EvolveAfterConflict(a) PROVE TypeOK'
  <2>1. CASE Committed(a, head)
    BY <1>10, <2>1, CommitType DEF EvolveAfterConflict, TypeOK
  <2>2. CASE Refused(a) /\ copy' = [copy EXCEPT ![a] = head]
    BY <1>10, <2>2, GotoType DEF EvolveAfterConflict, Refused, TypeOK
  <2>3. CASE Applied(a) /\ Goto(a, "resolved") /\ copy' = [copy EXCEPT ![a] = head]
             /\ UNCHANGED <<head, decided, takenAway>>
    BY <1>10, <2>3, GotoType DEF EvolveAfterConflict, TypeOK
  <2>4. QED BY <1>10, <2>1, <2>2, <2>3 DEF EvolveAfterConflict
<1>11. ASSUME NEW a \in Agent, Report(a) PROVE TypeOK'
  <2>1. agent' \in [Agent -> Run]
    BY <1>11 DEF Report, TypeOK, Run, Idle
  <2>2. task' \in [Location -> Task]
    <3>1. NextRetry(a) \in Nat
      BY DEF TypeOK, Run, NextRetry, Task
    <3>2. \/ task' = task
          \/ \E row \in Task :
                 task' = [task EXCEPT ![agent[a].at] = row]
      <4>1. task[agent[a].at] \in Task
        BY <1>11 DEF Report, SeenInCopy, TypeOK
      <4>2. [task[agent[a].at] EXCEPT !.state = "pending", !.retry = NextRetry(a)] \in Task
        BY <3>1, <4>1 DEF Task
      <4>3. Ended("done") \in Task /\ Ended("dead") \in Task
        BY DEF Ended, Task
      <4>4. QED BY <1>11, <4>2, <4>3 DEF Report
    <3>3. QED BY <3>2 DEF TypeOK
  <2>3. QED BY <1>11, <2>1, <2>2 DEF Report, TypeOK
<1>12. CASE UNCHANGED vars
  BY <1>12 DEF vars, TypeOK
<1>13. QED
  BY <1>1, <1>2, <1>3, <1>4, <1>5, <1>6, <1>7, <1>8, <1>9, <1>10, <1>11, <1>12 DEF Next, Resolve

-----------------------------------------------------------------------------
(* What a commit drops                                                     *)

LEMMA LosersAreSeen ==
    ASSUME TypeOK, SeenInCopy, NEW a \in Agent, agent[a].pc = "evolve"
    PROVE  LET D == agent[a].about.relations IN
           /\ D \in SUBSET Relation /\ D \subseteq copy[a].relations
           /\ Losers(a) \subseteq D
           /\ a \in Critic => /\ Losers(a) = {Min(D)}
                             /\ \E r \in D : Min(D) < r
           /\ a \notin Critic => \E r \in D : r \notin Losers(a)
<1> DEFINE D == agent[a].about.relations
<1>1. D \in SUBSET Relation /\ D \subseteq copy[a].relations /\ \E r, t \in D : r # t
  BY DEF SeenInCopy, Contradiction
<1>2. D \in SUBSET Nat /\ D # {}
  BY <1>1, RelationAssumption
<1>3. Min(D) \in D /\ \A r \in D : Min(D) <= r
  <2> HIDE DEF D
  <2>1. QED BY <1>2, MinOfNaturals
<1>4. \E r \in D : Min(D) < r
  <2> HIDE DEF D
  <2>1. PICK r \in D : r # Min(D)
    BY <1>1, <1>3
  <2>2. r \in Nat /\ Min(D) \in Nat /\ Min(D) <= r
    BY <1>2, <1>3
  <2>3. QED BY <2>1, <2>2
<1>5. CASE a \in Critic
  BY <1>1, <1>3, <1>4, <1>5 DEF Losers
<1>6. CASE a \notin Critic
  <2>1. agent[a].keep \in D
    BY <1>6 DEF SeenInCopy, Agent
  <2>2. QED BY <1>1, <1>6, <2>1 DEF Losers
<1>7. QED BY <1>5, <1>6

\* What the commit of agent a, made from structure s, does to the history.
LEMMA CommitEffect ==
    ASSUME TypeOK, SeenInCopy, NEW a \in Agent, NEW s \in Structure, agent[a].pc = "evolve",
           Committed(a, s)
    PROVE  /\ head'.relations = s.relations \ Losers(a)
           /\ s.verdicts \subseteq head'.verdicts
           /\ a \notin Critic => Decision(a) \in head'.verdicts
           /\ copy' = [copy EXCEPT ![a] = head']
           /\ \E d \in [about : Verdict, critic : BOOLEAN] :
                 /\ d.about = Decision(a) /\ (d.critic <=> a \in Critic)
                 /\ decided' = decided \cup {d}
           /\ takenAway'.relations = takenAway.relations \cup (head.relations \ s.relations)
           /\ takenAway'.verdicts = takenAway.verdicts \cup (head.verdicts \ s.verdicts)
<1>1. /\ head'.relations = s.relations \ Losers(a)
      /\ s.verdicts \subseteq head'.verdicts
      /\ a \notin Critic => Decision(a) \in head'.verdicts
  BY DEF Committed, Evolved, Agent
<1>2. \E d \in [about : Verdict, critic : BOOLEAN] :
          /\ d.about = Decision(a) /\ (d.critic <=> a \in Critic)
          /\ decided' = decided \cup {d}
  <2> DEFINE critic == a \in Critic
             d == [about |-> Decision(a), critic |-> critic]
  <2>1. critic \in BOOLEAN
    OBVIOUS
  <2>2. Decision(a) \in Verdict /\ decided' = decided \cup {d}
    BY DecisionIs DEF Committed
  <2>3. d \in [about : Verdict, critic : BOOLEAN] /\ d.about = Decision(a) /\ (d.critic <=> critic)
    <3> HIDE DEF critic
    <3>1. QED BY <2>1, <2>2
  <2>4. QED BY <2>2, <2>3
<1>3. QED BY <1>1, <1>2 DEF Committed

-----------------------------------------------------------------------------
(* A commit keeps the invariant                                            *)

LEMMA CommitAccounts ==
    ASSUME TypeOK, SeenInCopy, Accounted, NEW a \in Agent, NEW s \in Structure,
           agent[a].pc = "evolve", Committed(a, s)
    PROVE  Accounted'
<1> SUFFICES ASSUME NEW x \in Agent, NEW r \in copy'[x].relations
             PROVE  \/ r \in head'.relations \cup takenAway'.relations
                    \/ \E d \in decided' : Lost(d, r)
  BY DEF Accounted, Lost
<1>1. CASE x = a
  BY <1>1, CommitEffect DEF TypeOK
<1>2. CASE x # a
  <2>1. r \in copy[x].relations
    BY <1>2, CommitEffect DEF TypeOK
  <2>2. CASE r \in Losers(a)
    <3>1. PICK d \in [about : Verdict, critic : BOOLEAN] :
              /\ d.about = Decision(a) /\ (d.critic <=> a \in Critic)
              /\ decided' = decided \cup {d}
      BY CommitEffect
    <3>2. Lost(d, r)
      BY <2>2, <3>1, LosersAreSeen, DecisionIs DEF Lost
    <3>3. QED BY <3>1, <3>2
  <2>3. CASE r \in head.relations /\ r \notin Losers(a)
    BY <2>3, CommitEffect
  <2>4. CASE r \in takenAway.relations
    BY <2>4, CommitEffect
  <2>5. CASE \E d \in decided : Lost(d, r)
    BY <2>5, CommitEffect
  <2>6. QED BY <2>1, <2>2, <2>3, <2>4, <2>5 DEF Accounted
<1>3. QED BY <1>1, <1>2

LEMMA CommitKeepsVerdicts ==
    ASSUME TypeOK, SeenInCopy, VerdictsKept, NEW a \in Agent, NEW s \in Structure,
           agent[a].pc = "evolve", Committed(a, s)
    PROVE  VerdictsKept'
<1> SUFFICES ASSUME NEW d \in decided', ~d.critic
             PROVE  d.about \in head'.verdicts \cup takenAway'.verdicts
  BY DEF VerdictsKept
<1>1. PICK e \in [about : Verdict, critic : BOOLEAN] :
          /\ e.about = Decision(a) /\ (e.critic <=> a \in Critic)
          /\ decided' = decided \cup {e}
  BY CommitEffect
<1>2. CASE d = e
  BY <1>1, <1>2, CommitEffect
<1>3. CASE d \in decided
  BY <1>3, CommitEffect DEF VerdictsKept
<1>4. QED BY <1>1, <1>2, <1>3

LEMMA CommitLeavesByCritics ==
    ASSUME TypeOK, SeenInCopy, Accounted, CriticsLeave, NEW a \in Agent, NEW s \in Structure,
           s = copy[a] \/ s = head, agent[a].pc = "evolve", Committed(a, s)
    PROVE  CriticsLeave'
<1> DEFINE D == agent[a].about.relations
<1> SUFFICES ASSUME NEW R \in SUBSET Relation, Settled(R)', ByCritics(R)'
             PROVE  \E m \in R \cap head'.relations : \A d \in DecidedIn(R)' : Min(d.about.relations) < m
  BY DEF CriticsLeave
<1>1. PICK e \in [about : Verdict, critic : BOOLEAN] :
          /\ e.about = Decision(a) /\ (e.critic <=> a \in Critic)
          /\ decided' = decided \cup {e}
  BY CommitEffect
<1>2. /\ \A d \in decided' : d.about.relations \cap R # {} => d.about.relations \subseteq R /\ d.critic
      /\ R \cap takenAway'.relations = {}
      /\ R \cap takenAway.relations = {}
  BY CommitEffect DEF Settled, ByCritics, DecidedIn
<1>3. DecidedIn(R) # {} => Settled(R) /\ ByCritics(R)
  BY <1>1, <1>2 DEF Settled, ByCritics, DecidedIn
<1>4. R \cap head.relations \subseteq s.relations
  BY <1>2, CommitEffect
<1>5. D # {} /\ Losers(a) \subseteq D /\ Decision(a).relations = D
  BY LosersAreSeen, DecisionIs
\* A contradiction of other relations.
<1>6. CASE D \cap R = {}
  <2>1. DecidedIn(R)' = DecidedIn(R)
    BY <1>1, <1>5, <1>6 DEF DecidedIn
  <2>2. PICK m \in R \cap head.relations : \A d \in DecidedIn(R) : Min(d.about.relations) < m
    BY <1>3, <2>1 DEF Settled, CriticsLeave
  <2>3. m \in R \cap head'.relations
    BY <1>4, <1>5, <1>6, CommitEffect
  <2>4. QED BY <2>1, <2>2, <2>3
\* One of these, by a Critic: what it drops comes before the survivor, or there is a later one.
<1>7. CASE D \cap R # {}
  <2>1. D \subseteq R /\ a \in Critic
    BY <1>1, <1>2, <1>5, <1>7
  <2>2. DecidedIn(R)' = DecidedIn(R) \cup {e}
    BY <1>1, <1>5, <1>7 DEF DecidedIn
  <2>3. D \in SUBSET Nat /\ Min(D) \in D /\ Losers(a) = {Min(D)}
    BY <2>1, LosersAreSeen, RelationAssumption
  <2>4. ASSUME NEW m \in R \cap head.relations, Min(D) < m,
               \A d \in DecidedIn(R) : Min(d.about.relations) < m
        PROVE  \E n \in R \cap head'.relations : \A d \in DecidedIn(R)' : Min(d.about.relations) < n
    <3>1. m \in R \cap head'.relations
      <4>1. m # Min(D)
        BY <2>3, <2>4, RelationAssumption
      <4>2. QED BY <1>4, <2>3, <4>1, CommitEffect
    <3>2. QED BY <1>1, <1>5, <2>2, <2>4, <3>1
  <2>5. ASSUME \A d \in DecidedIn(R) : Min(d.about.relations) \in Nat /\ Min(d.about.relations) <= Min(D)
        PROVE  \E n \in R \cap head'.relations : \A d \in DecidedIn(R)' : Min(d.about.relations) < n
    <3>1. PICK n \in D : Min(D) < n
      BY <2>1, LosersAreSeen
    <3>2. \A d \in DecidedIn(R) : Min(d.about.relations) < n
      BY <2>3, <2>5, <3>1
    <3>3. n \in s.relations
      <4>1. n \in copy[a].relations
        BY LosersAreSeen
      <4>2. ASSUME NEW d \in decided, Lost(d, n) PROVE FALSE
        <5>1. d \in DecidedIn(R)
          BY <2>1, <4>2 DEF Lost, DecidedIn
        <5>2. n = Min(d.about.relations)
          BY <1>1, <1>2, <4>2, <5>1 DEF Lost, DecidedIn
        <5>3. QED BY <2>3, <3>2, <5>1, <5>2
      <4>3. n \notin takenAway.relations
        BY <1>2, <2>1
      <4>4. QED BY <4>1, <4>2, <4>3 DEF Accounted
    <3>4. n \in R \cap head'.relations
      BY <2>1, <2>3, <3>1, <3>3, CommitEffect
    <3>5. QED BY <1>1, <1>5, <2>2, <3>1, <3>2, <3>4
  <2>6. CASE DecidedIn(R) = {}
    BY <2>5, <2>6
  <2>7. CASE DecidedIn(R) # {}
    <3>1. PICK m \in R \cap head.relations : \A d \in DecidedIn(R) : Min(d.about.relations) < m
      BY <1>3, <2>7 DEF CriticsLeave
    <3>2. \A d \in DecidedIn(R) : Min(d.about.relations) \in Nat
      <4>1. ASSUME NEW d \in DecidedIn(R)
            PROVE  d.about.relations \in SUBSET Nat /\ d.about.relations # {}
        BY RelationAssumption DEF DecidedIn, TypeOK, Verdict
      <4>2. QED BY <4>1, MinOfNaturals
    <3>3. CASE Min(D) < m
      BY <2>4, <3>1, <3>3
    <3>4. CASE m <= Min(D)
      <4>1. m \in Nat /\ Min(D) \in Nat
        BY <2>3, RelationAssumption
      <4>2. QED BY <2>5, <3>1, <3>2, <3>4, <4>1
    <3>5. QED BY <2>3, <3>3, <3>4, RelationAssumption
  <2>8. QED BY <2>6, <2>7
<1>8. QED BY <1>6, <1>7

LEMMA CommitLeavesByVerdict ==
    ASSUME TypeOK, SeenInCopy, Accounted, VerdictsKept, ArbitersLeave,
           NEW a \in Agent, NEW s \in Structure, s = copy[a] \/ s = head,
           agent[a].pc = "evolve", Cleared(a, s), Committed(a, s)
    PROVE  ArbitersLeave'
<1> DEFINE D == agent[a].about.relations
<1> SUFFICES ASSUME NEW R \in SUBSET Relation, Settled(R)', ByOneVerdict(R)'
             PROVE  R \cap head'.relations # {}
  BY DEF ArbitersLeave
<1>1. PICK e \in [about : Verdict, critic : BOOLEAN] :
          /\ e.about = Decision(a) /\ (e.critic <=> a \in Critic)
          /\ decided' = decided \cup {e}
  BY CommitEffect
<1>2. /\ \A d \in decided' : d.about.relations \cap R # {} =>
            /\ d.about.relations \subseteq R /\ ~d.critic
            /\ d.about \notin takenAway'.verdicts
      /\ R \cap takenAway'.relations = {}
      /\ R \cap takenAway.relations = {}
      /\ takenAway.verdicts \subseteq takenAway'.verdicts
  BY CommitEffect DEF Settled, ByOneVerdict, DecidedIn
<1>3. DecidedIn(R) # {} => Settled(R) /\ ByOneVerdict(R)
  BY <1>1, <1>2 DEF Settled, ByOneVerdict, DecidedIn
<1>4. R \cap head.relations \subseteq s.relations
  BY <1>2, CommitEffect
<1>5. D # {} /\ Losers(a) \subseteq D /\ Decision(a).relations = D
  BY LosersAreSeen, DecisionIs
<1>6. CASE D \cap R = {}
  <2>1. DecidedIn(R)' = DecidedIn(R)
    BY <1>1, <1>5, <1>6 DEF DecidedIn
  <2>2. PICK r \in R \cap head.relations : TRUE
    BY <1>3, <2>1 DEF Settled, ArbitersLeave
  <2>3. r \in R \cap head'.relations
    BY <1>4, <1>5, <1>6, CommitEffect
  <2>4. QED BY <2>3
\* The one verdict on these: nobody has made it before, so what is kept is still there.
<1>7. CASE D \cap R # {}
  <2>1. D \subseteq R /\ a \notin Critic /\ e.about \notin takenAway'.verdicts
    BY <1>1, <1>2, <1>5, <1>7
  <2>2. \A d \in DecidedIn(R) : d = e
    BY <1>1, <1>5, <1>7 DEF DecidedIn, ByOneVerdict
  <2>3. e.about \notin s.verdicts
    BY <1>1, <2>1 DEF Cleared, Agent
  <2>4. e \notin decided
    <3>1. SUFFICES ASSUME e \in decided PROVE FALSE
      OBVIOUS
    <3>2. e.about \in head.verdicts
      BY <1>1, <1>2, <2>1, <3>1 DEF VerdictsKept
    <3>3. e.about \in takenAway'.verdicts
      BY <2>3, <3>2, CommitEffect
    <3>4. QED BY <2>1, <3>3
  <2>5. PICK r \in D : r \notin Losers(a)
    BY <2>1, LosersAreSeen
  <2>6. r \in s.relations
    <3>1. r \in copy[a].relations
      BY LosersAreSeen
    <3>2. ASSUME NEW d \in decided, Lost(d, r) PROVE FALSE
      BY <2>1, <2>2, <2>4, <3>2 DEF Lost, DecidedIn
    <3>3. r \notin takenAway.relations
      BY <1>2, <2>1
    <3>4. QED BY <3>1, <3>2, <3>3 DEF Accounted
  <2>7. r \in R \cap head'.relations
    BY <2>1, <2>5, <2>6, CommitEffect
  <2>8. QED BY <2>7
<1>8. QED BY <1>6, <1>7

-----------------------------------------------------------------------------
(* The other steps                                                         *)

LEMMA NothingDropped ==
    ASSUME SurvivalInv, UNCHANGED <<decided, takenAway>>,
           head.relations \subseteq head'.relations, head.verdicts \subseteq head'.verdicts
    PROVE  VerdictsKept' /\ CriticsLeave' /\ ArbitersLeave'
<1>1. VerdictsKept'
  BY DEF SurvivalInv, VerdictsKept
<1>2. ASSUME NEW R \in SUBSET Relation
      PROVE  /\ DecidedIn(R)' = DecidedIn(R) /\ (Settled(R)' <=> Settled(R))
             /\ (ByCritics(R)' <=> ByCritics(R)) /\ (ByOneVerdict(R)' <=> ByOneVerdict(R))
  BY DEF Settled, ByCritics, ByOneVerdict, DecidedIn
<1>3. CriticsLeave'
  BY <1>2 DEF SurvivalInv, CriticsLeave
<1>4. ArbitersLeave'
  BY <1>2 DEF SurvivalInv, ArbitersLeave
<1>5. QED BY <1>1, <1>3, <1>4

\* A copy is what it was, or is reloaded; whoever evolves, decides or goes on.
LEMMA CopiesAccounted ==
    ASSUME SurvivalInv, UNCHANGED <<decided, takenAway>>,
           head.relations \subseteq head'.relations,
           \A x \in Agent : copy'[x] = copy[x] \/ copy'[x] = head
    PROVE  Accounted'
<1> SUFFICES ASSUME NEW x \in Agent, NEW r \in copy'[x].relations
             PROVE  \/ r \in head'.relations \cup takenAway'.relations
                    \/ \E d \in decided' : Lost(d, r)
  BY DEF Accounted, Lost
<1>1. CASE copy'[x] = head
  BY <1>1
<1>2. CASE copy'[x] = copy[x]
  BY <1>2 DEF SurvivalInv, Accounted
<1>3. QED BY <1>1, <1>2

LEMMA AgentsHaveSeen ==
    ASSUME SurvivalInv, NEW a \in Agent,
           \A x \in Agent \ {a} : agent'[x] = agent[x] /\ copy'[x] = copy[x],
           agent'[a].pc # "evolve", agent'[a].pc # "idle" => agent'[a].at \in Location
    PROVE  SeenInCopy'
BY DEF SurvivalInv, SeenInCopy

\* What a caller removes is taken away: of what loses a relation that way nothing is said.
LEMMA RemovalSurvives ==
    ASSUME SurvivalInv, NEW r \in Relation, RemoveRelation(r)
    PROVE  SeenInCopy' /\ Accounted' /\ VerdictsKept' /\ CriticsLeave' /\ ArbitersLeave'
<1>1. /\ head'.relations = head.relations \ {r} /\ head'.verdicts = head.verdicts
      /\ takenAway'.relations = takenAway.relations \cup {r}
      /\ takenAway'.verdicts = takenAway.verdicts
      /\ UNCHANGED <<copy, agent, decided>>
  BY DEF RemoveRelation, SurvivalInv, TypeOK, Structure
<1>2. SeenInCopy'
  BY <1>1 DEF SurvivalInv, SeenInCopy
<1>3. Accounted'
  BY <1>1 DEF SurvivalInv, Accounted, Lost
<1>4. VerdictsKept'
  BY <1>1 DEF SurvivalInv, VerdictsKept
<1>5. ASSUME NEW R \in SUBSET Relation, Settled(R)'
      PROVE  /\ Settled(R) /\ r \notin R /\ R \cap head'.relations = R \cap head.relations
             /\ DecidedIn(R)' = DecidedIn(R) /\ (ByCritics(R)' <=> ByCritics(R))
             /\ (ByOneVerdict(R)' <=> ByOneVerdict(R))
  BY <1>1, <1>5 DEF Settled, ByCritics, ByOneVerdict, DecidedIn
<1>6. CriticsLeave'
  BY <1>5 DEF SurvivalInv, CriticsLeave
<1>7. ArbitersLeave'
  BY <1>5 DEF SurvivalInv, ArbitersLeave
<1>8. QED BY <1>2, <1>3, <1>4, <1>6, <1>7

LEMMA SurvivalInit == Init => SurvivalInv
<1> SUFFICES ASSUME Init PROVE SurvivalInv
  OBVIOUS
<1>1. TypeOK
  BY ContradictionsTypeInit
<1>2. SeenInCopy
  BY DEF Init, SeenInCopy, Idle
<1>3. Accounted /\ VerdictsKept
  BY DEF Init, Accounted, VerdictsKept
<1>4. CriticsLeave /\ ArbitersLeave
  BY DEF Init, CriticsLeave, ArbitersLeave, Settled, DecidedIn
<1>5. QED BY <1>1, <1>2, <1>3, <1>4 DEF SurvivalInv

LEMMA CommitSurvives ==
    ASSUME SurvivalInv, NEW a \in Agent, NEW s \in Structure, s = copy[a] \/ s = head,
           agent[a].pc = "evolve", Cleared(a, s), Committed(a, s)
    PROVE  SeenInCopy' /\ Accounted' /\ VerdictsKept' /\ CriticsLeave' /\ ArbitersLeave'
<1>1. SeenInCopy'
  BY AgentsHaveSeen DEF SurvivalInv, SeenInCopy, TypeOK, Run, Committed, Goto
<1>2. QED
  BY <1>1, CommitAccounts, CommitKeepsVerdicts, CommitLeavesByCritics, CommitLeavesByVerdict
     DEF SurvivalInv

LEMMA SurvivalStep == SurvivalInv /\ [Next]_vars => SurvivalInv'
<1> SUFFICES ASSUME SurvivalInv, [Next]_vars PROVE SurvivalInv'
  OBVIOUS
<1> DEFINE Kept == SeenInCopy' /\ Accounted' /\ VerdictsKept' /\ CriticsLeave' /\ ArbitersLeave'
<1>1. TypeOK'
  BY ContradictionsTypeStep DEF SurvivalInv
<1>2. ASSUME NEW a \in Agent, UNCHANGED <<head, decided, takenAway>>,
             \A x \in Agent \ {a} : agent'[x] = agent[x] /\ copy'[x] = copy[x],
             copy'[a] = copy[a] \/ copy'[a] = head, agent'[a].pc # "evolve",
             agent'[a].pc # "idle" => agent'[a].at \in Location
      PROVE  Kept
  <2>1. \A x \in Agent : copy'[x] = copy[x] \/ copy'[x] = head
    BY <1>2
  <2>2. SeenInCopy'
    BY <1>2, AgentsHaveSeen
  <2>3. QED BY <1>2, <2>1, <2>2, NothingDropped, CopiesAccounted
<1>3. ASSUME UNCHANGED <<copy, agent, decided, takenAway>>,
             head.relations \subseteq head'.relations, head.verdicts \subseteq head'.verdicts
      PROVE  Kept
  <2>1. SeenInCopy'
    BY <1>3 DEF SurvivalInv, SeenInCopy
  <2>2. QED BY <1>3, <2>1, NothingDropped, CopiesAccounted
<1>4. ASSUME NEW a \in Agent, NEW c \in Contradiction, NEW r \in Relation \cup {0},
             Keep(a, c, r), agent[a].pc # "idle", UNCHANGED <<head, copy, decided, takenAway>>,
             c.relations \subseteq copy[a].relations, a \in Arbiter => r \in c.relations
      PROVE  Kept
  <2>1. \A x \in Agent \ {a} : agent'[x] = agent[x]
    BY <1>4 DEF Keep, SurvivalInv, TypeOK
  <2>2. agent'[a].about = c /\ agent'[a].keep = r /\ agent'[a].at = agent[a].at
    BY <1>4 DEF Keep, SurvivalInv, TypeOK, Run
  <2>3. SeenInCopy'
    BY <1>4, <2>1, <2>2 DEF SurvivalInv, SeenInCopy
  <2>4. QED BY <1>4, <2>3, NothingDropped, CopiesAccounted
<1> HIDE DEF Kept
<1>5. ASSUME NEW r \in Relation, AddRelation(r) PROVE Kept
  BY <1>3, <1>5 DEF AddRelation, SurvivalInv, TypeOK, Structure
<1>6. ASSUME NEW c \in Contradicting(head.relations), Sweep(c) PROVE Kept
  BY <1>3, <1>6 DEF Sweep
<1>7. ASSUME NEW a \in Agent, Restart(a) PROVE Kept
  BY <1>2, <1>7 DEF Restart, Idle, SurvivalInv, TypeOK
<1>8. ASSUME NEW a \in Agent, NEW l \in Location, Claim(a, l) PROVE Kept
  BY <1>2, <1>8 DEF Claim, Idle, SurvivalInv, TypeOK
<1>9. ASSUME NEW a \in Agent, Gone(a) \/ Arbitrated(a) \/ LLMFails(a) PROVE Kept
  BY <1>2, <1>9 DEF Gone, Arbitrated, LLMFails, Goto, SurvivalInv, SeenInCopy, TypeOK, Run
<1>10. ASSUME NEW a \in Agent, CriticDecides(a) PROVE Kept
  BY <1>4, <1>10, AboutIsContradiction, ContradictionAgents DEF CriticDecides, SurvivalInv
<1>11. ASSUME NEW a \in Agent, NEW r \in Relation, ArbiterDecides(a, r) PROVE Kept
  BY <1>4, <1>11, AboutIsContradiction DEF ArbiterDecides, SurvivalInv
<1>12. ASSUME NEW a \in Agent, Evolve(a) PROVE Kept
  <2>1. CASE Cleared(a, copy[a])
    BY <1>12, <2>1, CommitSurvives DEF Kept, Evolve, SurvivalInv, TypeOK
  <2>2. CASE ~Cleared(a, copy[a])
    BY <1>2, <1>12, <2>2 DEF Evolve, Refused, Goto, SurvivalInv, SeenInCopy, TypeOK, Run
  <2>3. QED BY <2>1, <2>2
<1>13. ASSUME NEW a \in Agent, EvolveAfterConflict(a) PROVE Kept
  <2>1. CASE Cleared(a, head) /\ Committed(a, head)
    BY <1>13, <2>1, CommitSurvives DEF Kept, EvolveAfterConflict, SurvivalInv, TypeOK
  <2>2. CASE /\ Goto(a, "resolved") \/ Goto(a, "failed")
             /\ copy' = [copy EXCEPT ![a] = head]
             /\ UNCHANGED <<head, decided, takenAway>>
    BY <1>2, <1>13, <2>2 DEF EvolveAfterConflict, Goto, SurvivalInv, SeenInCopy, TypeOK, Run
  <2>3. QED BY <1>13, <2>1, <2>2 DEF EvolveAfterConflict, Refused
<1>14. ASSUME NEW a \in Agent, Report(a) PROVE Kept
  BY <1>2, <1>14 DEF Report, Idle, SurvivalInv, TypeOK
<1>15. ASSUME UNCHANGED vars PROVE Kept
  BY <1>3, <1>15 DEF vars
<1>a. ASSUME NEW l \in Location, LoseLease(l) PROVE Kept
  BY <1>3, <1>a DEF LoseLease
<1>b. ASSUME NEW r \in Relation, RemoveRelation(r) PROVE Kept
  BY <1>b, RemovalSurvives DEF Kept
<1>16. Kept
  BY <1>a, <1>b, <1>5, <1>6, <1>7, <1>8, <1>9, <1>10, <1>11, <1>12, <1>13, <1>14, <1>15 DEF Next, Resolve
<1>17. QED BY <1>1, <1>16 DEF Kept, SurvivalInv

-----------------------------------------------------------------------------
(* The theorems                                                            *)

\* Type correctness of the session, the agents and the history.
THEOREM ContradictionsTypeCorrect == Spec => []TypeOK
<1>1. SurvivalInv => TypeOK
  BY DEF SurvivalInv
<1>2. QED BY <1>1, SurvivalInit, SurvivalStep, PTL DEF Spec

\* For any relations, agents of either kind, lost leases, restarts and edits by others,
\* relations in contention keep one of theirs, if Critics alone decided them or one verdict
\* did (resolve_contradiction, arbiter_step).
THEOREM Survives == Spec => []OneRelationSurvives
<1>1. SurvivalInv => OneRelationSurvives
  <2> SUFFICES ASSUME SurvivalInv, NEW R \in Contended, Settled(R), ByCritics(R) \/ ByOneVerdict(R)
               PROVE  R \cap head.relations # {}
    BY DEF OneRelationSurvives
  <2>1. R \in SUBSET Relation
    <3>1. ASSUME NEW p \in Exclusive PROVE {p[1], p[2]} \in SUBSET Relation
      BY RelationAssumption
    <3>2. Functional \subseteq SUBSET Relation
      BY RelationAssumption
    <3>3. QED BY <3>1, <3>2 DEF Contended
  <2>2. QED BY <2>1 DEF SurvivalInv, CriticsLeave, ArbitersLeave
<1>2. QED BY <1>1, SurvivalInit, SurvivalStep, PTL DEF Spec
=============================================================================
