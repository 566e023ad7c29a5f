------------------------ MODULE ForkResolutionProofs ------------------------
(***************************************************************************)
(* Theorems of ForkResolution, for any number of replicas, writes, agents  *)
(* of either policy and faults, and of the two functions by which every    *)
(* replica decides a fork by itself, ForkPolicy's and the LCA Arbiter's.   *)
(***************************************************************************)
EXTENDS MCForks, FiniteSetTheorems, FunctionTheorems, WellFoundedInduction, TLAPS

ForkRow == [ids : SUBSET Object, resolved : BOOLEAN]

\* An agent has the fields of Idle.
Fields == {"pc", "fork", "retry", "ids", "choice"}
Slots == agent = [a \in Agent |-> [x \in Fields |-> agent[a][x]]]

ShapeInv ==
    /\ forks \in Seq(ForkRow) /\ Slots
    /\ IsFiniteSet(Live) /\ Live \subseteq objects /\ objects \subseteq Object
    /\ \A a \in Agent : agent[a].pc # "idle" => agent[a].fork \in Fork

(* What the two short cuts to mark_fork_resolved rest on: an object goes only when the    *)
(* pointer is collapsed, so of a fork that is not over every candidate is there; and with *)
(* one row left every fork is over.                                                       *)
ForkInv ==
    /\ \A f \in Fork \ settled : forks[f].ids # {} /\ forks[f].ids \subseteq objects
    /\ Cardinality(Live) <= 1 => Fork \subseteq settled
    /\ \A a \in Agent : agent[a].pc = "mark" => agent[a].fork \in settled
    /\ ResolvedIsSettled

Inv == ShapeInv /\ ForkInv

\* What a move of one agent leaves.
Moved(a, p) ==
    /\ Slots' /\ agent'[a].pc = p /\ agent'[a].fork = agent[a].fork
    /\ \A b \in Agent : b # a => agent'[b] = agent[b]

\* A step of an agent, the pointer and the forks at rest, keeps the invariant if an agent
\* that comes to mark a fork does so when it is over.
LEMMA AgentSteps ==
    ASSUME Inv, UNCHANGED <<rows, objects, forks, settled>>, Slots',
           \A b \in Agent : agent'[b].pc # "idle" =>
               /\ agent'[b].fork \in Fork
               /\ agent'[b].pc = "mark" =>
                      (agent[b].pc = "mark" /\ UNCHANGED agent[b]) \/ agent'[b].fork \in settled
    PROVE  Inv'
<1>1. ShapeInv'
  BY DEF Inv, ShapeInv, Live, Fork
<1>2. ForkInv'
  BY DEF Inv, ForkInv, Live, Fork, ResolvedIsSettled
<1>3. QED BY <1>1, <1>2 DEF Inv

LEMMA WriteStep ==
    ASSUME Inv, NEW r \in Replica, NEW o \in Object, NEW seen \in SUBSET Live, NEW at,
           Write(r, o, seen, at)
    PROVE  Inv'
<1>1. PICK kept \in SUBSET Live :
          LET ids == kept \cup {o} IN
          /\ DOMAIN rows' = ids
          /\ Note(ids)
          /\ IF Cardinality(ids) > 1
             THEN forks' = Append(forks, [ids |-> ids, resolved |-> FALSE])
             ELSE UNCHANGED forks
  <2> DEFINE n == Cardinality(written) + 1
             vv == [x \in Replica |-> IF x = r THEN n
                                      ELSE Max({knows[r][x]} \cup {rows[s].vv[x] : s \in seen})]
             kept == {k \in Live : ~Before(rows[k].vv, vv)}
  <2>1. kept \in SUBSET Live
    OBVIOUS
  <2>2. LET ids == kept \cup {o} IN
        /\ rows' = [k \in ids |-> IF k = o THEN [vv |-> vv, at |-> at] ELSE rows[k]]
        /\ Note(ids)
        /\ IF Cardinality(ids) > 1
           THEN forks' = Append(forks, [ids |-> ids, resolved |-> FALSE])
           ELSE UNCHANGED forks
    BY DEF Write
  <2> HIDE DEF kept
  <2>3. QED BY <2>1, <2>2
<1> DEFINE ids == kept \cup {o}
<1>2. UNCHANGED agent /\ objects' = objects \cup {o} /\ Live' = ids
  BY <1>1 DEF Write, Live
<1>3. IsFiniteSet(ids) /\ Cardinality(ids) \in Nat
  <2>1. IsFiniteSet(kept)
    BY FS_Subset DEF Inv, ShapeInv
  <2>2. IsFiniteSet(ids)
    BY <2>1, FS_AddElement
  <2>3. QED BY <2>2, FS_CardinalityType
<1>4. ids # {} /\ ids \subseteq objects' /\ objects' \subseteq Object
  BY <1>2 DEF Inv, ShapeInv
<1>5. forks \in Seq(ForkRow) /\ Slots
  BY DEF Inv, ShapeInv
<1> HIDE DEF ids
<1>6. /\ \A f \in Fork \ settled : forks[f].ids # {} /\ forks[f].ids \subseteq objects'
      /\ \A a \in Agent : /\ agent'[a].pc # "idle" => agent'[a].fork \in Fork
                          /\ agent'[a].pc = "mark" => agent'[a].fork \in settled
      /\ \A f \in Fork : forks[f].resolved => f \in settled
  BY <1>2 DEF Inv, ShapeInv, ForkInv, ResolvedIsSettled
<1>7. settled \subseteq settled'
  BY <1>1 DEF Note
<1>8. CASE Cardinality(ids) > 1
  <2> DEFINE row == [ids |-> ids, resolved |-> FALSE]
  <2>1. forks' = Append(forks, row) /\ row \in ForkRow
    BY <1>1, <1>4, <1>8 DEF ids, ForkRow
  <2>2. row.ids = ids /\ row.resolved = FALSE
    OBVIOUS
  <2> HIDE DEF row
  <2>3. /\ forks' \in Seq(ForkRow) /\ Fork' = Fork \cup {Len(forks) + 1}
        /\ \A f \in Fork : forks'[f] = forks[f]
        /\ forks'[Len(forks) + 1] = row
    BY <1>5, <2>1 DEF Fork
  <2>4. ShapeInv'
    BY <1>2, <1>3, <1>4, <1>5, <1>6, <2>3 DEF ShapeInv, Slots
  <2>5. ForkInv'
    <3>1. ~(Cardinality(Live') <= 1)
      BY <1>2, <1>3, <1>8
    <3>2. \A f \in Fork' \ settled' : forks'[f].ids # {} /\ forks'[f].ids \subseteq objects'
      BY <1>4, <1>6, <1>7, <2>2, <2>3
    <3>3. \A f \in Fork' : forks'[f].resolved => f \in settled'
      BY <1>6, <1>7, <2>2, <2>3
    <3>4. QED BY <1>6, <1>7, <3>1, <3>2, <3>3 DEF ForkInv, ResolvedIsSettled
  <2>6. QED BY <2>4, <2>5 DEF Inv
<1>9. CASE ~(Cardinality(ids) > 1)
  <2>1. Fork' = Fork /\ forks' = forks
    BY <1>1, <1>9 DEF ids, Fork
  <2>2. Cardinality(ids) <= 1
    BY <1>3, <1>9
  <2>3. Fork \subseteq settled'
    BY <1>1, <2>2 DEF Note, ids
  <2>4. ShapeInv'
    BY <1>2, <1>3, <1>4, <1>5, <1>6, <2>1 DEF ShapeInv, Slots
  <2>5. ForkInv'
    BY <1>6, <1>7, <2>1, <2>3 DEF ForkInv, ResolvedIsSettled
  <2>6. QED BY <2>4, <2>5 DEF Inv
<1>10. QED BY <1>8, <1>9

\* Collapsing the pointer ends every fork so far.
LEMMA ResolveStep == ASSUME Inv, NEW a \in Agent, ResolvePointer(a) PROVE Inv'
<1> DEFINE winner == agent[a].choice
           pc1 == AfterResolve(winner \in Live)
<1>1. /\ agent[a].pc = "resolve" /\ UNCHANGED forks
      /\ agent' = [agent EXCEPT ![a].pc = pc1, ![a].ids = {}, ![a].choice = None]
  BY DEF ResolvePointer
<1> HIDE DEF pc1
<1>2. /\ Slots' /\ agent'[a].pc = pc1 /\ agent'[a].fork = agent[a].fork
      /\ \A b \in Agent : b # a => agent'[b] = agent[b]
  <2>1. PICK p, s, c : /\ p = pc1
                       /\ agent' = [agent EXCEPT ![a].pc = p, ![a].ids = s, ![a].choice = c]
    BY <1>1
  <2>2. Slots
    BY DEF Inv, ShapeInv
  <2>3. agent'[a].pc = p /\ agent'[a].fork = agent[a].fork
    <3>1. agent'[a] = [agent[a] EXCEPT !.pc = p, !.ids = s, !.choice = c]
      BY <2>1, <2>2 DEF Slots
    <3>2. DOMAIN agent[a] = Fields
      BY <2>2 DEF Slots
    <3> DEFINE old == agent[a]
    <3> HIDE DEF old
    <3>3. DOMAIN old = Fields /\ agent'[a] = [old EXCEPT !.pc = p, !.ids = s, !.choice = c]
      BY <3>1, <3>2 DEF old
    <3>4. agent'[a].pc = p /\ agent'[a].fork = old.fork
      BY <3>3 DEF Fields
    <3>5. QED BY <3>4 DEF old
  <2>4. \A b \in Agent : b # a => agent'[b] = agent[b]
    BY <2>1, <2>2 DEF Slots, Fields
  <2>5. Slots'
    BY <2>1, <2>2 DEF Slots, Fields
  <2>6. QED BY <2>1, <2>3, <2>4, <2>5
<1>3. agent[a].fork \in Fork
  BY <1>1 DEF Inv, ShapeInv
<1>4. CASE winner \in Live
  <2>1. /\ Live' = {winner} /\ objects' = objects \ (Live \ {winner}) /\ Note({winner})
    BY <1>4 DEF ResolvePointer, Live
  <2>2. Cardinality({winner}) = 1 /\ IsFiniteSet({winner})
    BY FS_Singleton
  <2>3. Fork \subseteq settled'
    BY <2>1, <2>2 DEF Note
  <2>4. ShapeInv'
    BY <1>1, <1>2, <1>3, <1>4, <2>1, <2>2 DEF Inv, ShapeInv, Fork
  <2>5. ForkInv'
    BY <1>1, <1>2, <2>3, <2>4 DEF ShapeInv, ForkInv, ResolvedIsSettled, Fork
  <2>6. QED BY <2>4, <2>5 DEF Inv
<1>5. CASE winner \notin Live
  <2>1. UNCHANGED <<rows, objects, forks, settled>> /\ pc1 = "failed"
    BY <1>5 DEF ResolvePointer, pc1, AfterResolve
  <2>2. QED BY <1>2, <1>3, <2>1, AgentSteps DEF Inv, ShapeInv
<1>6. QED BY <1>4, <1>5

LEMMA Step == Inv /\ [Next]_vars => Inv'
<1> SUFFICES ASSUME Inv, [Next]_vars PROVE Inv'
  OBVIOUS
<1>a. Slots /\ \A a \in Agent : agent[a].pc # "idle" => agent[a].fork \in Fork
  BY DEF Inv, ShapeInv
<1> USE DEF storeVars, AgentOnly, Goto
<1>1. ASSUME NEW r \in Replica, NEW o \in Object, NEW seen \in SUBSET Live, NEW at,
             Write(r, o, seen, at)
      PROVE  Inv'
  BY <1>1, WriteStep
<1>2. CASE UNCHANGED <<rows, objects, forks, settled, agent>>
  BY <1>a, <1>2, AgentSteps DEF Slots
<1>3. ASSUME NEW a \in Agent, NEW f \in Fork, Claim(a, f) PROVE Inv'
  <2>1. /\ UNCHANGED <<rows, objects, forks, settled>>
        /\ agent' = [agent EXCEPT ![a] = [pc |-> IF a \in Critic THEN "read" ELSE "load", fork |-> f,
                                          retry |-> task[f].retry, ids |-> {}, choice |-> None]]
    BY <1>3 DEF Claim
  <2>2. Slots' /\ agent'[a].pc # "mark" /\ agent'[a].fork = f
        /\ \A b \in Agent : b # a => agent'[b] = agent[b]
    BY <1>a, <2>1 DEF Slots, Fields
  <2>3. QED BY <1>a, <2>1, <2>2, AgentSteps
<1>4. ASSUME NEW a \in Agent, LoadCandidates(a) PROVE Inv'
  <2>1. agent[a].pc = "load" /\ UNCHANGED <<rows, objects, forks, settled>>
    BY <1>4 DEF LoadCandidates
  <2>2. CASE Existing(a) = {}
    <3>1. agent' = [agent EXCEPT ![a].pc = "mark"]
      <4>1. Cardinality(Existing(a)) # 1
        BY <2>2, FS_EmptySet
      <4>2. QED BY <1>4, <2>2, <4>1 DEF LoadCandidates
    <3>2. /\ Slots' /\ agent'[a].fork = agent[a].fork
          /\ \A b \in Agent : b # a => agent'[b] = agent[b]
      BY <1>a, <3>1 DEF Slots, Fields
    <3>3. agent[a].fork \in Fork
      BY <1>a, <2>1
    <3>4. agent[a].fork \in settled
      BY <2>2, <3>3 DEF Existing, Inv, ForkInv
    <3>5. QED BY <1>a, <2>1, <3>2, <3>3, <3>4, AgentSteps
  <2>3. CASE Existing(a) # {}
    <3>1. \/ agent' = [agent EXCEPT ![a].pc = "resolve", ![a].choice = Min(Existing(a))]
          \/ agent' = [agent EXCEPT ![a].pc = "read", ![a].ids = Existing(a)]
      BY <1>4, <2>3 DEF LoadCandidates
    <3>2. Moved(a, "resolve") \/ Moved(a, "read")
      BY <1>a, <3>1 DEF Moved, Slots, Fields
    <3>3. QED BY <1>a, <2>1, <3>2, AgentSteps DEF Moved
  <2>4. QED BY <2>2, <2>3
<1>5. ASSUME NEW a \in Agent, ChooseWinner(a) PROVE Inv'
  <2>1. /\ agent[a].pc = "read" /\ UNCHANGED <<rows, objects, forks, settled>>
        /\ \E c : agent' = [agent EXCEPT ![a].pc = "resolve", ![a].choice = c]
    BY <1>5 DEF ChooseWinner
  <2>2. PICK c : agent' = [agent EXCEPT ![a].pc = "resolve", ![a].choice = c]
    BY <2>1
  <2>3. Moved(a, "resolve")
    BY <1>a, <2>2 DEF Moved, Slots, Fields
  <2>4. QED BY <1>a, <2>1, <2>3, AgentSteps DEF Moved
<1>6. ASSUME NEW a \in Agent, CriticChooses(a) PROVE Inv'
  <2>1. agent[a].pc = "read" /\ UNCHANGED <<rows, objects, forks, settled>>
    BY <1>6 DEF CriticChooses
  <2>2. agent[a].fork \in Fork
    BY <1>a, <2>1
  <2>3. CASE AlreadyConverged(Live)
    <3>1. agent' = [agent EXCEPT ![a].pc = "mark"]
      BY <1>6, <2>3 DEF CriticChooses
    <3>2. /\ Slots' /\ agent'[a].fork = agent[a].fork
          /\ \A b \in Agent : b # a => agent'[b] = agent[b]
      BY <1>a, <3>1 DEF Slots, Fields
    <3>3. agent[a].fork \in settled
      BY <2>2, <2>3 DEF AlreadyConverged, Inv, ForkInv
    <3>4. QED BY <1>a, <2>1, <2>2, <3>2, <3>3, AgentSteps
  <2>4. CASE ~AlreadyConverged(Live)
    <3>1. agent' = [agent EXCEPT ![a].pc = "resolve", ![a].choice = CriticWinner(Live)]
      BY <1>6, <2>4 DEF CriticChooses
    <3>2. Moved(a, "resolve")
      BY <1>a, <3>1 DEF Moved, Slots, Fields
    <3>3. QED BY <1>a, <2>1, <2>2, <3>2, AgentSteps DEF Moved
  <2>5. QED BY <2>3, <2>4
<1>7. ASSUME NEW a \in Agent, ResolvePointer(a) PROVE Inv'
  BY <1>7, ResolveStep
<1>8. ASSUME NEW a \in Agent, MarkResolved(a) PROVE Inv'
  <2> DEFINE f == agent[a].fork
  <2>1. /\ agent[a].pc = "mark" /\ UNCHANGED <<rows, objects, settled>>
        /\ forks' = [forks EXCEPT ![f].resolved = TRUE]
        /\ agent' = [agent EXCEPT ![a].pc = "resolved"]
    BY <1>8 DEF MarkResolved
  <2>2. f \in Fork /\ f \in settled /\ forks \in Seq(ForkRow)
    BY <1>a, <2>1 DEF Inv, ShapeInv, ForkInv
  <2>3. /\ Slots' /\ agent'[a].fork = f /\ agent'[a].pc = "resolved"
        /\ \A b \in Agent : b # a => agent'[b] = agent[b]
    BY <1>a, <2>1 DEF Slots, Fields
  <2> HIDE DEF f
  <2>4. /\ forks' \in Seq(ForkRow) /\ Fork' = Fork
        /\ \A g \in Fork : /\ forks'[g].ids = forks[g].ids
                           /\ g # f => forks'[g] = forks[g]
    <3>1. forks[f] \in ForkRow
      BY <2>2 DEF Fork
    <3>2. /\ [forks[f] EXCEPT !.resolved = TRUE] \in ForkRow
          /\ [forks[f] EXCEPT !.resolved = TRUE].ids = forks[f].ids
      BY <3>1 DEF ForkRow
    <3>3. PICK row \in ForkRow : row.ids = forks[f].ids /\ forks' = [forks EXCEPT ![f] = row]
      BY <2>1, <3>2
    <3>4. QED BY <2>2, <3>3 DEF Fork
  <2>5. ShapeInv'
    BY <1>a, <2>1, <2>2, <2>3, <2>4 DEF Inv, ShapeInv, Live
  <2>6. ForkInv'
    BY <2>1, <2>2, <2>3, <2>4 DEF Inv, ForkInv, ResolvedIsSettled, Live
  <2>7. QED BY <2>5, <2>6 DEF Inv
<1>9. ASSUME NEW a \in Agent, Report(a) \/ AgentCrash(a) PROVE Inv'
  <2>1. /\ UNCHANGED <<rows, objects, forks, settled>>
        /\ agent' = [agent EXCEPT ![a] = Idle]
    BY <1>9 DEF Report, AgentCrash
  <2>2. /\ Slots' /\ agent'[a].pc = "idle" /\ \A b \in Agent : b # a => agent'[b] = agent[b]
    BY <1>a, <2>1 DEF Slots, Fields, Idle
  <2>3. QED BY <1>a, <2>1, <2>2, AgentSteps
<1>10. ASSUME NEW f \in Fork, OnFork(f) \/ ForkMissed(f) \/ LoseLease(f) PROVE Inv'
  BY <1>2, <1>10 DEF OnFork, ForkMissed, LoseLease
<1>11. CASE UNCHANGED vars
  BY <1>2, <1>11 DEF vars
<1>12. QED
  BY <1>1, <1>3, <1>4, <1>5, <1>6, <1>7, <1>8, <1>9, <1>10, <1>11 DEF Next, Work

LEMMA Initially == Init => Inv
<1> SUFFICES ASSUME Init PROVE Inv
  OBVIOUS
<1>1. Live = {} /\ Fork = {} /\ forks = <<>>
  BY DEF Init, Live, Fork
<1>2. IsFiniteSet({})
  BY FS_EmptySet
<1>3. Slots /\ \A a \in Agent : agent[a].pc = "idle"
  BY DEF Init, Slots, Fields, Idle
<1>4. ShapeInv
  BY <1>1, <1>2, <1>3 DEF Init, ShapeInv
<1>5. ForkInv
  BY <1>1, <1>3 DEF ForkInv, ResolvedIsSettled
<1>6. QED BY <1>4, <1>5 DEF Inv

(* A fork is marked resolved only when the pointer has had a single row since, by the     *)
(* collapse of either agent or by a write that has seen the others, whatever interleaves  *)
(* between an attempt's reads and calls (mark_fork_resolved).                             *)
THEOREM ResolvedForksAreSettled == Spec => []ResolvedIsSettled
<1>1. Inv => ResolvedIsSettled
  BY DEF Inv, ForkInv
<1>2. QED BY <1>1, Initially, Step, PTL DEF Spec

-----------------------------------------------------------------------------
(* Least and greatest elements                                             *)

\* Induction over a finite set, as the existence of a minimal set in a family of its subsets.
LEMMA MinimalSet ==
    ASSUME NEW S, IsFiniteSet(S), NEW F \in SUBSET SUBSET S, F # {}
    PROVE  \E M \in F : \A T \in F : T \subseteq M => T = M
<1>1. IsWellFoundedOn(StrictSubsetOrdering(S), SUBSET S)
  BY FS_StrictSubsetOrderingWellFounded, FS_FiniteSubsetsOfFinite
<1>2. PICK M \in F : \A T \in F : <<T, M>> \notin StrictSubsetOrdering(S)
  BY <1>1, WFMin
<1>3. ASSUME NEW T \in F, T \subseteq M PROVE T = M
  BY <1>2, <1>3 DEF StrictSubsetOrdering
<1>4. QED BY <1>3

LEMMA Greatest ==
    ASSUME NEW S, IsFiniteSet(S), S # {}, NEW f \in [S -> Nat]
    PROVE  \E m \in S : \A x \in S : f[x] <= f[m]
<1> DEFINE Tops(T) == \E m \in T : \A x \in T : f[x] <= f[m]
           F == {T \in SUBSET S : T # {} /\ ~Tops(T)}
<1>1. SUFFICES ASSUME F # {} PROVE FALSE
  OBVIOUS
<1>2. PICK M \in F : \A T \in F : T \subseteq M => T = M
  <2>1. F \in SUBSET SUBSET S
    OBVIOUS
  <2> HIDE DEF F
  <2>2. QED BY <1>1, <2>1, MinimalSet
<1>3. PICK x \in M : TRUE
  BY <1>2
<1>4. M \ {x} \notin F
  BY <1>2, <1>3
<1>5. CASE M \ {x} = {}
  <2>1. \A y \in M : y = x
    BY <1>5
  <2>2. f[x] \in Nat
    BY <1>2, <1>3
  <2>3. QED BY <1>2, <1>3, <2>1, <2>2
<1>6. CASE M \ {x} # {}
  <2>1. PICK m \in M \ {x} : \A y \in M \ {x} : f[y] <= f[m]
    BY <1>2, <1>4, <1>6
  <2>2. \A y \in M : f[y] \in Nat
    BY <1>2
  <2>3. CASE f[x] <= f[m]
    BY <1>2, <2>1, <2>3
  <2>4. CASE ~(f[x] <= f[m])
    <3>1. \A y \in M : f[y] <= f[x]
      BY <1>3, <2>1, <2>2, <2>4
    <3>2. QED BY <1>2, <1>3, <3>1
  <2>5. QED BY <2>3, <2>4
<1>7. QED BY <1>5, <1>6

LEMMA MaxOf ==
    ASSUME NEW S \in SUBSET Nat, IsFiniteSet(S), S # {}
    PROVE  Max(S) \in S /\ \A x \in S : x <= Max(S)
<1> DEFINE f == [x \in S |-> x]
<1>1. PICK m \in S : \A x \in S : f[x] <= f[m]
  <2>1. f \in [S -> Nat]
    OBVIOUS
  <2> HIDE DEF f
  <2>2. QED BY <2>1, Greatest
<1>2. \A x \in S : m >= x
  BY <1>1
<1>3. Max(S) \in S /\ \A x \in S : Max(S) >= x
  BY <1>2 DEF Max
<1>4. QED BY <1>3

LEMMA MinOf ==
    ASSUME NEW S \in SUBSET Nat, S # {}
    PROVE  Min(S) \in S /\ \A x \in S : Min(S) <= x
<1> DEFINE Less == {ss \in Nat \X Nat : ss[1] < ss[2]}
<1>1. PICK m \in S : \A x \in S : <<x, m>> \notin Less
  <2>1. IsWellFoundedOn(Less, Nat)
    BY NatLessThanWellFounded DEF OpToRel
  <2> HIDE DEF Less
  <2>2. QED BY <2>1, WFMin
<1>2. ASSUME NEW x \in S PROVE m <= x
  <2>1. <<x, m>> \in Nat \X Nat /\ ~(x < m)
    BY <1>1
  <2>2. QED BY <2>1
<1>3. QED BY <1>2 DEF Min

-----------------------------------------------------------------------------
(* The order of the candidates                                             *)

Candidates(R, S, c) ==
    /\ S \in SUBSET Nat /\ IsFiniteSet(S) /\ S # {} /\ DOMAIN c = S
    /\ \A i \in S : c[i].vv \in [R -> Nat] /\ c[i].at \in Nat /\ c[i].id \in Nat

NewestOf(c) == {i \in DOMAIN c : IsCausallyNewest(c, i)}

\* No two candidates of a fork are causally newest.
LEMMA NewestIsOne ==
    ASSUME NEW R, NEW S, NEW c, Candidates(R, S, c), Stored(c),
           NEW i \in NewestOf(c), NEW j \in NewestOf(c)
    PROVE  i = j
<1>1. SUFFICES ASSUME i # j PROVE FALSE
  OBVIOUS
<1>2. i \in S /\ j \in S /\ c[i].vv \in [R -> Nat] /\ c[j].vv \in [R -> Nat]
  BY DEF Candidates, NewestOf
<1>3. Before(c[j].vv, c[i].vv) /\ Before(c[i].vv, c[j].vv)
  BY <1>1, <1>2 DEF NewestOf, IsCausallyNewest, Candidates
<1>4. c[i].vv = c[j].vv
  <2>1. \A r \in R : c[i].vv[r] = c[j].vv[r]
    BY <1>2, <1>3 DEF Before
  <2>2. QED BY <1>2, <2>1
<1>5. c[i].at = 0
  BY <1>1, <1>2, <1>4 DEF Stored, Candidates
<1>6. \A r \in R : c[i].vv[r] = 0
  BY <1>2, <1>5 DEF Stored, Candidates
<1>7. PICK k \in S \ {i} : Dominates(c[i].vv, c[k].vv)
  BY <1>1, <1>2 DEF NewestOf, IsCausallyNewest, Candidates
<1>8. c[k].vv \in [R -> Nat]
  BY DEF Candidates
<1>9. \A r \in R : c[k].vv[r] = c[i].vv[r]
  BY <1>2, <1>6, <1>7, <1>8 DEF Dominates, Before
<1>10. c[k].vv = c[i].vv
  BY <1>2, <1>8, <1>9
<1>11. QED BY <1>7, <1>10 DEF Dominates

(* The winner of a fork does not depend on the order in which its candidates are listed:  *)
(* for any number of candidates and replicas, whatever the vectors and stamps of their    *)
(* rows, as long as no two rows have one vector (_select_winner).                         *)
THEOREM WinnerOfAnyOrder ==
    ASSUME NEW R, NEW S, NEW c, Candidates(R, S, c)
    PROVE  WinnerIsOrderFree(c)
<1>1. SUFFICES ASSUME Stored(c), NEW p \in Orders(S)
               PROVE  SelectWinner([i \in S |-> c[p[i]]]) = SelectWinner(c)
  BY DEF WinnerIsOrderFree, Candidates
<1> DEFINE d == [i \in S |-> c[p[i]]]
<1>2. p \in [S -> S] /\ (\A i, j \in S : p[i] = p[j] => i = j) /\ \A j \in S : \E i \in S : p[i] = j
  <2>1. p \in Injection(S, S)
    BY <1>1 DEF Orders, Injection, IsInjective
  <2>2. p \in Surjection(S, S)
    BY <2>1, FS_Injection DEF Candidates
  <2>3. QED BY <1>1, <2>2 DEF Orders, Surjection
<1>3. /\ DOMAIN c = S /\ DOMAIN d = S /\ S \in SUBSET Nat
      /\ \A i \in S : p[i] \in S /\ d[i] = c[p[i]]
  BY <1>2 DEF Candidates
<1> HIDE DEF d
<1>4. ASSUME NEW i \in S PROVE IsCausallyNewest(d, i) <=> IsCausallyNewest(c, p[i])
  <2>1. \A j \in S \ {i} : p[j] \in S \ {p[i]}
    BY <1>2
  <2>2. \A k \in S \ {p[i]} : \E j \in S \ {i} : p[j] = k
    BY <1>2
  <2>3. (S \ {i} # {}) <=> (S \ {p[i]} # {})
    BY <2>1, <2>2
  <2>4. (\A j \in S \ {i} : Before(d[j].vv, d[i].vv))
            <=> (\A k \in S \ {p[i]} : Before(c[k].vv, c[p[i]].vv))
    BY <1>3, <2>1, <2>2
  <2>5. (\E j \in S \ {i} : Dominates(d[i].vv, d[j].vv))
            <=> (\E k \in S \ {p[i]} : Dominates(c[p[i]].vv, c[k].vv))
    BY <1>3, <2>1, <2>2
  <2>6. QED BY <1>3, <2>3, <2>4, <2>5 DEF IsCausallyNewest
<1>pre. ASSUME NEW k \in S PROVE \E i \in S : p[i] = k
  BY <1>2
<1>nd. \A i \in S : i \in NewestOf(d) <=> p[i] \in NewestOf(c)
  BY <1>3, <1>4 DEF NewestOf
<1>5. NewestOf(d) # {} <=> NewestOf(c) # {}
  <2>1. ASSUME NEW i \in NewestOf(d) PROVE NewestOf(c) # {}
    <3>1. i \in S
      BY <1>3 DEF NewestOf
    <3>2. QED BY <3>1, <1>nd
  <2>2. ASSUME NEW k \in NewestOf(c) PROVE NewestOf(d) # {}
    <3>1. k \in S
      BY <1>3 DEF NewestOf
    <3>2. PICK i \in S : p[i] = k
      BY <3>1, <1>pre
    <3>3. QED BY <3>2, <1>nd
  <2>3. QED BY <2>1, <2>2
<1>6. ASSUME NewestOf(c) # {} PROVE d[Min(NewestOf(d))].id = c[Min(NewestOf(c))].id
  <2>1. Min(NewestOf(d)) \in NewestOf(d) /\ Min(NewestOf(c)) \in NewestOf(c)
    <3>1. NewestOf(d) \in SUBSET Nat /\ NewestOf(c) \in SUBSET Nat
      BY <1>3 DEF NewestOf
    <3>2. QED BY <1>5, <1>6, <3>1, MinOf
  <2> DEFINE k == Min(NewestOf(d))
             m == Min(NewestOf(c))
  <2>2. k \in S /\ p[k] \in NewestOf(c) /\ d[k] = c[p[k]]
    BY <1>3, <1>4, <2>1 DEF NewestOf
  <2>3. p[k] = m
    BY <1>1, <2>1, <2>2, NewestIsOne
  <2>4. QED BY <2>2, <2>3
<1>st. \A i \in S : i \in Stamped(d) <=> p[i] \in Stamped(c)
  BY <1>3 DEF Stamped
<1>7. StampsDiffer(d) <=> StampsDiffer(c)
  <2>1. ASSUME NEW i \in Stamped(d), NEW j \in Stamped(d), d[i].at # d[j].at PROVE StampsDiffer(c)
    <3>1. i \in S /\ j \in S
      BY <1>3 DEF Stamped
    <3>2. p[i] \in Stamped(c) /\ p[j] \in Stamped(c) /\ c[p[i]].at # c[p[j]].at
      BY <1>3, <1>st, <2>1, <3>1
    <3>3. QED BY <3>2 DEF StampsDiffer
  <2>2. ASSUME NEW k \in Stamped(c), NEW m \in Stamped(c), c[k].at # c[m].at PROVE StampsDiffer(d)
    <3>1. k \in S /\ m \in S
      BY <1>3 DEF Stamped
    <3>2. PICK i \in S : p[i] = k
      BY <3>1, <1>pre
    <3>3. PICK j \in S : p[j] = m
      BY <3>1, <1>pre
    <3>4. i \in Stamped(d) /\ j \in Stamped(d) /\ d[i].at # d[j].at
      BY <1>3, <1>st, <2>2, <3>2, <3>3
    <3>5. QED BY <3>4 DEF StampsDiffer
  <2>3. QED BY <2>1, <2>2 DEF StampsDiffer
<1>lw. ASSUME NEW i \in S PROVE i \in LastWritten(d) <=> p[i] \in LastWritten(c)
  <2>1. ASSUME i \in LastWritten(d), NEW k \in Stamped(c) PROVE c[k].at <= c[p[i]].at
    <3>1. k \in S
      BY <1>3 DEF Stamped
    <3>2. PICK j \in S : p[j] = k
      BY <3>1, <1>pre
    <3>3. j \in Stamped(d)
      BY <3>2, <1>st
    <3>4. d[j].at <= d[i].at
      BY <2>1, <3>3 DEF LastWritten
    <3>5. QED BY <1>3, <3>2, <3>4
  <2>2. ASSUME p[i] \in LastWritten(c), NEW j \in Stamped(d) PROVE d[j].at <= d[i].at
    <3>1. j \in S
      BY <1>3 DEF Stamped
    <3>2. c[p[j]].at <= c[p[i]].at
      BY <2>2, <3>1, <1>st DEF LastWritten
    <3>3. QED BY <1>3, <3>1, <3>2
  <2>3. QED BY <1>st, <2>1, <2>2 DEF LastWritten
<1>8. {d[i].id : i \in LastWritten(d)} = {c[i].id : i \in LastWritten(c)}
  <2>1. LastWritten(d) \subseteq S /\ LastWritten(c) \subseteq S
    BY <1>3 DEF LastWritten, Stamped
  <2>2. ASSUME NEW i \in LastWritten(d) PROVE \E k \in LastWritten(c) : d[i].id = c[k].id
    <3>1. i \in S /\ p[i] \in LastWritten(c) /\ d[i] = c[p[i]]
      BY <1>3, <1>lw, <2>1
    <3>2. QED BY <3>1
  <2>3. ASSUME NEW k \in LastWritten(c) PROVE \E i \in LastWritten(d) : c[k].id = d[i].id
    <3>1. PICK i \in S : p[i] = k
      BY <2>1, <1>pre
    <3>2. i \in LastWritten(d) /\ d[i] = c[k]
      BY <1>3, <1>lw, <3>1
    <3>3. QED BY <3>2
  <2>4. QED BY <2>2, <2>3
<1>9. Ids(d) = Ids(c)
  <2>1. ASSUME NEW i \in S PROVE \E k \in S : d[i].id = c[k].id
    BY <1>3
  <2>2. ASSUME NEW k \in S PROVE \E i \in S : c[k].id = d[i].id
    <3>1. PICK i \in S : p[i] = k
      BY <1>pre
    <3>2. QED BY <1>3, <3>1
  <2>3. {d[i].id : i \in S} \subseteq {c[i].id : i \in S}
    BY <2>1
  <2>4. {c[i].id : i \in S} \subseteq {d[i].id : i \in S}
    BY <2>2
  <2>5. Ids(d) = {d[i].id : i \in S} /\ Ids(c) = {c[i].id : i \in S}
    BY <1>3 DEF Ids
  <2>6. QED BY <2>3, <2>4, <2>5
<1>10. SelectWinner(d) = SelectWinner(c)
  BY <1>5, <1>6, <1>7, <1>8, <1>9 DEF SelectWinner, LatestWrite, NewestOf
<1>11. QED BY <1>10 DEF d

(* Among candidates of the objects there are, replicas that list them differently agree.  *)
THEOREM WinnersAreAgreed == Spec => []WinnerIsAgreed
<1>1. WinnerIsAgreed
  <2>1. SUFFICES ASSUME NEW ids \in SUBSET Object, ids # {}, IsFiniteSet(ids),
                        NEW row \in [ids -> [vv : [Replica -> 0..2], at : 0..2]]
                 PROVE  WinnerIsOrderFree([o \in ids |-> [id |-> o, vv |-> row[o].vv, at |-> row[o].at]])
    BY DEF WinnerIsAgreed
  <2> DEFINE c == [o \in ids |-> [id |-> o, vv |-> row[o].vv, at |-> row[o].at]]
  <2>2. ASSUME NEW o \in ids
        PROVE  c[o].vv \in [Replica -> Nat] /\ c[o].at \in Nat /\ c[o].id \in Nat
    <3>1. row[o].vv \in [Replica -> 0..2] /\ row[o].at \in 0..2
      OBVIOUS
    <3>2. row[o].vv \in [Replica -> Nat] /\ row[o].at \in Nat
      BY <3>1
    <3>3. QED BY <3>2, ObjectAssumption
  <2>3. Candidates(Replica, ids, c)
    <3>1. ids \in SUBSET Nat /\ DOMAIN c = ids
      BY ObjectAssumption
    <3> HIDE DEF c
    <3>2. QED BY <2>1, <2>2, <3>1 DEF Candidates
  <2> HIDE DEF c
  <2>4. WinnerIsOrderFree(c)
    BY <2>3, WinnerOfAnyOrder
  <2>5. QED BY <2>4 DEF c
<1>2. QED BY <1>1, PTL

-----------------------------------------------------------------------------
(* The Fork Resolution Agent chooses a live row                            *)

Vectors == [Replica -> Nat]

(* Every row is stamped and counts a write, which is what sets it apart from a candidate  *)
(* that has no row any more; an agent's candidates are finitely many objects.             *)
RowsInv ==
    /\ IsFiniteSet(written)
    /\ knows \in [Replica -> Vectors]
    /\ clock \in Nat
    /\ rows \in [Live -> [vv : Vectors, at : Nat \ {0}]]
    /\ \A o \in Live : \E r \in Replica : rows[o].vv[r] # 0
    /\ \A f \in Fork : IsFiniteSet(forks[f].ids)
    /\ \A a \in Agent : agent[a].ids \subseteq Object /\ IsFiniteSet(agent[a].ids)

LEMMA WriteKeepsRows ==
    ASSUME Inv, RowsInv, NEW r \in Replica, NEW o \in Object, NEW seen \in SUBSET Live,
           NEW at \in {clock, clock + 1} \ {0}, Write(r, o, seen, at)
    PROVE  RowsInv'
<1> DEFINE n == Cardinality(written) + 1
           vv == [x \in Replica |-> IF x = r THEN n
                                    ELSE Max({knows[r][x]} \cup {rows[s].vv[x] : s \in seen})]
           kept == {k \in Live : ~Before(rows[k].vv, vv)}
<1>1. n \in Nat /\ n # 0
  <2>1. Cardinality(written) \in Nat
    BY FS_CardinalityType DEF RowsInv
  <2>2. QED BY <2>1
<1>2. ASSUME NEW x \in Replica
      PROVE  Max({knows[r][x]} \cup {rows[s].vv[x] : s \in seen}) \in Nat
  <2> DEFINE f == [s \in seen |-> rows[s].vv[x]]
             T == {f[s] : s \in seen}
             V == {knows[r][x]} \cup T
  <2>1. \A s \in seen : rows[s].vv[x] \in Nat
    <3>1. \A s \in seen : rows[s] \in [vv : Vectors, at : Nat \ {0}]
      BY DEF RowsInv
    <3>2. QED BY <3>1 DEF Vectors
  <2>2. IsFiniteSet(T)
    <3>1. IsFiniteSet(seen)
      BY FS_Subset DEF Inv, ShapeInv
    <3>2. f \in Surjection(seen, T)
      BY DEF Surjection
    <3> HIDE DEF f, T
    <3>3. QED BY <3>1, <3>2, FS_Surjection
  <2>3. knows[r][x] \in Nat
    BY DEF RowsInv, Vectors
  <2>4. V \in SUBSET Nat /\ V # {}
    BY <2>1, <2>3
  <2>5. IsFiniteSet(V)
    <3>1. V = T \cup {knows[r][x]}
      OBVIOUS
    <3> HIDE DEF T
    <3>2. QED BY <2>2, <3>1, FS_AddElement
  <2>6. V = {knows[r][x]} \cup {rows[s].vv[x] : s \in seen}
    OBVIOUS
  <2> HIDE DEF V
  <2>7. Max(V) \in Nat
    BY <2>4, <2>5, MaxOf
  <2>8. QED BY <2>6, <2>7
<1>3. vv \in Vectors /\ vv[r] # 0
  BY <1>1, <1>2 DEF Vectors
<1>4. /\ rows' = [k \in kept \cup {o} |-> IF k = o THEN [vv |-> vv, at |-> at] ELSE rows[k]]
      /\ written' = written \cup {o} /\ clock' = at /\ UNCHANGED agent
      /\ knows' = [knows EXCEPT ![r] = vv]
      /\ IF Cardinality(kept \cup {o}) > 1
         THEN forks' = Append(forks, [ids |-> kept \cup {o}, resolved |-> FALSE])
         ELSE UNCHANGED forks
  BY DEF Write
<1>5. kept \subseteq Live
  OBVIOUS
<1> HIDE DEF vv, kept
<1>6. Live' = kept \cup {o} /\ IsFiniteSet(kept \cup {o})
  <2>1. IsFiniteSet(kept)
    BY <1>5, FS_Subset DEF Inv, ShapeInv
  <2>2. QED BY <1>4, <2>1, FS_AddElement DEF Live
<1>7. at \in Nat \ {0}
  BY DEF RowsInv
<1>8. IsFiniteSet(written') /\ knows' \in [Replica -> Vectors] /\ clock' \in Nat
  <2>1. IsFiniteSet(written')
    BY <1>4, FS_AddElement DEF RowsInv
  <2>2. QED BY <1>3, <1>4, <1>7, <2>1 DEF RowsInv
<1>9. ASSUME NEW k \in Live'
      PROVE  rows'[k] \in [vv : Vectors, at : Nat \ {0}] /\ \E x \in Replica : rows'[k].vv[x] # 0
  <2>1. CASE k = o
    <3>1. rows'[k] = [vv |-> vv, at |-> at]
      BY <1>4, <2>1
    <3>2. QED BY <1>3, <1>7, <3>1
  <2>2. CASE k # o
    <3>1. rows'[k] = rows[k] /\ k \in Live
      BY <1>4, <1>5, <1>6, <2>2
    <3>2. QED BY <3>1 DEF RowsInv
  <2>3. QED BY <2>1, <2>2
<1>10. rows' \in [Live' -> [vv : Vectors, at : Nat \ {0}]]
  BY <1>4, <1>6, <1>9
<1>11. ASSUME NEW f \in Fork' PROVE IsFiniteSet(forks'[f].ids)
  <2>1. CASE Cardinality(kept \cup {o}) > 1
    <3>1. forks' = Append(forks, [ids |-> kept \cup {o}, resolved |-> FALSE])
      BY <1>4, <2>1
    <3>2. forks \in Seq(ForkRow)
      BY DEF Inv, ShapeInv
    <3>3. \/ f \in Fork /\ forks'[f] = forks[f]
          \/ forks'[f].ids = kept \cup {o}
      BY <3>1, <3>2 DEF Fork
    <3>4. QED BY <1>6, <3>3 DEF RowsInv
  <2>2. CASE ~(Cardinality(kept \cup {o}) > 1)
    <3>1. UNCHANGED forks
      BY <1>4, <2>2
    <3>2. QED BY <3>1 DEF RowsInv, Fork
  <2>3. QED BY <2>1, <2>2
<1>12. QED BY <1>4, <1>8, <1>9, <1>10, <1>11 DEF RowsInv

LEMMA RowsStep == Inv /\ RowsInv /\ [Next]_vars => RowsInv'
<1> SUFFICES ASSUME Inv, RowsInv, [Next]_vars PROVE RowsInv'
  OBVIOUS
<1>a. Slots
  BY DEF Inv, ShapeInv
<1> USE DEF storeVars, AgentOnly, Goto
<1>1. ASSUME NEW r \in Replica, NEW o \in Object, NEW seen \in SUBSET Live,
             NEW at \in {clock, clock + 1} \ {0}, Write(r, o, seen, at)
      PROVE  RowsInv'
  BY <1>1, WriteKeepsRows
<1>2. ASSUME UNCHANGED <<rows, written, knows, clock, forks>>,
             \A a \in Agent : agent'[a].ids \subseteq Object /\ IsFiniteSet(agent'[a].ids)
      PROVE  RowsInv'
  BY <1>2 DEF RowsInv, Live, Fork
<1>3. CASE UNCHANGED <<rows, written, knows, clock, forks, agent>>
  BY <1>3, <1>2 DEF RowsInv
<1>4. ASSUME NEW a \in Agent, UNCHANGED <<rows, written, knows, clock, forks>>,
             \A b \in Agent : b # a => agent'[b] = agent[b],
             agent'[a].ids = agent[a].ids \/ agent'[a].ids = {}
      PROVE  RowsInv'
  <2>1. IsFiniteSet({})
    BY FS_EmptySet
  <2>2. QED BY <1>4, <1>2, <2>1 DEF RowsInv
<1>5. ASSUME NEW a \in Agent, NEW f \in Fork, Claim(a, f) PROVE RowsInv'
  <2>1. /\ UNCHANGED <<rows, written, knows, clock, forks>>
        /\ agent' = [agent EXCEPT ![a] = [pc |-> IF a \in Critic THEN "read" ELSE "load", fork |-> f,
                                          retry |-> task[f].retry, ids |-> {}, choice |-> None]]
    BY <1>5 DEF Claim
  <2>2. agent'[a].ids = {} /\ \A b \in Agent : b # a => agent'[b] = agent[b]
    BY <1>a, <2>1 DEF Slots
  <2>3. QED BY <1>4, <2>1, <2>2
<1>6. ASSUME NEW a \in Agent, LoadCandidates(a) PROVE RowsInv'
  <2>1. /\ agent[a].pc = "load" /\ UNCHANGED <<rows, written, knows, clock, forks>>
        /\ \/ agent' = [agent EXCEPT ![a].pc = "mark"]
           \/ agent' = [agent EXCEPT ![a].pc = "resolve", ![a].choice = Min(Existing(a))]
           \/ agent' = [agent EXCEPT ![a].pc = "read", ![a].ids = Existing(a)]
    BY <1>6 DEF LoadCandidates
  <2>2. Existing(a) \subseteq Object /\ IsFiniteSet(Existing(a))
    <3>1. agent[a].fork \in Fork /\ objects \subseteq Object
      BY <2>1 DEF Inv, ShapeInv
    <3>2. IsFiniteSet(forks[agent[a].fork].ids)
      BY <3>1 DEF RowsInv
    <3>3. Existing(a) \in SUBSET forks[agent[a].fork].ids
      BY DEF Existing
    <3>4. IsFiniteSet(Existing(a))
      BY <3>2, <3>3, FS_Subset
    <3>5. QED BY <3>1, <3>4 DEF Existing
  <2>3. \A b \in Agent : b # a => agent'[b] = agent[b]
    BY <1>a, <2>1 DEF Slots
  <2>4. agent'[a].ids = agent[a].ids \/ agent'[a].ids = Existing(a)
    BY <1>a, <2>1 DEF Slots, Fields
  <2>5. QED BY <1>2, <2>1, <2>2, <2>3, <2>4 DEF RowsInv
<1>7. ASSUME NEW a \in Agent, ChooseWinner(a) \/ CriticChooses(a) \/ MarkResolved(a)
      PROVE  UNCHANGED <<rows, written, knows, clock>> /\
             \E p, c : \/ agent' = [agent EXCEPT ![a].pc = p, ![a].choice = c]
                       \/ agent' = [agent EXCEPT ![a].pc = p]
  BY <1>7 DEF ChooseWinner, CriticChooses, MarkResolved
<1>8. ASSUME NEW a \in Agent, ChooseWinner(a) \/ CriticChooses(a) \/ MarkResolved(a)
      PROVE  agent'[a].ids = agent[a].ids /\ \A b \in Agent : b # a => agent'[b] = agent[b]
  <2>1. PICK p, c : \/ agent' = [agent EXCEPT ![a].pc = p, ![a].choice = c]
                    \/ agent' = [agent EXCEPT ![a].pc = p]
    BY <1>7, <1>8
  <2>2. QED BY <1>a, <2>1 DEF Slots, Fields
<1>9. ASSUME NEW a \in Agent, ChooseWinner(a) \/ CriticChooses(a) PROVE RowsInv'
  <2>1. UNCHANGED forks
    BY <1>9 DEF ChooseWinner, CriticChooses
  <2>2. QED BY <1>4, <1>7, <1>8, <1>9, <2>1
<1>10. ASSUME NEW a \in Agent, MarkResolved(a) PROVE RowsInv'
  <2> DEFINE g == agent[a].fork
  <2>1. g \in Fork /\ forks \in Seq(ForkRow) /\ forks' = [forks EXCEPT ![g].resolved = TRUE]
    BY <1>10 DEF MarkResolved, Inv, ShapeInv
  <2> HIDE DEF g
  <2>2. Fork' = Fork /\ \A f \in Fork : forks'[f].ids = forks[f].ids
    <3>1. forks[g] \in ForkRow
      BY <2>1 DEF Fork
    <3>2. [forks[g] EXCEPT !.resolved = TRUE].ids = forks[g].ids
      BY <3>1 DEF ForkRow
    <3>3. PICK row : row.ids = forks[g].ids /\ forks' = [forks EXCEPT ![g] = row]
      BY <2>1, <3>2
    <3>4. QED BY <2>1, <3>3 DEF Fork
  <2>3. QED BY <1>7, <1>8, <1>10, <2>2 DEF RowsInv, Live
<1>11. ASSUME NEW a \in Agent, ResolvePointer(a) PROVE RowsInv'
  <2> DEFINE winner == agent[a].choice
             pc1 == AfterResolve(winner \in Live)
  <2>1. /\ UNCHANGED <<written, knows, clock, forks>>
        /\ agent' = [agent EXCEPT ![a].pc = pc1, ![a].ids = {}, ![a].choice = None]
        /\ IF winner \in Live THEN rows' = [o \in {winner} |-> rows[o]] ELSE UNCHANGED rows
    BY <1>11 DEF ResolvePointer
  <2> HIDE DEF pc1
  <2>2. agent'[a].ids = {} /\ \A b \in Agent : b # a => agent'[b] = agent[b]
    BY <1>a, <2>1 DEF Slots, Fields
  <2>3. /\ rows' \in [Live' -> [vv : Vectors, at : Nat \ {0}]]
        /\ \A o \in Live' : \E r \in Replica : rows'[o].vv[r] # 0
    BY <2>1 DEF RowsInv, Live
  <2>4. IsFiniteSet({})
    BY FS_EmptySet
  <2>5. QED BY <2>1, <2>2, <2>3, <2>4 DEF RowsInv, Fork
<1>12. ASSUME NEW a \in Agent, Report(a) \/ AgentCrash(a) PROVE RowsInv'
  <2>1. /\ UNCHANGED <<rows, written, knows, clock, forks>>
        /\ agent' = [agent EXCEPT ![a] = Idle]
    BY <1>12 DEF Report, AgentCrash
  <2>2. agent'[a].ids = {} /\ \A b \in Agent : b # a => agent'[b] = agent[b]
    BY <1>a, <2>1 DEF Slots, Idle
  <2>3. QED BY <1>4, <2>1, <2>2
<1>13. ASSUME NEW f \in Fork, OnFork(f) \/ ForkMissed(f) \/ LoseLease(f) PROVE RowsInv'
  BY <1>3, <1>13 DEF OnFork, ForkMissed, LoseLease
<1>14. CASE UNCHANGED vars
  BY <1>3, <1>14 DEF vars
<1>15. QED
  BY <1>1, <1>5, <1>6, <1>9, <1>10, <1>11, <1>12, <1>13, <1>14 DEF Next, Work

LEMMA RowsInitially == Init => RowsInv
<1> SUFFICES ASSUME Init PROVE RowsInv
  OBVIOUS
<1>1. Live = {} /\ Fork = {} /\ \A a \in Agent : agent[a].ids = {}
  BY DEF Init, Live, Fork, Idle
<1>2. IsFiniteSet({})
  BY FS_EmptySet
<1>3. knows \in [Replica -> Vectors] /\ clock \in Nat
  BY DEF Init, Zero, Vectors
<1>4. rows \in [Live -> [vv : Vectors, at : Nat \ {0}]]
  BY <1>1 DEF Init
<1>5. QED BY <1>1, <1>2, <1>3, <1>4 DEF Init, RowsInv

LEMMA ListsOnce ==
    ASSUME NEW S, IsFiniteSet(S), NEW ids \in Lists(S)
    PROVE  /\ DOMAIN ids \in SUBSET Nat /\ IsFiniteSet(DOMAIN ids)
           /\ \A i \in DOMAIN ids : ids[i] \in S
           /\ \A o \in S : \E i \in DOMAIN ids : ids[i] = o
           /\ \A i, j \in DOMAIN ids : ids[i] = ids[j] => i = j
<1> DEFINE n == Cardinality(S)
<1>1. n \in Nat
  BY FS_CardinalityType
<1> HIDE DEF n
<1>2. ids \in [1..n -> S] /\ \A o \in S : \E i \in DOMAIN ids : ids[i] = o
  BY DEF Lists, n
<1>3. IsFiniteSet(1..n) /\ Cardinality(1..n) = n
  BY <1>1, FS_Interval
<1>4. ids \in Surjection(1..n, S)
  BY <1>2 DEF Surjection
<1>5. ids \in Injection(1..n, S)
  BY <1>3, <1>4, FS_Surjection DEF n
<1>6. \A i, j \in 1..n : ids[i] = ids[j] => i = j
  BY <1>5 DEF Injection, IsInjective
<1>7. QED BY <1>1, <1>2, <1>3, <1>6

\* What the agent reads of the fork's candidates: a live one has a stamp and has counted
\* a write, the others have neither.
LEMMA ChoiceIsLive ==
    ASSUME Inv, RowsInv, NEW S \in SUBSET Object, IsFiniteSet(S), NEW ids \in Lists(S),
           S \cap Live # {},
           \/ Cardinality(S \cap Live) = 1
           \/ Cardinality({rows[o].at : o \in S \cap Live}) > 1
    PROVE  SelectWinner([i \in DOMAIN ids |-> Candidate(ids[i])]) \in S \cap Live
<1> DEFINE c == [i \in DOMAIN ids |-> Candidate(ids[i])]
           D == DOMAIN ids
           live == S \cap Live
<1>1. /\ D \in SUBSET Nat /\ IsFiniteSet(D)
      /\ \A i \in D : ids[i] \in S
      /\ \A o \in S : \E i \in D : ids[i] = o
      /\ \A i, j \in D : ids[i] = ids[j] => i = j
  BY ListsOnce
<1>2. DOMAIN c = D /\ \A i \in D : c[i].id = ids[i]
  BY DEF Candidate
<1>3. ASSUME NEW i \in D, ids[i] \in Live
      PROVE  /\ c[i].vv = rows[ids[i]].vv /\ c[i].vv \in Vectors
             /\ c[i].at = rows[ids[i]].at /\ c[i].at \in Nat \ {0}
             /\ \E r \in Replica : c[i].vv[r] # 0
  BY <1>3 DEF Candidate, RowsInv
<1>4. ASSUME NEW i \in D, ids[i] \notin Live PROVE c[i].vv = Zero /\ c[i].at = 0
  BY <1>4 DEF Candidate
<1>5. live # {} /\ IsFiniteSet(live)
  BY FS_Subset
<1>6. S \subseteq Nat
  BY ObjectAssumption
<1> HIDE DEF c
<1>7. ASSUME NEW i \in NewestOf(c) PROVE c[i].id \in live
  <2>1. i \in D
    BY <1>2 DEF NewestOf
  <2>2. SUFFICES ASSUME ids[i] \notin Live PROVE FALSE
    BY <1>1, <1>2, <2>1
  <2>3. PICK j \in D : ids[j] \in Live
    BY <1>1, <1>5
  <2>4. Before(c[j].vv, c[i].vv)
    BY <1>2, <2>1, <2>2, <2>3 DEF NewestOf, IsCausallyNewest
  <2>5. c[i].vv = Zero
    BY <1>4, <2>1, <2>2
  <2>6. PICK r \in Replica : c[j].vv[r] # 0
    BY <1>3, <2>3
  <2>7. c[j].vv \in Vectors
    BY <1>3, <2>3
  <2>8. c[j].vv[r] \in Nat /\ c[j].vv[r] <= 0
    BY <2>4, <2>5, <2>7 DEF Before, Zero, Vectors
  <2>9. QED BY <2>6, <2>8
<1>8. CASE NewestOf(c) # {}
  <2>1. NewestOf(c) \in SUBSET Nat
    BY <1>1, <1>2 DEF NewestOf
  <2>2. Min(NewestOf(c)) \in NewestOf(c)
    BY <1>8, <2>1, MinOf
  <2>3. SelectWinner(c) = c[Min(NewestOf(c))].id
    BY <1>8 DEF SelectWinner, NewestOf
  <2>4. QED BY <1>7, <2>2, <2>3 DEF c
<1>9. ASSUME NEW i \in Stamped(c) PROVE i \in D /\ ids[i] \in live /\ c[i].at \in Nat
  BY <1>1, <1>2, <1>3, <1>4 DEF Stamped
<1>10. CASE NewestOf(c) = {} /\ StampsDiffer(c)
  <2>1. Stamped(c) # {} /\ IsFiniteSet(Stamped(c))
    <3>1. Stamped(c) \in SUBSET D
      BY <1>9
    <3>2. QED BY <1>1, <1>10, <3>1, FS_Subset DEF StampsDiffer
  <2>2. PICK i \in Stamped(c) : \A j \in Stamped(c) : c[j].at <= c[i].at
    <3> DEFINE f == [j \in Stamped(c) |-> c[j].at]
    <3>1. f \in [Stamped(c) -> Nat]
      BY <1>9
    <3>2. \E i \in Stamped(c) : \A j \in Stamped(c) : f[j] <= f[i]
      <4> HIDE DEF f
      <4>1. QED BY <2>1, <3>1, Greatest
    <3>3. QED BY <3>2
  <2> DEFINE W == {c[j].id : j \in LastWritten(c)}
  <2>3. W \subseteq live
    BY <1>2, <1>9 DEF LastWritten
  <2>4. W # {}
    BY <2>2 DEF LastWritten
  <2>5. IsFiniteSet(W) /\ W \in SUBSET Nat
    BY <1>5, <1>6, <2>3, FS_Subset
  <2>6. LatestWrite(c) = Max(W)
    BY DEF LatestWrite
  <2>7. SelectWinner(c) = LatestWrite(c)
    BY <1>10 DEF SelectWinner, NewestOf
  <2> HIDE DEF W
  <2>8. Max(W) \in W
    BY <2>4, <2>5, MaxOf
  <2>9. QED BY <2>3, <2>6, <2>7, <2>8 DEF c
<1>11. CASE ~StampsDiffer(c)
  <2>1. ASSUME NEW o \in live, NEW q \in live PROVE rows[o].at = rows[q].at
    <3>1. PICK i \in D : ids[i] = o
      BY <1>1
    <3>2. PICK j \in D : ids[j] = q
      BY <1>1
    <3>3. i \in Stamped(c) /\ j \in Stamped(c)
      BY <1>2, <1>3, <3>1, <3>2 DEF Stamped
    <3>4. c[i].at = c[j].at
      BY <1>11, <3>3 DEF StampsDiffer
    <3>5. QED BY <1>3, <3>1, <3>2, <3>4
  <2>2. ~(Cardinality({rows[o].at : o \in live}) > 1)
    <3>1. PICK q \in live : TRUE
      BY <1>5
    <3>2. {rows[o].at : o \in live} = {rows[q].at}
      BY <2>1, <3>1
    <3>3. Cardinality({rows[o].at : o \in live}) = 1
      BY <3>2, FS_Singleton
    <3>4. QED BY <3>3
  <2>3. PICK o : live = {o}
    BY <1>5, <2>2, FS_Singleton
  <2>4. PICK i \in D : ids[i] = o
    BY <1>1, <2>3
  <2>5. ASSUME NEW j \in D \ {i} PROVE c[j].vv = Zero
    <3>1. ids[j] \notin Live
      BY <1>1, <2>3, <2>4
    <3>2. QED BY <1>4, <3>1
  <2>6. c[i].vv \in Vectors /\ \E r \in Replica : c[i].vv[r] # 0
    BY <1>3, <2>3, <2>4
  <2>7. Dominates(c[i].vv, Zero)
    <3>1. Before(Zero, c[i].vv)
      BY <2>6 DEF Before, Zero, Vectors
    <3>2. c[i].vv # Zero
      BY <2>6 DEF Zero
    <3>3. QED BY <3>1, <3>2 DEF Dominates
  <2>8. IsCausallyNewest(c, i)
    BY <1>2, <2>5, <2>7 DEF IsCausallyNewest, Dominates
  <2>9. NewestOf(c) # {}
    BY <1>2, <2>4, <2>8 DEF NewestOf
  <2>10. QED BY <1>8, <2>9
<1>12. QED BY <1>8, <1>10, <1>11

(* The Fork Resolution Agent decides for a row that is there, one of the fork's, while    *)
(* one of the fork's candidates is; among rows of one stamp it may not (_select_winner).  *)
THEOREM LiveHeadsAreChosen == Spec => ChoosesLiveHead
<1> DEFINE A(a) ==
        LET live == agent[a].ids \cap Live IN
        /\ ChooseWinner(a)
        /\ live # {}
        /\ Cardinality(live) = 1 \/ Cardinality({rows[o].at : o \in live}) > 1
        => agent'[a].choice \in live
<1>1. ASSUME Inv, RowsInv, NEW a \in ForkAgent PROVE A(a)
  <2> DEFINE S == agent[a].ids
  <2>1. SUFFICES ASSUME ChooseWinner(a), S \cap Live # {},
                        Cardinality(S \cap Live) = 1 \/ Cardinality({rows[o].at : o \in S \cap Live}) > 1
                 PROVE  agent'[a].choice \in S \cap Live
    OBVIOUS
  <2>2. a \in Agent
    BY DEF Agent
  <2>3. S \in SUBSET Object /\ IsFiniteSet(S)
    BY <1>1, <2>2 DEF RowsInv
  <2>4. PICK ids \in Lists(S) :
            agent' = [agent EXCEPT ![a].pc = "resolve",
                                   ![a].choice = SelectWinner([i \in DOMAIN ids |-> Candidate(ids[i])])]
    BY <2>1 DEF ChooseWinner
  <2> DEFINE w == SelectWinner([i \in DOMAIN ids |-> Candidate(ids[i])])
  <2>5. w \in S \cap Live
    BY <1>1, <2>1, <2>3, ChoiceIsLive
  <2>6. agent' = [agent EXCEPT ![a].pc = "resolve", ![a].choice = w]
    BY <2>4
  <2> HIDE DEF w
  <2>7. agent'[a].choice = w
    BY <1>1, <2>2, <2>6 DEF Inv, ShapeInv, Slots, Fields
  <2>8. QED BY <2>5, <2>7
<1>2. Inv /\ RowsInv => [\A a \in ForkAgent : A(a)]_vars
  BY <1>1
<1>3. QED BY <1>2, Initially, Step, RowsInitially, RowsStep, PTL DEF Spec, ChoosesLiveHead

-----------------------------------------------------------------------------
(* The verdict of the LCA Arbiter                                          *)

\* The recursion of a neighbourhood, as a property of the neighbourhoods up to depth n.
Grows(G, seeds, f, n) ==
    f = [d \in 0..n |-> IF d = 0 THEN seeds \cap G.nodes
                        ELSE f[d - 1] \cup UNION {e \in G.edges : e \cap f[d - 1] # {}}]

LEMMA GrowthExists ==
    ASSUME NEW G, NEW seeds, NEW n \in Nat
    PROVE  \E f : Grows(G, seeds, f, n)
<1> DEFINE T == {k \in Nat : ~\E f : Grows(G, seeds, f, k)}
<1>1. SUFFICES ASSUME T # {} PROVE FALSE
  OBVIOUS
<1>2. Min(T) \in T /\ \A k \in T : Min(T) <= k
  <2>1. T \in SUBSET Nat
    OBVIOUS
  <2> HIDE DEF T
  <2>2. QED BY <1>1, <2>1, MinOf
<1> DEFINE k == Min(T)
<1>3. k \in Nat /\ k \in T /\ \A i \in T : k <= i
  BY <1>2
<1>4. k # 0
  <2>1. Grows(G, seeds, [d \in 0..0 |-> seeds \cap G.nodes], 0)
    BY DEF Grows
  <2>2. 0 \notin T
    BY <2>1
  <2>3. QED BY <1>3, <2>2
<1>5. k - 1 \in Nat /\ k - 1 \notin T
  <2> HIDE DEF T, k
  <2>1. ~(k <= k - 1) /\ k - 1 \in Nat
    BY <1>3, <1>4
  <2>2. QED BY <1>3, <2>1
<1> HIDE DEF k
<1>6. PICK f : Grows(G, seeds, f, k - 1)
  BY <1>5
<1> DEFINE next == f[k - 1] \cup UNION {e \in G.edges : e \cap f[k - 1] # {}}
           g == [d \in 0..k |-> IF d = k THEN next ELSE f[d]]
<1>7. Grows(G, seeds, g, k)
  <2>1. \A d \in 0..k - 1 : g[d] = f[d]
    BY <1>3
  <2>2. ASSUME NEW d \in 0..k
        PROVE  g[d] = IF d = 0 THEN seeds \cap G.nodes
                      ELSE g[d - 1] \cup UNION {e \in G.edges : e \cap g[d - 1] # {}}
    <3>1. CASE d = k
      <4>1. g[d] = next /\ k - 1 \in 0..k - 1
        BY <1>3, <1>4, <3>1
      <4>2. g[d - 1] = f[k - 1]
        BY <2>1, <3>1, <4>1
      <4>3. QED BY <1>4, <3>1, <4>1, <4>2
    <3>2. CASE d # k
      <4>1. d \in 0..k - 1 /\ (d # 0 => d - 1 \in 0..k - 1)
        BY <1>3, <3>2
      <4>2. f[d] = IF d = 0 THEN seeds \cap G.nodes
                   ELSE f[d - 1] \cup UNION {e \in G.edges : e \cap f[d - 1] # {}}
        BY <1>6, <4>1 DEF Grows
      <4>3. QED BY <2>1, <4>1, <4>2
    <3>3. QED BY <3>1, <3>2
  <2>3. QED BY <2>2 DEF Grows
<1>8. QED BY <1>3, <1>7

LEMMA NeighbourhoodGrows ==
    ASSUME NEW G, NEW seeds, NEW n \in Nat
    PROVE  Grows(G, seeds, Neighbourhood(G, seeds, n), n)
<1>1. Neighbourhood(G, seeds, n) = CHOOSE f : Grows(G, seeds, f, n)
  BY DEF Neighbourhood, Grows
<1>2. QED BY <1>1, GrowthExists

LEMMA NearestIsSymmetric ==
    ASSUME NEW A, NEW B, NEW common, DOMAIN A \subseteq Nat, DOMAIN B \subseteq Nat,
           \A n \in common : (\E d \in DOMAIN A : n \in A[d]) /\ (\E d \in DOMAIN B : n \in B[d])
    PROVE  /\ Nearest(A, B, common) = Nearest(B, A, common)
           /\ \A n \in common : FirstSeen(A, n) \in Nat /\ FirstSeen(B, n) \in Nat
<1>1. ASSUME NEW n \in common PROVE FirstSeen(A, n) \in Nat /\ FirstSeen(B, n) \in Nat
  <2>1. /\ {d \in DOMAIN A : n \in A[d]} \in SUBSET Nat /\ {d \in DOMAIN A : n \in A[d]} # {}
        /\ {d \in DOMAIN B : n \in B[d]} \in SUBSET Nat /\ {d \in DOMAIN B : n \in B[d]} # {}
    OBVIOUS
  <2>2. QED BY <2>1, MinOf DEF FirstSeen
<1> DEFINE sumAB(n) == FirstSeen(A, n) + FirstSeen(B, n)
           sumBA(n) == FirstSeen(B, n) + FirstSeen(A, n)
           farAB(n) == Max({FirstSeen(A, n), FirstSeen(B, n)})
           farBA(n) == Max({FirstSeen(B, n), FirstSeen(A, n)})
           beforeAB(n, o) == \/ sumAB(n) < sumAB(o)
                             \/ sumAB(n) = sumAB(o) /\ farAB(n) < farAB(o)
                             \/ sumAB(n) = sumAB(o) /\ farAB(n) = farAB(o) /\ n < o
           beforeBA(n, o) == \/ sumBA(n) < sumBA(o)
                             \/ sumBA(n) = sumBA(o) /\ farBA(n) < farBA(o)
                             \/ sumBA(n) = sumBA(o) /\ farBA(n) = farBA(o) /\ n < o
<1>2. \A n \in common : sumAB(n) = sumBA(n)
  BY <1>1
<1>3. \A n \in common : farAB(n) = farBA(n)
  <2>1. \A n \in common : {FirstSeen(A, n), FirstSeen(B, n)} = {FirstSeen(B, n), FirstSeen(A, n)}
    OBVIOUS
  <2>2. QED BY <2>1
<1> HIDE DEF sumAB, sumBA, farAB, farBA
<1>4. ASSUME NEW n \in common
      PROVE  (\A o \in common \ {n} : beforeAB(n, o)) <=> (\A o \in common \ {n} : beforeBA(n, o))
  BY <1>2, <1>3
<1>5. (CHOOSE n \in common : \A o \in common \ {n} : beforeAB(n, o))
          = (CHOOSE n \in common : \A o \in common \ {n} : beforeBA(n, o))
  <2> HIDE DEF beforeAB, beforeBA
  <2>1. QED BY <1>4
<1>6. Nearest(A, B, common) = Nearest(B, A, common)
  BY <1>5 DEF Nearest, beforeAB, beforeBA, sumAB, sumBA, farAB, farBA
<1>7. QED BY <1>1, <1>6

\* find_lca from the other side: the same ancestor, the depths exchanged.
LEMMA LcaIsSymmetric ==
    ASSUME NEW G, NEW a, NEW b, NEW maxDepth \in Nat
    PROVE  /\ FindLca(G, a, b, maxDepth).found = FindLca(G, b, a, maxDepth).found
           /\ FindLca(G, a, b, maxDepth).lca = FindLca(G, b, a, maxDepth).lca
<1> DEFINE A == Neighbourhood(G, {a}, maxDepth)
           B == Neighbourhood(G, {b}, maxDepth)
<1>1. DOMAIN A = 0..maxDepth /\ DOMAIN B = 0..maxDepth
  <2>1. Grows(G, {a}, A, maxDepth) /\ Grows(G, {b}, B, maxDepth)
    BY NeighbourhoodGrows
  <2>2. QED BY <2>1 DEF Grows
<1> DEFINE ends == {d \in 0..maxDepth : A[d] \cap B[d] # {} \/ (d > 0 /\ ~Grew(A, d) /\ ~Grew(B, d))}
           d == SearchEnds(A, B, maxDepth)
<1> HIDE DEF A, B
<1>2. d = SearchEnds(B, A, maxDepth)
  <2>1. ends = {x \in 0..maxDepth : B[x] \cap A[x] # {} \/ (x > 0 /\ ~Grew(B, x) /\ ~Grew(A, x))}
    <3>1. \A x \in 0..maxDepth : A[x] \cap B[x] = B[x] \cap A[x]
      OBVIOUS
    <3>2. QED BY <3>1
  <2>2. QED BY <2>1 DEF SearchEnds
<1>3. d \in Nat
  <2>1. {maxDepth + 1} \cup ends \in SUBSET Nat /\ {maxDepth + 1} \cup ends # {}
    OBVIOUS
  <2>2. d = Min({maxDepth + 1} \cup ends)
    BY DEF SearchEnds
  <2> HIDE DEF ends, d
  <2>3. QED BY <2>1, <2>2, MinOf
<1> HIDE DEF ends, d
<1>4. ASSUME ~(d > maxDepth)
      PROVE  /\ AncestorAt(A, B, d).found = AncestorAt(B, A, d).found
             /\ AncestorAt(A, B, d).lca = AncestorAt(B, A, d).lca
  <2>1. d \in 0..maxDepth
    BY <1>3, <1>4
  <2>2. A[d] \cap B[d] = B[d] \cap A[d]
    OBVIOUS
  <2>3. Nearest(A, B, A[d] \cap B[d]) = Nearest(B, A, A[d] \cap B[d])
    BY <1>1, <2>1, NearestIsSymmetric
  <2>4. QED BY <2>2, <2>3 DEF AncestorAt, Found, NotFound
<1>5. FindLca(G, a, b, maxDepth) = IF a = b THEN Found(a, 0, 0)
                                   ELSE IF ~({a, b} \subseteq G.nodes) \/ d > maxDepth THEN NotFound
                                   ELSE AncestorAt(A, B, d)
  BY DEF FindLca, A, B, d
<1>6. FindLca(G, b, a, maxDepth) = IF b = a THEN Found(b, 0, 0)
                                   ELSE IF ~({b, a} \subseteq G.nodes) \/ d > maxDepth THEN NotFound
                                   ELSE AncestorAt(B, A, d)
  BY <1>2 DEF FindLca, A, B
<1>7. QED BY <1>4, <1>5, <1>6

LEMMA VerdictEitherWay ==
    ASSUME NEW a, NEW b, NEW lca, NEW deltaA, NEW deltaB, NEW bad
    PROVE  Verdict(a, b, lca, deltaA, deltaB, bad) = Verdict(b, a, lca, deltaB, deltaA, bad)
<1>1. ClassifyConflict(deltaA, deltaB) = ClassifyConflict(deltaB, deltaA)
  <2>1. deltaA.nodes \cap deltaB.nodes = deltaB.nodes \cap deltaA.nodes
    OBVIOUS
  <2>2. QED BY <2>1 DEF ClassifyConflict
<1>2. \A p, q \in BOOLEAN : WinnerOf(a, b, p, q) = WinnerOf(b, a, q, p)
  BY DEF WinnerOf
<1>3. WinnerOf(a, b, Valid(deltaA, bad), Valid(deltaB, bad)) = WinnerOf(b, a, Valid(deltaB, bad), Valid(deltaA, bad))
  BY <1>2 DEF Valid
<1>4. {a, b} = {b, a}
  OBVIOUS
<1>5. QED BY <1>1, <1>3, <1>4 DEF Verdict

\* With two candidates there is one pair to try.
LEMMA OnlyPair ==
    ASSUME NEW G, NEW a, NEW b, NEW bad, NEW maxDepth
    PROVE  TryLca(G, <<a, b>>, bad, maxDepth) =
               IF {a, b} \subseteq G.nodes THEN ResolveWithLca(G, a, b, bad, maxDepth).winner ELSE 0
<1> DEFINE ids == <<a, b>>
           w == ResolveWithLca(G, a, b, bad, maxDepth).winner
           verdict(p) == ResolveWithLca(G, ids[p[1]], ids[p[2]], bad, maxDepth).winner
           conclusive == {p \in (DOMAIN ids) \X (DOMAIN ids) :
                             p[1] < p[2] /\ {ids[p[1]], ids[p[2]]} \subseteq G.nodes /\ verdict(p) # 0}
           only == <<1, 2>>
<1>1. /\ DOMAIN ids = {1, 2} /\ ids[1] = a /\ ids[2] = b
      /\ only \in (DOMAIN ids) \X (DOMAIN ids) /\ only[1] = 1 /\ only[2] = 2
  OBVIOUS
<1>2. \A p \in (DOMAIN ids) \X (DOMAIN ids) : p[1] < p[2] => p = only
  BY <1>1
<1>3. verdict(only) = w
  BY <1>1
<1>4. \A p \in conclusive : p = only
  BY <1>2
<1>5. only \in conclusive <=> {a, b} \subseteq G.nodes /\ w # 0
  BY <1>1, <1>3
<1>6. TryLca(G, ids, bad, maxDepth) =
          IF conclusive = {} THEN 0
          ELSE verdict(CHOOSE p \in conclusive : \A q \in conclusive :
                          p[1] < q[1] \/ (p[1] = q[1] /\ p[2] <= q[2]))
  BY DEF TryLca
<1>7. CASE only \in conclusive
  <2>1. conclusive = {only}
    BY <1>4, <1>7
  <2>2. only[1] = only[1] /\ only[2] <= only[2]
    BY <1>1
  <2> HIDE DEF conclusive, only
  <2>3. (CHOOSE p \in conclusive : \A q \in conclusive :
             p[1] < q[1] \/ (p[1] = q[1] /\ p[2] <= q[2])) = only
    BY <2>1, <2>2
  <2>4. conclusive # {}
    BY <2>1
  <2>5. TryLca(G, ids, bad, maxDepth) = verdict(only)
    BY <1>6, <2>3, <2>4
  <2> HIDE DEF verdict, w
  <2>6. QED BY <1>3, <1>5, <1>7, <2>5 DEF w
<1>8. CASE only \notin conclusive
  <2>1. conclusive = {}
    BY <1>4, <1>8
  <2> HIDE DEF conclusive, only, w
  <2>2. QED BY <1>5, <1>6, <1>8, <2>1 DEF w
<1>9. QED BY <1>7, <1>8

(* Replicas that name the branches of a fork in opposite orders reach one verdict, record *)
(* one Resolution object and choose one candidate, in any graph, whatever validation      *)
(* rejects and to any depth of search (resolve_with_lca, _try_lca_resolution).            *)
THEOREM VerdictsAgree ==
    ASSUME NEW G, NEW a, NEW b, NEW bad, NEW maxDepth \in Nat
    PROVE  VerdictIsSymmetric(G, a, b, bad, maxDepth)
<1> DEFINE ab == FindLca(G, a, b, maxDepth)
           ba == FindLca(G, b, a, maxDepth)
<1>1. ab.found = ba.found /\ ab.lca = ba.lca
  BY LcaIsSymmetric
<1> HIDE DEF ab, ba
<1>2. ResolveWithLca(G, a, b, bad, maxDepth) = ResolveWithLca(G, b, a, bad, maxDepth)
  <2> DEFINE deltaA == ExtractDelta(G, ab.lca, a, maxDepth)
             deltaB == ExtractDelta(G, ab.lca, b, maxDepth)
  <2>1. ResolveWithLca(G, a, b, bad, maxDepth) =
            IF ~ab.found THEN Unresolved ELSE Verdict(a, b, ab.lca, deltaA, deltaB, bad)
    BY DEF ResolveWithLca, ab
  <2>2. ResolveWithLca(G, b, a, bad, maxDepth) =
            IF ~ab.found THEN Unresolved ELSE Verdict(b, a, ab.lca, deltaB, deltaA, bad)
    BY <1>1 DEF ResolveWithLca, ba
  <2> HIDE DEF deltaA, deltaB
  <2>3. QED BY <2>1, <2>2, VerdictEitherWay
<1>3. TryLca(G, <<a, b>>, bad, maxDepth) = TryLca(G, <<b, a>>, bad, maxDepth)
  <2>1. {a, b} \subseteq G.nodes <=> {b, a} \subseteq G.nodes
    OBVIOUS
  <2>2. QED BY <1>2, <2>1, OnlyPair
<1>4. QED BY <1>2, <1>3 DEF VerdictIsSymmetric

(* An erroneous_branch verdict never drops the branch that is right: what validation      *)
(* rejects is in the loser's neighbourhood and not in the winner's.                       *)
THEOREM OnlyTheFaultyIsDropped ==
    ASSUME NEW G, NEW a, NEW b, NEW bad, NEW maxDepth
    PROVE  LoserIsAtFault(G, a, b, bad, maxDepth)
<1> DEFINE v == ResolveWithLca(G, a, b, bad, maxDepth)
           lca == FindLca(G, a, b, maxDepth).lca
           validA == Valid(ExtractDelta(G, lca, a, maxDepth), bad)
           validB == Valid(ExtractDelta(G, lca, b, maxDepth), bad)
<1>1. SUFFICES ASSUME v.winner # 0
      PROVE  LET loser == IF v.winner = a THEN b ELSE a IN
             /\ Valid(ExtractDelta(G, v.lca, v.winner, maxDepth), bad)
             /\ ~Valid(ExtractDelta(G, v.lca, loser, maxDepth), bad)
  BY DEF LoserIsAtFault
<1>2. v.lca = lca /\ v.winner = WinnerOf(a, b, validA, validB)
  BY <1>1 DEF ResolveWithLca, Verdict, Unresolved
<1> HIDE DEF v, lca
<1>3. \/ validA /\ ~validB /\ v.winner = a
      \/ validB /\ ~validA /\ v.winner = b
  BY <1>1, <1>2 DEF WinnerOf
<1>4. a # b
  BY <1>3
<1>5. QED BY <1>2, <1>3, <1>4

-----------------------------------------------------------------------------
(* Neighbourhoods and distances                                            *)

LEMMA Induct ==
    ASSUME NEW T \in SUBSET Nat, 0 \in T, \A k \in T : k + 1 \in T
    PROVE  T = Nat
<1> DEFINE U == Nat \ T
<1>1. SUFFICES ASSUME U # {} PROVE FALSE
  OBVIOUS
<1>2. Min(U) \in U /\ \A k \in U : Min(U) <= k
  <2>1. U \in SUBSET Nat
    OBVIOUS
  <2> HIDE DEF U
  <2>2. QED BY <1>1, <2>1, MinOf
<1>3. PICK m \in U : \A k \in U : m <= k
  BY <1>2
<1>4. m # 0 /\ m - 1 \in Nat /\ ~(m <= m - 1)
  BY <1>3
<1>5. m - 1 \in T
  BY <1>3, <1>4
<1>6. (m - 1) + 1 = m
  BY <1>3
<1>7. QED BY <1>3, <1>5, <1>6

\* Within d hops of x; the nodes of the relations that touch S.
Ball(G, x, d) == Neighbourhood(G, {x}, d)[d]
Touching(G, S) == UNION {e \in G.edges : e \cap S # {}}

LEMMA GrowthIsUnique ==
    ASSUME NEW G, NEW seeds, NEW n \in Nat, NEW k \in Nat, NEW f, NEW g,
           Grows(G, seeds, f, n), Grows(G, seeds, g, k), NEW d \in Nat, d <= n, d <= k
    PROVE  f[d] = g[d]
<1> DEFINE T == {i \in Nat : i <= n /\ i <= k => f[i] = g[i]}
<1>1. 0 \in T
  BY DEF Grows
<1>2. ASSUME NEW i \in T PROVE i + 1 \in T
  <2>1. SUFFICES ASSUME i + 1 <= n, i + 1 <= k PROVE f[i + 1] = g[i + 1]
    OBVIOUS
  <2>2. f[i] = g[i] /\ i + 1 \in 0..n /\ i + 1 \in 0..k /\ (i + 1) - 1 = i /\ i + 1 # 0
    BY <1>2, <2>1
  <2>3. f[i + 1] = f[i] \cup UNION {e \in G.edges : e \cap f[i] # {}}
    BY <2>2 DEF Grows
  <2>4. g[i + 1] = g[i] \cup UNION {e \in G.edges : e \cap g[i] # {}}
    BY <2>2 DEF Grows
  <2>5. QED BY <2>2, <2>3, <2>4
<1>3. T = Nat
  <2>1. T \in SUBSET Nat
    OBVIOUS
  <2> HIDE DEF T
  <2>2. QED BY <1>1, <1>2, <2>1, Induct
<1>4. QED BY <1>3

LEMMA BallOf ==
    ASSUME NEW G, NEW x, NEW m \in Nat, NEW d \in 0..m
    PROVE  Neighbourhood(G, {x}, m)[d] = Ball(G, x, d)
<1>1. Grows(G, {x}, Neighbourhood(G, {x}, m), m) /\ Grows(G, {x}, Neighbourhood(G, {x}, d), d)
  BY NeighbourhoodGrows
<1>2. QED BY <1>1, GrowthIsUnique DEF Ball

LEMMA BallStart ==
    ASSUME NEW G, NEW x
    PROVE  Ball(G, x, 0) = {x} \cap G.nodes
<1> DEFINE f == Neighbourhood(G, {x}, 0)
<1>1. Grows(G, {x}, f, 0)
  BY NeighbourhoodGrows
<1> HIDE DEF f
<1>2. f[0] = {x} \cap G.nodes
  BY <1>1 DEF Grows
<1>3. QED BY <1>2 DEF Ball, f

LEMMA BallNext ==
    ASSUME NEW G, NEW x, NEW d \in Nat
    PROVE  Ball(G, x, d + 1) = Ball(G, x, d) \cup Touching(G, Ball(G, x, d))
<1> DEFINE f == Neighbourhood(G, {x}, d + 1)
<1>1. Grows(G, {x}, f, d + 1)
  BY NeighbourhoodGrows
<1>2. f[d] = Ball(G, x, d) /\ f[d + 1] = Ball(G, x, d + 1)
  <2>1. d \in 0..d + 1 /\ d + 1 \in 0..d + 1 /\ d + 1 \in Nat
    OBVIOUS
  <2>2. QED BY <2>1, BallOf
<1> HIDE DEF f
<1>3. f[d + 1] = f[d] \cup UNION {e \in G.edges : e \cap f[d] # {}}
  <2>1. d + 1 \in 0..d + 1 /\ d + 1 # 0 /\ (d + 1) - 1 = d
    OBVIOUS
  <2>2. QED BY <1>1, <2>1 DEF Grows
<1>4. QED BY <1>2, <1>3 DEF Touching

\* One hop more from x reaches what shares a relation with a node within reach.
LEMMA OneHop ==
    ASSUME NEW G, NEW x, NEW d \in Nat, NEW y
    PROVE  y \in Ball(G, x, d + 1) <=>
               \/ y \in Ball(G, x, d)
               \/ \E e \in G.edges, u \in Ball(G, x, d) : u \in e /\ y \in e
<1>1. Ball(G, x, d + 1) = Ball(G, x, d) \cup Touching(G, Ball(G, x, d))
  BY BallNext
<1>2. y \in Touching(G, Ball(G, x, d)) <=> \E e \in G.edges : y \in e /\ e \cap Ball(G, x, d) # {}
  BY DEF Touching
<1>3. (\E e \in G.edges : y \in e /\ e \cap Ball(G, x, d) # {})
         <=> \E e \in G.edges, u \in Ball(G, x, d) : u \in e /\ y \in e
  OBVIOUS
<1>4. QED BY <1>1, <1>2, <1>3

LEMMA BallsAreNodes ==
    ASSUME NEW G, Hypergraph(G), NEW x, NEW d \in Nat
    PROVE  Ball(G, x, d) \subseteq G.nodes
<1> DEFINE T == {i \in Nat : Ball(G, x, i) \subseteq G.nodes}
<1>1. 0 \in T
  BY BallStart
<1>2. ASSUME NEW i \in T PROVE i + 1 \in T
  <2>1. ASSUME NEW y \in Ball(G, x, i + 1) PROVE y \in G.nodes
    <3>1. y \in Ball(G, x, i) \/ \E e \in G.edges : y \in e
      BY OneHop
    <3>2. QED BY <3>1 DEF Hypergraph
  <2>2. QED BY <2>1
<1>3. T = Nat
  <2>1. T \in SUBSET Nat
    OBVIOUS
  <2> HIDE DEF T
  <2>2. QED BY <1>1, <1>2, <2>1, Induct
<1>4. QED BY <1>3

LEMMA BallsWiden ==
    ASSUME NEW G, NEW x, NEW d \in Nat, NEW k \in Nat
    PROVE  Ball(G, x, d) \subseteq Ball(G, x, d + k)
<1> DEFINE T == {i \in Nat : Ball(G, x, d) \subseteq Ball(G, x, d + i)}
<1>1. 0 \in T
  OBVIOUS
<1>2. ASSUME NEW i \in T PROVE i + 1 \in T
  <2>1. d + i \in Nat /\ d + (i + 1) = (d + i) + 1
    OBVIOUS
  <2>2. Ball(G, x, d + i) \subseteq Ball(G, x, (d + i) + 1)
    BY <2>1, OneHop
  <2>3. QED BY <2>1, <2>2
<1>3. T = Nat
  <2>1. T \in SUBSET Nat
    OBVIOUS
  <2> HIDE DEF T
  <2>2. QED BY <1>1, <1>2, <2>1, Induct
<1>4. QED BY <1>3

LEMMA HopsAdd ==
    ASSUME NEW G, Hypergraph(G), NEW x, NEW i \in Nat, NEW y \in Ball(G, x, i),
           NEW j \in Nat, NEW z \in Ball(G, y, j)
    PROVE  z \in Ball(G, x, i + j)
<1> DEFINE T == {k \in Nat : \A w \in Ball(G, y, k) : w \in Ball(G, x, i + k)}
<1>1. 0 \in T
  <2>1. Ball(G, y, 0) = {y} \cap G.nodes
    BY BallStart
  <2>2. i + 0 = i
    OBVIOUS
  <2>3. QED BY <2>1, <2>2
<1>2. ASSUME NEW k \in T PROVE k + 1 \in T
  <2>1. i + k \in Nat /\ i + (k + 1) = (i + k) + 1
    OBVIOUS
  <2>2. ASSUME NEW w \in Ball(G, y, k + 1) PROVE w \in Ball(G, x, (i + k) + 1)
    <3>1. CASE w \in Ball(G, y, k)
      BY <2>1, <3>1, OneHop
    <3>2. ASSUME NEW e \in G.edges, NEW u \in Ball(G, y, k), u \in e, w \in e
          PROVE  w \in Ball(G, x, (i + k) + 1)
      <4>1. u \in Ball(G, x, i + k)
        OBVIOUS
      <4>2. QED BY <2>1, <3>2, <4>1, OneHop
    <3>3. QED BY <3>1, <3>2, OneHop
  <2>3. QED BY <2>1, <2>2
<1>3. T = Nat
  <2>1. T \in SUBSET Nat
    OBVIOUS
  <2> HIDE DEF T
  <2>2. QED BY <1>1, <1>2, <2>1, Induct
<1>4. QED BY <1>3

LEMMA HopsReverse ==
    ASSUME NEW G, Hypergraph(G), NEW d \in Nat, NEW x \in G.nodes, NEW y \in Ball(G, x, d)
    PROVE  x \in Ball(G, y, d)
<1> DEFINE T == {k \in Nat : \A w \in Ball(G, x, k) : x \in Ball(G, w, k)}
<1>1. 0 \in T
  <2>1. Ball(G, x, 0) = {x} \cap G.nodes
    BY BallStart
  <2>2. QED BY <2>1
<1>2. ASSUME NEW k \in T PROVE k + 1 \in T
  <2>1. ASSUME NEW w \in Ball(G, x, k + 1) PROVE x \in Ball(G, w, k + 1)
    <3>1. CASE w \in Ball(G, x, k)
      BY <3>1, OneHop
    <3>2. ASSUME NEW e \in G.edges, NEW u \in Ball(G, x, k), u \in e, w \in e
          PROVE  x \in Ball(G, w, k + 1)
      <4>1. w \in G.nodes
        BY <3>2 DEF Hypergraph
      <4>2. w \in Ball(G, w, 0)
        BY <4>1, BallStart
      <4>3. u \in Ball(G, w, 0 + 1)
        BY <3>2, <4>2, OneHop
      <4>4. u \in Ball(G, w, 1) /\ x \in Ball(G, u, k)
        BY <4>3
      <4>5. x \in Ball(G, w, 1 + k)
        BY <4>4, HopsAdd
      <4>6. QED BY <4>5
    <3>3. QED BY <3>1, <3>2, OneHop
  <2>2. QED BY <2>1
<1>3. T = Nat
  <2>1. T \in SUBSET Nat
    OBVIOUS
  <2> HIDE DEF T
  <2>2. QED BY <1>1, <1>2, <2>1, Induct
<1>4. QED BY <1>3

\* What is within i + j hops has a node within i hops that it is within j hops of.
LEMMA HopsSplit ==
    ASSUME NEW G, Hypergraph(G), NEW x, NEW i \in Nat, NEW j \in Nat, NEW z \in Ball(G, x, i + j)
    PROVE  \E y \in Ball(G, x, i) : z \in Ball(G, y, j)
<1> DEFINE T == {k \in Nat : \A w \in Ball(G, x, i + k) : \E y \in Ball(G, x, i) : w \in Ball(G, y, k)}
<1>1. 0 \in T
  <2>1. ASSUME NEW w \in Ball(G, x, i + 0) PROVE \E y \in Ball(G, x, i) : w \in Ball(G, y, 0)
    <3>1. w \in Ball(G, x, i)
      OBVIOUS
    <3>2. w \in G.nodes
      BY <3>1, BallsAreNodes
    <3>3. w \in Ball(G, w, 0)
      BY <3>2, BallStart
    <3>4. QED BY <3>1, <3>3
  <2>2. QED BY <2>1
<1>2. ASSUME NEW k \in T PROVE k + 1 \in T
  <2>1. i + k \in Nat /\ i + (k + 1) = (i + k) + 1
    OBVIOUS
  <2>2. ASSUME NEW w \in Ball(G, x, (i + k) + 1) PROVE \E y \in Ball(G, x, i) : w \in Ball(G, y, k + 1)
    <3>1. CASE w \in Ball(G, x, i + k)
      <4>1. PICK y \in Ball(G, x, i) : w \in Ball(G, y, k)
        BY <3>1
      <4>2. QED BY <4>1, OneHop
    <3>2. ASSUME NEW e \in G.edges, NEW u \in Ball(G, x, i + k), u \in e, w \in e
          PROVE  \E y \in Ball(G, x, i) : w \in Ball(G, y, k + 1)
      <4>1. PICK y \in Ball(G, x, i) : u \in Ball(G, y, k)
        OBVIOUS
      <4>2. w \in Ball(G, y, k + 1)
        BY <3>2, <4>1, OneHop
      <4>3. QED BY <4>2
    <3>3. QED BY <2>1, <3>1, <3>2, OneHop
  <2>3. QED BY <2>1, <2>2
<1>3. T = Nat
  <2>1. T \in SUBSET Nat
    OBVIOUS
  <2> HIDE DEF T
  <2>2. QED BY <1>1, <1>2, <2>1, Induct
<1>4. QED BY <1>3

\* What is within k hops is linked by at most k relations.
LEMMA HopsLink ==
    ASSUME NEW G, Hypergraph(G), NEW x \in G.nodes, NEW k \in Nat, NEW y \in Ball(G, x, k)
    PROVE  \E E \in SUBSET G.edges : Links(G, E, x, y) /\ Cardinality(E) <= k
<1> DEFINE Short(i, w) == \E E \in SUBSET G.edges : Links(G, E, x, w) /\ Cardinality(E) <= i
           T == {i \in Nat : \A w \in Ball(G, x, i) : Short(i, w)}
<1>1. \A E \in SUBSET G.edges : IsFiniteSet(E) /\ Cardinality(E) \in Nat
  BY FS_Subset, FS_CardinalityType DEF Hypergraph
<1>2. 0 \in T
  <2>1. Ball(G, x, 0) = {x} \cap G.nodes
    BY BallStart
  <2>2. Links(G, {}, x, x) /\ {} \in SUBSET G.edges
    BY DEF Links
  <2>3. Cardinality({}) <= 0
    BY FS_EmptySet
  <2>4. Short(0, x)
    BY <2>2, <2>3
  <2> HIDE DEF Short
  <2>5. QED BY <2>1, <2>4
<1>3. ASSUME NEW i \in T PROVE i + 1 \in T
  <2>1. ASSUME NEW w \in Ball(G, x, i + 1) PROVE Short(i + 1, w)
    <3>1. CASE w \in Ball(G, x, i)
      <4>1. PICK E \in SUBSET G.edges : Links(G, E, x, w) /\ Cardinality(E) <= i
        BY <3>1
      <4>2. Cardinality(E) <= i + 1
        BY <1>1, <4>1
      <4>3. QED BY <4>1, <4>2
    <3>2. ASSUME NEW e \in G.edges, NEW u \in Ball(G, x, i), u \in e, w \in e
          PROVE  Short(i + 1, w)
      <4>1. PICK E \in SUBSET G.edges : Links(G, E, x, u) /\ Cardinality(E) <= i
        OBVIOUS
      <4>2. Links(G, E \cup {e}, x, w)
        <5>1. SUFFICES ASSUME NEW S \in SUBSET G.nodes, x \in S,
                              \A d \in E \cup {e} : d \cap S # {} => d \subseteq S
              PROVE  w \in S
          BY DEF Links
        <5>2. u \in S
          BY <4>1, <5>1 DEF Links
        <5>3. QED BY <3>2, <5>1, <5>2
      <4>3. Cardinality(E \cup {e}) <= i + 1
        <5>1. Cardinality(E \cup {e}) = Cardinality(E) \/ Cardinality(E \cup {e}) = Cardinality(E) + 1
          BY <1>1, FS_AddElement
        <5>2. Cardinality(E) \in Nat /\ Cardinality(E) <= i
          BY <1>1, <4>1
        <5>3. QED BY <5>1, <5>2
      <4>4. E \cup {e} \in SUBSET G.edges
        OBVIOUS
      <4>5. QED BY <4>2, <4>3, <4>4
    <3> HIDE DEF Short, T
    <3>3. i \in Nat
      BY DEF T
    <3>4. QED BY <3>1, <3>2, <3>3, OneHop
  <2> HIDE DEF Short
  <2>2. QED BY <2>1
<1>4. T = Nat
  <2>1. T \in SUBSET Nat
    OBVIOUS
  <2> HIDE DEF T
  <2>2. QED BY <1>2, <1>3, <2>1, Induct
<1>5. QED BY <1>4

\* Relations that link x to y, one of them holding of x: without that one, the others link
\* one of its participants to y.
LEMMA LinksShorten ==
    ASSUME NEW G, Hypergraph(G), NEW x \in G.nodes, NEW y, NEW E \in SUBSET G.edges,
           Links(G, E, x, y), NEW e \in E, x \in e
    PROVE  \E u \in e : Links(G, E \ {e}, u, y)
<1> DEFINE S == {w \in G.nodes : \E u \in e : Links(G, E \ {e}, u, w)}
<1>1. \A u : Links(G, E \ {e}, u, u)
  BY DEF Links
<1>2. e \subseteq S
  BY <1>1 DEF Hypergraph
<1>3. ASSUME NEW d \in E, d \cap S # {} PROVE d \subseteq S
  <2>1. CASE d = e
    BY <1>2, <2>1
  <2>2. CASE d # e
    <3>1. PICK v \in d \cap S : TRUE
      BY <1>3
    <3>2. PICK u \in e : Links(G, E \ {e}, u, v)
      BY <3>1
    <3>3. ASSUME NEW w \in d PROVE Links(G, E \ {e}, u, w)
      <4>1. SUFFICES ASSUME NEW R \in SUBSET G.nodes, u \in R,
                            \A c \in E \ {e} : c \cap R # {} => c \subseteq R
            PROVE  w \in R
        BY DEF Links
      <4>2. v \in R
        BY <3>2, <4>1 DEF Links
      <4>3. d \in E \ {e} /\ v \in d \cap R
        BY <2>2, <3>1, <4>2
      <4>4. QED BY <3>3, <4>1, <4>3
    <3>4. d \subseteq G.nodes
      BY DEF Hypergraph
    <3>5. QED BY <3>3, <3>4
  <2>3. QED BY <2>1, <2>2
<1>4. y \in S
  <2>1. S \in SUBSET G.nodes /\ x \in S
    BY <1>2
  <2> HIDE DEF S
  <2>2. QED BY <1>3, <2>1 DEF Links
<1>5. QED BY <1>4

\* What relations link is within as many hops as there are relations.
LEMMA LinksHop ==
    ASSUME NEW G, Hypergraph(G), NEW x \in G.nodes, NEW y, NEW E \in SUBSET G.edges, Links(G, E, x, y)
    PROVE  y \in Ball(G, x, Cardinality(E))
<1> DEFINE Far(C) == \E v \in G.nodes : \E w : Links(G, C, v, w) /\ w \notin Ball(G, v, Cardinality(C))
           F == {C \in SUBSET G.edges : Far(C)}
<1>1. SUFFICES ASSUME F # {} PROVE FALSE
  OBVIOUS
<1>2. PICK M \in F : \A C \in F : C \subseteq M => C = M
  <2>1. F \in SUBSET SUBSET G.edges /\ IsFiniteSet(G.edges)
    BY DEF Hypergraph
  <2> HIDE DEF F
  <2>2. QED BY <1>1, <2>1, MinimalSet
<1>3. PICK v \in G.nodes : \E w : Links(G, M, v, w) /\ w \notin Ball(G, v, Cardinality(M))
  BY <1>2
<1> PICK w : Links(G, M, v, w) /\ w \notin Ball(G, v, Cardinality(M))
  BY <1>3
<1>4. M \in SUBSET G.edges /\ IsFiniteSet(M) /\ Cardinality(M) \in Nat
  BY <1>2, FS_Subset, FS_CardinalityType DEF Hypergraph
<1>5. v \in Ball(G, v, 0) /\ v \in Ball(G, v, Cardinality(M))
  <2>1. Ball(G, v, 0) = {v} \cap G.nodes
    BY BallStart
  <2>2. 0 + Cardinality(M) = Cardinality(M)
    BY <1>4
  <2>3. QED BY <1>4, <2>1, <2>2, BallsWiden
<1>6. PICK e \in M : v \in e
  <2>1. SUFFICES ASSUME \A e \in M : v \notin e PROVE FALSE
    OBVIOUS
  <2> DEFINE S == {v}
  <2>2. S \in SUBSET G.nodes /\ v \in S /\ \A e \in M : e \cap S # {} => e \subseteq S
    BY <2>1
  <2> HIDE DEF S
  <2>3. w \in S
    BY <2>2 DEF Links
  <2>4. w = v
    BY <2>3 DEF S
  <2>5. QED BY <1>5, <2>4
<1>7. PICK u \in e : Links(G, M \ {e}, u, w)
  BY <1>4, <1>6, LinksShorten
<1>8. Cardinality(M) - 1 \in Nat /\ Cardinality(M \ {e}) = Cardinality(M) - 1
  <2>1. Cardinality(M \ {e}) = Cardinality(M) - 1 /\ IsFiniteSet(M \ {e})
    BY <1>4, <1>6, FS_RemoveElement
  <2>2. Cardinality(M \ {e}) \in Nat
    BY <2>1, FS_CardinalityType
  <2>3. QED BY <2>1, <2>2
<1>9. u \in G.nodes /\ M \ {e} \in SUBSET G.edges /\ M \ {e} \notin F
  BY <1>2, <1>4, <1>6, <1>7 DEF Hypergraph
<1>10. w \in Ball(G, u, Cardinality(M) - 1)
  BY <1>7, <1>8, <1>9
<1>11. u \in Ball(G, v, 1)
  <2>1. u \in Ball(G, v, 0 + 1)
    BY <1>4, <1>5, <1>6, <1>7, OneHop
  <2>2. QED BY <2>1
<1>12. w \in Ball(G, v, 1 + (Cardinality(M) - 1))
  <2> DEFINE c == Cardinality(M) - 1
  <2>1. c \in Nat /\ w \in Ball(G, u, c)
    BY <1>8, <1>10
  <2> HIDE DEF c
  <2>2. w \in Ball(G, v, 1 + c)
    BY <1>11, <2>1, HopsAdd
  <2>3. QED BY <2>2 DEF c
<1>13. 1 + (Cardinality(M) - 1) = Cardinality(M)
  BY <1>4
<1>14. QED BY <1>12, <1>13

LEMMA BallsMonotone ==
    ASSUME NEW G, NEW x, NEW d \in Nat, NEW k \in Nat, d <= k
    PROVE  Ball(G, x, d) \subseteq Ball(G, x, k)
<1>1. k - d \in Nat /\ d + (k - d) = k
  OBVIOUS
<1>2. QED BY <1>1, BallsWiden

\* The hops between two nodes are the least number of relations that link them.
LEMMA HopsAreDistance ==
    ASSUME NEW G, Hypergraph(G), NEW x \in G.nodes, NEW y
    PROVE  /\ Linked(G, x, y) => Distance(G, x, y) \in Nat
           /\ \A k \in Nat : y \in Ball(G, x, k) <=> Linked(G, x, y) /\ Distance(G, x, y) <= k
<1> DEFINE Linking == {E \in SUBSET G.edges : Links(G, E, x, y)}
           C == {Cardinality(E) : E \in Linking}
<1>1. \A E \in SUBSET G.edges : Cardinality(E) \in Nat
  BY FS_Subset, FS_CardinalityType DEF Hypergraph
<1>2. C \in SUBSET Nat /\ Distance(G, x, y) = Min(C)
  BY <1>1 DEF Distance
<1>3. ASSUME Linked(G, x, y) PROVE C # {}
  BY <1>3 DEF Linked
<1>4. ASSUME C # {} PROVE Min(C) \in C /\ \A i \in C : Min(C) <= i
  <2> HIDE DEF C
  <2>1. QED BY <1>2, <1>4, MinOf
<1>5. ASSUME NEW k \in Nat, y \in Ball(G, x, k) PROVE Linked(G, x, y) /\ Distance(G, x, y) <= k
  <2>1. PICK E \in SUBSET G.edges : Links(G, E, x, y) /\ Cardinality(E) <= k
    BY <1>5, HopsLink
  <2>2. Linked(G, x, y)
    BY <2>1 DEF Linked, Links
  <2>3. Cardinality(E) \in C /\ Cardinality(E) \in Nat
    BY <1>1, <2>1
  <2> HIDE DEF C
  <2>4. Min(C) \in Nat /\ Min(C) <= Cardinality(E)
    BY <1>2, <1>4, <2>3
  <2>5. Min(C) <= k
    BY <2>1, <2>3, <2>4
  <2>6. QED BY <1>2, <2>2, <2>5
<1>6. ASSUME NEW k \in Nat, Linked(G, x, y), Distance(G, x, y) <= k PROVE y \in Ball(G, x, k)
  <2>1. Min(C) \in C
    BY <1>3, <1>4, <1>6
  <2>2. PICK E \in Linking : Cardinality(E) = Min(C)
    BY <2>1
  <2>3. y \in Ball(G, x, Cardinality(E))
    BY <2>2, LinksHop
  <2>4. Cardinality(E) \in Nat /\ Cardinality(E) <= k
    BY <1>1, <1>2, <1>6, <2>2
  <2>5. QED BY <2>3, <2>4, BallsMonotone
<1>7. ASSUME Linked(G, x, y) PROVE Distance(G, x, y) \in Nat
  <2>1. Min(C) \in C
    BY <1>3, <1>4, <1>7
  <2> HIDE DEF C
  <2>2. QED BY <1>2, <2>1
<1>8. QED BY <1>5, <1>6, <1>7

\* A probe of increasing depth first returns a node at its distance.
LEMMA SeenAtDistance ==
    ASSUME NEW G, Hypergraph(G), NEW x \in G.nodes, NEW m \in Nat, NEW d \in 0..m, NEW y \in Ball(G, x, d)
    PROVE  /\ FirstSeen(Neighbourhood(G, {x}, m), y) = Distance(G, x, y)
           /\ Linked(G, x, y) /\ Distance(G, x, y) \in Nat /\ Distance(G, x, y) <= d
<1> DEFINE A == Neighbourhood(G, {x}, m)
           T == {i \in DOMAIN A : y \in A[i]}
           D == Distance(G, x, y)
<1>1. DOMAIN A = 0..m /\ \A i \in 0..m : A[i] = Ball(G, x, i)
  <2>1. Grows(G, {x}, A, m)
    BY NeighbourhoodGrows
  <2>2. \A i \in 0..m : A[i] = Ball(G, x, i)
    BY BallOf
  <2> HIDE DEF A
  <2>3. QED BY <2>1, <2>2 DEF Grows
<1>2. Linked(G, x, y) /\ D \in Nat /\ D <= d
  BY HopsAreDistance
<1>3. \A i \in 0..m : y \in Ball(G, x, i) <=> D <= i
  BY <1>2, HopsAreDistance
<1> HIDE DEF A, D
<1>4. T = {i \in 0..m : D <= i} /\ D \in T
  BY <1>1, <1>2, <1>3
<1>5. T \in SUBSET Nat
  BY <1>4
<1>6. Min(T) = D
  <2>1. \A i \in T : D <= i
    BY <1>4
  <2> HIDE DEF T
  <2>2. Min(T) \in T /\ Min(T) <= D
    BY <1>4, <1>5, MinOf
  <2>3. D <= Min(T) /\ Min(T) \in Nat
    BY <1>5, <2>1, <2>2
  <2>4. QED BY <1>2, <2>2, <2>3
<1>7. FirstSeen(A, y) = D
  BY <1>6 DEF FirstSeen
<1>8. QED BY <1>2, <1>7 DEF A, D

\* A neighbourhood that has stopped growing stays as it is.
LEMMA BallsStall ==
    ASSUME NEW G, NEW x, NEW d \in Nat, Ball(G, x, d + 1) = Ball(G, x, d), NEW k \in Nat, d <= k
    PROVE  Ball(G, x, k) = Ball(G, x, d)
<1> DEFINE T == {i \in Nat : Ball(G, x, d + i) = Ball(G, x, d)}
<1>1. 0 \in T
  OBVIOUS
<1>2. ASSUME NEW i \in T PROVE i + 1 \in T
  <2>1. d + i \in Nat /\ d + (i + 1) = (d + i) + 1
    OBVIOUS
  <2>2. Ball(G, x, (d + i) + 1) = Ball(G, x, d + i) \cup Touching(G, Ball(G, x, d + i))
    BY <2>1, BallNext
  <2>3. Ball(G, x, d + 1) = Ball(G, x, d) \cup Touching(G, Ball(G, x, d))
    BY BallNext
  <2>4. Ball(G, x, d + i) = Ball(G, x, d)
    BY <1>2
  <2>5. Ball(G, x, (d + i) + 1) = Ball(G, x, d)
    BY <2>2, <2>3, <2>4
  <2>6. QED BY <2>1, <2>5
<1>3. T = Nat
  <2>1. T \in SUBSET Nat
    OBVIOUS
  <2> HIDE DEF T
  <2>2. QED BY <1>1, <1>2, <2>1, Induct
<1> DEFINE i == k - d
<1>4. i \in Nat /\ d + i = k
  OBVIOUS
<1> HIDE DEF i
<1>5. QED BY <1>3, <1>4

\* _neighbourhood_grew compares sizes, which tells whether the neighbourhood is the same.
LEMMA NotGrown ==
    ASSUME NEW G, Hypergraph(G), NEW x, NEW m \in Nat, NEW d \in 1..m,
           ~Grew(Neighbourhood(G, {x}, m), d), NEW k \in d..m
    PROVE  Ball(G, x, k) = Ball(G, x, d)
<1>1. d \in 0..m /\ d - 1 \in 0..m /\ d - 1 \in Nat /\ (d - 1) + 1 = d /\ k \in Nat /\ d - 1 <= k
  OBVIOUS
<1>2. Cardinality(Ball(G, x, d)) = Cardinality(Ball(G, x, d - 1))
  <2>1. m \in Nat
    BY <1>1
  <2>2. /\ Neighbourhood(G, {x}, m)[d] = Ball(G, x, d)
        /\ Neighbourhood(G, {x}, m)[d - 1] = Ball(G, x, d - 1)
    BY <1>1, <2>1, BallOf
  <2>3. QED BY <2>2 DEF Grew
<1>3. Ball(G, x, d - 1) \subseteq Ball(G, x, d)
  BY <1>1, BallsMonotone
<1>4. IsFiniteSet(Ball(G, x, d))
  <2>1. d \in Nat
    BY <1>1
  <2>2. Ball(G, x, d) \in SUBSET G.nodes
    BY <2>1, BallsAreNodes
  <2>3. IsFiniteSet(G.nodes)
    BY DEF Hypergraph
  <2>4. QED BY <2>2, <2>3, FS_Subset
<1>5. Ball(G, x, d) = Ball(G, x, d - 1)
  BY <1>2, <1>3, <1>4, FS_Subset
<1>6. QED BY <1>1, <1>5, BallsStall

\* The node that Nearest chooses is common and no common node has a lesser sum of depths.
LEMMA NearestIsLeast ==
    ASSUME NEW A, NEW B, NEW S \in SUBSET Nat, S # {},
           \A n \in S : FirstSeen(A, n) \in Nat /\ FirstSeen(B, n) \in Nat
    PROVE  /\ Nearest(A, B, S) \in S
           /\ \A o \in S : FirstSeen(A, Nearest(A, B, S)) + FirstSeen(B, Nearest(A, B, S))
                             <= FirstSeen(A, o) + FirstSeen(B, o)
<1> DEFINE sum(n) == FirstSeen(A, n) + FirstSeen(B, n)
           far(n) == Max({FirstSeen(A, n), FirstSeen(B, n)})
           before(n, o) == \/ sum(n) < sum(o)
                           \/ sum(n) = sum(o) /\ far(n) < far(o)
                           \/ sum(n) = sum(o) /\ far(n) = far(o) /\ n < o
<1>1. \A n \in S : sum(n) \in Nat
  OBVIOUS
<1>2. ASSUME NEW n \in S PROVE far(n) \in Nat
  <2> DEFINE T == {FirstSeen(A, n), FirstSeen(B, n)}
  <2>1. T \in SUBSET Nat /\ T # {} /\ IsFiniteSet(T)
    <3>1. T = {FirstSeen(A, n)} \cup {FirstSeen(B, n)}
      OBVIOUS
    <3>2. IsFiniteSet({FirstSeen(A, n)})
      BY FS_Singleton
    <3>3. IsFiniteSet({FirstSeen(A, n)} \cup {FirstSeen(B, n)})
      BY <3>2, FS_AddElement
    <3>4. QED BY <3>1, <3>3
  <2> HIDE DEF T
  <2>2. Max(T) \in Nat
    BY <2>1, MaxOf
  <2>3. QED BY <2>2 DEF T
<1>3. Nearest(A, B, S) = CHOOSE n \in S : \A o \in S \ {n} : before(n, o)
  BY DEF Nearest
<1> HIDE DEF sum, far
<1> DEFINE Sums == {sum(n) : n \in S}
           S1 == {n \in S : sum(n) = Min(Sums)}
           Fars == {far(n) : n \in S1}
           S2 == {n \in S1 : far(n) = Min(Fars)}
<1>4. S1 # {} /\ \A n \in S1, o \in S : sum(n) <= sum(o)
  <2>1. Sums \in SUBSET Nat /\ Sums # {}
    BY <1>1
  <2>2. Min(Sums) \in Sums /\ \A i \in Sums : Min(Sums) <= i
    <3> HIDE DEF Sums
    <3>1. QED BY <2>1, MinOf
  <2>3. QED BY <2>2
<1>5. S2 # {} /\ \A n \in S2, o \in S1 : far(n) <= far(o)
  <2>1. Fars \in SUBSET Nat /\ Fars # {}
    BY <1>2, <1>4
  <2>2. Min(Fars) \in Fars /\ \A i \in Fars : Min(Fars) <= i
    <3> HIDE DEF Fars
    <3>1. QED BY <2>1, MinOf
  <2> HIDE DEF S1
  <2>3. QED BY <2>2
<1>6. Min(S2) \in S2 /\ \A o \in S2 : Min(S2) <= o
  <2>1. S2 \in SUBSET Nat
    OBVIOUS
  <2> HIDE DEF S2
  <2>2. QED BY <1>5, <2>1, MinOf
<1> DEFINE w == Min(S2)
<1>7. w \in S /\ w \in S1 /\ w \in S2
  BY <1>6
<1> HIDE DEF w
<1>8. ASSUME NEW o \in S \ {w} PROVE before(w, o)
  <2>1. sum(w) \in Nat /\ sum(o) \in Nat /\ far(w) \in Nat /\ far(o) \in Nat /\ sum(w) <= sum(o)
    BY <1>1, <1>2, <1>4, <1>7
  <2>2. CASE sum(w) < sum(o)
    BY <2>2
  <2>3. CASE sum(w) = sum(o)
    <3>1. o \in S1
      BY <1>7, <2>3
    <3>2. far(w) <= far(o)
      <4> HIDE DEF S1, S2
      <4>1. QED BY <1>5, <1>7, <3>1
    <3>3. CASE far(w) < far(o)
      BY <2>3, <3>3
    <3>4. CASE far(w) = far(o)
      <4>1. o \in S2
        <5> HIDE DEF S1
        <5>1. QED BY <1>7, <3>1, <3>4
      <4>2. w <= o /\ w # o /\ w \in Nat /\ o \in Nat
        <5> HIDE DEF S2
        <5>1. QED BY <1>6, <1>7, <4>1 DEF w
      <4>3. QED BY <2>3, <3>4, <4>2
    <3>5. QED BY <2>1, <3>2, <3>3, <3>4
  <2>4. QED BY <2>1, <2>2, <2>3
<1> DEFINE n == CHOOSE m \in S : \A o \in S \ {m} : before(m, o)
<1>9. n \in S /\ \A o \in S \ {n} : before(n, o)
  <2> HIDE DEF before
  <2>1. QED BY <1>7, <1>8
<1>10. ASSUME NEW o \in S PROVE sum(n) <= sum(o)
  <2> HIDE DEF n
  <2>1. sum(n) \in Nat /\ sum(o) \in Nat
    BY <1>1, <1>9
  <2>2. CASE o = n
    BY <2>1, <2>2
  <2>3. CASE o # n
    BY <1>9, <2>1, <2>3
  <2>4. QED BY <2>2, <2>3
<1>11. QED
  <2>1. Nearest(A, B, S) = n
    BY <1>3
  <2> HIDE DEF n
  <2>2. QED BY <1>9, <1>10, <2>1 DEF sum

Meet(G, a, b, d) == Ball(G, a, d) \cap Ball(G, b, d) # {}

\* Neighbourhoods meet at a depth when the two are within twice the depth of each other.
LEMMA MeetHalfway ==
    ASSUME NEW G, Hypergraph(G), NEW a \in G.nodes, NEW b \in G.nodes, NEW d \in Nat
    PROVE  Meet(G, a, b, d) <=> Linked(G, a, b) /\ Distance(G, a, b) <= 2 * d
<1>1. ASSUME NEW n \in Ball(G, a, d) \cap Ball(G, b, d) PROVE b \in Ball(G, a, d + d)
  <2>1. b \in Ball(G, n, d)
    BY HopsReverse
  <2>2. QED BY <2>1, HopsAdd
<1>2. ASSUME b \in Ball(G, a, d + d) PROVE Meet(G, a, b, d)
  <2>1. PICK n \in Ball(G, a, d) : b \in Ball(G, n, d)
    BY <1>2, HopsSplit
  <2>2. n \in G.nodes
    BY BallsAreNodes
  <2>3. n \in Ball(G, b, d)
    BY <2>1, <2>2, HopsReverse
  <2>4. QED BY <2>3 DEF Meet
<1>3. d + d \in Nat /\ d + d = 2 * d
  OBVIOUS
<1>4. b \in Ball(G, a, d + d) <=> Linked(G, a, b) /\ Distance(G, a, b) <= d + d
  BY <1>3, HopsAreDistance
<1>5. QED BY <1>1, <1>2, <1>3, <1>4 DEF Meet

\* The search ends where the neighbourhoods first meet, if they do within its depth.
LEMMA SearchMeets ==
    ASSUME NEW G, Hypergraph(G), NEW a \in G.nodes, NEW b \in G.nodes, NEW m \in Nat, Meet(G, a, b, m)
    PROVE  LET d == SearchEnds(Neighbourhood(G, {a}, m), Neighbourhood(G, {b}, m), m)
           IN  d \in 0..m /\ Meet(G, a, b, d) /\ \A i \in Nat : Meet(G, a, b, i) => d <= i
<1> DEFINE A == Neighbourhood(G, {a}, m)
           B == Neighbourhood(G, {b}, m)
           Stops(d) == A[d] \cap B[d] # {} \/ (d > 0 /\ ~Grew(A, d) /\ ~Grew(B, d))
           T == {m + 1} \cup {d \in 0..m : Stops(d)}
           d == Min(T)
<1>1. SearchEnds(A, B, m) = d
  BY DEF SearchEnds
<1>2. \A i \in 0..m : A[i] \cap B[i] # {} <=> Meet(G, a, b, i)
  <2>1. \A i \in 0..m : A[i] = Ball(G, a, i) /\ B[i] = Ball(G, b, i)
    BY BallOf
  <2> HIDE DEF A, B
  <2>2. QED BY <2>1 DEF Meet
<1>3. d \in T /\ \A i \in T : d <= i
  <2>1. T \in SUBSET Nat /\ T # {}
    OBVIOUS
  <2> HIDE DEF T
  <2>2. QED BY <2>1, MinOf
<1>4. \A i \in 0..m : Meet(G, a, b, i) => i \in T
  BY <1>2
<1>5. m \in 0..m /\ m \in T /\ ~(m + 1 <= m)
  <2>1. m \in 0..m /\ ~(m + 1 <= m)
    OBVIOUS
  <2> HIDE DEF T
  <2>2. QED BY <1>4, <2>1
<1>6. d \in 0..m /\ Stops(d)
  <2>1. d # m + 1
    <3> HIDE DEF T
    <3>1. QED BY <1>3, <1>5
  <2> HIDE DEF d, Stops
  <2>2. QED BY <1>3, <2>1
<1> HIDE DEF d
<1>7. Meet(G, a, b, d)
  <2>1. CASE A[d] \cap B[d] # {}
    BY <1>2, <1>6, <2>1
  <2>2. CASE d > 0 /\ ~Grew(A, d) /\ ~Grew(B, d)
    <3>1. d \in 1..m /\ m \in d..m
      BY <1>6, <2>2
    <3>2. Ball(G, a, m) = Ball(G, a, d) /\ Ball(G, b, m) = Ball(G, b, d)
      BY <2>2, <3>1, NotGrown
    <3>3. QED BY <3>2 DEF Meet
  <2>3. QED BY <1>6, <2>1, <2>2
<1>8. ASSUME NEW i \in Nat, Meet(G, a, b, i) PROVE d <= i
  <2>1. CASE i \in 0..m
    <3> HIDE DEF T
    <3>1. QED BY <1>3, <1>4, <1>8, <2>1
  <2>2. CASE i \notin 0..m
    BY <1>6, <2>2
  <2>3. QED BY <2>1, <2>2
<1>9. QED
  <2> HIDE DEF A, B
  <2>1. d \in 0..m /\ Meet(G, a, b, d) /\ \A i \in Nat : Meet(G, a, b, i) => d <= i
    BY <1>6, <1>7, <1>8
  <2>2. QED BY <1>1, <2>1 DEF A, B

\* The nearest common node at depth d is on a shortest path between a and b.
IsBetween(G, a, b, A, B, d) ==
    LET n == Nearest(A, B, A[d] \cap B[d])
    IN  /\ A[d] \cap B[d] # {}
        /\ FirstSeen(A, n) = Distance(G, a, n) /\ FirstSeen(B, n) = Distance(G, b, n)
        /\ FirstSeen(A, n) + FirstSeen(B, n) = Distance(G, a, b)

FirstMeet(G, a, b, d) == Meet(G, a, b, d) /\ \A i \in Nat : Meet(G, a, b, i) => d <= i

LEMMA NearestIsBetween ==
    ASSUME NEW G, Hypergraph(G), NEW a \in G.nodes, NEW b \in G.nodes, NEW m \in Nat, NEW d \in 0..m,
           FirstMeet(G, a, b, d)
    PROVE  IsBetween(G, a, b, Neighbourhood(G, {a}, m), Neighbourhood(G, {b}, m), d)
<1> DEFINE A == Neighbourhood(G, {a}, m)
           B == Neighbourhood(G, {b}, m)
           S == A[d] \cap B[d]
           n == Nearest(A, B, S)
           D == Distance(G, a, b)
<1>1. d \in Nat /\ d <= m /\ Meet(G, a, b, d) /\ \A i \in Nat : Meet(G, a, b, i) => d <= i
  BY DEF FirstMeet
<1>2. S = Ball(G, a, d) \cap Ball(G, b, d)
  <2>1. A[d] = Ball(G, a, d) /\ B[d] = Ball(G, b, d)
    BY BallOf
  <2>2. QED BY <2>1
<1>3. S \in SUBSET G.nodes /\ S \in SUBSET Nat /\ S # {}
  <2>1. S # {}
    BY <1>1, <1>2 DEF Meet
  <2>2. Ball(G, a, d) \subseteq G.nodes
    BY <1>1, BallsAreNodes
  <2> HIDE DEF S
  <2>3. QED BY <1>2, <2>1, <2>2 DEF Hypergraph
<1>4. \A o \in Ball(G, a, d) : FirstSeen(A, o) = Distance(G, a, o) /\ Distance(G, a, o) \in Nat
  BY SeenAtDistance
<1>5. \A o \in Ball(G, b, d) : FirstSeen(B, o) = Distance(G, b, o) /\ Distance(G, b, o) \in Nat
  BY SeenAtDistance
<1> HIDE DEF A, B, S
<1>6. n \in S /\ \A o \in S : FirstSeen(A, n) + FirstSeen(B, n) <= FirstSeen(A, o) + FirstSeen(B, o)
  <2>1. \A o \in S : FirstSeen(A, o) \in Nat /\ FirstSeen(B, o) \in Nat
    BY <1>2, <1>4, <1>5
  <2>2. QED BY <1>3, <2>1, NearestIsLeast
<1> HIDE DEF n
<1>7. Linked(G, a, b) /\ D \in Nat /\ D <= 2 * d
  BY <1>1, MeetHalfway, HopsAreDistance
<1>8. d <= D
  <2>1. CASE d = 0
    BY <1>7, <2>1
  <2>2. CASE d # 0
    <3>1. d - 1 \in Nat /\ ~(d <= d - 1)
      BY <1>1, <2>2
    <3>2. ~Meet(G, a, b, d - 1)
      BY <1>1, <3>1
    <3>3. ~(D <= 2 * (d - 1))
      <4> DEFINE i == d - 1
      <4>1. i \in Nat /\ ~Meet(G, a, b, i)
        BY <3>1, <3>2
      <4> HIDE DEF i
      <4>2. ~(D <= 2 * i)
        BY <1>7, <4>1, MeetHalfway
      <4>3. QED BY <4>2 DEF i
    <3>4. QED BY <1>1, <1>7, <2>2, <3>3
  <2>3. QED BY <2>1, <2>2
<1>9. D <= FirstSeen(A, n) + FirstSeen(B, n)
  <2> DEFINE i == Distance(G, a, n)
             j == Distance(G, b, n)
  <2>1. n \in G.nodes /\ n \in Ball(G, a, d) /\ n \in Ball(G, b, d)
    BY <1>2, <1>3, <1>6
  <2>2. i \in Nat /\ j \in Nat /\ i = FirstSeen(A, n) /\ j = FirstSeen(B, n)
    BY <1>4, <1>5, <2>1
  <2>3. n \in Ball(G, a, i)
    <3>1. Linked(G, a, n)
      BY <1>1, <2>1, HopsAreDistance
    <3>2. QED BY <2>2, <3>1, HopsAreDistance
  <2>4. n \in Ball(G, b, j)
    <3>1. Linked(G, b, n)
      BY <1>1, <2>1, HopsAreDistance
    <3>2. QED BY <2>2, <3>1, HopsAreDistance
  <2> HIDE DEF i, j
  <2>5. b \in Ball(G, n, j)
    BY <2>2, <2>4, HopsReverse
  <2>6. b \in Ball(G, a, i + j)
    BY <2>2, <2>3, <2>5, HopsAdd
  <2>7. i + j \in Nat
    BY <2>2
  <2>8. D <= i + j
    BY <2>6, <2>7, HopsAreDistance
  <2>9. QED BY <2>2, <2>8
<1>10. FirstSeen(A, n) + FirstSeen(B, n) <= D
  <2> DEFINE j == D - d
  <2>1. j \in Nat /\ d + j = D /\ j <= d
    BY <1>1, <1>7, <1>8
  <2>2. b \in Ball(G, a, D)
    BY <1>7, HopsAreDistance
  <2> HIDE DEF j, D
  <2>3. PICK y \in Ball(G, a, d) : b \in Ball(G, y, j)
    BY <1>1, <2>1, <2>2, HopsSplit
  <2>4. y \in G.nodes
    BY <1>1, BallsAreNodes
  <2>5. y \in Ball(G, b, j)
    BY <2>1, <2>3, <2>4, HopsReverse
  <2>6. y \in Ball(G, b, d)
    BY <1>1, <2>1, <2>5, BallsMonotone
  <2>7. FirstSeen(A, y) \in Nat /\ FirstSeen(A, y) <= d
    <3>1. Distance(G, a, y) <= d
      BY <1>1, HopsAreDistance
    <3>2. QED BY <1>4, <3>1
  <2>8. FirstSeen(B, y) \in Nat /\ FirstSeen(B, y) <= j
    <3>1. Distance(G, b, y) <= j
      BY <2>1, <2>5, HopsAreDistance
    <3>2. QED BY <1>5, <2>6, <3>1
  <2>9. y \in S
    BY <1>2, <2>6
  <2>10. FirstSeen(A, n) \in Nat /\ FirstSeen(B, n) \in Nat
    BY <1>2, <1>4, <1>5, <1>6
  <2>11. FirstSeen(A, n) + FirstSeen(B, n) <= FirstSeen(A, y) + FirstSeen(B, y)
    BY <1>6, <2>9
  <2>12. QED BY <1>1, <2>1, <2>7, <2>8, <2>10, <2>11
<1>11. n \in Ball(G, a, d) /\ n \in Ball(G, b, d)
  BY <1>2, <1>6
<1>12. FirstSeen(A, n) = Distance(G, a, n) /\ FirstSeen(B, n) = Distance(G, b, n)
  BY <1>4, <1>5, <1>11
<1>13. FirstSeen(A, n) + FirstSeen(B, n) = D
  <2>1. FirstSeen(A, n) \in Nat /\ FirstSeen(B, n) \in Nat
    BY <1>4, <1>5, <1>11
  <2> HIDE DEF D
  <2>2. QED BY <1>7, <1>9, <1>10, <2>1
<1>14. QED BY <1>3, <1>12, <1>13 DEF IsBetween, A, B, S, n

(* In any finite graph, find_lca finds an ancestor of two branches exactly when they are  *)
(* within twice its depth of each other, and one on a shortest path between them, with    *)
(* the depths of both: a search that stops at the first depth where the neighbourhoods    *)
(* meet, or where both keep their size, misses nothing.                                   *)
THEOREM AncestorsAreOnShortestPaths ==
    ASSUME NEW G, Hypergraph(G), NEW a \in G.nodes, NEW b \in G.nodes, NEW maxDepth \in Nat
    PROVE  LcaOnShortestPath(G, a, b, maxDepth)
<1> DEFINE f == FindLca(G, a, b, maxDepth)
           A == Neighbourhood(G, {a}, maxDepth)
           B == Neighbourhood(G, {b}, maxDepth)
           d == SearchEnds(A, B, maxDepth)
           D == Distance(G, a, b)
<1>1. Linked(G, a, a) /\ Distance(G, a, a) = 0
  <2>1. a \in Ball(G, a, 0)
    BY BallStart
  <2>2. Linked(G, a, a) /\ Distance(G, a, a) <= 0 /\ Distance(G, a, a) \in Nat
    BY <2>1, HopsAreDistance
  <2>3. QED BY <2>2
<1>2. CASE a = b
  <2>1. f = Found(a, 0, 0)
    BY <1>2 DEF FindLca
  <2> HIDE DEF f
  <2>2. f.found /\ f.depthA = 0 /\ f.depthB = 0 /\ f.lca = a
    BY <2>1 DEF Found
  <2>3. 0 <= 2 * maxDepth /\ 0 + 0 = 0
    OBVIOUS
  <2>4. QED BY <1>1, <1>2, <2>2, <2>3 DEF LcaOnShortestPath, f
<1>3. CASE a # b /\ Meet(G, a, b, maxDepth)
  <2>1. d \in 0..maxDepth /\ Meet(G, a, b, d) /\ \A i \in Nat : Meet(G, a, b, i) => d <= i
    BY <1>3, SearchMeets
  <2> DEFINE n == Nearest(A, B, A[d] \cap B[d])
  <2>2. IsBetween(G, a, b, A, B, d)
    <3> HIDE DEF d, f
    <3>1. FirstMeet(G, a, b, d)
      BY <2>1 DEF FirstMeet
    <3>2. QED BY <2>1, <3>1, NearestIsBetween
  <2>3. f = AncestorAt(A, B, d)
    <3>1. ~(d > maxDepth)
      <4> HIDE DEF d
      <4>1. QED BY <2>1
    <3>2. QED BY <1>3, <3>1 DEF FindLca
  <2> HIDE DEF A, B, d
  <2>4. f = Found(n, FirstSeen(A, n), FirstSeen(B, n))
    <3> HIDE DEF f
    <3>1. QED BY <2>2, <2>3 DEF AncestorAt, IsBetween
  <2> HIDE DEF f, n
  <2>5. f.found /\ f.lca = n /\ f.depthA = FirstSeen(A, n) /\ f.depthB = FirstSeen(B, n)
    BY <2>4 DEF Found
  <2>6. Linked(G, a, b) /\ D <= 2 * maxDepth
    BY <1>3, MeetHalfway
  <2>7. QED BY <2>2, <2>5, <2>6 DEF LcaOnShortestPath, IsBetween, f, n
<1>4. CASE a # b /\ ~Meet(G, a, b, maxDepth)
  <2>1. ~(Linked(G, a, b) /\ D <= 2 * maxDepth)
    BY <1>4, MeetHalfway
  <2>2. CASE d > maxDepth
    <3>1. f = NotFound
      BY <1>4, <2>2 DEF FindLca
    <3> HIDE DEF f
    <3>2. ~f.found
      BY <3>1 DEF NotFound
    <3>3. QED BY <2>1, <3>2 DEF LcaOnShortestPath, f
  <2>3. CASE ~(d > maxDepth)
    <3>1. d \in 0..maxDepth
      <4> DEFINE T == {maxDepth + 1} \cup {i \in 0..maxDepth :
                          A[i] \cap B[i] # {} \/ (i > 0 /\ ~Grew(A, i) /\ ~Grew(B, i))}
      <4>1. d = Min(T) /\ T \in SUBSET Nat /\ T # {}
        BY DEF SearchEnds
      <4>2. \A i \in T : i = maxDepth + 1 \/ i \in 0..maxDepth
        OBVIOUS
      <4> HIDE DEF T, d
      <4>3. d \in T
        BY <4>1, MinOf
      <4>4. QED BY <2>3, <4>2, <4>3
    <3>2. A[d] \cap B[d] = {}
      <4> HIDE DEF d
      <4>1. A[d] = Ball(G, a, d) /\ B[d] = Ball(G, b, d)
        BY <3>1, BallOf
      <4>2. Ball(G, a, d) \subseteq Ball(G, a, maxDepth) /\ Ball(G, b, d) \subseteq Ball(G, b, maxDepth)
        BY <3>1, BallsMonotone
      <4>3. QED BY <1>4, <4>1, <4>2 DEF Meet
    <3>3. f = AncestorAt(A, B, d)
      BY <1>4, <2>3 DEF FindLca
    <3> HIDE DEF A, B, d, f
    <3>4. f = NotFound
      BY <3>2, <3>3 DEF AncestorAt
    <3>5. ~f.found
      BY <3>4 DEF NotFound
    <3>6. QED BY <2>1, <3>5 DEF LcaOnShortestPath, f
  <2>4. QED BY <2>2, <2>3
<1>5. QED BY <1>2, <1>3, <1>4

(* LcaVerdictIsRight: what a run evaluates on small graphs holds in whatever finite graphs *)
(* the sessions have, at any depths of search and whatever validation rejects.             *)
THEOREM LcaVerdictsAreRight == Spec => []LcaVerdictIsRight
<1>1. VerdictsAreRight
  <2>1. SUFFICES ASSUME NEW G \in Graph, NEW a \in G.nodes, NEW b \in G.nodes, NEW depth \in SearchDepth
        PROVE  /\ LcaOnShortestPath(G, a, b, depth)
               /\ \A bad \in Rejected : /\ VerdictIsSymmetric(G, a, b, bad, depth)
                                        /\ LoserIsAtFault(G, a, b, bad, depth)
    BY DEF VerdictsAreRight
  <2>2. Hypergraph(G) /\ depth \in Nat
    BY GraphAssumption
  <2>3. LcaOnShortestPath(G, a, b, depth)
    BY <2>2, AncestorsAreOnShortestPaths
  <2>4. \A bad \in Rejected : VerdictIsSymmetric(G, a, b, bad, depth)
    BY <2>2, VerdictsAgree
  <2>5. \A bad \in Rejected : LoserIsAtFault(G, a, b, bad, depth)
    BY OnlyTheFaultyIsDropped
  <2>6. QED BY <2>3, <2>4, <2>5
<1>2. LcaVerdictIsRight
  BY <1>1 DEF LcaVerdictIsRight
<1>3. QED BY <1>2, PTL

=============================================================================
