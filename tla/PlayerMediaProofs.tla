-------------------------- MODULE PlayerMediaProofs --------------------------
(***************************************************************************)
(* Proofs about the media of a player: the runs of the two lanes have one  *)
(* owner each, the queue keeps its bounds, the plan has what the next      *)
(* frame needs, and the preparation finds its lane free.                   *)
(*                                                                         *)
(* First what plans and queues are, in terms of sets of units; then the    *)
(* inductive invariant MediaInv, one lemma for each step, and what follows *)
(* from it.  The engine's own invariant Inv comes from MotionGraphProofs.  *)
(***************************************************************************)
EXTENDS PlayerMediaProperties, MotionGraphProofs, FiniteSetTheorems

----------------------------------------------------------------------------
(* Plans.                                                                  *)

(* The units of two lists of intents, one after the other.                 *)
LEMMA UnitsInOrder ==
  ASSUME NEW S, NEW a \in Seq(S), NEW b \in Seq(S)
  PROVE  a \o b \in Seq(S) /\ ToSet(a \o b) = ToSet(a) \cup ToSet(b)
<1>1. /\ a \o b \in Seq(S) /\ Len(a \o b) = Len(a) + Len(b)
      /\ \A i \in 1..(Len(a) + Len(b)) :
           (a \o b)[i] = IF i <= Len(a) THEN a[i] ELSE b[i - Len(a)]
  BY ConcatProperties
<1>2. /\ Len(a) \in Nat /\ Len(b) \in Nat
      /\ DOMAIN a = 1..Len(a) /\ DOMAIN b = 1..Len(b) /\ DOMAIN (a \o b) = 1..(Len(a) + Len(b))
  BY <1>1, LenProperties
<1> DEFINE c == a \o b
<1>3. /\ DOMAIN c = 1..(Len(a) + Len(b))
      /\ \A i \in 1..(Len(a) + Len(b)) : c[i] = IF i <= Len(a) THEN a[i] ELSE b[i - Len(a)]
  BY <1>1, <1>2
<1> HIDE DEF c
<1>4. ToSet(c) \subseteq ToSet(a) \cup ToSet(b)
  <2> SUFFICES ASSUME NEW i \in 1..(Len(a) + Len(b)) PROVE c[i] \in ToSet(a) \cup ToSet(b)
    BY <1>3 DEF ToSet
  <2>1. CASE i <= Len(a)
    <3>1. i \in 1..Len(a) /\ c[i] = a[i]
      BY <1>2, <1>3, <2>1
    <3> QED BY <1>2, <3>1 DEF ToSet
  <2>2. CASE ~(i <= Len(a))
    <3>1. i - Len(a) \in 1..Len(b) /\ c[i] = b[i - Len(a)]
      BY <1>2, <1>3, <2>2
    <3> QED BY <1>2, <3>1 DEF ToSet
  <2> QED BY <2>1, <2>2
<1>5. ASSUME NEW i \in 1..Len(a) PROVE a[i] \in ToSet(c)
  <2>1. i \in 1..(Len(a) + Len(b)) /\ c[i] = a[i]
    BY <1>2, <1>3
  <2> QED BY <1>3, <2>1 DEF ToSet
<1>6. ASSUME NEW i \in 1..Len(b) PROVE b[i] \in ToSet(c)
  <2>1. /\ i + Len(a) \in 1..(Len(a) + Len(b)) /\ ~(i + Len(a) <= Len(a))
        /\ (i + Len(a)) - Len(a) = i
    BY <1>2
  <2>2. c[i + Len(a)] = b[i]
    BY <1>3, <2>1
  <2> QED BY <1>3, <2>1, <2>2 DEF ToSet
<1>7. ToSet(a) \cup ToSet(b) \subseteq ToSet(c)
  BY <1>2, <1>5, <1>6 DEF ToSet
<1>8. ToSet(a \o b) = ToSet(a) \cup ToSet(b)
  BY <1>4, <1>7 DEF c
<1> QED BY <1>1, <1>8

(* The members of a finite set of numbers have the ranks 1, 2, ...         *)
Rank(S, i) == Cardinality({j \in S : j <= i})

(* The members of a set of indices have the ranks from one to their        *)
(* number.                                                                 *)
LEMMA RanksReach ==
  ASSUME NEW S, NEW n \in Nat, S \subseteq 1..n
  PROVE  /\ \A i \in S : Rank(S, i) \in 1..Cardinality(S)
         /\ \A i, j \in S : Rank(S, i) = Rank(S, j) => i = j
         /\ \A k \in 1..Cardinality(S) : \E i \in S : Rank(S, i) = k
<1> DEFINE upto(i) == {j \in S : j <= i}
           rank == [i \in S |-> Cardinality(upto(i))]
<1>1. /\ IsFiniteSet(1..n) /\ IsFiniteSet(S) /\ Cardinality(S) \in Nat
      /\ \A i \in S : i \in Nat
  <2>1. IsFiniteSet(1..n)
    BY FS_Interval
  <2>2. IsFiniteSet(S)
    BY <2>1, FS_Subset
  <2>3. \A i \in S : i \in Nat
    OBVIOUS
  <2> QED BY <2>1, <2>2, <2>3, FS_CardinalityType
<1>2. ASSUME NEW i \in S
      PROVE  /\ IsFiniteSet(upto(i)) /\ upto(i) \subseteq S /\ i \in upto(i)
             /\ Cardinality(upto(i)) \in 1..Cardinality(S)
  <2>1. upto(i) \in SUBSET S /\ i \in upto(i)
    BY <1>1
  <2>2. IsFiniteSet(upto(i)) /\ Cardinality(upto(i)) <= Cardinality(S)
    BY <1>1, <2>1, FS_Subset
  <2>3. Cardinality(upto(i)) \in Nat /\ Cardinality(upto(i)) # 0
    BY <2>1, <2>2, FS_CardinalityType, FS_EmptySet
  <2> QED BY <1>1, <2>1, <2>2, <2>3
<1>3. ASSUME NEW i \in S, NEW j \in S, i < j
      PROVE  Cardinality(upto(i)) # Cardinality(upto(j))
  <2>0. \A k \in S : k <= i => k <= j
    BY <1>1, <1>3
  <2>3. ~(j <= i) /\ j <= j
    BY <1>1, <1>3
  <2>1. upto(i) \in SUBSET upto(j) /\ j \notin upto(i) /\ j \in upto(j)
    BY <2>0, <2>3
  <2>2. IsFiniteSet(upto(j)) /\ upto(i) # upto(j)
    BY <1>2, <2>1
  <2> HIDE DEF upto
  <2> QED BY <2>1, <2>2, FS_Subset
<1>4. rank \in [S -> 1..Cardinality(S)]
  <2> HIDE DEF upto
  <2> QED BY <1>2
<1>5. \A i, j \in S : rank[i] = rank[j] => i = j
  <2> HIDE DEF upto
  <2>1. \A i, j \in S : i < j => rank[i] # rank[j]
    BY <1>3
  <2> QED BY <1>1, <2>1
<1> HIDE DEF rank
<1>6. rank \in Injection(S, 1..Cardinality(S))
  BY <1>4, <1>5 DEF Injection, IsInjective
<1>7. IsFiniteSet(1..Cardinality(S)) /\ Cardinality(1..Cardinality(S)) = Cardinality(S)
  BY <1>1, FS_Interval
<1>8. rank \in Surjection(S, 1..Cardinality(S))
  BY <1>6, <1>7, FS_Injection
<1>9. \A k \in 1..Cardinality(S) : \E i \in S : rank[i] = k
  BY <1>8 DEF Surjection
<1>10. \A i \in S : rank[i] = Rank(S, i)
  BY DEF rank, Rank
<1> QED BY <1>4, <1>5, <1>9, <1>10

(* uniqueIntents keeps the units, each of them once.                       *)
Singles(q) == \A i, j \in DOMAIN q : q[i] = q[j] => i = j

(* The distinct intents are those of the plan, each once.                  *)
LEMMA UniqueIs ==
  ASSUME NEW S, NEW q \in Seq(S)
  PROVE  /\ Unique(q) \in Seq(S) /\ Singles(Unique(q))
         /\ ToSet(Unique(q)) = ToSet(q)
         /\ IsFiniteSet(ToSet(q)) /\ Len(Unique(q)) = Cardinality(ToSet(q))
<1> DEFINE firsts == {i \in DOMAIN q : \A j \in 1..(i - 1) : q[j] # q[i]}
           rank(i) == Rank(firsts, i)
           at(k) == CHOOSE i \in firsts : rank(i) = k
           n == Cardinality(firsts)
           u == [k \in 1..n |-> q[at(k)]]
<1>0. Unique(q) = u
  BY DEF Unique, Rank
<1>1. /\ DOMAIN q = 1..Len(q) /\ Len(q) \in Nat
      /\ \A i \in DOMAIN q : q[i] \in S
  BY LenProperties
<1>2. firsts \in SUBSET (1..Len(q)) /\ IsFiniteSet(firsts) /\ n \in Nat
  <2>1. firsts \in SUBSET (1..Len(q)) /\ IsFiniteSet(1..Len(q))
    BY <1>1, FS_Interval
  <2> HIDE DEF firsts
  <2>2. IsFiniteSet(firsts)
    BY <2>1, FS_Subset
  <2> QED BY <2>1, <2>2, FS_CardinalityType
<1>9. /\ \A i \in firsts : rank(i) \in 1..n
      /\ \A i, j \in firsts : rank(i) = rank(j) => i = j
      /\ \A k \in 1..n : \E i \in firsts : rank(i) = k
  <2> HIDE DEF firsts
  <2> QED BY <1>1, <1>2, RanksReach
<1>3. ASSUME NEW k \in 1..n PROVE at(k) \in firsts /\ rank(at(k)) = k
  <2> HIDE DEF firsts, rank, n
  <2> QED BY <1>9
<1>4. \A i, j \in firsts : q[i] = q[j] => i = j
  <2>1. ASSUME NEW i \in firsts, NEW j \in firsts, i < j PROVE q[i] # q[j]
    BY <1>1, <2>1
  <2>2. \A i \in firsts : i \in Nat
    BY <1>1
  <2> HIDE DEF firsts
  <2>3. \A i, j \in firsts : i = j \/ i < j \/ j < i
    BY <2>2
  <2> QED BY <2>1, <2>3
<1>5. u \in Seq(S) /\ Len(u) = n /\ DOMAIN u = 1..n
  <2>1. \A k \in 1..n : q[at(k)] \in S
    BY <1>1, <1>2, <1>3
  <2> HIDE DEF at, n
  <2> QED BY <1>2, <2>1
<1>6. Singles(u)
  <2> SUFFICES ASSUME NEW k \in 1..n, NEW l \in 1..n, q[at(k)] = q[at(l)] PROVE k = l
    BY <1>5 DEF Singles
  <2> QED BY <1>3, <1>4
<1>7. ASSUME NEW i \in DOMAIN q PROVE \E j \in firsts : q[j] = q[i]
  <2> DEFINE same == {j \in 1..Len(q) : q[j] = q[i]}
  <2>1. same \in SUBSET Nat /\ same # {}
    BY <1>1
  <2>2. Min(same) \in same /\ \A j \in same : Min(same) <= j
    BY <2>1, MinIsLeast
  <2>3. PICK m \in 1..Len(q) : q[m] = q[i] /\ \A j \in same : m <= j
    BY <2>2
  <2>4. ASSUME NEW j \in 1..(m - 1) PROVE q[j] # q[m]
    <3>1. j \in 1..Len(q) /\ ~(m <= j)
      BY <1>1
    <3> QED BY <2>3, <3>1
  <2> QED BY <1>1, <2>3, <2>4
<1>8. ToSet(u) = ToSet(q)
  <2>1. ASSUME NEW i \in DOMAIN q PROVE \E k \in 1..n : u[k] = q[i]
    <3>1. PICK j \in firsts : q[j] = q[i]
      BY <1>7
    <3>2. rank(j) \in 1..n
      BY <1>9
    <3>3. at(rank(j)) = j
      BY <1>3, <1>9, <3>2
    <3> QED BY <3>1, <3>2, <3>3
  <2>2. ASSUME NEW k \in 1..n PROVE u[k] \in ToSet(q)
    BY <1>1, <1>2, <1>3 DEF ToSet
  <2> HIDE DEF u, n
  <2> QED BY <1>5, <2>1, <2>2 DEF ToSet
<1>10. IsFiniteSet(ToSet(q)) /\ n = Cardinality(ToSet(q))
  <2>5. u = [k \in 1..n |-> u[k]]
    OBVIOUS
  <2> HIDE DEF u, n
  <2>6. \A k \in 1..n : u[k] \in ToSet(q)
    BY <1>5, <1>8 DEF ToSet
  <2>3. u \in [1..n -> ToSet(q)]
    BY <2>5, <2>6
  <2>4. \A e \in ToSet(q) : \E k \in 1..n : u[k] = e
    BY <1>5, <1>8 DEF ToSet
  <2>1. u \in Injection(1..n, ToSet(q)) /\ u \in Surjection(1..n, ToSet(q))
    BY <1>5, <1>6, <2>3, <2>4 DEF Singles, Injection, IsInjective, Surjection
  <2>2. IsFiniteSet(1..n) /\ Cardinality(1..n) = n
    BY <1>2, FS_Interval
  <2> QED BY <2>1, <2>2, FS_Surjection
<1> QED BY <1>0, <1>5, <1>6, <1>8, <1>10

----------------------------------------------------------------------------
(* What a plan consists of.                                                *)

(* A snapshot that names states and edges of the installed definition.     *)
Reads(s) ==
  /\ graph \in Definitions /\ Sound(graph)
  /\ s.pending # None => s.pending.edge \in EdgesOf(graph)
  /\ s.active # None => s.active.edge \in EdgesOf(graph)
  /\ s.followOn # None => s.followOn.edge \in EdgesOf(graph)
  /\ s.presentation.kind \in {"intro", "body"} => s.presentation.at \in StatesOf(graph)

(* The units of an installed definition are among the units.               *)
LEMMA UnitsKnown ==
  ASSUME graph \in Definitions
  PROVE  /\ \A s \in StatesOf(graph) : BodyUnit(s) \in Units /\ IntroUnit(s) \in Units
         /\ \A e \in EdgesOf(graph) : TransitionUnit(e) \in Units
<1>1. UnitsOf(graph) \subseteq Units
  BY DEF Units
<1> QED BY <1>1 DEF UnitsOf, BodyUnit, IntroUnit, TransitionUnit, Edge

(* The set that is one unit, or none.                                      *)
When(condition, unit) == IF condition THEN {unit} ELSE {}

(* A list of one unit, or of none.                                         *)
LEMMA OneUnit ==
  ASSUME NEW u \in Units, NEW condition
  PROVE  LET q == IF condition THEN <<u>> ELSE <<>>
         IN  q \in Seq(Units) /\ ToSet(q) = When(condition, u)
<1>1. <<u>> \in Seq(Units) /\ DOMAIN <<u>> = {1} /\ <<u>>[1] = u
  OBVIOUS
<1>2. <<>> \in Seq(Units) /\ DOMAIN <<>> = {}
  OBVIOUS
<1>3. ToSet(<<u>>) = {u} /\ ToSet(<<>>) = {}
  BY <1>1, <1>2 DEF ToSet
<1> QED BY <1>1, <1>2, <1>3 DEF When

DepartingUnit(e) == IF Edge(e).kind = "none" THEN BodyUnit(Edge(e).to) ELSE TransitionUnit(e)

(* What an edge departs with: one unit, or none when it is resident.       *)
LEMMA DepartingIs ==
  ASSUME graph \in Definitions, Sound(graph), NEW e \in EdgesOf(graph)
  PROVE  /\ Departing(e) \in Seq(Units)
         /\ ToSet(Departing(e)) = When(Edge(e).kind # "reversible", DepartingUnit(e))
<1>1. DepartingUnit(e) \in Units
  BY UnitsKnown DEF DepartingUnit, Sound, Edge
<1>2. Departing(e) = IF Edge(e).kind # "reversible" THEN <<DepartingUnit(e)>> ELSE <<>>
  BY DEF Departing, DepartingUnit
<1> QED BY <1>1, <1>2, OneUnit

(* Where the active edge leads is a state.                                 *)
LEMMA TargetIs ==
  ASSUME NEW s, Reads(s), NEW streamed
  PROVE  /\ TargetIntent(s, streamed) \in Seq(Units)
         /\ ToSet(TargetIntent(s, streamed)) =
              When(s.active # None /\ streamed # BodyUnit(ActiveTarget(s)),
                   BodyUnit(ActiveTarget(s)))
<1>1. CASE s.active = None
  BY <1>1, OneUnit, UnitsKnown DEF TargetIntent, When, ToSet
<1>2. CASE s.active # None
  <2>1. ActiveTarget(s) \in StatesOf(graph)
    BY <1>2 DEF ActiveTarget, Reads, Sound, From, To
  <2>2. BodyUnit(ActiveTarget(s)) \in Units
    BY <2>1, UnitsKnown DEF Reads
  <2>3. TargetIntent(s, streamed) =
          IF s.active # None /\ streamed # BodyUnit(ActiveTarget(s))
          THEN <<BodyUnit(ActiveTarget(s))>> ELSE <<>>
    BY <1>2 DEF TargetIntent
  <2> QED BY <2>2, <2>3, OneUnit
<1> QED BY <1>1, <1>2

(* How a body goes on without a route.                                     *)
Ending(s) ==
  s.presentation.kind = "body" /\ s.pending = None /\ s.followOn = None /\ NearEnd(s)

Completing(s) == CHOOSE e \in CompletionEdges(graph, s.presentation.at) : TRUE

(* What is prefetched without a route: what the end of the body leads to.  *)
LEMMA SpeculativeIs ==
  ASSUME NEW s, Reads(s)
  PROVE  /\ Speculative(s) \in Seq(Units)
         /\ \E u : ToSet(Speculative(s)) \subseteq {u}
         /\ ~Ending(s) => ToSet(Speculative(s)) = {}
         /\ Ending(s) /\ CompletionEdges(graph, s.presentation.at) # {} =>
              ToSet(Speculative(s)) = ToSet(Departing(Completing(s)))
         /\ /\ Ending(s) /\ CompletionEdges(graph, s.presentation.at) = {}
            /\ PlayedBody(s).kind = "loop"
            => ToSet(Speculative(s)) = {UnitOf(s.presentation)}
<1>0. ToSet(<<>>) = {} /\ <<>> \in Seq(Units)
  BY DEF ToSet
<1>1. CASE ~Ending(s)
  BY <1>0, <1>1 DEF Speculative, Ending
<1>2. CASE Ending(s) /\ CompletionEdges(graph, s.presentation.at) # {}
  <2>1. Completing(s) \in EdgesOf(graph)
    BY <1>2 DEF Completing, CompletionEdges
  <2>2. Speculative(s) = Departing(Completing(s))
    BY <1>2 DEF Speculative, Ending, Completing
  <2>3. /\ Departing(Completing(s)) \in Seq(Units)
        /\ \E u : ToSet(Departing(Completing(s))) \subseteq {u}
    BY <2>1, DepartingIs DEF Reads, When
  <2> QED BY <1>2, <2>2, <2>3
<1>3. CASE Ending(s) /\ CompletionEdges(graph, s.presentation.at) = {}
  <2>1. BodyUnit(s.presentation.at) \in Units /\ UnitOf(s.presentation) = BodyUnit(s.presentation.at)
    BY <1>3, UnitsKnown DEF Reads, Ending, UnitOf
  <2>2. Speculative(s) = IF PlayedBody(s).kind = "loop" THEN <<BodyUnit(s.presentation.at)>> ELSE <<>>
    BY <1>3, <2>1 DEF Speculative, Ending
  <2>3. /\ Speculative(s) \in Seq(Units)
        /\ ToSet(Speculative(s)) = When(PlayedBody(s).kind = "loop", BodyUnit(s.presentation.at))
    BY <2>1, <2>2, OneUnit
  <2> QED BY <1>3, <2>1, <2>3 DEF When
<1> QED BY <1>1, <1>2, <1>3

Leaving(s)   == IF s.pending = None THEN {} ELSE ToSet(Departing(s.pending.edge))
Following(s) == IF s.followOn = None THEN {} ELSE ToSet(Departing(s.followOn.edge))

(* The units of a plan, which are four at the most.                        *)
LEMMA PlanIs ==
  ASSUME NEW s, Reads(s), NEW streamed, NEW ready
  PROVE  /\ Plan(s, streamed, ready) \in Seq(Units)
         /\ ToSet(Plan(s, streamed, ready)) =
              ToSet(TargetIntent(s, streamed)) \cup Leaving(s) \cup Following(s)
                \cup When(s.presentation.kind = "intro", BodyUnit(s.presentation.at))
                \cup When(Continues(s), UnitOf(s.presentation)) \cup ToSet(Speculative(s))
<1> DEFINE intro == s.presentation.kind = "intro"
           leave == IF s.pending # None THEN Departing(s.pending.edge) ELSE <<>>
           wrap == IF Continues(s) THEN <<UnitOf(s.presentation)>> ELSE <<>>
           p1 == TargetIntent(s, streamed)
           p2 == IF Continues(s) /\ WrapIsUrgent(s, ready) THEN wrap ELSE <<>>
           p3 == IF ~intro THEN leave ELSE <<>>
           p4 == IF s.followOn # None THEN Departing(s.followOn.edge) ELSE <<>>
           p5 == IF intro THEN <<BodyUnit(s.presentation.at)>> ELSE <<>>
           p6 == IF intro THEN leave ELSE <<>>
           p8 == Speculative(s)
<1>1. Plan(s, streamed, ready) = p1 \o p2 \o p3 \o p4 \o p5 \o p6 \o wrap \o p8
  BY DEF Plan
<1>0. ToSet(<<>>) = {} /\ <<>> \in Seq(Units)
  BY DEF ToSet
<1>2. leave \in Seq(Units) /\ ToSet(leave) = Leaving(s)
  BY <1>0, DepartingIs DEF Reads, Leaving
<1>3. wrap \in Seq(Units) /\ ToSet(wrap) = When(Continues(s), UnitOf(s.presentation))
  <2>1. CASE Continues(s)
    <3>1. UnitOf(s.presentation) \in Units
      BY <2>1, UnitsKnown DEF Reads, Continues, UnitOf
    <3> QED BY <3>1, OneUnit
  <2>2. CASE ~Continues(s)
    BY <1>0, <2>2 DEF When
  <2> QED BY <2>1, <2>2
<1> HIDE DEF leave, wrap
<1>4. p2 \in Seq(Units) /\ ToSet(p2) \subseteq ToSet(wrap)
  BY <1>0, <1>3
<1>5. p3 \in Seq(Units) /\ p6 \in Seq(Units) /\ ToSet(p3) \cup ToSet(p6) = Leaving(s)
  BY <1>0, <1>2
<1>6. p4 \in Seq(Units) /\ ToSet(p4) = Following(s)
  BY <1>0, DepartingIs DEF Reads, Following
<1>7. p5 \in Seq(Units) /\ ToSet(p5) = When(intro, BodyUnit(s.presentation.at))
  <2>1. CASE intro
    <3>1. BodyUnit(s.presentation.at) \in Units
      BY <2>1, UnitsKnown DEF Reads
    <3> QED BY <3>1, OneUnit
  <2>2. CASE ~intro
    BY <1>0, <2>2 DEF When
  <2> QED BY <2>1, <2>2
<1>8. p1 \in Seq(Units) /\ p8 \in Seq(Units)
  BY TargetIs, SpeculativeIs
<1> HIDE DEF p1, p2, p3, p4, p5, p6, p8
<1>9. \A a, b \in Seq(Units) : a \o b \in Seq(Units) /\ ToSet(a \o b) = ToSet(a) \cup ToSet(b)
  BY UnitsInOrder
<1> DEFINE q2 == p1 \o p2
           q3 == q2 \o p3
           q4 == q3 \o p4
           q5 == q4 \o p5
           q6 == q5 \o p6
           q7 == q6 \o wrap
           q8 == q7 \o p8
<1>10. Plan(s, streamed, ready) = q8
  BY <1>1
<1>11. q2 \in Seq(Units) /\ ToSet(q2) = ToSet(p1) \cup ToSet(p2)
  BY <1>4, <1>8, <1>9
<1> HIDE DEF q2
<1>12. q3 \in Seq(Units) /\ ToSet(q3) = ToSet(q2) \cup ToSet(p3)
  BY <1>5, <1>9, <1>11
<1> HIDE DEF q3
<1>14. q4 \in Seq(Units) /\ ToSet(q4) = ToSet(q3) \cup ToSet(p4)
  BY <1>6, <1>9, <1>12
<1> HIDE DEF q4
<1>15. q5 \in Seq(Units) /\ ToSet(q5) = ToSet(q4) \cup ToSet(p5)
  BY <1>7, <1>9, <1>14
<1> HIDE DEF q5
<1>16. q6 \in Seq(Units) /\ ToSet(q6) = ToSet(q5) \cup ToSet(p6)
  BY <1>5, <1>9, <1>15
<1> HIDE DEF q6
<1>17. q7 \in Seq(Units) /\ ToSet(q7) = ToSet(q6) \cup ToSet(wrap)
  BY <1>3, <1>9, <1>16
<1> HIDE DEF q7
<1>18. q8 \in Seq(Units) /\ ToSet(q8) = ToSet(q7) \cup ToSet(p8)
  BY <1>8, <1>9, <1>17
<1> HIDE DEF q8
<1>13. ToSet(p1) = ToSet(TargetIntent(s, streamed)) /\ ToSet(p8) = ToSet(Speculative(s))
  BY DEF p1, p8
<1>19. ToSet(q8) = ToSet(p1) \cup ToSet(wrap) \cup Leaving(s) \cup ToSet(p4) \cup ToSet(p5) \cup ToSet(p8)
  BY <1>4, <1>5, <1>11, <1>12, <1>14, <1>15, <1>16, <1>17, <1>18
<1>20. ToSet(Plan(s, streamed, ready)) =
         ToSet(TargetIntent(s, streamed)) \cup When(Continues(s), UnitOf(s.presentation)) \cup Leaving(s)
           \cup Following(s) \cup When(intro, BodyUnit(s.presentation.at)) \cup ToSet(Speculative(s))
  BY <1>3, <1>6, <1>7, <1>10, <1>13, <1>19
<1> QED BY <1>10, <1>18, <1>20

(* A set with one more member.                                             *)
LEMMA OneMore ==
  ASSUME NEW S, NEW n \in Nat, IsFiniteSet(S), Cardinality(S) <= n, NEW x
  PROVE  IsFiniteSet(S \cup {x}) /\ Cardinality(S \cup {x}) <= n + 1
<1>1. Cardinality(S) \in Nat
  BY FS_CardinalityType
<1>2. /\ IsFiniteSet(S \cup {x})
      /\ Cardinality(S \cup {x}) = IF x \in S THEN Cardinality(S) ELSE Cardinality(S) + 1
  BY FS_AddElement
<1>3. Cardinality(S \cup {x}) <= n + 1
  BY <1>1, <1>2
<1> QED BY <1>2, <1>3

(* A set of four values has four members at the most.                      *)
LEMMA FourAtMost ==
  ASSUME NEW a, NEW b, NEW c, NEW d, NEW T \in SUBSET {a, b, c, d}
  PROVE  Cardinality(T) <= 4
<1>1. IsFiniteSet({a}) /\ Cardinality({a}) <= 1
  BY FS_Singleton
<1>2. IsFiniteSet({a} \cup {b}) /\ Cardinality({a} \cup {b}) <= 2
  <2>1. /\ IsFiniteSet({a} \cup {b}) /\ Cardinality({a} \cup {b}) <= 1 + 1
    BY <1>1, OneMore
  <2> QED BY <2>1
<1>3. IsFiniteSet({a} \cup {b} \cup {c}) /\ Cardinality({a} \cup {b} \cup {c}) <= 3
  <2> DEFINE ab == {a} \cup {b}
  <2> HIDE DEF ab
  <2>1. IsFiniteSet(ab \cup {c}) /\ Cardinality(ab \cup {c}) <= 2 + 1
    BY <1>2, OneMore DEF ab
  <2> QED BY <2>1 DEF ab
<1> DEFINE S == {a} \cup {b} \cup {c} \cup {d}
<1>4. IsFiniteSet(S) /\ Cardinality(S) <= 4
  BY <1>3, OneMore
<1>7. T \in SUBSET S
  OBVIOUS
<1> HIDE DEF S
<1>5. IsFiniteSet(T) /\ Cardinality(T) <= Cardinality(S)
  BY <1>4, <1>7, FS_Subset
<1>6. Cardinality(T) \in Nat /\ Cardinality(S) \in Nat
  BY <1>4, <1>5, FS_CardinalityType
<1> QED BY <1>4, <1>5, <1>6

(* What a queue may be reconciled with: distinct units, not too many.      *)
Fits(desired) ==
  desired \in Seq(Units) /\ Singles(desired) /\ Len(desired) <= MaxIntents

(* The distinct units of a plan fit.                                       *)
LEMMA PlanFits ==
  ASSUME NEW s, Reads(s), NEW streamed, NEW ready
  PROVE  Fits(Unique(Plan(s, streamed, ready)))
<1> DEFINE plan == Plan(s, streamed, ready)
<1>1. \E u : ToSet(TargetIntent(s, streamed)) \subseteq {u}
  BY TargetIs DEF When
<1>2. \E u : Leaving(s) \subseteq {u}
  BY DepartingIs DEF Leaving, Reads, When
<1>3. \E u : Following(s) \subseteq {u}
  BY DepartingIs DEF Following, Reads, When
<1>4. \E u : /\ When(s.presentation.kind = "intro", BodyUnit(s.presentation.at)) \subseteq {u}
             /\ When(Continues(s), UnitOf(s.presentation)) \subseteq {u}
  <2>1. ~(s.presentation.kind = "intro" /\ Continues(s))
    BY DEF Continues
  <2> QED BY <2>1 DEF When
<1>5. PICK a, b, c, d :
        /\ ToSet(TargetIntent(s, streamed)) \subseteq {a} /\ Leaving(s) \subseteq {b}
        /\ Following(s) \subseteq {c}
        /\ When(s.presentation.kind = "intro", BodyUnit(s.presentation.at)) \subseteq {d}
        /\ When(Continues(s), UnitOf(s.presentation)) \subseteq {d}
  BY <1>1, <1>2, <1>3, <1>4
<1>6. \E e : ToSet(plan) \subseteq {a, b, c, e}
  <2>1. CASE Ending(s)
    <3>1. PICK e : ToSet(Speculative(s)) \subseteq {e}
      BY SpeculativeIs
    <3>2. /\ When(s.presentation.kind = "intro", BodyUnit(s.presentation.at)) = {}
          /\ When(Continues(s), UnitOf(s.presentation)) = {}
      BY <2>1 DEF Ending, Continues, When
    <3>3. ToSet(plan) \subseteq {a, b, c, e}
      BY <1>5, <3>1, <3>2, PlanIs
    <3> QED BY <3>3
  <2>2. CASE ~Ending(s)
    <3>1. ToSet(Speculative(s)) = {}
      BY <2>2, SpeculativeIs
    <3>2. ToSet(plan) \subseteq {a, b, c, d}
      BY <1>5, <3>1, PlanIs
    <3> QED BY <3>2
  <2> QED BY <2>1, <2>2
<1>7. plan \in Seq(Units)
  BY PlanIs
<1> HIDE DEF plan
<1>8. IsFiniteSet(ToSet(plan)) /\ Cardinality(ToSet(plan)) <= 4
  BY <1>6, <1>7, UniqueIs, FourAtMost
<1>9. /\ Unique(plan) \in Seq(Units) /\ Singles(Unique(plan))
      /\ Len(Unique(plan)) = Cardinality(ToSet(plan))
  BY <1>7, UniqueIs
<1>10. Len(Unique(plan)) <= MaxIntents
  BY <1>8, <1>9, LenProperties, CapacityAssumption
<1> QED BY <1>9, <1>10 DEF Fits, plan

----------------------------------------------------------------------------
(* The queue and the candidate's lane.                                     *)

LaneStates == {"idle", "open", "flushed", "closing"}

Entries == [unit : Units, state : {"loading", "loaded", "preparing", "ready"},
            run : Lanes \cup {None}]

Busy(ls, lane) == ls[lane] \in {"open", "flushed"}
HeadRuns(m)    == m.queue # <<>> /\ HasRun(m.queue[1])

(* The candidate's lane has a run that the queue does not own.             *)
Held(m) == Busy(m.lanes, CandidateLane(m)) /\ ~HeadRuns(m)

EntryHolds(m, i) ==
  /\ HasRun(m.queue[i]) <=> m.queue[i].state \in {"preparing", "ready"}
  /\ HasRun(m.queue[i]) => i = 1 /\ m.queue[i].run = CandidateLane(m)

(* Distinct units, of which the head alone owns a run, on the candidate's  *)
(* lane.                                                                   *)
QueueHolds(m) ==
  /\ m \in [queue : Seq(Entries), lanes : [Lanes -> LaneStates], foreground : Lanes]
  /\ Len(m.queue) <= MaxIntents
  /\ \A i, j \in DOMAIN m.queue : m.queue[i].unit = m.queue[j].unit => i = j
  /\ \A i \in DOMAIN m.queue : EntryHolds(m, i)
  /\ HeadRuns(m) => Busy(m.lanes, CandidateLane(m))

(* What a step of the queue leaves alone.                                  *)
Spares(m, n) ==
  /\ n.foreground = m.foreground
  /\ n.lanes[m.foreground] = m.lanes[m.foreground]
  /\ Held(n) <=> Held(m)

(* What a queue is made of, and that there is one other lane.              *)
LEMMA QueueIs ==
  ASSUME NEW m, QueueHolds(m)
  PROVE  /\ Len(m.queue) \in Nat /\ DOMAIN m.queue = 1..Len(m.queue)
         /\ \A i \in 1..Len(m.queue) : m.queue[i] \in Entries
         /\ m.queue # <<>> <=> 1 \in DOMAIN m.queue
         /\ m.queue # <<>> => Head(m.queue) = m.queue[1] /\ m.queue[1] \in Entries
         /\ m.foreground \in Lanes /\ CandidateLane(m) \in Lanes /\ CandidateLane(m) # m.foreground
         /\ \A l \in Lanes : l = m.foreground \/ l = CandidateLane(m)
<1>1. m.queue \in Seq(Entries) /\ m.foreground \in Lanes
  BY DEF QueueHolds
<1>2. CandidateLane(m) \in Lanes /\ CandidateLane(m) # m.foreground
      /\ \A l \in Lanes : l = m.foreground \/ l = CandidateLane(m)
  BY <1>1 DEF CandidateLane, Lanes
<1> DEFINE q == m.queue
<1> HIDE DEF q
<1>3. /\ Len(m.queue) \in Nat /\ DOMAIN m.queue = 1..Len(m.queue)
      /\ \A i \in 1..Len(m.queue) : m.queue[i] \in Entries
  BY <1>1, LenProperties
<1>4. m.queue # <<>> <=> 1 \in DOMAIN m.queue
  <2>1. m.queue # <<>> <=> Len(m.queue) # 0
    BY <1>1, EmptySeq
  <2> QED BY <1>3, <2>1
<1>5. Head(m.queue) = m.queue[1]
  BY DEF Head
<1> QED BY <1>1, <1>2, <1>3, <1>4, <1>5

(* The head of the queue, once it is loaded, gets the free lane.           *)
LEMMA AdmitHeadHolds ==
  ASSUME NEW m, QueueHolds(m)
  PROVE  QueueHolds(AdmitHead(m)) /\ Spares(m, AdmitHead(m))
<1> DEFINE a == AdmitHead(m)
           lane == CandidateLane(m)
           admits == m.queue # <<>> /\ m.queue[1].state = "loaded" /\ m.lanes[lane] = "idle"
<1>1. CASE ~admits
  <2>1. a = m
    BY <1>1, QueueIs DEF AdmitHead
  <2> QED BY <2>1 DEF Spares
<1>2. CASE admits
  <2> DEFINE head == [unit |-> m.queue[1].unit, state |-> "preparing", run |-> lane]
  <2>1. m.queue[1] \in Entries /\ 1 \in DOMAIN m.queue /\ lane \in Lanes /\ lane # m.foreground
        /\ m.queue \in Seq(Entries) /\ m.lanes \in [Lanes -> LaneStates] /\ m.foreground \in Lanes
    BY <1>2, QueueIs DEF QueueHolds
  <2>2. a = [queue |-> [m.queue EXCEPT ![1] = head], lanes |-> [m.lanes EXCEPT ![lane] = "open"],
             foreground |-> m.foreground]
    <3>1. a = [m EXCEPT !.queue[1] = head, !.lanes[lane] = "open"]
      BY <1>2, QueueIs DEF AdmitHead
    <3> HIDE DEF head, a
    <3> QED BY <3>1, <2>1 DEF QueueHolds
  <2>3. /\ a.queue = [m.queue EXCEPT ![1] = head] /\ a.lanes = [m.lanes EXCEPT ![lane] = "open"]
        /\ a.foreground = m.foreground
    BY <2>2
  <2>4. head \in Entries /\ HasRun(head)
    BY <2>1, MediaAssumption DEF Entries, HasRun
  <2>5. /\ a.queue \in Seq(Entries) /\ Len(a.queue) = Len(m.queue) /\ DOMAIN a.queue = DOMAIN m.queue
        /\ \A i \in DOMAIN m.queue : a.queue[i] = IF i = 1 THEN head ELSE m.queue[i]
    <3> HIDE DEF head, a
    <3> QED BY <2>1, <2>3, <2>4
  <2>6. \A l \in Lanes : a.lanes[l] = IF l = lane THEN "open" ELSE m.lanes[l]
    <3> HIDE DEF head, a, lane
    <3> QED BY <2>1, <2>3
  <2>7. a.lanes \in [Lanes -> LaneStates]
    <3> HIDE DEF head, a, lane
    <3> QED BY <2>1, <2>3 DEF LaneStates
  <2>8. CandidateLane(a) = lane
    BY <2>3 DEF CandidateLane
  <2>9. head.unit = m.queue[1].unit /\ head.run = lane /\ head.state = "preparing"
    OBVIOUS
  <2>10. a \in [queue : Seq(Entries), lanes : [Lanes -> LaneStates], foreground : Lanes]
    <3>1. a = [queue |-> a.queue, lanes |-> a.lanes, foreground |-> a.foreground]
      BY <2>2
    <3> HIDE DEF a
    <3> QED BY <2>1, <2>3, <2>5, <2>7, <3>1
  <2> HIDE DEF a, head, lane
  <2>11. ~Busy(m.lanes, lane) /\ Busy(a.lanes, lane) /\ ~HeadRuns(m) /\ HeadRuns(a)
    <3>1. Busy(a.lanes, lane) /\ ~Busy(m.lanes, lane)
      BY <1>2, <2>1, <2>6 DEF Busy
    <3>2. ~HeadRuns(m)
      BY <2>1, <3>1 DEF QueueHolds, lane
    <3>3. a.queue # <<>> /\ HasRun(a.queue[1])
      BY <2>1, <2>4, <2>5, EmptySeq
    <3> QED BY <3>1, <3>2, <3>3 DEF HeadRuns
  <2>12. \A i \in DOMAIN a.queue : EntryHolds(a, i)
    <3> SUFFICES ASSUME NEW i \in DOMAIN m.queue PROVE EntryHolds(a, i)
      BY <2>5
    <3>1. CASE i = 1
      BY <2>4, <2>5, <2>8, <2>9, <3>1 DEF EntryHolds
    <3>2. CASE i # 1
      BY <2>5, <3>2 DEF EntryHolds, QueueHolds
    <3> QED BY <3>1, <3>2
  <2>13. \A i, j \in DOMAIN a.queue : a.queue[i].unit = a.queue[j].unit => i = j
    <3>1. \A i \in DOMAIN m.queue : a.queue[i].unit = m.queue[i].unit
      BY <2>5, <2>9
    <3> QED BY <2>5, <3>1 DEF QueueHolds
  <2>14. QueueHolds(a)
    BY <2>5, <2>8, <2>10, <2>11, <2>12, <2>13 DEF QueueHolds
  <2>15. Spares(m, a)
    BY <2>1, <2>3, <2>6, <2>8, <2>11 DEF Spares, Held, lane
  <2> QED BY <2>14, <2>15 DEF a
<1> HIDE DEF a, admits
<1> QED BY <1>1, <1>2 DEF a

(* What two steps leave alone, both together leave alone.                  *)
LEMMA SparesFurther ==
  ASSUME NEW m, NEW n, NEW o, Spares(m, n), Spares(n, o) PROVE Spares(m, o)
BY DEF Spares

(* A lane is not busy when its run was closed, the other is as it was.     *)
LEMMA ClosedRunIs ==
  ASSUME NEW ls \in [Lanes -> LaneStates], NEW lane \in Lanes
  PROVE  /\ ClosedRun(ls, lane) \in [Lanes -> LaneStates]
         /\ ~Busy(ClosedRun(ls, lane), lane)
         /\ \A l \in Lanes : l # lane => ClosedRun(ls, lane)[l] = ls[l]
BY DEF ClosedRun, LaneStates, Busy

(* The same of several lanes.                                              *)
LEMMA ClosedRunsIs ==
  ASSUME NEW ls \in [Lanes -> LaneStates], NEW which
  PROVE  /\ ClosedRuns(ls, which) \in [Lanes -> LaneStates]
         /\ \A l \in Lanes : IF l \in which THEN ~Busy(ClosedRuns(ls, which), l)
                             ELSE ClosedRuns(ls, which)[l] = ls[l]
<1>1. \A l \in Lanes : ClosedRun(ls, l)[l] \in LaneStates \ {"open", "flushed"}
  BY DEF ClosedRun, LaneStates
<1>2. \A l \in Lanes : ls[l] \in LaneStates
  OBVIOUS
<1> HIDE DEF LaneStates
<1> QED BY <1>1, <1>2 DEF ClosedRuns, Busy

(* The entries of a reconciled queue, before its head is admitted.         *)
Rearranged(m, desired) ==
  LET dropped == Dropped(m, desired)
      kept(u) == {i \in DOMAIN m.queue \ dropped : m.queue[i].unit = u}
  IN  [k \in DOMAIN desired |->
         IF kept(desired[k]) = {} THEN New(desired[k])
         ELSE m.queue[CHOOSE i \in kept(desired[k]) : TRUE]]

(* A plan that fits leaves the queue in order, and closes the run of a     *)
(* head that it drops.                                                     *)
LEMMA ReconciledHolds ==
  ASSUME NEW m, QueueHolds(m), NEW desired, Fits(desired)
  PROVE  QueueHolds(Reconciled(m, desired)) /\ Spares(m, Reconciled(m, desired))
<1> DEFINE dropped == Dropped(m, desired)
           q == Rearranged(m, desired)
           closes == RunsOf([i \in dropped |-> m.queue[i]])
           lane == CandidateLane(m)
           ls == ClosedRuns(m.lanes, closes)
           r == [queue |-> q, lanes |-> ls, foreground |-> m.foreground]
           gone == HeadRuns(m) /\ 1 \in dropped
<1>1. Reconciled(m, desired) = AdmitHead(r)
  <2>1. Reconciled(m, desired) = AdmitHead([m EXCEPT !.queue = q, !.lanes = ls])
    BY DEF Reconciled, Rearranged
  <2> HIDE DEF q, ls
  <2>2. m \in [queue : Seq(Entries), lanes : [Lanes -> LaneStates], foreground : Lanes]
    BY DEF QueueHolds
  <2> DEFINE n == [m EXCEPT !.queue = q, !.lanes = ls]
  <2>3. n \in [queue : {q}, lanes : {ls}, foreground : Lanes] /\ n.foreground = m.foreground
    BY <2>2
  <2>4. Reconciled(m, desired) = AdmitHead(n)
    BY <2>1
  <2> HIDE DEF n
  <2>5. n = r
    BY <2>3
  <2> QED BY <2>4, <2>5
<1>2. /\ m.lanes \in [Lanes -> LaneStates] /\ m.queue \in Seq(Entries)
      /\ desired \in Seq(Units) /\ DOMAIN desired = 1..Len(desired) /\ Len(desired) \in Nat
      /\ Len(desired) <= MaxIntents /\ \A k \in 1..Len(desired) : desired[k] \in Units
  BY LenProperties DEF QueueHolds, Fits
<1>3. closes = IF gone THEN {lane} ELSE {}
  <2>1. \A i \in DOMAIN m.queue : HasRun(m.queue[i]) => i = 1 /\ m.queue[i].run = lane /\ HeadRuns(m)
    BY QueueIs DEF QueueHolds, EntryHolds, HeadRuns
  <2>2. dropped \subseteq DOMAIN m.queue
    BY DEF Dropped
  <2>3. HeadRuns(m) => 1 \in DOMAIN m.queue /\ HasRun(m.queue[1])
    BY QueueIs DEF HeadRuns
  <2> HIDE DEF dropped, lane
  <2>4. closes = {m.queue[i].run : i \in {i \in dropped : HasRun(m.queue[i])}}
    BY DEF RunsOf
  <2>5. {i \in dropped : HasRun(m.queue[i])} = IF gone THEN {1} ELSE {}
    BY <2>1, <2>2, <2>3
  <2> QED BY <2>1, <2>3, <2>4, <2>5
<1>4. ASSUME NEW k \in 1..Len(desired)
      PROVE  \/ q[k] = New(desired[k])
             \/ \E i \in DOMAIN m.queue : /\ i \notin dropped /\ m.queue[i].unit = desired[k]
                                          /\ q[k] = m.queue[i]
  <2> DEFINE kept == {i \in DOMAIN m.queue \ dropped : m.queue[i].unit = desired[k]}
  <2>1. q[k] = IF kept = {} THEN New(desired[k]) ELSE m.queue[CHOOSE i \in kept : TRUE]
    BY <1>2 DEF Rearranged
  <2> QED BY <2>1
<1>5. /\ \A k \in 1..Len(desired) : q[k] \in Entries /\ q[k].unit = desired[k]
      /\ DOMAIN q = 1..Len(desired)
  <2>1. DOMAIN q = 1..Len(desired)
    BY <1>2 DEF Rearranged
  <2>2. ASSUME NEW u \in Units PROVE New(u) \in Entries /\ New(u).unit = u
    BY DEF New, Entries
  <2>3. \A i \in DOMAIN m.queue : m.queue[i] \in Entries
    BY QueueIs
  <2> HIDE DEF q, dropped
  <2> QED BY <1>2, <1>4, <2>1, <2>2, <2>3
<1> HIDE DEF q, dropped, closes, ls
<1>6. q \in Seq(Entries) /\ Len(q) = Len(desired)
  <2>1. q = [k \in 1..Len(desired) |-> q[k]]
    BY <1>2 DEF q, Rearranged
  <2> QED BY <1>2, <1>5, <2>1
<1>7. ls \in [Lanes -> LaneStates] /\ lane \in Lanes /\ m.foreground \in Lanes /\ lane # m.foreground
      /\ (gone => ~Busy(ls, lane)) /\ (~gone => ls[lane] = m.lanes[lane])
      /\ ls[m.foreground] = m.lanes[m.foreground]
  BY <1>2, <1>3, ClosedRunsIs, QueueIs DEF ls
<1>8. /\ r.queue = q /\ r.lanes = ls /\ r.foreground = m.foreground /\ CandidateLane(r) = lane
      /\ r \in [queue : Seq(Entries), lanes : [Lanes -> LaneStates], foreground : Lanes]
  BY <1>6, <1>7 DEF CandidateLane
<1>9. \A k \in 1..Len(desired) : EntryHolds(r, k)
  <2> SUFFICES ASSUME NEW k \in 1..Len(desired) PROVE EntryHolds(r, k)
    OBVIOUS
  <2>1. CASE q[k] = New(desired[k])
    BY <1>8, <2>1 DEF EntryHolds, New, HasRun
  <2>2. CASE \E i \in DOMAIN m.queue : /\ i \notin dropped /\ m.queue[i].unit = desired[k]
                                       /\ q[k] = m.queue[i]
    <3>1. PICK i \in DOMAIN m.queue : /\ i \notin dropped /\ m.queue[i].unit = desired[k]
                                      /\ q[k] = m.queue[i]
      BY <2>2
    <3>2. EntryHolds(m, i)
      BY DEF QueueHolds
    <3>3. HasRun(m.queue[i]) => k = 1
      <4> SUFFICES ASSUME HasRun(m.queue[i]) PROVE k = 1
        OBVIOUS
      <4>1. i = 1
        BY <3>2 DEF EntryHolds
      <4>2. m.queue[1].unit = desired[1]
        BY <3>1, <4>1 DEF dropped, Dropped
      <4> QED BY <1>2, <3>1, <4>1, <4>2 DEF Fits, Singles
    <3> HIDE DEF lane
    <3> QED BY <1>8, <3>1, <3>2, <3>3 DEF EntryHolds, lane
  <2> QED BY <1>4, <2>1, <2>2
<1>10. HeadRuns(r) <=> HeadRuns(m) /\ ~gone
  <2>1. ASSUME HeadRuns(r) PROVE HeadRuns(m) /\ ~gone
    <3>1. 1 \in 1..Len(desired) /\ HasRun(q[1])
      BY <1>2, <1>6, <1>8, <2>1, EmptySeq DEF HeadRuns
    <3>2. ~HasRun(New(desired[1]))
      BY DEF HasRun, New
    <3>3. PICK i \in DOMAIN m.queue : i \notin dropped /\ q[1] = m.queue[i]
      BY <1>4, <3>1, <3>2
    <3>4. i = 1
      BY <3>1, <3>3 DEF QueueHolds, EntryHolds
    <3> QED BY <3>1, <3>3, <3>4, QueueIs DEF HeadRuns
  <2>2. ASSUME HeadRuns(m), ~gone PROVE HeadRuns(r)
    <3>1. 1 \in DOMAIN m.queue /\ HasRun(m.queue[1]) /\ 1 \notin dropped
      BY <2>2, QueueIs DEF HeadRuns
    <3>2. m.queue[1].unit \in ToSet(desired) /\ m.queue[1].unit = desired[1]
      BY <3>1 DEF dropped, Dropped
    <3>3. 1 \in 1..Len(desired)
      BY <1>2, <3>2 DEF ToSet
    <3>4. \A i \in DOMAIN m.queue : m.queue[i].unit = desired[1] => i = 1
      BY <3>1, <3>2 DEF QueueHolds
    <3>5. q[1] = m.queue[1]
      <4> DEFINE kept == {i \in DOMAIN m.queue \ dropped : m.queue[i].unit = desired[1]}
      <4>1. q[1] = IF kept = {} THEN New(desired[1]) ELSE m.queue[CHOOSE i \in kept : TRUE]
        BY <1>2, <3>3 DEF q, Rearranged, dropped
      <4>2. kept = {1}
        BY <3>1, <3>2, <3>4
      <4> QED BY <4>1, <4>2
    <3>6. q # <<>>
      BY <1>6, <3>3
    <3> QED BY <1>8, <3>1, <3>5, <3>6 DEF HeadRuns
  <2> QED BY <2>1, <2>2
<1>11. QueueHolds(r)
  <2>1. \A i, j \in DOMAIN r.queue : r.queue[i].unit = r.queue[j].unit => i = j
    BY <1>2, <1>5, <1>8 DEF Fits, Singles
  <2>2. HeadRuns(r) => Busy(r.lanes, CandidateLane(r))
    BY <1>7, <1>8, <1>10 DEF Busy, QueueHolds
  <2> HIDE DEF r
  <2> QED BY <1>2, <1>5, <1>6, <1>8, <1>9, <2>1, <2>2 DEF QueueHolds
<1>12. Spares(m, r)
  <2>1. HeadRuns(m) => Busy(m.lanes, lane)
    BY DEF QueueHolds
  <2> HIDE DEF r, lane
  <2> QED BY <1>7, <1>8, <1>10, <2>1 DEF Spares, Held, Busy, lane
<1> HIDE DEF r
<1> QED BY <1>1, <1>11, <1>12, AdmitHeadHolds, SparesFurther

(* A shorter prefix.                                                       *)
LEMMA Shorter == ASSUME NEW k \in Nat, NEW n \in Nat, k <= n PROVE 1..k \subseteq 1..n
OBVIOUS

(* The first units of a list, each once, fit.                              *)
LEMMA FirstFit ==
  ASSUME NEW intents \in Seq(Units)
  PROVE  Fits(SubSeq(Unique(intents), 1, Min({Len(Unique(intents)), MaxIntents})))
<1> DEFINE u == Unique(intents)
           n == Min({Len(u), MaxIntents})
           first == SubSeq(u, 1, n)
<1>1. u \in Seq(Units) /\ Singles(u)
  BY UniqueIs
<1> HIDE DEF u
<1>2. Len(u) \in Nat /\ DOMAIN u = 1..Len(u) /\ \A i \in 1..Len(u) : u[i] \in Units
  BY <1>1, LenProperties
<1>3. n \in {Len(u), MaxIntents} /\ n <= Len(u) /\ n <= MaxIntents /\ n \in Nat
  <2>1. {Len(u), MaxIntents} \in SUBSET Nat /\ {Len(u), MaxIntents} # {}
    BY <1>2, CapacityAssumption
  <2>2. n \in {Len(u), MaxIntents} /\ \A k \in {Len(u), MaxIntents} : n <= k
    BY <2>1, MinIsLeast
  <2> QED BY <2>1, <2>2
<1> HIDE DEF n
<1>6. 1..n \subseteq 1..Len(u)
  <2>1. n \in Nat /\ Len(u) \in Nat /\ n <= Len(u)
    BY <1>2, <1>3
  <2> QED BY <2>1, Shorter
<1>4. /\ first \in Seq(Units) /\ Len(first) = n /\ DOMAIN first = 1..n
      /\ \A i \in 1..n : first[i] = u[i]
  <2>1. 1 \in Int /\ \A i \in 1..n : u[i] \in Units
    BY <1>2, <1>6
  <2>2. first \in Seq(Units) /\ Len(first) = n /\ \A i \in 1..n : first[i] = u[i]
    BY <1>3, <2>1, SubSeqProperties
  <2> HIDE DEF first
  <2>3. DOMAIN first = 1..Len(first)
    BY <2>2, LenProperties
  <2> QED BY <2>2, <2>3
<1> HIDE DEF first
<1>5. Singles(first)
  <2>1. \A i \in 1..n : i \in DOMAIN u
    BY <1>2, <1>6
  <2> QED BY <1>1, <1>4, <2>1 DEF Singles
<1> QED BY <1>3, <1>4, <1>5 DEF Fits, u, n, first

----------------------------------------------------------------------------
(* What the engine lets the media read.                                    *)

Shapes == Inv /\ readiness = "animated"

(* The engine that is animated displays a frame of a state or an edge.     *)
LEMMA Displays ==
  ASSUME Shapes
  PROVE  /\ graph \in Definitions /\ graph # None /\ Valid(graph) /\ Sound(graph)
         /\ visual \in StatesOf(graph)
         /\ presentation.frame \in Nat
         /\ phase \in {"intro", "stable", "waiting"} =>
              /\ presentation.at = visual
              /\ presentation.kind = IF phase = "intro" THEN "intro" ELSE "body"
         /\ phase \in {"locked", "reversible"} =>
              /\ active # None /\ active.edge \in EdgesOf(graph)
              /\ presentation.at = active.edge /\ presentation.kind = phase
         /\ phase \in {"intro", "stable", "waiting", "locked", "reversible"}
<1>1. phase \in {"intro", "stable", "waiting", "locked", "reversible"}
  BY DEF Shapes, Inv, ReadinessShape
<1>2. graph \in Definitions /\ graph # None /\ Valid(graph) /\ visual \in StatesOf(graph)
  BY <1>1 DEF Shapes, Inv, PresentationShape, TypeOK, GraphStates
<1>3. Sound(graph)
  BY <1>2, InstalledIsSound DEF Shapes, Inv
<1>4. phase \in {"intro", "stable", "waiting"} =>
        /\ presentation.at = visual
        /\ presentation.kind = IF phase = "intro" THEN "intro" ELSE "body"
        /\ presentation.frame \in Nat
  BY DEF Shapes, Inv, PresentationShape
<1>5. phase \in {"locked", "reversible"} =>
        /\ active # None /\ active.edge \in EdgesOf(graph)
        /\ presentation.at = active.edge /\ presentation.kind = phase
        /\ presentation.frame \in Nat
  BY <1>2 DEF Shapes, Inv, PresentationShape, RouteShape, ActiveShape, InTransition, TypeOK, RouteSet, EdgeIds
<1> QED BY <1>1, <1>2, <1>3, <1>4, <1>5

(* What the plan reads of an animated engine is of its definition.         *)
LEMMA EngineReads == Shapes => Reads(Snapshot)
<1> SUFFICES ASSUME Shapes PROVE Reads(Snapshot)
  OBVIOUS
<1>1. \A route \in RouteSet : route # None => route.edge \in EdgesOf(graph)
  BY Displays DEF RouteSet, EdgeIds
<1>2. pending \in RouteSet /\ active \in RouteSet /\ followOn \in RouteSet
  BY DEF Shapes, Inv, TypeOK
<1>3. presentation.kind \in {"intro", "body"} => presentation.at \in StatesOf(graph)
  BY Displays
<1> QED BY <1>1, <1>2, <1>3, Displays DEF Reads, Snapshot

(* The same of the next state of an engine whose definition stays.         *)
LEMMA EngineReadsNext == ASSUME Shapes', graph' = graph PROVE Reads(Snapshot')
<1>1. Reads(Snapshot)'
  BY EngineReads, PTL
<1> QED BY <1>1 DEF Reads, Sound, InverseEdges, EdgesOf, StatesOf

----------------------------------------------------------------------------
(* The next frame.                                                         *)

(* What is displayed has been drawn, and is what plays.                    *)
PlaysOn ==
  /\ playing # None
  /\ playing.unit = UnitOf(presentation) /\ playing.last = presentation.frame
  /\ playing.run = None <=> presentation.kind = "reversible"
  /\ lastDraw = Key(presentation)

(* An edge opens with the unit that its departure plays.                   *)
LEMMA OpeningIs ==
  ASSUME Shapes, NEW e \in EdgesOf(graph), Opening(e).kind # "reversible"
  PROVE  UnitOf(Opening(e)) \in ToSet(Departing(e))
<1>1. Edge(e).kind \in {"none", "locked", "reversible"}
  BY Displays DEF Sound, Edge
<1>2. Edge(e).kind # "reversible" /\ UnitOf(Opening(e)) = DepartingUnit(e)
  BY <1>1 DEF Opening, Reversible, Locked, Body, UnitOf, DepartingUnit
<1> QED BY <1>2, Displays, DepartingIs DEF When

(* A body needs a new run when it starts over.                             *)
LEMMA StartsOver ==
  ASSUME Shapes, PlaysOn, OnBody, presentation.at \in StatesOf(graph),
         Required(Body(presentation.at, NextFrame)) # None
  PROVE  /\ PlayedBody(Snapshot).kind = "loop" /\ NearEnd(Snapshot)
         /\ Required(Body(presentation.at, NextFrame)) = UnitOf(presentation)
<1> DEFINE next == Body(presentation.at, NextFrame)
           body == graph.states[presentation.at]
<1>1. /\ next.kind = "body" /\ next.at = presentation.at /\ next.frame = NextFrame
      /\ UnitOf(next) = UnitOf(presentation)
  BY DEF Body, OnBody, UnitOf
<1>2. Key(next) # lastDraw /\ Replaces(next) /\ Required(next) = UnitOf(next)
  BY <1>1 DEF Required
<1>3. playing.run # None
  BY DEF PlaysOn, OnBody
<1>4. NextFrame <= presentation.frame /\ NextFrame # presentation.frame
  BY <1>1, <1>2, <1>3 DEF Replaces, PlaysOn, Key, OnBody
<1>5. body.frames \in Nat \ {0} /\ presentation.frame \in Nat
  BY Displays DEF Sound
<1>6. ~(presentation.frame < body.frames - 1) /\ body.kind = "loop"
  BY <1>4, <1>5 DEF NextFrame, NextBodyFrame
<1>7. body.frames - presentation.frame <= Lookahead
  BY <1>5, <1>6, CapacityAssumption
<1> QED BY <1>1, <1>2, <1>6, <1>7 DEF PlayedBody, NearEnd, Snapshot

(* What validation says of the edges that leave a loop, and of completion. *)
LEMMA EdgesOfBodies ==
  ASSUME Valid(graph)
  PROVE  \A e \in EdgesOf(graph) :
           /\ Edge(e).start \in {"portal", "finish", "cut"}
           /\ Edge(e).start = "finish" => graph.states[Edge(e).from].kind # "loop"
           /\ Edge(e).trigger = Completion =>
                /\ graph.states[Edge(e).from].kind # "loop"
                /\ CompletionEdges(graph, Edge(e).from) = {e}
<1> SUFFICES ASSUME NEW e \in EdgesOf(graph)
             PROVE  /\ Edge(e).start \in {"portal", "finish", "cut"}
                    /\ Edge(e).start = "finish" => graph.states[Edge(e).from].kind # "loop"
                    /\ Edge(e).trigger = Completion =>
                         /\ graph.states[Edge(e).from].kind # "loop"
                         /\ CompletionEdges(graph, Edge(e).from) = {e}
  OBVIOUS
<1>1. ValidShape(graph, e) /\ ValidReferences(graph, e) /\ ValidStart(graph, e)
  BY DEF Valid
<1>2. Completion # NoTrigger
  BY DEF Completion, NoTrigger
<1>3. Edge(e).trigger = Completion => CompletionEdges(graph, Edge(e).from) = {e}
  BY <1>1, <1>2 DEF ValidReferences, CompletionEdges, Edge
<1> QED BY <1>1, <1>3 DEF ValidShape, ValidReferences, ValidStart, ValidFinishStart, Edge

(* What the next frame needs is in the plan.                               *)
LEMMA NextIsPlanned ==
  ASSUME Shapes, PlaysOn, ~Blocks, Required(Preview) # None
  PROVE  Required(Preview) \in ToSet(PlanFor(Snapshot, playing, queue))
<1> DEFINE s == Snapshot
           streamed == Streamed(playing)
           plan == ToSet(PlanFor(s, playing, queue))
<1>0. /\ s.phase = phase /\ s.requested = requested /\ s.presentation = presentation
      /\ s.pending = pending /\ s.active = active /\ s.followOn = followOn
  BY DEF Snapshot
<1>1. plan = ToSet(TargetIntent(s, streamed)) \cup Leaving(s) \cup Following(s)
              \cup When(s.presentation.kind = "intro", BodyUnit(s.presentation.at))
              \cup When(Continues(s), UnitOf(s.presentation)) \cup ToSet(Speculative(s))
  BY EngineReads, PlanIs DEF PlanFor
<1> HIDE DEF plan
<1>2. /\ Preview.kind # "reversible" /\ Required(Preview) = UnitOf(Preview)
      /\ Key(Preview) # lastDraw /\ Replaces(Preview)
  BY DEF Required
<1>3. CASE phase = "stable"
  <2>1. /\ OnBody /\ presentation.at = visual /\ visual \in StatesOf(graph)
        /\ pending = None /\ followOn = None
    BY <1>3, Displays DEF OnBody, Shapes, Inv, RouteShape, PendingShape, ContinuationShape, InTransition, Early
  <2> DEFINE leaving == {e \in EdgesOf(graph) : Completes(e, RouteReady)}
  <2>2. CASE leaving # {}
    <3> DEFINE e == CHOOSE e \in leaving : TRUE
    <3>1. e \in leaving /\ Preview = Opening(e)
      BY <1>3, <2>2 DEF Preview
    <3> HIDE DEF e
    <3>2. /\ e \in EdgesOf(graph) /\ e \in CompletionEdges(graph, presentation.at)
          /\ presentation.frame = graph.states[presentation.at].frames - 1
      BY <3>1 DEF Completes
    <3>3. CompletionEdges(graph, presentation.at) = {e}
      BY <3>2, Displays, EdgesOfBodies DEF CompletionEdges, Edge
    <3>4. Ending(s)
      <4>1. graph.states[presentation.at].frames \in Nat
        BY <2>1, Displays DEF Sound
      <4>2. graph.states[presentation.at].frames - presentation.frame <= Lookahead
        BY <3>2, <4>1, CapacityAssumption
      <4> QED BY <1>0, <2>1, <4>2 DEF Ending, NearEnd, PlayedBody, OnBody
    <3>5. Completing(s) = e
      BY <1>0, <3>3 DEF Completing
    <3>6. ToSet(Speculative(s)) = ToSet(Departing(e))
      BY <1>0, <3>3, <3>4, <3>5, EngineReads, SpeculativeIs
    <3>7. UnitOf(Preview) \in ToSet(Departing(e))
      BY <1>2, <3>1, <3>2, OpeningIs
    <3> QED BY <1>1, <1>2, <3>6, <3>7 DEF plan
  <2>3. CASE leaving = {}
    <3>1. Preview = Body(presentation.at, NextFrame)
      BY <1>3, <2>1, <2>3 DEF Preview
    <3>2. /\ PlayedBody(s).kind = "loop" /\ NearEnd(s)
          /\ Required(Preview) = UnitOf(presentation)
      BY <2>1, <3>1, StartsOver
    <3>3. CompletionEdges(graph, presentation.at) = {}
      <4>1. \A e \in CompletionEdges(graph, presentation.at) :
              graph.states[presentation.at].kind # "loop"
        BY Displays, EdgesOfBodies DEF CompletionEdges, Edge
      <4> QED BY <1>0, <3>2, <4>1 DEF PlayedBody
    <3>4. ToSet(Speculative(s)) = {UnitOf(presentation)}
      BY <1>0, <2>1, <3>2, <3>3, EngineReads, SpeculativeIs DEF Ending, OnBody
    <3> QED BY <1>1, <3>2, <3>4 DEF plan
  <2> QED BY <2>2, <2>3
<1>4. CASE phase = "waiting"
  <2>1. /\ OnBody /\ presentation.at = visual /\ visual \in StatesOf(graph)
        /\ pending # None /\ pending.edge \in EdgesOf(graph) /\ From(pending) = visual
    BY <1>0, <1>4, Displays, EngineReads
       DEF OnBody, Shapes, Inv, RouteShape, PendingShape, Early, Reads
  <2>2. CASE Departs(RouteReady)
    <3>1. Preview = Opening(pending.edge)
      <4>1. {e \in {pending.edge} : Departs(RouteReady)} = {pending.edge}
        BY <2>2
      <4> QED BY <1>4, <4>1 DEF Preview
    <3>2. UnitOf(Preview) \in ToSet(Departing(pending.edge))
      BY <1>2, <2>1, <3>1, OpeningIs
    <3> QED BY <1>0, <1>1, <1>2, <2>1, <3>2 DEF Leaving, plan
  <2>3. CASE ~Departs(RouteReady)
    <3>1. Preview = Body(presentation.at, NextFrame)
      BY <1>4, <2>1, <2>3 DEF Preview
    <3>2. /\ PlayedBody(s).kind = "loop" /\ NearEnd(s)
          /\ Required(Preview) = UnitOf(presentation)
      BY <2>1, <3>1, StartsOver
    <3>3. Edge(pending.edge).start = "portal"
      <4>1. Edge(pending.edge).start # "cut"
        BY <2>3 DEF Departs
      <4>2. graph.states[Edge(pending.edge).from].kind = "loop"
        BY <1>0, <2>1, <3>2 DEF PlayedBody, From, Edge
      <4> QED BY <2>1, <4>1, <4>2, Displays, EdgesOfBodies
    <3>4. Continues(s)
      BY <1>0, <2>1, <3>2, <3>3 DEF Continues, OnBody, From
    <3> QED BY <1>0, <1>1, <3>2, <3>4 DEF When, plan
  <2> QED BY <2>2, <2>3
<1>5. CASE phase = "intro"
  <2>1. presentation.kind = "intro" /\ presentation.frame \in Nat
    BY <1>5, Displays
  <2>2. CASE presentation.frame + 1 < graph.introFrames
    <3>1. Preview = Intro(presentation.at, presentation.frame + 1)
      BY <1>5, <2>1, <2>2 DEF Preview, OnBody
    <3> QED BY <1>2, <2>1, <3>1 DEF Intro, UnitOf, Replaces, PlaysOn
  <2>3. CASE ~(presentation.frame + 1 < graph.introFrames)
    <3>1. Preview = Body(presentation.at, 0)
      BY <1>5, <2>1, <2>3 DEF Preview, OnBody
    <3> QED BY <1>0, <1>1, <1>2, <2>1, <3>1 DEF Body, UnitOf, When, plan
  <2> QED BY <2>2, <2>3
<1>6. CASE phase = "locked"
  <2>1. /\ presentation.kind = "locked" /\ presentation.at = active.edge /\ active # None
        /\ presentation.frame \in Nat
    BY <1>6, Displays
  <2>2. CASE presentation.frame + 1 < Edge(active.edge).frames
    <3>1. Preview = Locked(active.edge, presentation.frame + 1)
      BY <1>6, <2>1, <2>2 DEF Preview, OnBody
    <3> QED BY <1>2, <2>1, <3>1 DEF Locked, UnitOf, Replaces, PlaysOn
  <2>3. CASE ~(presentation.frame + 1 < Edge(active.edge).frames)
    <3>1. Preview = Body(To(active), 0)
      BY <1>6, <2>1, <2>3 DEF Preview, OnBody
    <3>2. ActiveTarget(s) = To(active)
      BY <1>0, <1>6 DEF ActiveTarget
    <3>3. streamed # BodyUnit(To(active))
      BY <2>1 DEF Streamed, PlaysOn, UnitOf, TransitionUnit, BodyUnit
    <3> HIDE DEF streamed, s
    <3> QED BY <1>0, <1>1, <1>2, <2>1, <3>1, <3>2, <3>3, EngineReads, TargetIs DEF Body, UnitOf, When, s, plan
  <2> QED BY <2>2, <2>3
<1>7. CASE phase = "reversible"
  <2>1. /\ presentation.kind = "reversible" /\ active # None /\ active.edge \in EdgesOf(graph)
        /\ presentation.frame \in Nat
    BY <1>7, Displays
  <2>2. ~InUnit(ReversibleNext) /\ Preview = Body(To(Effective), 0)
    BY <1>2, <1>7, <2>1 DEF Preview, OnBody, Reversible
  <2>3. ActiveTarget(s) = To(Effective)
    <3>1. /\ followOn # None => From(followOn) = To(Effective)
          /\ reversal # None => reversal.edge \in InverseEdges(graph, active.edge)
          /\ requested = Prospective
      BY <1>7, Displays
         DEF Shapes, Inv, RouteShape, ContinuationShape, RequestedIsProspective, Terminated
    <3>2. reversal # None => To(reversal) = From(active)
      BY <2>1, <3>1, Displays DEF Sound, To, From
    <3>3. To(active) # From(active)
      BY <2>1, Displays DEF Sound, To, From
    <3>4. followOn = None => requested = To(Effective)
      BY <2>1, <3>1 DEF Prospective, Effective
    <3>5. /\ reversal # None => To(Effective) = From(active)
          /\ reversal = None => To(Effective) = To(active)
      BY <3>2 DEF Effective
    <3> QED BY <1>0, <1>7, <3>1, <3>3, <3>4, <3>5 DEF ActiveTarget, From, To
  <2>4. streamed # BodyUnit(To(Effective))
    <3>1. To(Effective) \in StatesOf(graph)
      BY <2>1, Displays DEF Shapes, Inv, RouteShape, ContinuationShape, Effective, To, Sound, InverseEdges
    <3> QED BY <2>1, <3>1, Displays, UnitsKnown, MediaAssumption DEF Streamed, PlaysOn
  <2> HIDE DEF streamed, s
  <2> QED BY <1>0, <1>1, <1>2, <2>1, <2>2, <2>3, <2>4, EngineReads, TargetIs DEF Body, UnitOf, When, s, plan
<1> QED BY <1>3, <1>4, <1>5, <1>6, <1>7, Displays

----------------------------------------------------------------------------
(* The inductive invariant.                                                *)

Stages == {"fresh", "qualifying", "storing", "opening", "playing", "retired", "disposed"}
Works  == [unit : Units, run : Lanes]
Plays  == [unit : Units, run : Lanes \cup {None}, last : Int]
Draws  == [lease : {"none", "foreground", "candidate"}, unit : Units \cup {<<>>},
           run : Lanes \cup {None}]
Keys   == {"intro", "body", "locked", "reversible"} \X Units \X Int

MediaTypes ==
  /\ stage \in Stages
  /\ work \in Works \cup {None} /\ playing \in Plays \cup {None}
  /\ drawing \in Draws \cup {None} /\ lastDraw \in Keys \cup {None}

Leased(kind) == drawing # None /\ drawing.lease = kind

(* Whose run is on which lane.                                             *)
RunsHeld ==
  /\ QueueHolds(media)
  /\ Held(media) <=> Leased("candidate") \/ stage = "qualifying"
  /\ Busy(lanes, foreground) <=> OldRun # None \/ work # None \/ Leased("foreground")
  /\ OldRun # None => OldRun = foreground /\ work = None /\ ~Leased("foreground")
  /\ work # None => work.run = foreground /\ ~Leased("foreground")
  /\ Leased("candidate") => drawing.run = CandidateLane(media)
  /\ Leased("foreground") => drawing.run = foreground

(* What each stage has.                                                    *)
Staged ==
  /\ stage = "fresh" => lanes = [l \in Lanes |-> "idle"]
  /\ stage \in {"fresh", "qualifying", "storing"} => lanes[foreground] # "closing"
  /\ stage \in {"qualifying", "storing", "opening"} => graph # None
  /\ work # None => stage \in {"storing", "opening", "retired"}
  /\ stage = "opening" => work # None /\ work.unit = InitialUnit
  /\ playing # None \/ queue # <<>> => stage = "playing"
  /\ drawing # None => stage \in {"playing", "retired"}
  /\ lastDraw # None => stage \in {"playing", "retired", "disposed"}
  /\ stage = "retired" => drawing \in {None, NoLease}
  /\ stage = "playing" => readiness = "animated"

(* What is drawn, and what was drawn last.                                 *)
Played ==
  /\ playing.unit = lastDraw[2] /\ playing.last = lastDraw[3]
  /\ playing.run = None <=> lastDraw[1] = "reversible"

Shown ==
  stage = "playing" =>
    /\ playing # None <=> lastDraw # None
    /\ playing # None => Played
    /\ drawing = None => lastDraw = Key(presentation)
    /\ Leased("foreground") <=> drawing # None /\ lastDraw = None
    /\ Leased("foreground") => /\ drawing.unit = UnitOf(presentation)
                               /\ presentation.kind # "reversible"
    /\ Leased("candidate") => /\ drawing.unit = UnitOf(presentation)
                              /\ Required(presentation) # None
    /\ Leased("none") => Required(presentation) = None

MediaInv ==
  /\ Inv
  /\ readiness \in {"unready", "preparing", "animated"}
  /\ MediaTypes /\ RunsHeld /\ Staged /\ Shown

(* A player without media, before the engine has a definition.             *)
LEMMA InitHolds == MediaInit => MediaInv
<1> SUFFICES ASSUME MediaInit PROVE MediaInv
  OBVIOUS
<1>1. Inv /\ readiness \in {"unready", "preparing", "animated"}
  BY InitEstablishes DEF MediaInit, Init
<1>2. MediaTypes
  BY DEF MediaInit, MediaTypes, Stages
<1>5. Staged
  BY DEF MediaInit, Staged, Lanes
<1>6. Shown
  BY DEF MediaInit, Shown
<1>3. QueueHolds(media)
  <2>1. media = [queue |-> <<>>, lanes |-> [l \in Lanes |-> "idle"], foreground |-> 1]
    BY DEF MediaInit, media
  <2>2. <<>> \in Seq(Entries) /\ Len(<<>>) = 0 /\ DOMAIN <<>> = {}
    OBVIOUS
  <2>3. [l \in Lanes |-> "idle"] \in [Lanes -> LaneStates] /\ 1 \in Lanes
    BY DEF LaneStates, Lanes
  <2> QED BY <2>1, <2>2, <2>3, CapacityAssumption DEF QueueHolds, HeadRuns
<1>4. RunsHeld
  <2>1. lanes[1] = "idle" /\ lanes[2] = "idle" /\ 3 - foreground = 2 /\ foreground = 1
    BY DEF MediaInit, Lanes
  <2> QED BY <1>3, <2>1 DEF MediaInit, RunsHeld, Held, Busy, Leased, OldRun, media, CandidateLane
<1> QED BY <1>1, <1>2, <1>3, <1>4, <1>5, <1>6 DEF MediaInv

----------------------------------------------------------------------------
(* The queue moves, whatever the engine does.                              *)

(* The variables are the record that was put.                              *)
LEMMA PutIs ==
  ASSUME NEW m, QueueHolds(m), Put(m) PROVE media' = m
<1>1. queue' = m.queue /\ lanes' = m.lanes /\ foreground' = m.foreground
  BY DEF Put
<1>2. m \in [queue : Seq(Entries), lanes : [Lanes -> LaneStates], foreground : Lanes]
  BY DEF QueueHolds
<1> QED BY <1>1, <1>2 DEF media

(* The record is of the variables.                                         *)
LEMMA MediaIs ==
  /\ media.queue = queue /\ media.lanes = lanes /\ media.foreground = foreground
  /\ media'.queue = queue' /\ media'.lanes = lanes' /\ media'.foreground = foreground'
BY DEF media

(* A step of the queue that spares the runs of others leaves them owned.   *)
LEMMA QueueMoves ==
  ASSUME RunsHeld, MediaTypes, QueueHolds(media'), Spares(media, media'),
         UNCHANGED <<stage, work, playing, lastDraw>>,
         \/ drawing' = drawing
         \/ ~Leased("foreground") /\ ~Leased("candidate") /\ drawing' \in {None, NoLease}
  PROVE  RunsHeld' /\ MediaTypes'
<1>1. /\ foreground' = foreground /\ lanes'[foreground] = lanes[foreground]
      /\ Held(media') <=> Held(media)
  BY MediaIs DEF Spares
<1>2. CandidateLane(media') = CandidateLane(media)
  BY <1>1, MediaIs DEF CandidateLane
<1>3. /\ UNCHANGED <<OldRun, stage, work>>
      /\ Leased("foreground")' <=> Leased("foreground")
      /\ Leased("candidate")' <=> Leased("candidate")
      /\ Leased("foreground") \/ Leased("candidate") => drawing' = drawing
  BY DEF OldRun, Leased, NoLease
<1>4. Held(media)' <=> Held(media)
  BY <1>1 DEF Held, HeadRuns, Busy, media, CandidateLane
<1>5. QueueHolds(media)'
  BY DEF QueueHolds, EntryHolds, HeadRuns, HasRun, Busy, CandidateLane
<1>6. MediaTypes'
  <2>1. NoLease \in Draws
    BY DEF NoLease, Draws
  <2> QED BY <2>1 DEF MediaTypes
<1> QED BY <1>1, <1>2, <1>3, <1>4, <1>5, <1>6 DEF RunsHeld, Busy

----------------------------------------------------------------------------
(* The engine, under the media.                                            *)

(* An input keeps the definition and, unless the engine is static, the     *)
(* displayed frame.                                                        *)
LEMMA InputKeepsFrame ==
  ASSUME Inv, NEW input, input \in Targets \cup Events, Request(input) \/ Send(input)
  PROVE  /\ graph' = graph /\ readiness' = readiness
         /\ readiness = "animated" => presentation' = presentation
<1>1. graph' = graph /\ readiness' = readiness
  BY DEF Request, RequestRefused, RequestHere, RequestJoin, RequestCancel, RequestReroute,
         RequestContinue, RequestReverse, RequestFollowOn, RequestStatic,
         Send, SendRefused, SendNoop, SendCancel, SendReroute, SendContinue, SendReverse,
         SendFollowOn, SendStatic, NewRequest, Input
<1>2. readiness = "animated" => phase # "static"
  BY DEF Inv, ReadinessShape
<1>3. phase # "static" => presentation' = presentation
  BY DEF Request, RequestRefused, RequestHere, RequestJoin, RequestCancel, RequestReroute,
         RequestContinue, RequestReverse, RequestFollowOn, RequestStatic,
         Send, SendRefused, SendNoop, SendCancel, SendReroute, SendContinue, SendReverse,
         SendFollowOn, SendStatic, installed, ReplacePending, QueueReversal, QueueFollowOn
<1> QED BY <1>1, <1>2, <1>3

(* A tick keeps the definition and the readiness.                          *)
LEMMA TickKeepsGraph ==
  ASSUME NEW routeReady, Tick(routeReady) PROVE graph' = graph /\ readiness' = readiness
BY DEF Tick, TickIdle, TickIntro, TickIntroJoin, TickBody, TickCompletion, TickWait, TickDepart,
       TickLocked, TickLockedEnd, TickReversible, TickReversibleEnd, Ticking

(* The key of a displayed frame.                                           *)
LEMMA KeyIs ==
  ASSUME Shapes
  PROVE  /\ UnitOf(presentation) \in Units
         /\ Key(presentation) \in Keys /\ Key(presentation) # None
         /\ presentation.kind \in {"intro", "body", "locked", "reversible"}
<1>1. presentation.kind \in {"intro", "body", "locked", "reversible"}
  BY Displays
<1>2. UnitOf(presentation) \in Units
  <2>1. CASE presentation.kind \in {"intro", "body"}
    <3>1. presentation.at \in StatesOf(graph)
      BY <2>1, Displays
    <3> QED BY <2>1, <3>1, Displays, UnitsKnown DEF UnitOf
  <2>2. CASE presentation.kind \in {"locked", "reversible"}
    <3>1. presentation.at \in EdgesOf(graph)
      BY <2>2, Displays
    <3> QED BY <2>2, <3>1, Displays, UnitsKnown DEF UnitOf
  <2> QED BY <1>1, <2>1, <2>2
<1>3. presentation.frame \in Int
  BY Displays
<1>4. Key(presentation) \in Keys
  BY <1>1, <1>2, <1>3 DEF Key, Keys
<1> QED BY <1>1, <1>2, <1>4, MediaAssumption DEF Keys

(* The units that are stored or opened with are of the definition.         *)
LEMMA ResidentKnown ==
  ASSUME Inv, graph # None PROVE Resident \subseteq Units /\ InitialUnit \in Units
<1>1. graph \in Definitions /\ Sound(graph)
  BY InstalledIsSound DEF Inv, TypeOK
<1>2. InitialUnit \in Units
  BY <1>1, UnitsKnown DEF InitialUnit, Sound
<1>3. Resident \subseteq Units
  BY <1>1, UnitsKnown DEF Resident, Sound, Edge
<1> QED BY <1>2, <1>3

----------------------------------------------------------------------------
(* Preparation.                                                            *)

(* Nothing but the queue moves: what is staged and shown stays.            *)
LEMMA StreamsStay ==
  ASSUME MediaInv, UNCHANGED <<streams, graph, readiness>>, QueueHolds(media)',
         Spares(media, media'), queue' # <<>> => stage = "playing",
         readiness = "animated" => presentation' = presentation,
         stage = "fresh" => lanes' = lanes, 
         Inv'
  PROVE  MediaInv'
<1>1. RunsHeld' /\ MediaTypes'
  <2>1. QueueHolds(media')
    BY DEF QueueHolds, EntryHolds, HeadRuns, HasRun, Busy, CandidateLane
  <2> QED BY <2>1, QueueMoves DEF MediaInv, streams
<1>2. lanes'[foreground] = lanes[foreground] /\ foreground' = foreground
  BY MediaIs DEF Spares
<1>3. Staged'
  BY <1>2 DEF MediaInv, Staged, streams, InitialUnit, NoLease
<1>4. Shown'
  <2> SUFFICES ASSUME stage = "playing" PROVE Shown'
    BY DEF Shown, streams
  <2>1. presentation' = presentation
    BY DEF MediaInv, Staged
  <2> QED BY <2>1 DEF MediaInv, Shown, streams, Played, Key, UnitOf, IntroUnit, BodyUnit,
            TransitionUnit, Edge, Leased, Required, Replaces
<1> QED BY <1>1, <1>3, <1>4 DEF MediaInv

(* A definition is installed before anything is staged.                    *)
LEMMA InstallHolds ==
  ASSUME MediaInv, NEW d \in Definitions, MediaInstall(d) PROVE MediaInv'
<1>1. Inv' /\ readiness' = "preparing" /\ readiness = "unready"
  BY InstallKeeps DEF MediaInstall, MediaInv, Install
<1>2. stage \notin {"playing", "qualifying", "storing", "opening"}
  <2>1. graph = None
    BY <1>1 DEF MediaInv, Inv, ReadinessShape, PresentationShape, RouteShape, TypeOK
  <2> QED BY <1>1, <2>1 DEF MediaInv, Staged
<1>3. RunsHeld' /\ MediaTypes'
  BY DEF MediaInv, MediaInstall, mediaVars, RunsHeld, MediaTypes, QueueHolds, EntryHolds, HeadRuns, HasRun,
         Held, media, Busy, CandidateLane, Leased, OldRun
<1>4. Staged' /\ Shown'
  BY <1>2 DEF MediaInv, MediaInstall, mediaVars, Staged, Shown, NoLease
<1> QED BY <1>1, <1>3, <1>4 DEF MediaInv

(* A queue without entries owns nothing.                                   *)
LEMMA EmptyQueue ==
  ASSUME NEW m, NEW ls \in [Lanes -> LaneStates], NEW lane \in Lanes,
         m = [queue |-> <<>>, lanes |-> ls, foreground |-> lane]
  PROVE  QueueHolds(m) /\ (Held(m) <=> Busy(ls, 3 - lane))
<1>1. <<>> \in Seq(Entries) /\ Len(<<>>) = 0 /\ DOMAIN <<>> = {}
  OBVIOUS
<1>2. QueueHolds(m)
  BY <1>1, CapacityAssumption DEF QueueHolds, HeadRuns
<1> QED BY <1>2 DEF Held, HeadRuns, CandidateLane

(* The same of the next state.                                             *)
LEMMA EmptyQueueNext ==
  ASSUME queue' = <<>>, lanes' \in [Lanes -> LaneStates], foreground' \in Lanes
  PROVE  QueueHolds(media)' /\ (Held(media)' <=> Busy(lanes', 3 - foreground'))
<1>1. QueueHolds(media') /\ (Held(media') <=> Busy(lanes', 3 - foreground'))
  BY EmptyQueue DEF media
<1> QED BY <1>1 DEF QueueHolds, EntryHolds, HeadRuns, HasRun, Held, Busy, CandidateLane

(* Before the player plays, there is nothing but the work on a lane.       *)
LEMMA BeforePlaying ==
  ASSUME MediaInv, stage # "playing"
  PROVE  /\ queue = <<>> /\ playing = None /\ OldRun = None
         /\ lanes \in [Lanes -> LaneStates] /\ foreground \in {1, 2}
         /\ stage # "retired" => drawing = None
         /\ ~Leased("foreground") /\ ~Leased("candidate")
         /\ Busy(lanes, 3 - foreground) <=> stage = "qualifying"
         /\ Busy(lanes, foreground) <=> work # None
         /\ work # None => work.run = foreground /\ stage \in {"storing", "opening", "retired"}
<1>1. queue = <<>> /\ playing = None /\ OldRun = None
  BY DEF MediaInv, Staged, OldRun
<1>2. lanes \in [Lanes -> LaneStates] /\ foreground \in {1, 2}
  BY DEF MediaInv, RunsHeld, QueueHolds, media, Lanes
<1>3. stage # "retired" => drawing = None
  BY DEF MediaInv, Staged
<1>4. ~Leased("foreground") /\ ~Leased("candidate")
  BY <1>3 DEF Leased, MediaInv, Staged, NoLease
<1>5. Busy(lanes, 3 - foreground) <=> stage = "qualifying"
  BY <1>1, <1>2, <1>4, EmptyQueue DEF MediaInv, RunsHeld, Lanes, media
<1> QED BY <1>1, <1>2, <1>3, <1>4, <1>5 DEF MediaInv, RunsHeld, Staged

(* What the steps of the preparation have to establish.                    *)
LEMMA StillBefore ==
  ASSUME MediaInv, stage # "playing", UNCHANGED <<vars, queue, foreground, playing, lastDraw>>,
         lanes' \in [Lanes -> LaneStates], stage' \in Stages \ {"playing"},
         work' \in Works \cup {None}, drawing' \in {drawing, None},
         Busy(lanes', 3 - foreground) <=> stage' = "qualifying",
         Busy(lanes', foreground) <=> work' # None,
         work' # None => work'.run = foreground,
         Staged'
  PROVE  MediaInv'
<1>1. /\ queue' = <<>> /\ playing' = None /\ foreground' = foreground /\ foreground \in {1, 2}
      /\ ~Leased("foreground") /\ ~Leased("candidate")
  BY BeforePlaying
<1>2. OldRun' = None /\ ~Leased("foreground")' /\ ~Leased("candidate")'
  BY <1>1 DEF OldRun, Leased
<1>3. QueueHolds(media)' /\ (Held(media)' <=> stage' = "qualifying")
  BY <1>1, EmptyQueueNext DEF Lanes, Busy
<1>4. RunsHeld'
  BY <1>1, <1>2, <1>3 DEF RunsHeld, Busy
<1>5. MediaTypes'
  BY DEF MediaInv, MediaTypes
<1>6. Inv' /\ readiness' = readiness
  BY StutterKeeps DEF MediaInv, vars
<1>7. Shown'
  BY DEF Shown
<1> QED BY <1>4, <1>5, <1>6, <1>7 DEF MediaInv

(* The witness takes the candidate's lane, or nothing has to be qualified. *)
LEMMA QualifyHolds == ASSUME MediaInv, Qualify PROVE MediaInv'
<1> USE BeforePlaying
<1>0. work = None /\ drawing = None /\ lanes = [l \in Lanes |-> "idle"] /\ lastDraw = None
      /\ stage = "fresh"
  BY DEF MediaInv, Staged, Qualify
<1>1. lanes' \in [Lanes -> LaneStates] /\ lanes'[foreground] = "idle"
      /\ (Busy(lanes', 3 - foreground) <=> stage' = "qualifying")
  BY <1>0 DEF Qualify, Busy, Lanes, LaneStates
<1>2. Staged'
  BY <1>0, <1>1 DEF Qualify, vars, Staged
<1> QED BY <1>0, <1>1, <1>2, StillBefore DEF Qualify, Stages, Busy

(* The witness is closed.                                                  *)
LEMMA QualifiedHolds == ASSUME MediaInv, Qualified PROVE MediaInv'
<1> USE BeforePlaying
<1>0. work = None /\ drawing = None /\ lastDraw = None /\ graph # None /\ stage = "qualifying"
      /\ lanes[foreground] # "closing"
  BY DEF MediaInv, Staged, Qualified
<1>1. lanes' \in [Lanes -> LaneStates] /\ lanes'[foreground] = lanes[foreground]
      /\ ~Busy(lanes', 3 - foreground)
  BY <1>0, ClosedRunIs DEF Qualified, Lanes
<1>2. Staged'
  BY <1>0, <1>1 DEF Qualified, vars, Staged
<1> QED BY <1>0, <1>1, <1>2, StillBefore DEF Qualified, Stages, Busy

(* A run of the preparation takes the foreground's lane.                   *)
LEMMA OpenWorkHolds ==
  ASSUME MediaInv, NEW u \in Units, OpenWork(u), stage = "storing", work = None,
         \/ stage' = "storing"
         \/ stage' = "opening" /\ u = InitialUnit
  PROVE  MediaInv'
<1> USE BeforePlaying
<1>0. drawing = None /\ lastDraw = None /\ graph # None /\ drawing' = None
  BY DEF MediaInv, Staged, OpenWork
<1>1. /\ lanes' \in [Lanes -> LaneStates] /\ lanes'[foreground] = "open"
      /\ lanes'[3 - foreground] = lanes[3 - foreground]
  BY DEF OpenWork, Lanes, LaneStates
<1>2. work' \in Works /\ work' # None /\ work'.run = foreground /\ work'.unit = u
  BY MediaAssumption DEF OpenWork, Works, Lanes
<1>3. Staged'
  BY <1>0, <1>1, <1>2 DEF OpenWork, vars, Staged, InitialUnit, IntroUnit, BodyUnit
<1> QED BY <1>0, <1>1, <1>2, <1>3, StillBefore DEF OpenWork, Stages, Busy

(* A run for a unit that stays decoded.                                    *)
LEMMA StoreHolds == ASSUME MediaInv, Store PROVE MediaInv'
<1>1. graph # None
  BY DEF MediaInv, Staged, Store
<1>2. PICK u \in Resident : OpenWork(u)
  BY DEF Store
<1>3. u \in Units
  BY <1>1, <1>2, ResidentKnown DEF MediaInv
<1>4. stage = "storing" /\ work = None /\ stage' = "storing"
  BY DEF Store
<1> QED BY <1>2, <1>3, <1>4, OpenWorkHolds

(* The run of the first unit that plays.                                   *)
LEMMA OpenInitialHolds == ASSUME MediaInv, OpenInitial PROVE MediaInv'
<1>1. graph # None
  BY DEF MediaInv, Staged, OpenInitial
<1> QED BY <1>1, ResidentKnown, OpenWorkHolds DEF OpenInitial, MediaInv

(* A run that flushed leaves its lane idle for the next.                   *)
LEMMA StoredHolds == ASSUME MediaInv, Stored PROVE MediaInv'
<1> USE BeforePlaying
<1>0. drawing = None /\ lastDraw = None /\ graph # None /\ stage = "storing"
      /\ work.run = foreground /\ lanes[foreground] = "flushed"
  BY DEF MediaInv, Staged, Stored, Flushed
<1>1. /\ lanes' \in [Lanes -> LaneStates] /\ lanes'[foreground] = "idle"
      /\ lanes'[3 - foreground] = lanes[3 - foreground]
  BY <1>0 DEF Stored, Lanes, LaneStates, ClosedRun
<1>2. Staged'
  BY <1>0, <1>1 DEF Stored, vars, Staged
<1> QED BY <1>0, <1>1, <1>2, StillBefore DEF Stored, Stages, Busy

(* A preparation finds out that the player retired and closes its run.     *)
LEMMA WorkAbortsHolds == ASSUME MediaInv, WorkAborts PROVE MediaInv'
<1> USE BeforePlaying
<1>1. /\ lanes' \in [Lanes -> LaneStates] /\ ~Busy(lanes', foreground)
      /\ lanes'[3 - foreground] = lanes[3 - foreground]
  BY ClosedRunIs DEF WorkAborts, Lanes
<1>2. Staged'
  BY <1>1 DEF MediaInv, WorkAborts, vars, Staged, NoLease
<1> QED BY <1>1, <1>2, StillBefore DEF WorkAborts, Stages, Busy

(* A draw finds out that the player retired.                               *)
LEMMA DrawAbortsHolds == ASSUME MediaInv, DrawAborts PROVE MediaInv'
<1> USE BeforePlaying
<1>1. lanes \in [Lanes -> LaneStates] /\ stage = "retired"
  BY DEF DrawAborts
<1>2. Staged'
  BY <1>1 DEF MediaInv, DrawAborts, vars, Staged
<1> QED BY <1>1, <1>2, StillBefore DEF DrawAborts, Stages, Busy, MediaInv, MediaTypes

(* The pool goes when every operation is over.                             *)
LEMMA DisposeHolds == ASSUME MediaInv, DisposeMedia PROVE MediaInv'
<1> USE BeforePlaying
<1>1. lanes' \in [Lanes -> LaneStates] /\ stage = "retired" /\ work = None
      /\ ~Busy(lanes', foreground) /\ ~Busy(lanes', 3 - foreground)
  BY DEF DisposeMedia, Lanes, LaneStates, Busy
<1>2. Staged'
  BY <1>1 DEF MediaInv, DisposeMedia, vars, Staged, NoLease
<1> QED BY <1>1, <1>2, StillBefore DEF DisposeMedia, Stages, Busy, MediaInv, MediaTypes

(* The runs that a retirement closes.                                      *)
LEMMA HeldRunsAre ==
  ASSUME MediaInv
  PROVE  /\ RunsOf(queue) = IF HeadRuns(media) THEN {CandidateLane(media)} ELSE {}
         /\ LeasedRun = IF Leased("foreground") \/ Leased("candidate") THEN {drawing.run} ELSE {}
         /\ foreground \in HeldRuns <=> OldRun # None \/ Leased("foreground")
         /\ CandidateLane(media) \in HeldRuns <=> HeadRuns(media) \/ Leased("candidate")
<1>0. QueueHolds(media) /\ CandidateLane(media) # foreground
  BY QueueIs, MediaIs DEF MediaInv, RunsHeld
<1>1. RunsOf(queue) = IF HeadRuns(media) THEN {CandidateLane(media)} ELSE {}
  <2>1. \A i \in DOMAIN queue : HasRun(queue[i]) => i = 1 /\ queue[i].run = CandidateLane(media)
    BY <1>0, MediaIs DEF QueueHolds, EntryHolds
  <2>2. queue # <<>> <=> 1 \in DOMAIN queue
    BY <1>0, QueueIs, MediaIs
  <2> QED BY <2>1, <2>2, MediaIs DEF RunsOf, HeadRuns
<1>2. LeasedRun = IF Leased("foreground") \/ Leased("candidate") THEN {drawing.run} ELSE {}
  BY DEF LeasedRun, Leased, MediaInv, MediaTypes, Draws
<1>3. foreground \in HeldRuns <=> OldRun # None \/ Leased("foreground")
  BY <1>0, <1>1, <1>2 DEF HeldRuns, MediaInv, RunsHeld, Leased
<1>4. CandidateLane(media) \in HeldRuns <=> HeadRuns(media) \/ Leased("candidate")
  BY <1>0, <1>1, <1>2 DEF HeldRuns, MediaInv, RunsHeld, Leased
<1> QED BY <1>1, <1>2, <1>3, <1>4

(* A retirement closes every run but that of a preparation under way.      *)
LEMMA RetireHolds == ASSUME MediaInv, Retire PROVE MediaInv'
<1> DEFINE closed == HeldRuns \cup (IF stage = "qualifying" THEN {3 - foreground} ELSE {})
<1>0. /\ lanes \in [Lanes -> LaneStates] /\ foreground \in Lanes /\ QueueHolds(media)
      /\ CandidateLane(media) = 3 - foreground /\ 3 - foreground \in Lanes
      /\ 3 - foreground # foreground
  BY DEF MediaInv, RunsHeld, QueueHolds, media, CandidateLane, Lanes
<1>1. /\ lanes' \in [Lanes -> LaneStates]
      /\ \A l \in Lanes : IF l \in closed THEN ~Busy(lanes', l) ELSE lanes'[l] = lanes[l]
  <2> HIDE DEF closed
  <2> QED BY <1>0, ClosedRunsIs DEF Retire, closed
<1>2. ~Busy(lanes', 3 - foreground)
  <2>1. CASE 3 - foreground \in closed
    BY <1>0, <1>1, <2>1
  <2>2. CASE 3 - foreground \notin closed
    <3>1. ~HeadRuns(media) /\ ~Leased("candidate") /\ stage # "qualifying"
      BY <1>0, <2>2, HeldRunsAre
    <3>2. ~Busy(lanes, 3 - foreground)
      BY <1>0, <3>1, MediaIs DEF MediaInv, RunsHeld, Held
    <3> QED BY <1>0, <1>1, <2>2, <3>2 DEF Busy
  <2> QED BY <2>1, <2>2
<1>3. Busy(lanes', foreground) <=> work # None
  <2>1. foreground \in closed <=> OldRun # None \/ Leased("foreground")
    BY <1>0, HeldRunsAre
  <2>2. Busy(lanes, foreground) <=> OldRun # None \/ work # None \/ Leased("foreground")
    BY DEF MediaInv, RunsHeld
  <2>3. work # None => OldRun = None /\ ~Leased("foreground")
    BY DEF MediaInv, RunsHeld
  <2> QED BY <1>0, <1>1, <2>1, <2>2, <2>3 DEF Busy
<1>4. /\ queue' = <<>> /\ OldRun' = None /\ foreground' = foreground /\ work' = work
      /\ ~Leased("foreground")' /\ ~Leased("candidate")' /\ stage' = "retired"
  BY DEF Retire, OldRun, Leased, NoLease
<1>5. QueueHolds(media)' /\ ~Held(media)'
  BY <1>0, <1>1, <1>2, <1>4, EmptyQueueNext DEF Busy
<1>6. RunsHeld'
  BY <1>3, <1>4, <1>5 DEF MediaInv, RunsHeld, Busy
<1>7. MediaTypes'
  BY DEF MediaInv, MediaTypes, Retire, NoLease, Draws, Stages
<1>8. Staged'
  BY <1>4 DEF MediaInv, Staged, Retire, NoLease
<1> QED BY <1>4, <1>6, <1>7, <1>8, StutterKeeps DEF MediaInv, Shown, Retire, vars

(* The first frame of an animated player.                                  *)
LEMMA BeginPlayingHolds == ASSUME MediaInv, BeginPlaying PROVE MediaInv'
<1>1. Inv' /\ readiness' = "animated" /\ graph' = graph
  BY BeginAnimatedKeeps DEF BeginPlaying, MediaInv, BeginAnimated
<1>2. /\ work # None /\ work.unit = InitialUnit /\ work.run = foreground /\ work \in Works
      /\ playing = None /\ queue = <<>> /\ lastDraw = None /\ stage = "opening"
      /\ OldRun = None
  BY BeforePlaying DEF MediaInv, Staged, MediaTypes, BeginPlaying
<1>3. /\ drawing' \in Draws /\ drawing' # None /\ drawing'.lease = "foreground"
      /\ drawing'.unit = work.unit /\ drawing'.run = foreground
  BY <1>2, MediaAssumption DEF BeginPlaying, Draws, Works
<1>4. /\ OldRun' = None /\ work' = None /\ Leased("foreground")' /\ ~Leased("candidate")'
      /\ UNCHANGED <<queue, lanes, foreground, playing, lastDraw>> /\ stage' = "playing"
  BY <1>2, <1>3 DEF OldRun, Leased, BeginPlaying
<1>5. QueueHolds(media)' /\ ~Held(media)'
  <2>1. /\ lanes \in [Lanes -> LaneStates] /\ foreground \in Lanes
        /\ ~Busy(lanes, 3 - foreground)
    BY <1>2, BeforePlaying DEF Lanes
  <2> QED BY <1>2, <1>4, <2>1, EmptyQueueNext
<1>6. RunsHeld'
  BY <1>2, <1>3, <1>4, <1>5 DEF MediaInv, RunsHeld, Busy, Leased
<1>7. MediaTypes'
  BY <1>3, <1>4 DEF MediaInv, MediaTypes, Stages
<1>8. Staged'
  BY <1>1, <1>2, <1>4 DEF MediaInv, Staged
<1>9. UnitOf(presentation)' = InitialUnit /\ presentation'.kind # "reversible"
  BY <1>1, <1>2 DEF BeginPlaying, BeginAnimated, EnterIntro, Intro, Body, UnitOf, InitialUnit,
     IntroUnit, BodyUnit
<1>10. Shown'
  BY <1>2, <1>3, <1>4, <1>9 DEF Shown, Leased
<1> QED BY <1>1, <1>6, <1>7, <1>8, <1>10 DEF MediaInv

----------------------------------------------------------------------------
(* The queue and the lanes while the player plays.                         *)

(* The queue that was put holds, and so do the variables.                  *)
LEMMA MovedLike ==
  ASSUME NEW m, QueueHolds(m), Put(m) PROVE media' = m /\ QueueHolds(media') /\ QueueHolds(media)'
<1>1. media' = m
  BY PutIs
<1> QED BY <1>1 DEF QueueHolds, EntryHolds, HeadRuns, HasRun, Busy, CandidateLane

(* A plan that fits is taken by the queue.                                 *)
LEMMA ReconcileHolds ==
  ASSUME NEW m, QueueHolds(m), NEW plan, Fits(Unique(plan)), Reconcile(m, plan)
  PROVE  QueueHolds(media') /\ QueueHolds(media)' /\ Spares(m, media')
<1>1. Put(Reconciled(m, Unique(plan)))
  BY DEF Reconcile
<1>2. QueueHolds(Reconciled(m, Unique(plan))) /\ Spares(m, Reconciled(m, Unique(plan)))
  BY ReconciledHolds
<1> QED BY <1>1, <1>2, MovedLike

(* A player that is prepared plays, and its engine is animated.            *)
LEMMA PreparedPlays == ASSUME MediaInv, Prepared PROVE stage = "playing" /\ Shapes /\ work = None
BY DEF MediaInv, Staged, Prepared, Retired, Shapes

(* An input changes the routes of the engine and the queue follows.        *)
LEMMA HearHolds ==
  ASSUME MediaInv, NEW input \in Targets \cup Events,
         Request(input) \/ Send(input), ~Retired, UNCHANGED streams,
         IF Prepared
         THEN Reconcile(media, Plan(Snapshot', Streamed(playing), PendingReady(pending', queue)))
         ELSE UNCHANGED <<queue, lanes, foreground>>
  PROVE  MediaInv'
<1>1. /\ graph' = graph /\ readiness' = readiness /\ Inv'
      /\ readiness = "animated" => presentation' = presentation
  BY InputKeepsFrame, RequestKeeps, SendKeeps DEF MediaInv
<1>2. QueueHolds(media)
  BY DEF MediaInv, RunsHeld
<1>3. CASE Prepared
  <2>1. Shapes' /\ stage = "playing"
    BY <1>1, <1>3, PreparedPlays DEF Shapes
  <2>2. Reads(Snapshot')
    BY <1>1, <2>1, EngineReadsNext
  <2>3. Fits(Unique(Plan(Snapshot', Streamed(playing), PendingReady(pending', queue))))
    BY <2>2, PlanFits
  <2>4. QueueHolds(media)' /\ Spares(media, media')
    BY <1>2, <1>3, <2>3, ReconcileHolds
  <2> QED BY <1>1, <2>1, <2>4, StreamsStay
<1>4. CASE ~Prepared
  <2>1. media' = media
    BY <1>4 DEF media
  <2>2. QueueHolds(media)' /\ Spares(media, media')
    BY <1>2, <2>1 DEF QueueHolds, EntryHolds, HeadRuns, HasRun, Busy, CandidateLane, Spares, Held
  <2>3. queue' # <<>> => stage = "playing"
    BY <1>4 DEF MediaInv, Staged
  <2> QED BY <1>1, <1>4, <2>2, <2>3, StreamsStay
<1> QED BY <1>3, <1>4

(* An event is such an input.                                              *)
LEMMA HearEventHolds == ASSUME MediaInv, NEW event \in Events, HearEvent(event) PROVE MediaInv'
BY HearHolds DEF HearEvent, Routed

(* A request is such an input.                                             *)
LEMMA HearRequestHolds == ASSUME MediaInv, NEW state \in Targets, HearRequest(state) PROVE MediaInv'
BY HearHolds DEF HearRequest, Routed

----------------------------------------------------------------------------
(* Frames.                                                                 *)

(* A frame that waits for its unit puts it first: the unit was planned, so *)
(* that it is known and the queue fits.                                    *)
LEMMA AwaitHolds == ASSUME MediaInv, Await PROVE MediaInv'
<1> DEFINE u == Required(Preview)
           desired == Unique(WaitingPlan(u))
           first == SubSeq(desired, 1, Min({Len(desired), MaxIntents}))
<1>1. stage = "playing" /\ Shapes /\ drawing = None /\ ~Blocks /\ u # None /\ QueueHolds(media)
      /\ UNCHANGED <<vars, streams>>
  BY PreparedPlays DEF Await, MayAdvance, MediaInv, RunsHeld
<1>2. PlaysOn
  <2>1. lastDraw # None /\ lastDraw = Key(presentation) /\ playing # None /\ Played
    BY <1>1 DEF MediaInv, Shown, Await, MayAdvance, Prepared
  <2> QED BY <2>1 DEF Played, PlaysOn, Key
<1> HIDE DEF u
<1>3. PlanFor(Snapshot, playing, queue) \in Seq(Units)
      /\ u \in ToSet(PlanFor(Snapshot, playing, queue))
  BY <1>1, <1>2, EngineReads, PlanIs, NextIsPlanned DEF PlanFor, u
<1>4. WaitingPlan(u) \in Seq(Units)
  <2>1. u \in Units /\ <<u>> \in Seq(Units)
    BY <1>3 DEF ToSet
  <2> QED BY <1>3, <2>1, UnitsInOrder DEF WaitingPlan, Prioritized
<1>5. Fits(first)
  BY <1>4, FirstFit
<1>6. Put(Reconciled(AdmitHead(media), first))
  BY DEF Await, u
<1> HIDE DEF first
<1>7. /\ QueueHolds(Reconciled(AdmitHead(media), first))
      /\ Spares(media, Reconciled(AdmitHead(media), first))
  BY <1>1, <1>5, AdmitHeadHolds, ReconciledHolds, SparesFurther
<1>8. QueueHolds(media)' /\ Spares(media, media')
  BY <1>6, <1>7, MovedLike
<1>9. Inv' /\ presentation' = presentation /\ graph' = graph /\ readiness' = readiness
  BY <1>1, StutterKeeps DEF MediaInv, vars
<1> QED BY <1>1, <1>8, <1>9, StreamsStay

(* The same of the frame that was committed.                               *)
KeyHolds ==
  /\ UnitOf(presentation) \in Units
  /\ Key(presentation) \in Keys /\ Key(presentation) # None

(* A displayed frame has a key.                                            *)
LEMMA ShapesHasKey == Shapes => KeyHolds
BY KeyIs DEF KeyHolds

(* The same of the next state.                                             *)
LEMMA KeyHoldsNext == ASSUME Shapes' PROVE KeyHolds'
BY ShapesHasKey, PTL

(* A frame is committed, with the head of the queue or without: the lease  *)
(* of the head leaves the lane busy and the queue without a run.           *)
LEMMA AdvanceHolds == ASSUME MediaInv, Advance PROVE MediaInv'
<1> DEFINE u == Required(presentation')
<1>1. stage = "playing" /\ Shapes /\ drawing = None /\ ~Blocks /\ QueueHolds(media) /\ work = None
      /\ lastDraw # None /\ playing # None /\ Played
      /\ ~Leased("foreground") /\ ~Leased("candidate")
  BY PreparedPlays DEF Advance, MayAdvance, MediaInv, RunsHeld, Shown, Prepared, Leased
<1>2. RouteReady \in BOOLEAN /\ Tick(RouteReady)
  BY DEF Advance, RouteReady
<1>3. graph' = graph /\ readiness' = readiness /\ Inv'
  BY <1>2, TickKeepsGraph, TickKeeps DEF MediaInv
<1>4. Shapes' /\ KeyHolds'
  BY <1>1, <1>3, KeyHoldsNext DEF Shapes
<1>5. /\ u = Required(presentation)' /\ UnitOf(presentation)' = UnitOf(presentation')
      /\ Key(presentation)' = Key(presentation')
      /\ UNCHANGED <<stage, stored, work, playing, lastDraw>>
  BY <1>3 DEF Advance, Required, Replaces, Key, UnitOf, IntroUnit, BodyUnit, TransitionUnit, Edge
<1>6. u # None => u = UnitOf(presentation) '
  BY <1>5 DEF Required
<1> HIDE DEF u
<1>7. Played' /\ lastDraw' # None /\ playing' # None /\ stage' = "playing" /\ readiness' = "animated"
  BY <1>1, <1>3, <1>5 DEF Played, Shapes
<1>8. CASE u = None
  <2>1. drawing' = NoLease /\ Put(AdmitHead(media))
    BY <1>8 DEF Advance, u
  <2>2. QueueHolds(media') /\ Spares(media, media')
    BY <1>1, <2>1, AdmitHeadHolds, MovedLike
  <2>3. RunsHeld' /\ MediaTypes'
    BY <1>1, <1>5, <2>1, <2>2, QueueMoves DEF MediaInv
  <2>4. NoLease # None
    BY MediaAssumption DEF NoLease
  <2>5. Staged'
    BY <1>1, <1>5, <1>7, <2>1 DEF MediaInv, Staged
  <2>6. Shown'
    BY <1>5, <1>7, <1>8, <2>1, <2>4 DEF Shown, Leased, NoLease
  <2> QED BY <1>3, <2>3, <2>5, <2>6 DEF MediaInv
<1>9. CASE u # None
  <2>1. /\ Ready(queue, u) /\ queue' = Tail(queue) /\ UNCHANGED <<lanes, foreground>>
        /\ drawing' = [lease |-> "candidate", unit |-> u, run |-> Head(queue).run]
    BY <1>9 DEF Advance, u
  <2>2. /\ queue # <<>> /\ queue[1] \in Entries /\ queue[1].run = CandidateLane(media)
        /\ Head(queue) = queue[1] /\ HasRun(queue[1]) /\ Busy(lanes, CandidateLane(media))
        /\ CandidateLane(media) \in Lanes
    <3>1. queue # <<>> /\ Head(queue) = queue[1] /\ queue[1].state = "ready"
          /\ 1 \in DOMAIN queue /\ queue[1] \in Entries
      BY <1>1, <2>1, QueueIs, MediaIs DEF Ready
    <3>2. EntryHolds(media, 1)
      BY <1>1, <3>1, MediaIs DEF QueueHolds
    <3> QED BY <1>1, <3>1, <3>2, QueueIs, MediaIs DEF EntryHolds, QueueHolds, HeadRuns
  <2>3. /\ drawing' \in Draws /\ drawing' # None /\ drawing'.lease = "candidate"
        /\ drawing'.run = CandidateLane(media) /\ drawing'.unit = u
    <3>1. u \in Units
      BY <1>4, <1>6, <1>9 DEF KeyHolds
    <3> QED BY <2>1, <2>2, <3>1, MediaAssumption DEF Draws
  <2>4. QueueHolds(media') /\ ~HeadRuns(media')
    <3> DEFINE q == queue
               t == Tail(queue)
    <3>1. q \in Seq(Entries) /\ q # <<>> /\ Len(q) <= MaxIntents
      BY <1>1, <2>2, MediaIs DEF QueueHolds
    <3>2. /\ t \in Seq(Entries) /\ Len(t) = Len(q) - 1 /\ DOMAIN t = 1..Len(t)
          /\ \A i \in DOMAIN t : t[i] = q[i + 1] /\ i + 1 \in DOMAIN q /\ i + 1 # 1
      BY <3>1
    <3>3. \A i \in DOMAIN t : ~HasRun(t[i]) /\ t[i].state \notin {"preparing", "ready"}
      <4>1. \A i \in DOMAIN q : EntryHolds(media, i)
        BY <1>1, MediaIs DEF QueueHolds
      <4> QED BY <3>2, <4>1, MediaIs DEF EntryHolds
    <3>4. media' = [queue |-> t, lanes |-> lanes, foreground |-> foreground]
      BY <2>1 DEF media
    <3>5. media'.queue = t
      BY <3>4
    <3>6. Len(t) <= MaxIntents
      BY <3>1, <3>2, CapacityAssumption
    <3>7. \A i, j \in DOMAIN t : t[i].unit = t[j].unit => i = j
      <4>1. \A i, j \in DOMAIN q : q[i].unit = q[j].unit => i = j
        BY <1>1, MediaIs DEF QueueHolds
      <4> SUFFICES ASSUME NEW i \in DOMAIN t, NEW j \in DOMAIN t, t[i].unit = t[j].unit PROVE i = j
        OBVIOUS
      <4>2. i + 1 = j + 1 /\ i \in Nat /\ j \in Nat
        BY <3>2, <4>1
      <4> QED BY <4>2
    <3>8. ~HeadRuns(media')
      <4>1. t # <<>> => 1 \in DOMAIN t
        BY <3>2
      <4> QED BY <3>3, <3>5, <4>1 DEF HeadRuns
    <3>9. \A i \in DOMAIN t : EntryHolds(media', i)
      BY <3>3, <3>5 DEF EntryHolds
    <3>10. media' \in [queue : Seq(Entries), lanes : [Lanes -> LaneStates], foreground : Lanes]
      BY <1>1, <3>2, <3>4, MediaIs DEF QueueHolds
    <3> HIDE DEF t
    <3> QED BY <3>5, <3>6, <3>7, <3>8, <3>9, <3>10 DEF QueueHolds
  <2>5. QueueHolds(media)' /\ Held(media)'
    <3>1. QueueHolds(media)'
      BY <2>4 DEF QueueHolds, EntryHolds, HeadRuns, HasRun, Busy, CandidateLane
    <3>2. Held(media')
      BY <2>1, <2>2, <2>4, MediaIs DEF Held, CandidateLane
    <3> QED BY <3>1, <3>2 DEF Held, HeadRuns, HasRun, Busy, CandidateLane
  <2>6. Leased("candidate")' /\ ~Leased("foreground")' /\ OldRun' = OldRun
        /\ CandidateLane(media)' = CandidateLane(media)
    BY <1>5, <2>1, <2>3, MediaIs DEF Leased, OldRun, CandidateLane
  <2>7. RunsHeld'
    BY <1>1, <1>5, <2>1, <2>3, <2>5, <2>6 DEF MediaInv, RunsHeld, Busy
  <2>8. MediaTypes'
    BY <1>5, <2>3 DEF MediaInv, MediaTypes
  <2>9. Staged'
    BY <1>1, <1>5, <1>7, <2>1 DEF MediaInv, Staged
  <2>10. Shown'
    BY <1>5, <1>6, <1>7, <1>9, <2>3 DEF Shown, Leased
  <2> QED BY <1>3, <2>7, <2>8, <2>9, <2>10 DEF MediaInv
<1> QED BY <1>8, <1>9

----------------------------------------------------------------------------
(* A draw is done.                                                         *)

(* What the commit of a draw has to establish, before the queue moves on.  *)
LEMMA SettledRuns ==
  ASSUME NEW m, QueueHolds(m), ~Held(m), QueueHolds(media'), QueueHolds(media)', Spares(m, media'),
         work' = None, drawing' = None, stage' = "playing",
         Busy(m.lanes, m.foreground) <=> OldRun' # None,
         OldRun' # None => OldRun' = m.foreground
  PROVE  RunsHeld'
<1>1. foreground' = m.foreground /\ lanes'[foreground'] = m.lanes[m.foreground]
  BY MediaIs DEF Spares
<1>2. ~Held(media)'
  BY DEF Spares, Held, HeadRuns, HasRun, Busy, CandidateLane
<1>3. ~Leased("foreground")' /\ ~Leased("candidate")'
  BY DEF Leased
<1> QED BY <1>1, <1>2, <1>3 DEF RunsHeld, Busy

(* What is displayed, and where it comes from.                             *)
Settling(m) ==
  /\ QueueHolds(m) /\ ~Held(m)
  /\ Busy(m.lanes, m.foreground) <=> OldRun' # None
  /\ OldRun' # None => OldRun' = m.foreground
  /\ playing' \in Plays /\ playing' # None
  /\ playing'.unit = UnitOf(presentation) /\ playing'.last = presentation.frame
  /\ playing'.run = None <=> presentation.kind = "reversible"

(* What plays is not mistaken for nothing.                                 *)
LEMMA PlaysAre ==
  ASSUME NEW p, p \in Plays PROVE p # None
BY MediaAssumption DEF Plays

(* A draw is done: the lanes swap for a candidate, a resident unit closes  *)
(* the run it takes the place of, and any other frame is of the run that   *)
(* plays.                                                                  *)
LEMMA DrawnHolds == ASSUME MediaInv, Drawn PROVE MediaInv'
<1>1. /\ stage = "playing" /\ Shapes /\ drawing # None /\ drawing \in Draws /\ work = None
      /\ QueueHolds(media) /\ foreground \in Lanes /\ CandidateLane(media) \in Lanes
      /\ CandidateLane(media) # foreground /\ lanes \in [Lanes -> LaneStates]
  <2>1. stage = "playing" /\ Shapes /\ drawing # None /\ drawing \in Draws /\ work = None
        /\ QueueHolds(media)
    BY DEF MediaInv, Staged, Shapes, Drawn, Retired, MediaTypes, RunsHeld
  <2> QED BY <2>1, QueueIs, MediaIs DEF QueueHolds
<1>2. KeyHolds /\ presentation.frame \in Int
      /\ presentation.kind \in {"intro", "body", "locked", "reversible"}
  BY <1>1, ShapesHasKey, KeyIs, Displays
<1>3. /\ Inv' /\ UNCHANGED <<graph, readiness, presentation, stage, work>> /\ drawing' = None
      /\ lastDraw' = Key(presentation)
  BY StutterKeeps DEF MediaInv, Drawn, vars
<1>4. /\ Leased("none") \/ Leased("foreground") \/ Leased("candidate")
      /\ Leased("foreground") <=> lastDraw = None
      /\ playing # None <=> lastDraw # None
      /\ playing # None => Played
      /\ Held(media) <=> Leased("candidate")
      /\ Busy(lanes, foreground) <=> OldRun # None \/ Leased("foreground")
      /\ OldRun # None => OldRun = foreground
  BY <1>1 DEF MediaInv, Shown, RunsHeld, Leased, Draws
<1>5. ASSUME NEW m, NEW p, playing' = p, Settling(m), Reconcile(m, PlanFor(Snapshot, p, queue))
      PROVE  MediaInv'
  <2>1. Fits(Unique(PlanFor(Snapshot, p, queue)))
    BY <1>1, EngineReads, PlanFits DEF PlanFor
  <2>2. QueueHolds(media') /\ QueueHolds(media)' /\ Spares(m, media')
    BY <1>5, <2>1, ReconcileHolds DEF Settling
  <2>3. RunsHeld'
    BY <1>1, <1>3, <1>5, <2>2, SettledRuns DEF Settling
  <2>4. MediaTypes'
    BY <1>1, <1>2, <1>3, <1>5 DEF MediaInv, MediaTypes, Settling, KeyHolds, Stages
  <2>5. Staged'
    BY <1>1, <1>3 DEF MediaInv, Staged
  <2>6. /\ lastDraw'[1] = presentation.kind /\ lastDraw'[2] = UnitOf(presentation)
        /\ lastDraw'[3] = presentation.frame /\ lastDraw' # None /\ lastDraw' = Key(presentation)'
    BY <1>2, <1>3 DEF Key, KeyHolds, UnitOf, IntroUnit, BodyUnit, TransitionUnit, Edge
  <2>7. Shown'
    BY <1>3, <1>5, <2>6 DEF Shown, Played, Settling, Leased
  <2> QED BY <1>3, <2>3, <2>4, <2>5, <2>7 DEF MediaInv
<1>6. CASE Key(presentation) = lastDraw
  <2>1. Required(presentation) = None /\ ~Leased("foreground") /\ ~Leased("candidate")
    BY <1>1, <1>2, <1>4, <1>6 DEF Required, KeyHolds, MediaInv, Shown
  <2>2. playing' = playing /\ playing # None /\ Played /\ playing \in Plays
        /\ Reconcile(media, PlanFor(Snapshot, playing, queue))
    BY <1>2, <1>4, <1>6 DEF Drawn, KeyHolds, MediaInv, MediaTypes
  <2>3. Settling(media)
    BY <1>1, <1>4, <1>6, <2>1, <2>2, MediaIs DEF Settling, Played, Key, OldRun
  <2> QED BY <1>5, <2>2, <2>3
<1>7. CASE Key(presentation) # lastDraw
  <2>1. playing' = NowPlaying /\ Reconcile(Committed, PlanFor(Snapshot, NowPlaying, queue))
    BY <1>7 DEF Drawn
  <2>2. SUFFICES Settling(Committed)
    BY <1>5, <2>1
  <2>3. CASE Leased("candidate")
    <3> DEFINE lane == CandidateLane(media)
               m == [queue |-> queue, lanes |-> ClosedRun(lanes, foreground), foreground |-> lane]
    <3>1. Committed = m /\ CandidateLane(m) = foreground
      <4>1. Committed = m
        BY <2>3 DEF Committed, Leased, media
      <4>2. CandidateLane(m) = 3 - lane /\ lane = 3 - foreground
        BY MediaIs DEF CandidateLane
      <4>3. 3 - (3 - foreground) = foreground
        BY <1>1 DEF Lanes
      <4> QED BY <4>1, <4>2, <4>3
    <3>2. /\ ~HeadRuns(media) /\ Busy(lanes, lane) /\ drawing.run = lane
          /\ drawing.unit = UnitOf(presentation) /\ Required(presentation) # None
      BY <1>1, <1>4, <2>3, MediaIs DEF Held, MediaInv, RunsHeld, Shown
    <3>3. presentation.kind # "reversible"
      BY <3>2 DEF Required
    <3>4. playing' = [unit |-> drawing.unit, run |-> drawing.run, last |-> presentation.frame]
      BY <2>1, <2>3, <3>3 DEF NowPlaying, Leased
    <3>5. playing' \in Plays /\ playing' # None /\ lane # None
      BY <1>1, <1>2, <3>2, <3>4, PlaysAre, MediaAssumption DEF Plays, KeyHolds
    <3>6. QueueHolds(m) /\ ~HeadRuns(m)
      <4>1. \A i \in DOMAIN queue : ~HasRun(queue[i]) /\ queue[i].state \notin {"preparing", "ready"}
        <5>1. \A i \in DOMAIN queue : EntryHolds(media, i)
          BY <1>1, MediaIs DEF QueueHolds
        <5>2. queue # <<>> <=> 1 \in DOMAIN queue
          BY <1>1, QueueIs, MediaIs
        <5> QED BY <3>2, <5>1, <5>2, MediaIs DEF EntryHolds, HeadRuns
      <4>2. m.queue = queue /\ m.lanes = ClosedRun(lanes, foreground) /\ m.foreground = lane
        OBVIOUS
      <4>3. m \in [queue : Seq(Entries), lanes : [Lanes -> LaneStates], foreground : Lanes]
        BY <1>1, ClosedRunIs, MediaIs DEF QueueHolds
      <4>4. ~HeadRuns(m)
        BY <3>2, MediaIs DEF HeadRuns
      <4>5. \A i \in DOMAIN queue : EntryHolds(m, i)
        BY <4>1, <4>2 DEF EntryHolds
      <4>6. /\ Len(queue) <= MaxIntents
            /\ \A i, j \in DOMAIN queue : queue[i].unit = queue[j].unit => i = j
        BY <1>1, MediaIs DEF QueueHolds
      <4> HIDE DEF m
      <4> QED BY <4>2, <4>3, <4>4, <4>5, <4>6 DEF QueueHolds
    <3>7. ~Held(m) /\ Busy(m.lanes, m.foreground)
      <4>1. ~Busy(m.lanes, foreground) /\ m.lanes[lane] = lanes[lane]
        BY <1>1, ClosedRunIs
      <4> QED BY <3>1, <3>2, <4>1 DEF Held, Busy
    <3>8. OldRun' = lane /\ m.foreground = lane
      BY <3>2, <3>4, <3>5 DEF OldRun
    <3>9. playing'.unit = UnitOf(presentation) /\ playing'.last = presentation.frame
          /\ playing'.run # None
      BY <3>2, <3>4, <3>5
    <3> HIDE DEF m
    <3> QED BY <3>1, <3>3, <3>5, <3>6, <3>7, <3>8, <3>9 DEF Settling
  <2>4. CASE ~Leased("candidate") /\ presentation.kind = "reversible"
    <3>1. /\ playing' = [unit |-> UnitOf(presentation), run |-> None, last |-> presentation.frame]
          /\ ~Leased("foreground")
      BY <1>1, <2>1, <2>4 DEF NowPlaying, MediaInv, Shown
    <3>2. playing' \in Plays /\ playing' # None /\ OldRun' = None /\ playing'.run = None
      BY <1>2, <3>1, PlaysAre DEF Plays, KeyHolds, OldRun
    <3>3. CASE OldRun = None
      <4>1. Committed = media
        BY <1>1, <2>4, <3>3 DEF Committed, Leased
      <4> QED BY <1>1, <1>4, <2>4, <3>1, <3>2, <3>3, <4>1, MediaIs DEF Settling
    <3>4. CASE OldRun # None
      <4> DEFINE m == [queue |-> queue, lanes |-> ClosedRun(lanes, foreground), foreground |-> foreground]
      <4>1. Committed = m
        BY <1>4, <2>4, <3>4 DEF Committed, Leased, media
      <4>2. m.queue = queue /\ m.lanes = ClosedRun(lanes, foreground) /\ m.foreground = foreground
        OBVIOUS
      <4>3. /\ m.lanes \in [Lanes -> LaneStates] /\ ~Busy(m.lanes, foreground)
            /\ m.lanes[CandidateLane(media)] = lanes[CandidateLane(media)]
        BY <1>1, ClosedRunIs
      <4>4. CandidateLane(m) = CandidateLane(media)
        BY <4>2, MediaIs DEF CandidateLane
      <4>5. HeadRuns(m) <=> HeadRuns(media)
        BY <4>2, MediaIs DEF HeadRuns
      <4>6. m \in [queue : Seq(Entries), lanes : [Lanes -> LaneStates], foreground : Lanes]
        BY <1>1, <4>3, MediaIs DEF QueueHolds
      <4> HIDE DEF m
      <4>7. QueueHolds(m)
        BY <1>1, <4>2, <4>3, <4>4, <4>5, <4>6, MediaIs DEF QueueHolds, EntryHolds, Busy
      <4>8. ~Held(m)
        BY <1>4, <2>4, <4>3, <4>4, <4>5, MediaIs DEF Held, Busy
      <4> QED BY <2>4, <3>1, <3>2, <4>1, <4>2, <4>3, <4>7, <4>8 DEF Settling
    <3> QED BY <3>3, <3>4
  <2>5. CASE ~Leased("candidate") /\ presentation.kind # "reversible"
    <3>1. Committed = media
      BY <1>1, <2>5 DEF Committed, Leased
    <3>2. CASE Leased("foreground")
      <4>1. drawing.unit = UnitOf(presentation) /\ drawing.run = foreground
        BY <1>1, <3>2 DEF MediaInv, Shown, RunsHeld
      <4>2. playing' = [unit |-> drawing.unit, run |-> drawing.run, last |-> presentation.frame]
        BY <2>1, <2>5, <3>2 DEF NowPlaying, Leased
      <4>3. playing' \in Plays /\ playing' # None /\ foreground # None
        BY <1>1, <1>2, <4>1, <4>2, PlaysAre, MediaAssumption DEF Plays, KeyHolds
      <4>4. OldRun' = foreground
        BY <4>1, <4>2, <4>3 DEF OldRun
      <4> QED BY <1>1, <1>4, <2>5, <3>1, <3>2, <4>1, <4>2, <4>3, <4>4, MediaIs DEF Settling
    <3>3. CASE Leased("none")
      <4>1. Required(presentation) = None /\ lastDraw # None /\ playing # None /\ Played
            /\ playing \in Plays /\ ~Leased("foreground")
        BY <1>1, <1>4, <3>3 DEF MediaInv, Shown, MediaTypes, Leased
      <4>2. ~Replaces(presentation)
        <5>1. UnitOf(presentation) # None /\ presentation.kind \notin {"static", "reversible"}
          BY <1>2, <2>5, MediaAssumption DEF KeyHolds
        <5> QED BY <1>7, <4>1, <5>1 DEF Required
      <4>3. playing.run # None /\ playing.unit = UnitOf(presentation)
        BY <4>1, <4>2 DEF Replaces
      <4>4. playing' = [playing EXCEPT !.last = presentation.frame]
        BY <2>1, <2>5, <3>3 DEF NowPlaying, Leased
      <4>5. /\ playing' \in Plays /\ playing' # None /\ playing'.run = playing.run
            /\ playing'.unit = playing.unit /\ playing'.last = presentation.frame
        BY <1>2, <4>1, <4>4, PlaysAre DEF Plays
      <4>6. OldRun' = OldRun /\ OldRun # None
        BY <4>1, <4>3, <4>5 DEF OldRun
      <4> QED BY <1>1, <1>4, <2>5, <3>1, <3>3, <4>1, <4>3, <4>5, <4>6, MediaIs DEF Settling
    <3> QED BY <1>4, <2>5, <3>2, <3>3
  <2> QED BY <2>3, <2>4, <2>5
<1> QED BY <1>6, <1>7

----------------------------------------------------------------------------
(* What the queue waits for.                                               *)

(* An entry that loads, or whose run becomes ready, owns what it owned.    *)
Stated(m, i, s) ==
  [queue |-> [m.queue EXCEPT ![i].state = s], lanes |-> m.lanes, foreground |-> m.foreground]

(* An entry in another state, of those that own a run or of those that do  *)
(* not.                                                                    *)
LEMMA StatedHolds ==
  ASSUME NEW m, QueueHolds(m), NEW i \in DOMAIN m.queue,
         NEW s \in {"loading", "loaded", "preparing", "ready"},
         m.queue[i].state \in {"preparing", "ready"} <=> s \in {"preparing", "ready"}
  PROVE  QueueHolds(Stated(m, i, s)) /\ Spares(m, Stated(m, i, s))
<1> DEFINE q == m.queue
           entry == [unit |-> q[i].unit, state |-> s, run |-> q[i].run]
           r == [q EXCEPT ![i] = entry]
           n == [queue |-> r, lanes |-> m.lanes, foreground |-> m.foreground]
<1>1. /\ q \in Seq(Entries) /\ q[i] \in Entries /\ entry \in Entries
      /\ i \in 1..Len(q) /\ Len(q) \in Nat
  BY QueueIs DEF QueueHolds, Entries
<1>2. Stated(m, i, s) = n
  <2>1. [q[i] EXCEPT !.state = s] = entry
    BY <1>1 DEF Entries
  <2> HIDE DEF entry
  <2> QED BY <2>1 DEF Stated
<1>3. /\ r \in Seq(Entries) /\ Len(r) = Len(q) /\ DOMAIN r = DOMAIN q
      /\ \A j \in DOMAIN q : /\ r[j].unit = q[j].unit /\ r[j].run = q[j].run
                             /\ r[j].state = IF j = i THEN s ELSE q[j].state
  <2> HIDE DEF entry
  <2>1. r \in Seq(Entries) /\ Len(r) = Len(q) /\ DOMAIN r = DOMAIN q
    BY <1>1
  <2>2. \A j \in DOMAIN q : r[j] = IF j = i THEN entry ELSE q[j]
    BY <1>1
  <2>3. entry.unit = q[i].unit /\ entry.run = q[i].run /\ entry.state = s
    BY DEF entry
  <2> QED BY <2>1, <2>2, <2>3
<1> HIDE DEF r
<1>4. n.queue = r /\ n.lanes = m.lanes /\ n.foreground = m.foreground /\ CandidateLane(n) = CandidateLane(m)
  BY DEF CandidateLane
<1>5. \A j \in DOMAIN r : EntryHolds(n, j)
  <2>1. \A j \in DOMAIN q : EntryHolds(m, j)
    BY DEF QueueHolds
  <2> HIDE DEF n
  <2> QED BY <1>3, <1>4, <2>1 DEF EntryHolds, HasRun
<1>6. HeadRuns(n) <=> HeadRuns(m)
  <2>1. q # <<>> <=> r # <<>>
    BY <1>1, <1>3
  <2>2. q # <<>> => 1 \in DOMAIN q
    BY QueueIs
  <2> HIDE DEF n
  <2> QED BY <1>3, <1>4, <2>1, <2>2 DEF HeadRuns, HasRun
<1>7. n \in [queue : Seq(Entries), lanes : [Lanes -> LaneStates], foreground : Lanes]
  BY <1>3 DEF QueueHolds
<1>8. \A j, k \in DOMAIN r : r[j].unit = r[k].unit => j = k
  BY <1>3 DEF QueueHolds
<1> HIDE DEF n
<1>9. QueueHolds(n)
  BY <1>3, <1>4, <1>5, <1>6, <1>7, <1>8 DEF QueueHolds
<1> QED BY <1>2, <1>4, <1>6, <1>9 DEF Spares, Held

(* A step of the queue alone.                                              *)
LEMMA QueueStepHolds ==
  ASSUME MediaInv, UNCHANGED <<vars, streams>>, NEW m, QueueHolds(m), Spares(media, m), Put(m),
         queue # <<>>
  PROVE  MediaInv'
<1>1. Inv' /\ UNCHANGED <<graph, readiness, presentation>>
  BY StutterKeeps DEF MediaInv, vars
<1>2. stage = "playing"
  BY DEF MediaInv, Staged
<1>3. QueueHolds(media)' /\ Spares(media, media')
  BY MovedLike
<1> QED BY <1>1, <1>2, <1>3, StreamsStay

(* A unit is loaded, and the head may get its lane.                        *)
LEMMA LoadedHolds == ASSUME MediaInv, NEW i \in DOMAIN queue, Loaded(i) PROVE MediaInv'
<1> DEFINE m == Stated(media, i, "loaded")
<1>1. QueueHolds(media) /\ media.queue = queue
  BY MediaIs DEF MediaInv, RunsHeld
<1>2. [media EXCEPT !.queue[i].state = "loaded"] = m
  BY DEF Stated, media
<1>3. QueueHolds(m) /\ Spares(media, m)
  <2>1. queue[i].state = "loading"
    BY DEF Loaded
  <2> QED BY <1>1, <2>1, StatedHolds
<1> HIDE DEF m
<1>4. QueueHolds(AdmitHead(m)) /\ Spares(media, AdmitHead(m))
  BY <1>3, AdmitHeadHolds, SparesFurther
<1>5. Put(AdmitHead(m)) /\ UNCHANGED <<vars, streams>>
  BY <1>2 DEF Loaded
<1>6. queue # <<>>
  BY <1>1, QueueIs
<1> QED BY <1>4, <1>5, <1>6, QueueStepHolds

(* The head's run is ready.                                                *)
LEMMA RunReadyHolds == ASSUME MediaInv, RunReady PROVE MediaInv'
<1> DEFINE m == Stated(media, 1, "ready")
<1>1. QueueHolds(media) /\ media.queue = queue
  BY MediaIs DEF MediaInv, RunsHeld
<1>2. queue # <<>> /\ 1 \in DOMAIN queue /\ queue[1].state = "preparing"
  BY <1>1, QueueIs DEF RunReady
<1>3. QueueHolds(m) /\ Spares(media, m)
  BY <1>1, <1>2, StatedHolds
<1>4. Put(m) /\ UNCHANGED <<vars, streams>>
  BY MediaIs DEF RunReady, Put, Stated
<1> HIDE DEF m
<1> QED BY <1>2, <1>3, <1>4, QueueStepHolds

(* The decoder of a lane moves on, and its run stays what it was.          *)
LEMMA LanesMove ==
  ASSUME MediaInv, UNCHANGED <<vars, queue, foreground, streams>>,
         lanes' \in [Lanes -> LaneStates], \A l \in Lanes : Busy(lanes', l) <=> Busy(lanes, l),
         stage # "fresh", lanes[foreground] # "closing" => lanes'[foreground] # "closing"
  PROVE  MediaInv'
<1>0. QueueHolds(media) /\ foreground \in Lanes /\ CandidateLane(media) \in Lanes
  BY QueueIs, MediaIs DEF MediaInv, RunsHeld
<1>1. Inv' /\ UNCHANGED <<graph, readiness, presentation>>
  BY StutterKeeps DEF MediaInv, vars
<1> DEFINE m == [queue |-> queue, lanes |-> lanes', foreground |-> foreground]
<1>2. media' = m /\ m.queue = queue /\ m.lanes = lanes' /\ m.foreground = foreground
  BY DEF media
<1>3. m \in [queue : Seq(Entries), lanes : [Lanes -> LaneStates], foreground : Lanes]
  BY <1>0, MediaIs DEF QueueHolds
<1> HIDE DEF m
<1>4. CandidateLane(m) = CandidateLane(media) /\ (HeadRuns(m) <=> HeadRuns(media))
  BY <1>2, MediaIs DEF CandidateLane, HeadRuns
<1>5. QueueHolds(m)
  BY <1>0, <1>2, <1>3, <1>4, MediaIs DEF QueueHolds, EntryHolds
<1>6. Held(m) <=> Held(media)
  BY <1>0, <1>2, <1>4, MediaIs DEF Held
<1>7. QueueHolds(media)' /\ (Held(media)' <=> Held(media)) /\ CandidateLane(media)' = CandidateLane(media)
  BY <1>2, <1>4, <1>5, <1>6 DEF QueueHolds, EntryHolds, HeadRuns, HasRun, Held, Busy, CandidateLane
<1>8. /\ Leased("foreground")' <=> Leased("foreground")
      /\ Leased("candidate")' <=> Leased("candidate")
      /\ UNCHANGED <<OldRun, stage, work, drawing>>
  BY DEF streams, Leased, OldRun
<1>9. Busy(lanes, foreground)' <=> Busy(lanes, foreground)
  BY <1>0 DEF Busy
<1>10. RunsHeld'
  BY <1>7, <1>8, <1>9 DEF MediaInv, RunsHeld
<1>11. MediaTypes'
  BY DEF MediaInv, MediaTypes, streams
<1>12. Staged'
  BY <1>1 DEF MediaInv, Staged, streams, NoLease, vars, InitialUnit, IntroUnit, BodyUnit
<1>13. Shown'
  <2>1. UnitOf(presentation)' = UnitOf(presentation)
    BY <1>1 DEF UnitOf, IntroUnit, BodyUnit, TransitionUnit, Edge
  <2>2. Key(presentation)' = Key(presentation) /\ (Replaces(presentation)' <=> Replaces(presentation))
    BY <1>1, <2>1 DEF Key, Replaces, streams
  <2>3. Required(presentation)' = Required(presentation)
    BY <1>1, <2>1, <2>2 DEF Required, streams
  <2>4. Leased("none")' <=> Leased("none")
    BY DEF streams, Leased
  <2>5. Played' <=> Played
    BY DEF streams, Played
  <2> QED BY <1>1, <1>8, <2>1, <2>2, <2>3, <2>4, <2>5 DEF MediaInv, Shown, streams
<1> QED BY <1>1, <1>10, <1>11, <1>12, <1>13 DEF MediaInv

(* A lane flushes or retires, which keeps busy lanes busy and idle ones    *)
(* idle.                                                                   *)
LEMMA LaneStepHolds ==
  ASSUME MediaInv, NEW l \in Lanes, LaneFlushes(l) \/ LaneRetires(l) PROVE MediaInv'
<1>1. lanes \in [Lanes -> LaneStates]
  BY MediaIs DEF MediaInv, RunsHeld, QueueHolds
<1>2. stage # "fresh"
  BY DEF MediaInv, Staged, LaneFlushes, LaneRetires
<1>3. foreground \in Lanes
  BY MediaIs DEF MediaInv, RunsHeld, QueueHolds
<1>4. CASE LaneFlushes(l)
  BY <1>1, <1>2, <1>3, <1>4, LanesMove DEF LaneFlushes, Busy, LaneStates
<1>5. CASE LaneRetires(l)
  BY <1>1, <1>2, <1>3, <1>5, LanesMove DEF LaneRetires, Busy, LaneStates
<1> QED BY <1>4, <1>5

(* Nothing happens.                                                        *)
LEMMA MediaStutterHolds == ASSUME MediaInv, UNCHANGED playerVars PROVE MediaInv'
<1>1. Inv' /\ UNCHANGED <<graph, readiness, presentation, queue, lanes, foreground, streams>>
  BY StutterKeeps DEF MediaInv, playerVars, mediaVars, streams, vars
<1>2. QueueHolds(media)
  BY DEF MediaInv, RunsHeld
<1>3. QueueHolds(media)' /\ Spares(media, media')
  BY <1>1, <1>2 DEF media, QueueHolds, EntryHolds, HeadRuns, HasRun, Busy, CandidateLane, Spares, Held
<1> QED BY <1>1, <1>3, StreamsStay DEF MediaInv, Staged

----------------------------------------------------------------------------
(* Every step of the player and its media.                                 *)
LEMMA MediaStepHolds == MediaInv /\ [MediaNext]_playerVars => MediaInv'
<1> SUFFICES ASSUME MediaInv, [MediaNext]_playerVars PROVE MediaInv'
  OBVIOUS
<1>1. CASE Prepare
  BY <1>1, InstallHolds, QualifyHolds, QualifiedHolds, StoreHolds, StoredHolds,
     OpenInitialHolds, BeginPlayingHolds DEF Prepare
<1>2. CASE \E event \in Events : HearEvent(event)
  BY <1>2, HearEventHolds
<1>3. CASE \E state \in Targets : HearRequest(state)
  BY <1>3, HearRequestHolds
<1>4. CASE Frame \/ Drawn
  BY <1>4, AdvanceHolds, AwaitHolds, DrawnHolds DEF Frame
<1>5. CASE (\E i \in DOMAIN queue : Loaded(i)) \/ RunReady
  BY <1>5, LoadedHolds, RunReadyHolds
<1>6. CASE \E l \in Lanes : LaneFlushes(l) \/ LaneRetires(l)
  BY <1>6, LaneStepHolds
<1>7. CASE Retire \/ WorkAborts \/ DrawAborts \/ DisposeMedia
  BY <1>7, RetireHolds, WorkAbortsHolds, DrawAbortsHolds, DisposeHolds
<1>8. CASE UNCHANGED playerVars
  BY <1>8, MediaStutterHolds
<1> QED BY <1>1, <1>2, <1>3, <1>4, <1>5, <1>6, <1>7, <1>8 DEF MediaNext

(* The invariant of the media: who owns which lane in which stage, and     *)
(* what plays (player-media-runtime.ts, player-media-stream.ts).           *)
THEOREM MediaHolds == MediaSpec => []MediaInv
<1> QED BY InitHolds, MediaStepHolds, PTL DEF MediaSpec

----------------------------------------------------------------------------
(* Ownership by stage and lane is ownership by one owner.                  *)
LEMMA EachRunOwned == MediaInv => RunsOwned
<1> SUFFICES ASSUME MediaInv PROVE RunsOwned
  OBVIOUS
<1> DEFINE c == CandidateLane(media)
<1>0. /\ QueueHolds(media) /\ foreground \in Lanes /\ c \in Lanes /\ c # foreground
      /\ \A l \in Lanes : l = foreground \/ l = c
  BY QueueIs, MediaIs DEF MediaInv, RunsHeld
<1>1. RunsOf(queue) = (IF HeadRuns(media) THEN {c} ELSE {})
  BY HeldRunsAre
<1>2. LeasedRun = IF Leased("foreground") \/ Leased("candidate") THEN {drawing.run} ELSE {}
  BY HeldRunsAre
<1>3. /\ HeadRuns(media) => Busy(lanes, c)
      /\ Held(media) <=> Busy(lanes, c) /\ ~HeadRuns(media)
  BY <1>0, MediaIs DEF QueueHolds, Held
<1>4. /\ Held(media) <=> Leased("candidate") \/ stage = "qualifying"
      /\ Busy(lanes, foreground) <=> OldRun # None \/ work # None \/ Leased("foreground")
      /\ OldRun # None => OldRun = foreground /\ work = None /\ ~Leased("foreground")
      /\ work # None => work.run = foreground /\ ~Leased("foreground")
      /\ Leased("candidate") => drawing.run = c
      /\ Leased("foreground") => drawing.run = foreground
  BY DEF MediaInv, RunsHeld
<1>5. stage = "qualifying" => ~Leased("candidate") /\ ~Leased("foreground")
  BY DEF MediaInv, Staged, Leased
<1>6. Occupied = {l \in Lanes : Busy(lanes, l)}
  BY DEF Occupied, Busy
<1>7. Leased("candidate") => ~Leased("foreground")
  BY DEF Leased
<1> DEFINE ofQueue == {Owner("queue", run) : run \in RunsOf(queue)}
           ofPlaying == IF OldRun = None THEN {} ELSE {Owner("playing", OldRun)}
           ofLease == {Owner("lease", run) : run \in LeasedRun}
           ofWork == IF work = None THEN {} ELSE {Owner("work", work.run)}
           ofWitness == IF stage = "qualifying" THEN {Owner("witness", c)} ELSE {}
<1>8. /\ ofQueue = IF HeadRuns(media) THEN {Owner("queue", c)} ELSE {}
      /\ ofLease = IF Leased("candidate") THEN {Owner("lease", c)}
                   ELSE IF Leased("foreground") THEN {Owner("lease", foreground)} ELSE {}
      /\ ofPlaying = IF OldRun = None THEN {} ELSE {Owner("playing", foreground)}
      /\ ofWork = IF work = None THEN {} ELSE {Owner("work", foreground)}
  BY <1>1, <1>2, <1>4, <1>7
<1>9. Owners = ofQueue \cup ofPlaying \cup ofLease \cup ofWork \cup ofWitness
  BY DEF Owners
<1> HIDE DEF c, ofQueue, ofPlaying, ofLease, ofWork
<1>10. \A by, run : Owner(by, run).by = by /\ Owner(by, run).run = run
  BY DEF Owner
<1>11. \A o \in Owners :
         \/ o = Owner("queue", c) /\ HeadRuns(media)
         \/ o = Owner("lease", c) /\ Leased("candidate")
         \/ o = Owner("witness", c) /\ stage = "qualifying"
         \/ o = Owner("playing", foreground) /\ OldRun # None
         \/ o = Owner("work", foreground) /\ work # None
         \/ o = Owner("lease", foreground) /\ Leased("foreground")
  BY <1>8, <1>9
<1>12. OneOwner
  <2>1. {o.run : o \in Owners} = Occupied
    <3>1. \A o \in Owners : o.run \in Occupied
      BY <1>0, <1>3, <1>4, <1>6, <1>10, <1>11
    <3>2. ASSUME Busy(lanes, c) PROVE \E o \in Owners : o.run = c
      BY <1>3, <1>4, <1>8, <1>9, <1>10, <3>2
    <3>3. ASSUME Busy(lanes, foreground) PROVE \E o \in Owners : o.run = foreground
      BY <1>4, <1>7, <1>8, <1>9, <1>10, <3>3
    <3> QED BY <1>0, <1>6, <3>1, <3>2, <3>3
  <2>2. \A o, p \in Owners : o # p => o.run # p.run
    BY <1>0, <1>3, <1>4, <1>5, <1>7, <1>10, <1>11
  <2> QED BY <2>1, <2>2 DEF OneOwner
<1>13. PoolAgrees
  BY <1>7, <1>10, <1>11 DEF PoolAgrees, Leased, c
<1> QED BY <1>12, <1>13 DEF RunsOwned

(* Every open run has one owner, on the lane the owner means, and no owner *)
(* has a closed run: commit() and createForegroundRun() of decoder-pool.ts *)
(* never throw and no decoder leaks, for every definition and every order  *)
(* of inputs, frames, loads, draws and retirements.                        *)
THEOREM EveryRunIsOwned == MediaSpec => []RunsOwned
BY MediaHolds, EachRunOwned, PTL

(* The queue of the invariant fits.                                        *)
LEMMA QueueHasFit == MediaInv => QueueFits
BY MediaIs DEF MediaInv, RunsHeld, QueueHolds, EntryHolds, QueueFits

(* RoutePrefetchQueue never throws at its bounds: four distinct units at   *)
(* the most, the head alone with a run (route-prefetch.ts).                *)
THEOREM QueueAlwaysFits == MediaSpec => []QueueFits
BY MediaHolds, QueueHasFit, PTL

(* What plays in the invariant is what the engine displays.                *)
LEMMA NextIsInPlan == MediaInv => NextPlanned
<1> SUFFICES ASSUME MediaInv, MayAdvance, ~Blocks, Required(Preview) # None
             PROVE  Required(Preview) \in ToSet(PlanFor(Snapshot, playing, queue))
  BY DEF NextPlanned
<1>1. Shapes /\ stage = "playing" /\ drawing = None
  BY PreparedPlays DEF MayAdvance
<1>2. lastDraw # None /\ lastDraw = Key(presentation) /\ playing # None /\ Played
  BY <1>1 DEF MediaInv, Shown, MayAdvance, Prepared
<1>3. PlaysOn
  BY <1>2 DEF Played, PlaysOn, Key
<1> QED BY <1>1, <1>3, NextIsPlanned

(* The unit that the next frame needs is in the plan of the routes:        *)
(* planRoutePrefetch and previewTick agree for every definition.           *)
THEOREM NextIsAlwaysPlanned == MediaSpec => []NextPlanned
BY MediaHolds, NextIsInPlan, PTL

(* A run of the preparation opens on an idle lane.                         *)
LEMMA WorkTakesFreeLane ==
  ASSUME MediaInv, [MediaNext]_playerVars, work' # None, work' # work
  PROVE  lanes[work'.run] = "idle"
<1>1. Store \/ OpenInitial
  BY DEF MediaNext, Prepare, MediaInstall, Qualify, Qualified, Stored, BeginPlaying,
         HearEvent, HearRequest, Routed, Frame, Advance, Await, Drawn, Loaded, RunReady,
         LaneFlushes, LaneRetires, Retire, WorkAborts, DrawAborts, DisposeMedia,
         playerVars, mediaVars, streams
<1>2. stage = "storing" /\ work = None /\ work'.run = foreground
  BY <1>1 DEF Store, OpenInitial, OpenWork
<1>3. ~Busy(lanes, foreground) /\ lanes[foreground] # "closing"
  BY <1>2, BeforePlaying DEF MediaInv, Staged
<1>4. lanes[foreground] \in LaneStates
  BY MediaIs DEF MediaInv, RunsHeld, QueueHolds
<1> QED BY <1>2, <1>3, <1>4 DEF LaneStates, Busy

(* The preparation opens each run on a lane that is free, without asking   *)
(* (#cacheResidentFrames).                                                 *)
THEOREM ForegroundAlwaysFree == MediaSpec => ForegroundFree
<1>1. MediaInv /\ [MediaNext]_playerVars
        => [work' # None /\ work' # work => lanes[work'.run] = "idle"]_playerVars
  BY WorkTakesFreeLane
<1> QED BY <1>1, MediaHolds, PTL DEF MediaSpec, ForegroundFree
=============================================================================
