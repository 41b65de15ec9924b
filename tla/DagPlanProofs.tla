--------------------------- MODULE DagPlanProofs ---------------------------
(***************************************************************************)
(* Proofs about DagPlan, for graphs of any size: the planner's order is a  *)
(* topological one without repetition, a graph is refused exactly when it  *)
(* has a cycle, and the levels are the depths of the nodes.                *)
(***************************************************************************)
EXTENDS DagPlan, FiniteSetTheorems, WellFoundedInduction, TLAPS

Taken == {order[i] : i \in DOMAIN order}

(* The counters hold what the algorithm means by them.                     *)
IndegreeExact == \A n \in Nodes : indegree[n] = Cardinality(deps[n] \ Taken)
ReadyExact    == ready = {n \in Nodes \ Taken : deps[n] \subseteq Taken}
LengthExact   == Cardinality(Taken) = Len(order)

(* The levels, as far as the predecessors have been taken.                 *)
LevelsSoFar ==
  \A n \in Nodes :
    /\ \A d \in deps[n] \cap Taken : level[d] < level[n]
    /\ level[n] = 0 \/ \E d \in deps[n] \cap Taken : level[n] = level[d] + 1

Concluded == verdict # "none" => ready = {} /\ verdict = Outcome

IInv ==
  /\ TypeOK
  /\ IndegreeExact
  /\ ReadyExact
  /\ LengthExact
  /\ OrderRespectsDeps
  /\ LevelsSoFar
  /\ Concluded

-----------------------------------------------------------------------------
(* A nonempty set of natural numbers has a least element.                  *)
LEMMA LeastExists ==
  ASSUME NEW S \in SUBSET Nat, S # {}
  PROVE  \E n \in S : \A m \in S : n <= m
<1>1. \E n \in S : \A m \in S : ~(<<m, n>> \in OpToRel(<, Nat))
  BY NatLessThanWellFounded, WFMin
<1>2. PICK n \in S : \A m \in S : ~(<<m, n>> \in OpToRel(<, Nat))
  BY <1>1
<1>3. \A m \in S : n <= m
  <2> TAKE m \in S
  <2>1. ~(m < n)
    BY <1>2 DEF OpToRel
  <2> QED
    BY <2>1
<1> QED
  BY <1>3

(* First takes a member of the ready list.                                 *)
LEMMA FirstReady ==
  ASSUME NEW S \in SUBSET Nodes, S # {}
  PROVE  First(S) \in S /\ \A m \in S : First(S) <= m
<1>1. S \in SUBSET Nat
  BY NAssumption DEF Nodes
<1>2. \E n \in S : \A m \in S : n <= m
  BY <1>1, LeastExists
<1> QED
  BY <1>2 DEF First

(* Sets of nodes are finite.                                               *)
LEMMA NodesFinite ==
  /\ IsFiniteSet(Nodes) /\ Cardinality(Nodes) = N
  /\ \A S \in SUBSET Nodes : IsFiniteSet(S) /\ Cardinality(S) \in Nat
<1>1. IsFiniteSet(Nodes) /\ Cardinality(Nodes) = N
  BY FS_Interval, NAssumption DEF Nodes
<1>2. ASSUME NEW S \in SUBSET Nodes
      PROVE  IsFiniteSet(S) /\ Cardinality(S) \in Nat
  BY <1>1, FS_Subset, FS_CardinalityType
<1> QED
  BY <1>1, <1>2

-----------------------------------------------------------------------------
LEMMA InitIInv == Init => IInv
<1> SUFFICES ASSUME Init PROVE IInv
  OBVIOUS
<1> USE DEF Init
<1>1. order \in Seq(Nodes) /\ DOMAIN order = {} /\ Taken = {} /\ Len(order) = 0
  BY DEF Taken
<1>2. \A n \in Nodes : deps[n] \in SUBSET Nodes
  BY DEF Graphs
<1>3. TypeOK
  BY <1>1, <1>2, NodesFinite DEF TypeOK
<1>4. IndegreeExact
  BY <1>1 DEF IndegreeExact
<1>5. ReadyExact
  <2>1. \A n \in Nodes : indegree[n] = 0 <=> deps[n] = {}
    BY <1>2, NodesFinite, FS_EmptySet
  <2> QED
    BY <2>1, <1>1 DEF ReadyExact
<1>6. LengthExact
  BY <1>1, FS_EmptySet DEF LengthExact
<1>7. OrderRespectsDeps
  BY <1>1 DEF OrderRespectsDeps
<1>8. LevelsSoFar
  BY <1>1 DEF LevelsSoFar
<1>9. Concluded
  BY DEF Concluded
<1> QED
  BY <1>3, <1>4, <1>5, <1>6, <1>7, <1>8, <1>9 DEF IInv

LEMMA TakeIInv ==
  ASSUME IInv, Take
  PROVE  IInv'
<1> DEFINE n == First(ready)
<1>1. /\ n \in Nodes /\ n \in ready /\ n \notin Taken
      /\ deps[n] \subseteq Taken /\ n \notin deps[n]
      /\ \A m \in ready : n <= m
  BY FirstReady DEF IInv, TypeOK, ReadyExact, Take, Graphs
<1> HIDE DEF n
<1>2. /\ order' = Append(order, n) /\ deps' = deps /\ verdict' = verdict
      /\ indegree' = [m \in Nodes |-> IF n \in deps[m] THEN indegree[m] - 1
                                      ELSE indegree[m]]
      /\ ready' = (ready \ {n}) \cup Released(n)
      /\ level' = Raised(n)
  BY DEF Take, n
<1>3. /\ order \in Seq(Nodes) /\ order' \in Seq(Nodes)
      /\ Len(order') = Len(order) + 1 /\ Len(order) \in Nat
      /\ DOMAIN order = 1..Len(order) /\ DOMAIN order' = 1..(Len(order) + 1)
      /\ \A i \in 1..Len(order) : order'[i] = order[i]
      /\ order'[Len(order) + 1] = n
  BY <1>1, <1>2 DEF IInv, TypeOK
<1>4. Taken' = Taken \cup {n}
  BY <1>3 DEF Taken
<1>5. Taken \subseteq Nodes
  BY <1>3 DEF Taken
<1>6. /\ deps \in [Nodes -> SUBSET Nodes] /\ indegree \in [Nodes -> Nat]
      /\ level \in [Nodes -> Nat]
  BY DEF IInv, TypeOK, Graphs
<1>7. ASSUME NEW m \in Nodes
      PROVE  /\ n \notin deps[m] => deps[m] \ Taken' = deps[m] \ Taken
             /\ n \in deps[m] =>
                  /\ indegree[m] > 0
                  /\ Cardinality(deps[m] \ Taken') = indegree[m] - 1
                  /\ indegree[m] = 1 <=> deps[m] \subseteq Taken'
  <2>1. n \notin deps[m] => deps[m] \ Taken' = deps[m] \ Taken
    BY <1>4
  <2>2. CASE n \in deps[m]
    <3> DEFINE W == deps[m] \ Taken
    <3>1. IsFiniteSet(W) /\ Cardinality(W) \in Nat /\ indegree[m] = Cardinality(W)
      BY <1>6, NodesFinite DEF IInv, IndegreeExact
    <3>2. deps[m] \ Taken' = W \ {n} /\ n \in W
      BY <1>1, <1>4, <2>2
    <3>3. /\ IsFiniteSet(W \ {n})
          /\ Cardinality(W \ {n}) = Cardinality(W) - 1
      BY <3>1, <3>2, FS_RemoveElement
    <3>4. Cardinality(W \ {n}) \in Nat /\ (Cardinality(W \ {n}) = 0 <=> W \ {n} = {})
      BY <3>3, FS_EmptySet, FS_CardinalityType
    <3> HIDE DEF W
    <3>5. indegree[m] > 0 /\ Cardinality(deps[m] \ Taken') = indegree[m] - 1
      <4>1. Cardinality(W) > 0
        BY <3>1, <3>3, <3>4
      <4> QED
        BY <4>1, <3>1, <3>2, <3>3
    <3>6. indegree[m] = 1 <=> deps[m] \ Taken' = {}
      BY <3>1, <3>2, <3>3, <3>4
    <3> QED
      BY <2>2, <3>5, <3>6
  <2> QED
    BY <2>1, <2>2
<1>8. TypeOK'
  <2>1. indegree' \in [Nodes -> Nat]
    <3>1. ASSUME NEW m \in Nodes
          PROVE (IF n \in deps[m] THEN indegree[m] - 1 ELSE indegree[m]) \in Nat
      <4>1. indegree[m] \in Nat
        BY <1>6
      <4>2. CASE n \in deps[m]
        <5>1. indegree[m] > 0
          BY <4>2, <1>7
        <5> QED
          BY <4>1, <4>2, <5>1
      <4>3. CASE n \notin deps[m]
        BY <4>1, <4>3
      <4> QED
        BY <4>2, <4>3
    <3> QED
      BY <3>1, <1>2
  <2>2. ready' \subseteq Nodes
    BY <1>2 DEF IInv, TypeOK, Released
  <2>3. level' \in [Nodes -> Nat]
    BY <1>1, <1>2, <1>6 DEF Raised
  <2> QED
    BY <1>2, <1>3, <2>1, <2>2, <2>3 DEF IInv, TypeOK
<1>9. IndegreeExact'
  <2> SUFFICES ASSUME NEW m \in Nodes
               PROVE  indegree'[m] = Cardinality(deps[m] \ Taken')
    BY <1>2 DEF IndegreeExact
  <2>1. CASE n \in deps[m]
    BY <2>1, <1>2, <1>7
  <2>2. CASE n \notin deps[m]
    BY <2>2, <1>2, <1>7 DEF IInv, IndegreeExact
  <2> QED
    BY <2>1, <2>2
<1>10. ReadyExact'
  <2> SUFFICES ASSUME NEW m \in Nodes
               PROVE  m \in ready' <=> m \notin Taken' /\ deps[m] \subseteq Taken'
    BY <1>2, <1>8 DEF ReadyExact, TypeOK
  <2>1. m \in ready <=> m \notin Taken /\ deps[m] \subseteq Taken
    BY DEF IInv, ReadyExact
  <2>2. m \in Released(n) <=> n \in deps[m] /\ deps[m] \subseteq Taken'
    BY <1>7 DEF Released
  <2>3. m \in Taken => deps[m] \subseteq Taken
    BY <1>3 DEF IInv, OrderRespectsDeps, Taken
  <2>4. CASE m = n
    BY <2>4, <1>1, <1>2, <1>4, <2>2
  <2>5. CASE m # n /\ n \in deps[m]
    BY <2>5, <1>1, <1>2, <1>4, <2>1, <2>2, <2>3
  <2>6. CASE m # n /\ n \notin deps[m]
    BY <2>6, <1>2, <1>4, <2>1, <2>2
  <2> QED
    BY <2>4, <2>5, <2>6
<1>11. LengthExact'
  <2>1. IsFiniteSet(Taken)
    BY <1>5, NodesFinite
  <2>2. Cardinality(Taken \cup {n}) = Cardinality(Taken) + 1
    BY <2>1, <1>1, FS_AddElement
  <2> QED
    BY <2>2, <1>3, <1>4 DEF IInv, LengthExact
<1>12. OrderRespectsDeps'
  <2>1. ASSUME NEW i \in DOMAIN order', NEW j \in DOMAIN order', order'[i] = order'[j]
        PROVE  i = j
    <3>1. \A k \in 1..Len(order) : order[k] \in Taken
      BY <1>3 DEF Taken
    <3>2. CASE i \in 1..Len(order) /\ j \in 1..Len(order)
      BY <3>2, <2>1, <1>3 DEF IInv, OrderRespectsDeps
    <3>3. CASE i \notin 1..Len(order) \/ j \notin 1..Len(order)
      BY <3>1, <3>3, <2>1, <1>1, <1>3
    <3> QED
      BY <3>2, <3>3
  <2>2. ASSUME NEW i \in DOMAIN order', NEW d \in deps[order'[i]]
        PROVE  \E j \in 1..(i - 1) : order'[j] = d
    <3>1. CASE i \in 1..Len(order)
      <4>1. PICK j \in 1..(i - 1) : order[j] = d
        BY <3>1, <2>2, <1>3 DEF IInv, OrderRespectsDeps
      <4>2. j \in 1..Len(order)
        BY <3>1, <4>1, <1>3
      <4> QED
        BY <4>1, <4>2, <1>3
    <3>2. CASE i = Len(order) + 1
      <4>1. d \in Taken
        BY <3>2, <2>2, <1>1, <1>3
      <4>2. PICK j \in 1..Len(order) : order[j] = d
        BY <4>1, <1>3 DEF Taken
      <4> QED
        BY <3>2, <4>2, <1>3
    <3> QED
      BY <3>1, <3>2, <1>3
  <2> QED
    BY <2>1, <2>2, <1>2 DEF OrderRespectsDeps
<1>13. LevelsSoFar'
  <2>1. \A m \in Taken \cup {n} : n \notin deps[m]
    BY <1>1, <1>3 DEF IInv, OrderRespectsDeps, Taken
  <2>2. \A m \in Taken \cup {n} : level'[m] = level[m]
    BY <2>1, <1>1, <1>2, <1>5 DEF Raised
  <2> SUFFICES ASSUME NEW m \in Nodes
               PROVE  /\ \A d \in deps[m] \cap Taken' : level'[d] < level'[m]
                      /\ \/ level'[m] = 0
                         \/ \E d \in deps[m] \cap Taken' : level'[m] = level'[d] + 1
    BY <1>2 DEF LevelsSoFar
  <2>3. /\ \A d \in deps[m] \cap Taken : level[d] < level[m]
        /\ level[m] = 0 \/ \E d \in deps[m] \cap Taken : level[m] = level[d] + 1
    BY DEF IInv, LevelsSoFar
  <2>4. /\ level[m] \in Nat /\ level[n] \in Nat
        /\ \A d \in Taken : level[d] \in Nat
    BY <1>1, <1>5, <1>6
  <2>5. level'[m] = IF n \in deps[m] /\ level[m] < level[n] + 1
                    THEN level[n] + 1 ELSE level[m]
    BY <1>2 DEF Raised
  <2>6. CASE n \notin deps[m]
    BY <2>6, <2>2, <2>3, <2>5, <1>4
  <2>7. CASE n \in deps[m] /\ level[m] < level[n] + 1
    <3>1. level'[m] = level[n] + 1
      BY <2>5, <2>7
    <3>2. \A d \in deps[m] \cap Taken' : level'[d] < level'[m]
      BY <3>1, <2>2, <2>3, <2>4, <2>7, <1>4
    <3>3. n \in deps[m] \cap Taken' /\ level'[m] = level'[n] + 1
      BY <3>1, <2>2, <2>7, <1>4
    <3> QED
      BY <3>2, <3>3
  <2>8. CASE n \in deps[m] /\ ~(level[m] < level[n] + 1)
    BY <2>8, <2>2, <2>3, <2>4, <2>5, <1>4
  <2> QED
    BY <2>6, <2>7, <2>8
<1>14. Concluded'
  BY <1>1, <1>2 DEF IInv, Concluded
<1> QED
  BY <1>8, <1>9, <1>10, <1>11, <1>12, <1>13, <1>14 DEF IInv

LEMMA NextIInv == IInv /\ [Next]_vars => IInv'
<1> SUFFICES ASSUME IInv, [Next]_vars PROVE IInv'
  OBVIOUS
<1>1. CASE Take
  BY <1>1, TakeIInv
<1>2. CASE Conclude
  <2>1. UNCHANGED <<deps, indegree, ready, order, level>> /\ ready = {}
        /\ verdict' = Outcome
    BY <1>2 DEF Conclude
  <2>2. Outcome' = Outcome
    BY <2>1 DEF Outcome
  <2>3. Outcome \in {"planned", "cycle"}
    BY DEF Outcome
  <2>4. TypeOK'
    BY <2>1, <2>3 DEF IInv, TypeOK
  <2>5. IndegreeExact' /\ ReadyExact' /\ LengthExact'
    BY <2>1 DEF IInv, IndegreeExact, ReadyExact, LengthExact, Taken
  <2>6. OrderRespectsDeps' /\ LevelsSoFar'
    BY <2>1 DEF IInv, OrderRespectsDeps, LevelsSoFar, Taken
  <2>7. Concluded'
    BY <2>1, <2>2 DEF Concluded
  <2> QED
    BY <2>4, <2>5, <2>6, <2>7 DEF IInv
<1>3. CASE UNCHANGED vars
  <2>1. UNCHANGED <<deps, indegree, ready, order, level, verdict>>
    BY <1>3 DEF vars
  <2>2. TypeOK' /\ IndegreeExact'
    BY <2>1 DEF IInv, TypeOK, IndegreeExact, Taken
  <2>3. ReadyExact' /\ LengthExact'
    BY <2>1 DEF IInv, ReadyExact, LengthExact, Taken
  <2>4. OrderRespectsDeps' /\ LevelsSoFar'
    BY <2>1 DEF IInv, OrderRespectsDeps, LevelsSoFar, Taken
  <2>5. Concluded'
    BY <2>1 DEF IInv, Concluded, Outcome
  <2> QED
    BY <2>2, <2>3, <2>4, <2>5 DEF IInv
<1> QED
  BY <1>1, <1>2, <1>3 DEF Next

THEOREM Invariance == Spec => []IInv
<1> QED
  BY InitIInv, NextIInv, PTL DEF Spec

-----------------------------------------------------------------------------
(* The loop keeps its variables in range, for a graph of any size.         *)
THEOREM TypeCorrect == Spec => []TypeOK
<1>1. IInv => TypeOK
  BY DEF IInv
<1> QED
  BY <1>1, Invariance, PTL

(* At every moment the order found is duplicate-free and topological.      *)
THEOREM OrderCorrect == Spec => []OrderRespectsDeps
<1>1. IInv => OrderRespectsDeps
  BY DEF IInv
<1> QED
  BY <1>1, Invariance, PTL

(* A nonempty set of planned nodes has a member none of whose predecessors *)
(* is in the set: the one that was planned first.                          *)
LEMMA PlannedHasNoKnot ==
  ASSUME OrderRespectsDeps, order \in Seq(Nodes),
         NEW S \in SUBSET Taken
  PROVE  ~Knot(S)
<1> SUFFICES ASSUME Knot(S) PROVE FALSE
  OBVIOUS
<1> DEFINE I == {i \in DOMAIN order : order[i] \in S}
<1>1. I \in SUBSET Nat /\ I # {}
  BY DEF Knot, Taken
<1>2. PICK i \in I : \A j \in I : i <= j
  BY <1>1, LeastExists
<1>3. PICK d \in deps[order[i]] : d \in S
  BY <1>2 DEF Knot
<1>4. PICK j \in 1..(i - 1) : order[j] = d
  BY <1>2, <1>3 DEF OrderRespectsDeps
<1>5. j \in I /\ j < i
  BY <1>1, <1>2, <1>3, <1>4
<1> QED
  BY <1>1, <1>2, <1>5

(* A graph is refused exactly when it has a cycle; otherwise the plan has  *)
(* all its nodes, each at the level of its depth.                          *)
THEOREM CyclesAreRejected == Spec => []CyclesRejected
<1>1. IInv => CyclesRejected
  <2> SUFFICES ASSUME IInv PROVE CyclesRejected
    OBVIOUS
  <2>1. order \in Seq(Nodes) /\ Taken \subseteq Nodes /\ Cardinality(Taken) = Len(order)
    BY DEF IInv, TypeOK, LengthExact, Taken
  <2>2. Taken = Nodes <=> Len(order) = N
    BY <2>1, NodesFinite, FS_Subset
  <2>3. ASSUME verdict = "cycle" PROVE \E S \in SUBSET Nodes : Knot(S)
    <3>1. ready = {} /\ Len(order) # N
      BY <2>3 DEF IInv, Concluded, Outcome
    <3> DEFINE S == Nodes \ Taken
    <3>2. S # {}
      BY <3>1, <2>1, <2>2
    <3>3. \A n \in S : deps[n] \subseteq Nodes /\ ~(deps[n] \subseteq Taken)
      BY <3>1 DEF IInv, ReadyExact, TypeOK, Graphs
    <3>4. Knot(S)
      BY <3>2, <3>3 DEF Knot
    <3> QED
      BY <3>4
  <2>4. ASSUME verdict = "planned"
        PROVE  /\ \A S \in SUBSET Nodes : ~Knot(S)
               /\ \A n \in Nodes :
                    /\ \E i \in DOMAIN order : order[i] = n
                    /\ \A d \in deps[n] : level[d] < level[n]
                    /\ level[n] = 0 \/ \E d \in deps[n] : level[n] = level[d] + 1
    <3>1. Taken = Nodes
      BY <2>2, <2>4 DEF IInv, Concluded, Outcome
    <3>2. \A S \in SUBSET Nodes : ~Knot(S)
      BY <3>1, <2>1, PlannedHasNoKnot DEF IInv
    <3>3. \A n \in Nodes : deps[n] \cap Taken = deps[n]
      BY <3>1 DEF IInv, TypeOK, Graphs
    <3>4. \A n \in Nodes :
            /\ \A d \in deps[n] : level[d] < level[n]
            /\ level[n] = 0 \/ \E d \in deps[n] : level[n] = level[d] + 1
      BY <3>3 DEF IInv, LevelsSoFar
    <3>5. \A n \in Nodes : \E i \in DOMAIN order : order[i] = n
      BY <3>1 DEF Taken
    <3> QED
      BY <3>2, <3>4, <3>5
  <2> QED
    BY <2>3, <2>4 DEF CyclesRejected
<1> QED
  BY <1>1, Invariance, PTL
=============================================================================
