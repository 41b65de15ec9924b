------------------------------ MODULE DagPlan ------------------------------
(***************************************************************************)
(* The planner of a collaboration graph (planCollaborationDag, and the     *)
(* cycle check of validateCollaborationDagDefinition, which is the same    *)
(* loop): Kahn's algorithm with the ready nodes sorted by declaration      *)
(* index.  A node is its declaration index; one step is one round of the   *)
(* loop.  The order it finds is the one DagRun schedules by.               *)
(***************************************************************************)
EXTENDS Integers, Sequences, FiniteSets

CONSTANT N    \* number of nodes of the graph
ASSUME NAssumption == N \in Nat \ {0}

VARIABLES
  deps,       \* dependsOn of each node
  indegree,   \* workIndegree: predecessors not yet taken
  ready,      \* the ready list, sorted: a set of which the least is taken
  order,      \* topologicalOrder
  level,      \* levels
  verdict     \* what the loop concludes: "none", "planned" or "cycle"

vars == <<deps, indegree, ready, order, level, verdict>>

Nodes == 1..N

\* Unknown, duplicate and self dependencies are refused before the loop.
Graphs == {g \in [Nodes -> SUBSET Nodes] : \A n \in Nodes : n \notin g[n]}

Init ==
  /\ deps \in Graphs
  /\ indegree = [n \in Nodes |-> Cardinality(deps[n])]
  /\ ready = {n \in Nodes : indegree[n] = 0}
  /\ order = <<>>
  /\ level = [n \in Nodes |-> 0]
  /\ verdict = "none"

\* ready.shift() of the sorted list.
First(S) == CHOOSE n \in S : \A m \in S : n <= m

\* Mutant: a node is ready when any predecessor has been taken.
ReleasedEarly(n) == {m \in Nodes : n \in deps[m] /\ m \notin ready}

\* The dependents of n for which n was the last predecessor.
Released(n) == {m \in Nodes : n \in deps[m] /\ indegree[m] = 1}

\* Mutant: the level of the predecessor taken last.
RaisedLast(n) == [m \in Nodes |-> IF n \in deps[m] THEN level[n] + 1 ELSE level[m]]

Raised(n) == [m \in Nodes |-> IF n \in deps[m] /\ level[m] < level[n] + 1
                              THEN level[n] + 1 ELSE level[m]]

Take ==
  LET n == First(ready) IN
  /\ ready # {}
  /\ order' = Append(order, n)
  /\ indegree' = [m \in Nodes |-> IF n \in deps[m] THEN indegree[m] - 1
                                  ELSE indegree[m]]
  /\ ready' = (ready \ {n}) \cup Released(n)
  /\ level' = Raised(n)
  /\ UNCHANGED <<deps, verdict>>

\* Mutant: a graph is refused only when nothing at all could be taken.
OutcomeEmpty == IF order = <<>> THEN "cycle" ELSE "planned"

\* processed !== g.nodes.length
Outcome == IF Len(order) = N THEN "planned" ELSE "cycle"

Conclude ==
  /\ ready = {} /\ verdict = "none"
  /\ verdict' = Outcome
  /\ UNCHANGED <<deps, indegree, ready, order, level>>

Next == Take \/ Conclude

Spec == Init /\ [][Next]_vars

-----------------------------------------------------------------------------
TypeOK ==
  /\ deps \in Graphs
  /\ indegree \in [Nodes -> Nat]
  /\ ready \subseteq Nodes
  /\ order \in Seq(Nodes)
  /\ level \in [Nodes -> Nat]
  /\ verdict \in {"none", "planned", "cycle"}

(* The plan's order lists no node twice, and each node after everything it *)
(* depends on: what runBoundedCollaborationDag relies on when it scans it. *)
OrderRespectsDeps ==
  /\ \A i, j \in DOMAIN order : order[i] = order[j] => i = j
  /\ \A i \in DOMAIN order : \A d \in deps[order[i]] :
       \E j \in 1..(i - 1) : order[j] = d

\* A set in which every node waits for another one of the set.
Knot(S) == S # {} /\ \A n \in S : deps[n] \cap S # {}

(* A graph is refused as collaboration_dag_cycle if and only if it has a   *)
(* cycle; otherwise every node is in the plan, and its topologicalLevel is *)
(* the length of the longest chain of dependencies below it: one more than *)
(* the highest of its predecessors, whichever of them was taken last.      *)
CyclesRejected ==
  /\ verdict = "cycle" => \E S \in SUBSET Nodes : Knot(S)
  /\ verdict = "planned" =>
       /\ \A S \in SUBSET Nodes : ~Knot(S)
       /\ \A n \in Nodes :
            /\ \E i \in DOMAIN order : order[i] = n
            /\ \A d \in deps[n] : level[d] < level[n]
            /\ level[n] = 0 \/ \E d \in deps[n] : level[n] = level[d] + 1
=============================================================================
