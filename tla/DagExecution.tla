---------------------------- MODULE DagExecution ----------------------------
(***************************************************************************)
(* What a collaboration graph promises to those who start it, whatever     *)
(* retries, failures, cancellations and restarts happen underneath: a node *)
(* is worked on only when everything it depends on is done, within the     *)
(* limits of the run and of its participant; what is done or dropped stays *)
(* so; and a run that is over has nobody working and is never changed.     *)
(***************************************************************************)
EXTENDS Naturals, FiniteSets

CONSTANTS Nodes, Deps, Owner, MaxParallel

VARIABLES
  phase,   \* "idle", "open" or "over"
  node     \* what has become of each node

vars == <<phase, node>>

Waiting == {n \in Nodes : node[n] = "waiting"}
Working == {n \in Nodes : node[n] = "working"}
Done    == {n \in Nodes : node[n] = "done"}

Init == phase = "idle" /\ node = [n \in Nodes |-> "waiting"]

Open == phase = "idle" /\ phase' = "open" /\ UNCHANGED node

Move(n, to) == phase = "open" /\ node' = [node EXCEPT ![n] = to] /\ UNCHANGED phase

Begin(n) == /\ n \in Waiting /\ Deps[n] \subseteq Done
            /\ Cardinality(Working) < MaxParallel
            /\ \A m \in Working : Owner[m] # Owner[n]
            /\ Move(n, "working")

\* A failed attempt that is retried, or one that a restart interrupted.
Return(n) == n \in Working /\ Move(n, "waiting")

Complete(n) == n \in Working /\ Move(n, "done")

\* Failed, skipped or cancelled.
Drop(n) == n \in Waiting \cup Working /\ Move(n, "dropped")

Close == phase = "open" /\ Working = {} /\ phase' = "over" /\ UNCHANGED node

Next == \/ Open \/ Close
        \/ \E n \in Nodes : Begin(n) \/ Return(n) \/ Complete(n) \/ Drop(n)

Spec == Init /\ [][Next]_vars
=============================================================================
