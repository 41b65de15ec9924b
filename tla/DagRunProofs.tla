---------------------------- MODULE DagRunProofs ----------------------------
(***************************************************************************)
(* A run of a collaboration graph keeps its stored state acceptable to     *)
(* recovery and resume, ends with its nodes settled, never changes an      *)
(* outcome, and implements DagExecution: for any graph, any limits and any *)
(* bounds on crashes and cancellations.                                    *)
(***************************************************************************)
EXTENDS DagRun, FiniteSetTheorems, WellFoundedInduction, TLAPS

-----------------------------------------------------------------------------
(* The topological order and the dependents of a node.                     *)

(* A set of numbers has a least one.                                       *)
LEMMA LeastNumber ==
  ASSUME NEW S \in SUBSET Nat, S # {}
  PROVE  \E m \in S : \A k \in S : m <= k
<1>1. IsWellFoundedOn(OpToRel(<, Nat), Nat)
  BY NatLessThanWellFounded
<1>2. PICK m \in S : \A k \in S : ~(<<k, m>> \in OpToRel(<, Nat))
  BY <1>1, WFMin
<1>3. \A k \in S : ~(k < m)
  BY <1>2 DEF OpToRel
<1>. QED  BY <1>3

(* First(S) is a node of S.                                                *)
LEMMA FirstIn == ASSUME NEW S \in SUBSET Nodes, S # {} PROVE First(S) \in S
<1>. DEFINE D == {i \in DOMAIN Order : Order[i] \in S}
<1>1. DOMAIN Order = 1..Len(Order) /\ Len(Order) \in Nat
  BY OrderAssumption
<1>2. D \in SUBSET Nat /\ D # {}
  BY <1>1, OrderAssumption
<1>3. PICK i \in D : \A k \in D : i <= k
  BY <1>2, LeastNumber
<1>4. i \in DOMAIN Order /\ Order[i] \in S /\ \A j \in 1..(i - 1) : Order[j] \notin S
  BY <1>1, <1>3
<1>. DEFINE k == CHOOSE j \in DOMAIN Order : Order[j] \in S /\ \A h \in 1..(j - 1) : Order[h] \notin S
<1>5. k \in DOMAIN Order /\ Order[k] \in S
  BY <1>4
<1>. QED  BY <1>5 DEF First

\* The nodes that name n.
Dependents(n) == {m \in Nodes : n \in Deps[m]}

\* A set of nodes that holds the dependents of n and of its own members.
ClosedAbove(n, S) == Dependents(n) \subseteq S /\ \A m \in S : Dependents(m) \subseteq S

Reached(n) == {m \in Nodes : \A S \in SUBSET Nodes : ClosedAbove(n, S) => m \in S}

(* The recursion has a solution: what is reached from n is what names n    *)
(* and what is reached from there.                                         *)
LEMMA ReachedUnfolds ==
  ASSUME NEW n \in Nodes
  PROVE  Reached(n) = Dependents(n) \cup UNION {Reached(m) : m \in Dependents(n)}
<1>1. Dependents(n) \subseteq Reached(n)
  BY DEF Reached, ClosedAbove, Dependents
<1>2. ASSUME NEW m \in Dependents(n) PROVE Reached(m) \subseteq Reached(n)
  <2>1. ASSUME NEW S \in SUBSET Nodes, ClosedAbove(n, S) PROVE ClosedAbove(m, S)
    BY <2>1 DEF ClosedAbove
  <2>. QED  BY <2>1 DEF Reached
<1>3. ASSUME NEW x \in Reached(n)
      PROVE  x \in Dependents(n) \cup UNION {Reached(m) : m \in Dependents(n)}
  <2>. DEFINE S == Dependents(n) \cup UNION {Reached(m) : m \in Dependents(n)}
  <2>1. S \in SUBSET Nodes
    BY DEF Dependents, Reached
  <2>2. ASSUME NEW y \in S, NEW z \in Dependents(y) PROVE z \in S
    <3>1. z \in Nodes /\ y \in Nodes
      BY <2>1, <2>2 DEF Dependents
    <3>2. CASE y \in Dependents(n)
      <4>1. z \in Reached(y)
        BY <3>1, <2>2 DEF Reached, ClosedAbove
      <4>. QED  BY <3>2, <4>1
    <3>3. ASSUME NEW m \in Dependents(n), y \in Reached(m) PROVE z \in S
      <4>1. ASSUME NEW T \in SUBSET Nodes, ClosedAbove(m, T) PROVE z \in T
        <5>1. y \in T
          BY <3>3, <4>1 DEF Reached
        <5>. QED  BY <2>2, <4>1, <5>1 DEF ClosedAbove
      <4>2. z \in Reached(m)
        BY <3>1, <4>1 DEF Reached
      <4>. QED  BY <3>3, <4>2
    <3>. QED  BY <2>2, <3>2, <3>3
  <2>3. ClosedAbove(n, S)
    BY <2>2 DEF ClosedAbove
  <2>. QED  BY <1>3, <2>1, <2>3 DEF Reached
<1>. QED  BY <1>1, <1>2, <1>3

LEMMA BelowUnfolds ==
  /\ DOMAIN Below = Nodes
  /\ \A n \in Nodes : Below[n] = Dependents(n) \cup UNION {Below[m] : m \in Dependents(n)}
<1>. DEFINE Solves(g) == g = [n \in Nodes |-> Dependents(n) \cup UNION {g[m] : m \in Dependents(n)}]
            r == [n \in Nodes |-> Reached(n)]
<1>1. Below = CHOOSE g : Solves(g)
  BY DEF Below, Dependents
<1>2. ASSUME NEW n \in Nodes PROVE r[n] = Dependents(n) \cup UNION {r[m] : m \in Dependents(n)}
  <2>1. {r[m] : m \in Dependents(n)} = {Reached(m) : m \in Dependents(n)}
    BY DEF Dependents
  <2>. QED  BY <2>1, ReachedUnfolds
<1>3. Solves(r)
  BY <1>2
<1>4. \E g : Solves(g)
  BY <1>3
<1>. HIDE DEF Solves, r
<1>5. Solves(Below)
  BY <1>1, <1>4
<1>. QED  BY <1>5 DEF Solves

(* The dependents of a node are nodes: a counterexample late in the order  *)
(* would have a later one among its dependents.                            *)
LEMMA BelowNodes == \A n \in Nodes : Below[n] \subseteq Nodes
<1>. DEFINE Bad == {i \in DOMAIN Order : ~(Below[Order[i]] \subseteq Nodes)}
            Back == {Len(Order) - i : i \in Bad}
<1>1. DOMAIN Order = 1..Len(Order) /\ Len(Order) \in Nat /\ \A i \in DOMAIN Order : Order[i] \in Nodes
  BY OrderAssumption
<1>2. ASSUME Bad # {} PROVE FALSE
  <2>1. Back \in SUBSET Nat /\ Back # {}
    BY <1>1, <1>2
  <2>2. PICK b \in Back : \A k \in Back : b <= k
    BY <2>1, LeastNumber
  <2>8. PICK i \in Bad : b = Len(Order) - i
    BY <2>2
  <2>3. ASSUME NEW j \in Bad PROVE j <= i
    <3>1. Len(Order) - j \in Back
      OBVIOUS
    <3>2. b <= Len(Order) - j
      BY <2>2, <3>1
    <3>3. i \in Nat /\ j \in Nat
      BY <1>1
    <3>. QED  BY <1>1, <2>8, <3>2, <3>3
  <2>4. ASSUME NEW m \in Dependents(Order[i]) PROVE Below[m] \subseteq Nodes
    <3>1. PICK j \in DOMAIN Order : Order[j] = m
      BY <2>4, OrderAssumption DEF Dependents
    <3>2. Order[i] \in Deps[Order[j]]
      BY <2>4, <3>1 DEF Dependents
    <3>3. i < j
      BY <3>1, <3>2, OrderAssumption
    <3>4. j \notin Bad
      BY <1>1, <2>3, <3>3
    <3>. QED  BY <3>1, <3>4
  <2>5. Below[Order[i]] = Dependents(Order[i]) \cup UNION {Below[m] : m \in Dependents(Order[i])}
    BY <1>1, BelowUnfolds
  <2>6. Below[Order[i]] \subseteq Nodes
    BY <2>4, <2>5 DEF Dependents
  <2>. QED  BY <2>6
<1>3. ASSUME NEW n \in Nodes PROVE Below[n] \subseteq Nodes
  <2>1. PICK i \in DOMAIN Order : Order[i] = n
    BY OrderAssumption
  <2>. QED  BY <1>2, <2>1
<1>. QED  BY <1>3
-----------------------------------------------------------------------------
(* The inductive invariant.                                                *)

\* Before the run is started there is nothing to see.
Untouched ==
  run = "none" =>
    /\ loop = "off" /\ cpu = "free" /\ audits = 0
    /\ \A n \in Nodes : /\ db[n] = "pending" /\ st[n] = "pending"
                        /\ job[n] = "none" /\ attempt[n] = 0
                        /\ ~restarted[n]
    /\ inputs = {} /\ history = 0 /\ started = 0
    /\ ~aborted /\ cause = "none"

\* Nothing of a scheduler is in memory.
NoScheduler == /\ loop = "off" /\ ~aborted /\ cause = "none"
               /\ \A n \in Nodes : job[n] = "none" /\ st[n] = "pending"

\* Who holds the thread, and where the scheduler and the run then are.
Control ==
  /\ loop = "scan" <=> cpu = "loop"
  /\ loop = "settling" => cpu = "close"
  /\ cpu = "close" => /\ verdict \in Ended /\ run # "none"
                      /\ loop \notin {"off", "settling"} => aborted
  /\ cpu = "recover" => run = "running"
  /\ run = "paused" \/ cpu = "recover" => NoScheduler
  /\ loop # "off" => run # "none"
  /\ loop # "off" => (cause = "none" <=> loop \in {"scan", "wait", "finishing"})
  /\ loop = "finishing" => AllSettled
  /\ toSkip # {} => cpu = "loop" /\ ~aborted
  /\ run \in Ended /\ loop # "off" => aborted
  /\ audits = 1 => run \in Ended /\ loop = "off"

\* The nodes that are executed: who they are and how many.
Executing ==
  /\ \A n \in Nodes : job[n] # "none" <=> st[n] = "running"
  /\ \A n, m \in Active : Owner[n] = Owner[m] => n = m
  /\ Cardinality(Active) <= MaxParallel

\* What the job of a node, and its outcome in memory, say of what is stored.
JobStored(n) ==
  /\ job[n] = "begin" => db[n] \in {"ready"} \cup Settled
  /\ job[n] = "turn" => db[n] \in {"running"} \cup Settled
  /\ job[n] = "ok" => db[n] = "completed"
  /\ job[n] = "err" => \/ db[n] \in Settled
                       \/ Stopped \/ expired \/ started >= MaxTurns
  /\ db[n] = "running" => job[n] = "turn" \/ cpu = "recover"
  /\ st[n] = "completed" => db[n] = "completed"

JobsStored == \A n \in Nodes : JobStored(n)

\* A node that is not executed is stored as it is in memory, until a
\* cancellation closes it.
Mirrored ==
  /\ loop \in {"scan", "wait"} =>
       \A n \in Nodes : st[n] \in {"pending", "ready"} =>
                          \/ db[n] = st[n]
                          \/ aborted /\ db[n] \in Settled
  /\ \A n \in toSkip : st[n] \in {"pending", "ready"}

\* A node lost in memory but not stored: under skip_dependents, when the
\* budget was gone.
LostToBudget == policy = "skip_dependents" /\ (expired \/ started >= MaxTurns)

SettledStored ==
  loop # "off" /\ cause = "none" =>
    \A n \in Nodes : st[n] \in Settled => db[n] \in Settled \/ LostToBudget

EndedClosed ==
  run \in Ended =>
    \/ \A n \in Nodes : db[n] \in Settled
    \/ /\ run = "completed" /\ LostToBudget
       /\ loop = "off" /\ cpu = "free" /\ \A n \in Nodes : job[n] = "none"

\* Recovery's conditions on a node and its attempts.
RowStored(n) ==
  /\ attempt[n] <= RetryLimit[n] + 1
  /\ db[n] = "ready" /\ attempt[n] > 0 /\ ~restarted[n]
       => /\ attempt[n] <= RetryLimit[n]
          /\ <<n, attempt[n]>> \in inputs
  /\ db[n] = "pending" => attempt[n] = 0
  /\ db[n] \in {"pending", "running"} => ~restarted[n]
  /\ db[n] \in {"running", "completed"} => attempt[n] > 0
  /\ db[n] = "completed" => <<n, attempt[n]>> \in inputs
  /\ db[n] = "running" => participant[Owner[n]] = "active"

NodeStored == \A n \in Nodes : RowStored(n)

\* A node leaves pending only when everything it depends on has completed.
DepsDone ==
  \A n \in Nodes : db[n] \in {"ready", "running", "completed"} =>
                     \A d \in Deps[n] : db[d] = "completed"

InputsStored ==
  /\ IsFiniteSet(inputs)
  /\ history = Cardinality(inputs)
  /\ \A i \in inputs : /\ i[2] \in 1..attempt[i[1]]
                       /\ \A d \in Deps[i[1]] : db[d] = "completed"

\* The attempts that have begun and have no stored turn.
Begun == {n \in Nodes : db[n] = "running" \/ (db[n] = "ready" /\ restarted[n])}

AttemptsCounted ==
  /\ \A n \in Begun : attempt[n] > 0 /\ <<n, attempt[n]>> \notin inputs
  /\ history + Cardinality(Begun) <= MaxTurns
  /\ loop # "off" \/ (\E n \in Nodes : job[n] # "none")
       => history + Cardinality(Begun) <= started

OwnersApart == \A n, m \in Interrupted : Owner[n] = Owner[m] => n = m

IInv == /\ TypeOK /\ Untouched /\ Control /\ Executing /\ JobsStored /\ Mirrored
        /\ SettledStored /\ EndedClosed /\ NodeStored /\ DepsDone
        /\ InputsStored /\ AttemptsCounted /\ OwnersApart
-----------------------------------------------------------------------------
(* Types.                                                                  *)

\* The Boolean variables, and the others.
Flags == /\ restarted \in [Nodes -> BOOLEAN]
         /\ aborted \in BOOLEAN /\ failedSome \in BOOLEAN
         /\ expired \in BOOLEAN

Shapes ==
  /\ run \in {"none", "running", "paused"} \cup Ended
  /\ policy \in Policies /\ audits \in 0..1
  /\ db \in [Nodes -> NodeStatus]
  /\ attempt \in [Nodes -> Nat]
  /\ inputs \in SUBSET (Nodes \X Nat) /\ history \in Nat
  /\ participant \in [Participants -> {"idle", "active", "failed", "cancelled"}]
  /\ cpu \in {"free", "loop", "close", "recover"}
  /\ verdict \in {"none"} \cup Ended
  /\ loop \in {"off", "scan", "wait", "drain", "finishing", "closing", "settling"}
  /\ st \in [Nodes -> NodeStatus]
  /\ job \in [Nodes -> {"none", "begin", "turn", "ok", "err"}]
  /\ cause \in {"none", "failed", "cancelled"}
  /\ toSkip \in SUBSET Nodes
  /\ started \in 0..MaxTurns
  /\ crashes \in 0..MaxCrashes /\ cancels \in 0..MaxCancels

LEMMA Types == TypeOK <=> Flags /\ Shapes
BY DEF TypeOK, Flags, Shapes

\* Every action, for the leaves that expand them all.
LEMMA ActionsCovered ==
  ASSUME Next
  PROVE  \/ Start \/ ScanReturns \/ ScanCancels \/ ScanMarks \/ ScanDispatches
         \/ ScanWaits \/ ScanThrows \/ Drain \/ Finish
         \/ \E n \in Nodes : \/ NodeCompleted(n) \/ NodeStopsRun(n)
                             \/ NodeLosesBranch(n) \/ SkipOne(n)
         \/ \E n \in Nodes : \/ NodeBegins(n) \/ NodeRefused(n)
                             \/ NodeAnswers(n) \/ NodeRetries(n)
                             \/ NodeOverruled(n) \/ NodeFails(n)
         \/ AdaptersClosed \/ CloseRun \/ \E n \in Nodes : CloseNode(n)
         \/ \E n \in Nodes : RecoverNode(n) \/ RecoverSkips(n)
         \/ RecoverStopped \/ RecoverFinished \/ RecoverOutOfBudget
         \/ RecoverPauses
         \/ Cancel \/ Expire \/ Crash \/ Resume \/ ResumeRefused
BY DEF Next, Progress, SchedulerStep, NodeStep, CloseStep, RecoverStep

LEMMA StoredInNat == ASSUME Shapes PROVE AttemptsStored \in Nat
<1>. DEFINE S == {n \in Nodes : db[n] = "ready" /\ restarted[n]}
<1>1. IsFiniteSet(S)
  BY GraphAssumption, FS_Subset
<1>. QED
  BY <1>1, FS_CardinalityType DEF AttemptsStored, Shapes

LEMMA ShapesStep ==
  ASSUME Flags, Shapes, Control, Next
  PROVE  Shapes'
<1>1. CASE Start
  BY <1>1 DEF Shapes, NodeStatus, Ended, Start, runVars, nodeVars, memVars, envVars
<1>2. CASE ScanReturns
  BY <1>2 DEF Shapes, ScanReturns, runVars, nodeVars, memVars, envVars
<1>3. CASE ScanCancels
  BY <1>3 DEF Shapes, NodeStatus, Ended, ScanCancels, runVars, nodeVars, memVars, envVars
<1>4. CASE ScanMarks
  <2>. DEFINE n == First(Markable)
  <2>1. First(Markable) \in Nodes
    BY <1>4, FirstIn DEF ScanMarks, Markable
  <2>2. st' \in [Nodes -> NodeStatus]
    BY <1>4, <2>1 DEF Shapes, NodeStatus, ScanMarks
  <2>3. db' \in [Nodes -> NodeStatus] /\ cause' \in {"none", "failed", "cancelled"}
        /\ cpu' \in {"free", "loop", "close", "recover"}
        /\ loop' \in {"off", "scan", "wait", "drain", "finishing", "closing", "settling"}
    BY <1>4, <2>1 DEF Shapes, NodeStatus, ScanMarks
  <2>. QED
    BY <1>4, <2>2, <2>3 DEF Shapes, ScanMarks, runVars, envVars
<1>5. CASE ScanDispatches
  <2>1. First(Dispatchable) \in Nodes
    BY <1>5, FirstIn DEF ScanDispatches, Dispatchable
  <2>2. st' \in [Nodes -> NodeStatus] /\ job' \in [Nodes -> {"none", "begin", "turn", "ok", "err"}]
    BY <1>5, <2>1 DEF Shapes, NodeStatus, ScanDispatches
  <2>. QED
    BY <1>5, <2>2 DEF Shapes, ScanDispatches, runVars, nodeVars, envVars
<1>6. CASE ScanWaits
  BY <1>6 DEF Shapes, ScanWaits, runVars, nodeVars, memVars, envVars
<1>7. CASE ScanThrows
  BY <1>7 DEF Shapes, ScanThrows, runVars, nodeVars, memVars, envVars
<1>8. CASE Drain
  BY <1>8 DEF Shapes, NodeStatus, Ended, Drain, runVars, nodeVars, memVars, envVars
<1>9. CASE Finish
  BY <1>9, BudgetAssumption DEF Shapes, NodeStatus, Ended, Finish, runVars, nodeVars,
                                memVars, envVars, Control
<1>10. ASSUME NEW n \in Nodes, NodeCompleted(n) PROVE Shapes'
  BY <1>10 DEF Shapes, NodeStatus, Ended, NodeCompleted, runVars, nodeVars, memVars,
               envVars
<1>11. ASSUME NEW n \in Nodes, NodeStopsRun(n) PROVE Shapes'
  BY <1>11 DEF Shapes, NodeStatus, Ended, NodeStopsRun, runVars, nodeVars, memVars,
               envVars
<1>12. ASSUME NEW n \in Nodes, NodeLosesBranch(n) PROVE Shapes'
  BY <1>12, BelowNodes DEF Shapes, NodeStatus, Ended, NodeLosesBranch, runVars,
                           nodeVars, memVars, envVars
<1>13. ASSUME NEW n \in Nodes, SkipOne(n) PROVE Shapes'
  BY <1>13 DEF Shapes, NodeStatus, Ended, SkipOne, runVars, nodeVars, memVars, envVars
<1>14. ASSUME NEW n \in Nodes, NodeBegins(n) PROVE Shapes'
  <2>1. Owner[n] \in Participants
    BY GraphAssumption
  <2>2. started' \in 0..MaxTurns
    BY <1>14, BudgetAssumption DEF Shapes, NodeBegins, MayBegin
  <2>3. NextAttempt(n) \in Nat
    BY DEF Shapes, NextAttempt
  <2>4. db' \in [Nodes -> NodeStatus] /\ attempt' \in [Nodes -> Nat]
        /\ participant' \in [Participants -> {"idle", "active", "failed", "cancelled"}]
        /\ job' \in [Nodes -> {"none", "begin", "turn", "ok", "err"}]
    BY <1>14, <2>1, <2>3 DEF Shapes, NodeBegins, NodeStatus
  <2>. QED
    BY <1>14, <2>2, <2>4 DEF Shapes, NodeBegins, runVars, envVars
<1>15. ASSUME NEW n \in Nodes, NodeRefused(n) PROVE Shapes'
  BY <1>15, BudgetAssumption DEF Shapes, NodeStatus, Ended, NodeRefused, runVars,
                                 nodeVars, memVars, envVars, MayBegin
<1>16. ASSUME NEW n \in Nodes, NodeAnswers(n) PROVE Shapes'
  <2>1. Owner[n] \in Participants
    BY GraphAssumption
  <2>2. /\ db' \in [Nodes -> NodeStatus]
        /\ participant' \in [Participants -> {"idle", "active", "failed", "cancelled"}]
    BY <1>16, <2>1 DEF Shapes, NodeAnswers, Record, NodeStatus
  <2>3. inputs' \in SUBSET (Nodes \X Nat) /\ history' \in Nat
    BY <1>16 DEF Shapes, NodeAnswers, Record
  <2>4. job' \in [Nodes -> {"none", "begin", "turn", "ok", "err"}]
    BY <1>16 DEF Shapes, NodeAnswers
  <2>. QED
    BY <1>16, <2>2, <2>3, <2>4 DEF Shapes, NodeAnswers, runVars, envVars
<1>17. ASSUME NEW n \in Nodes, NodeRetries(n) PROVE Shapes'
  <2>1. Owner[n] \in Participants
    BY GraphAssumption
  <2>2. /\ db' \in [Nodes -> NodeStatus]
        /\ participant' \in [Participants -> {"idle", "active", "failed", "cancelled"}]
    BY <1>17, <2>1 DEF Shapes, NodeRetries, Record, NodeStatus
  <2>3. inputs' \in SUBSET (Nodes \X Nat) /\ history' \in Nat
    BY <1>17 DEF Shapes, NodeRetries, Record
  <2>4. job' \in [Nodes -> {"none", "begin", "turn", "ok", "err"}]
    BY <1>17 DEF Shapes, NodeRetries
  <2>. QED
    BY <1>17, <2>2, <2>3, <2>4 DEF Shapes, NodeRetries, runVars, envVars
<1>18. ASSUME NEW n \in Nodes, NodeOverruled(n) PROVE Shapes'
  BY <1>18 DEF Shapes, NodeOverruled, runVars, nodeVars, memVars, envVars
<1>19. ASSUME NEW n \in Nodes, NodeFails(n) PROVE Shapes'
  <2>1. Owner[n] \in Participants
    BY GraphAssumption
  <2>2. /\ db' \in [Nodes -> NodeStatus]
        /\ participant' \in [Participants -> {"idle", "active", "failed", "cancelled"}]
    BY <1>19, <2>1 DEF Shapes, NodeFails, Record, NodeStatus
  <2>3. inputs' \in SUBSET (Nodes \X Nat) /\ history' \in Nat
    BY <1>19 DEF Shapes, NodeFails, Record
  <2>4. job' \in [Nodes -> {"none", "begin", "turn", "ok", "err"}]
    BY <1>19 DEF Shapes, NodeFails
  <2>. QED
    BY <1>19, <2>2, <2>3, <2>4 DEF Shapes, NodeFails, runVars, envVars
<1>20. CASE AdaptersClosed
  BY <1>20 DEF Shapes, NodeStatus, Ended, AdaptersClosed, runVars, nodeVars, memVars,
               envVars, Closes
<1>21. CASE CloseRun
  BY <1>21 DEF Shapes, NodeStatus, Ended, CloseRun, runVars, nodeVars, memVars,
               envVars, Control, Verdict
<1>22. ASSUME NEW n \in Nodes, CloseNode(n) PROVE Shapes'
  BY <1>22 DEF Shapes, NodeStatus, Ended, CloseNode, runVars, nodeVars, memVars, envVars
<1>23. ASSUME NEW n \in Nodes, RecoverNode(n) PROVE Shapes'
  BY <1>23, GraphAssumption DEF Shapes, NodeStatus, Ended, RecoverNode, runVars,
                                nodeVars, memVars, envVars
<1>24. ASSUME NEW n \in Nodes, RecoverSkips(n) PROVE Shapes'
  BY <1>24 DEF Shapes, NodeStatus, Ended, RecoverSkips, runVars, nodeVars, memVars,
               envVars
<1>25. CASE RecoverStopped
  BY <1>25 DEF Shapes, NodeStatus, Ended, RecoverStopped, runVars, nodeVars, memVars,
               envVars, Closes
<1>26. CASE RecoverFinished
  BY <1>26 DEF Shapes, NodeStatus, Ended, RecoverFinished, runVars, nodeVars, memVars,
               envVars
<1>27. CASE RecoverOutOfBudget
  BY <1>27 DEF Shapes, NodeStatus, Ended, RecoverOutOfBudget, runVars, nodeVars,
               memVars, envVars, Closes, GoneVerdict
<1>28. CASE RecoverPauses
  BY <1>28 DEF Shapes, NodeStatus, Ended, RecoverPauses, runVars, nodeVars, memVars,
               envVars
<1>29. CASE Cancel
  BY <1>29, BudgetAssumption DEF Shapes, NodeStatus, Ended, Cancel, runVars, nodeVars,
                                 memVars, envVars, Closes
<1>30. CASE Expire
  BY <1>30 DEF Shapes, Expire, runVars, nodeVars, memVars, envVars
<1>31. CASE Crash
  BY <1>31, BudgetAssumption DEF Shapes, NodeStatus, Ended, Crash, runVars, nodeVars,
                                 memVars, envVars, Fresh
<1>32. CASE Resume
  BY <1>32, BudgetAssumption, StoredInNat DEF Shapes, NodeStatus, Ended, Resume,
                                              runVars, nodeVars, memVars, envVars,
                                              BudgetGone
<1>33. CASE ResumeRefused
  BY <1>33 DEF Shapes, NodeStatus, Ended, ResumeRefused, runVars, nodeVars, memVars,
               envVars, Closes, GoneVerdict
<1>. QED
  BY <1>1, <1>2, <1>3, <1>4, <1>5, <1>6, <1>7, <1>8, <1>9, <1>10, <1>11, <1>12, <1>13,
     <1>14, <1>15, <1>16, <1>17, <1>18, <1>19, <1>20, <1>21, <1>22, <1>23, <1>24,
     <1>25, <1>26, <1>27, <1>28, <1>29, <1>30, <1>31, <1>32, <1>33, ActionsCovered

LEMMA FlagsStep ==
  ASSUME Flags, Next
  PROVE  Flags'
<1>1. CASE Start \/ Cancel \/ Expire
  BY <1>1 DEF Flags, Start, nodeVars, memVars, envVars, Cancel,
              Expire
<1>2. CASE Crash \/ Resume \/ ResumeRefused
  BY <1>2 DEF Flags, Crash, Fresh, nodeVars, Resume, memVars,
              envVars, ResumeRefused
<1>3. CASE ScanReturns \/ ScanCancels \/ ScanMarks
  BY <1>3 DEF Flags, ScanReturns, nodeVars, memVars, envVars,
              ScanCancels, ScanMarks
<1>4. CASE ScanDispatches \/ ScanWaits \/ ScanThrows
  BY <1>4 DEF Flags, ScanDispatches, nodeVars, memVars, envVars,
              ScanWaits, ScanThrows
<1>5. CASE Drain \/ Finish
  BY <1>5 DEF Flags, Drain, nodeVars, memVars, envVars, Finish
<1>6. ASSUME NEW n \in Nodes, NodeCompleted(n) \/ NodeStopsRun(n) \/ NodeLosesBranch(n) \/ SkipOne(n)
      PROVE  Flags'
  BY <1>6 DEF Flags, NodeCompleted, nodeVars, memVars, envVars,
              NodeStopsRun, NodeLosesBranch, SkipOne
<1>7. ASSUME NEW n \in Nodes, NodeBegins(n) \/ NodeRefused(n) PROVE Flags'
  BY <1>7 DEF Flags, NodeBegins, nodeVars, memVars, envVars,
              NodeRefused
<1>8. ASSUME NEW n \in Nodes, NodeAnswers(n) \/ NodeRetries(n) \/ NodeOverruled(n) \/ NodeFails(n)
      PROVE  Flags'
  BY <1>8 DEF Flags, NodeAnswers, nodeVars, memVars, envVars,
              NodeRetries, NodeOverruled, NodeFails
<1>9. CASE AdaptersClosed \/ CloseRun
  BY <1>9 DEF Flags, AdaptersClosed, nodeVars, memVars, envVars,
              CloseRun
<1>10. ASSUME NEW n \in Nodes, CloseNode(n) PROVE Flags'
  BY <1>10 DEF Flags, CloseNode, nodeVars, memVars, envVars
<1>11. ASSUME NEW n \in Nodes, RecoverNode(n) \/ RecoverSkips(n) PROVE Flags'
  BY <1>11 DEF Flags, RecoverNode, nodeVars, memVars, envVars,
               RecoverSkips
<1>12. CASE RecoverStopped \/ RecoverFinished
  BY <1>12 DEF Flags, RecoverStopped, nodeVars, memVars, envVars,
               RecoverFinished
<1>13. CASE RecoverOutOfBudget \/ RecoverPauses
  BY <1>13 DEF Flags, RecoverOutOfBudget, nodeVars, memVars,
               envVars, RecoverPauses
<1>. QED
  BY <1>1, <1>2, <1>3, <1>4, <1>5, <1>6, <1>7, <1>8, <1>9, <1>10, <1>11,
     <1>12, <1>13, ActionsCovered

-----------------------------------------------------------------------------
(* The thread and the phases of the scheduler.                             *)

LEMMA NeverNone ==
  ASSUME Shapes, Untouched, Control, Next
  PROVE  run' # "none"
<1>1. CASE Start \/ Cancel \/ Expire
  BY <1>1 DEF Shapes, Untouched, Control, Ended, Start, runVars, nodeVars,
              memVars, envVars, Cancel, Closes, Expire
<1>2. CASE Crash \/ Resume \/ ResumeRefused
  BY <1>2 DEF Shapes, Untouched, Control, Ended, Crash, runVars, nodeVars,
              memVars, envVars, Fresh, Resume, ResumeRefused, Closes,
              GoneVerdict
<1>3. CASE ScanReturns \/ ScanCancels \/ ScanMarks
  BY <1>3 DEF Shapes, Untouched, Control, Ended, ScanReturns, runVars,
              nodeVars, memVars, envVars, Scanning, ScanCancels, ScanMarks
<1>4. CASE ScanDispatches \/ ScanWaits \/ ScanThrows
  BY <1>4 DEF Shapes, Untouched, Control, Ended, ScanDispatches, runVars,
              nodeVars, memVars, envVars, Scanning, ScanWaits, ScanThrows,
              Stuck
<1>5. CASE Drain \/ Finish
  BY <1>5 DEF Shapes, Untouched, Control, Ended, Drain, runVars, nodeVars,
              memVars, envVars, Finish, FinishThrows
<1>6. ASSUME NEW n \in Nodes, NodeCompleted(n) \/ NodeStopsRun(n) \/ NodeLosesBranch(n) \/ SkipOne(n)
      PROVE  run' # "none"
  BY <1>6 DEF Shapes, Untouched, Control, Ended, NodeCompleted, runVars,
              nodeVars, memVars, envVars, Wake, NodeStopsRun,
              NodeLosesBranch, SkipOne
<1>7. ASSUME NEW n \in Nodes, NodeBegins(n) \/ NodeRefused(n) PROVE run' # "none"
  BY <1>7 DEF Shapes, Untouched, Control, Ended, NodeBegins, runVars,
              nodeVars, memVars, envVars, NodeRefused
<1>8. ASSUME NEW n \in Nodes, NodeAnswers(n) \/ NodeRetries(n) \/ NodeOverruled(n) \/ NodeFails(n)
      PROVE  run' # "none"
  BY <1>8 DEF Shapes, Untouched, Control, Ended, NodeAnswers, runVars,
              nodeVars, memVars, envVars, Running, Record, NodeRetries,
              NodeOverruled, NodeFails
<1>9. CASE AdaptersClosed \/ CloseRun
  BY <1>9 DEF Shapes, Untouched, Control, Ended, AdaptersClosed, runVars,
              nodeVars, memVars, envVars, Closes, CloseRun, Verdict
<1>10. ASSUME NEW n \in Nodes, CloseNode(n) PROVE run' # "none"
  BY <1>10 DEF Shapes, Untouched, Control, Ended, CloseNode, runVars,
               nodeVars, memVars, envVars
<1>11. ASSUME NEW n \in Nodes, RecoverNode(n) \/ RecoverSkips(n)
      PROVE  run' # "none"
  BY <1>11 DEF Shapes, Untouched, Control, Ended, RecoverNode, runVars,
               nodeVars, memVars, envVars, RecoverSkips
<1>12. CASE RecoverStopped \/ RecoverFinished
  BY <1>12 DEF Shapes, Untouched, Control, Ended, RecoverStopped, runVars,
               nodeVars, memVars, envVars, Closes, Recovered, RecoverFinished
<1>13. CASE RecoverOutOfBudget \/ RecoverPauses
  BY <1>13 DEF Shapes, Untouched, Control, Ended, RecoverOutOfBudget,
               runVars, nodeVars, memVars, envVars, Closes, GoneVerdict,
               Recovered, RecoverPauses
<1>. QED
  BY <1>1, <1>2, <1>3, <1>4, <1>5, <1>6, <1>7, <1>8, <1>9, <1>10, <1>11,
     <1>12, <1>13, ActionsCovered

LEMMA ControlStep ==
  ASSUME Flags, Shapes, Untouched, Control, Executing, Next
  PROVE  Control'
<1>1. CASE Start
  BY <1>1, NeverNone DEF Shapes, Untouched, AllSettled, Control, NoScheduler, Ended,
                         Start, runVars, nodeVars, memVars, envVars
<1>2. CASE ScanReturns
  BY <1>2, NeverNone DEF Shapes, Control, NoScheduler, Ended, ScanReturns, runVars,
                         nodeVars, memVars, envVars, Scanning, AllSettled
<1>3. CASE ScanCancels
  BY <1>3, NeverNone DEF Shapes, Control, NoScheduler, Ended, ScanCancels, runVars,
                         nodeVars, memVars, envVars, Scanning
<1>4. CASE ScanMarks
  BY <1>4, NeverNone DEF Shapes, Control, NoScheduler, Ended, ScanMarks, runVars,
                         nodeVars, memVars, envVars, Scanning
<1>5. CASE ScanDispatches
  BY <1>5, NeverNone DEF Shapes, Control, NoScheduler, Ended, ScanDispatches, runVars,
                         nodeVars, memVars, envVars, Scanning
<1>6. CASE ScanWaits
  BY <1>6, NeverNone DEF Shapes, Control, NoScheduler, Ended, ScanWaits, runVars,
                         nodeVars, memVars, envVars, Scanning
<1>7. CASE ScanThrows
  BY <1>7, NeverNone DEF Shapes, Control, NoScheduler, Ended, ScanThrows, runVars,
                         nodeVars, memVars, envVars, Stuck, Scanning
<1>8. CASE Drain
  BY <1>8, NeverNone DEF Shapes, Control, NoScheduler, Ended, Drain, runVars,
                         nodeVars, memVars, envVars
<1>9. CASE Finish
  BY <1>9, NeverNone DEF Shapes, Control, NoScheduler, Ended, Finish, runVars,
                         nodeVars, memVars, envVars, FinishThrows
<1>10. ASSUME NEW n \in Nodes, NodeCompleted(n) PROVE Control'
  BY <1>10, NeverNone DEF Shapes, Control, NoScheduler, Ended, NodeCompleted, runVars,
                          nodeVars, memVars, envVars, Wake
<1>11. ASSUME NEW n \in Nodes, NodeStopsRun(n) PROVE Control'
  BY <1>11, NeverNone DEF Shapes, Control, NoScheduler, Ended, NodeStopsRun, runVars,
                          nodeVars, memVars, envVars, Wake
<1>12. ASSUME NEW n \in Nodes, NodeLosesBranch(n) PROVE Control'
  BY <1>12, NeverNone DEF Shapes, Control, NoScheduler, Ended, NodeLosesBranch,
                          runVars, nodeVars, memVars, envVars, Wake
<1>13. ASSUME NEW n \in Nodes, SkipOne(n) PROVE Control'
  BY <1>13, NeverNone DEF Shapes, Control, NoScheduler, Ended, SkipOne, runVars,
                          nodeVars, memVars, envVars
<1>14. ASSUME NEW n \in Nodes, NodeBegins(n) PROVE Control'
  BY <1>14, NeverNone DEF Shapes, AllSettled, Control, NoScheduler, Ended, NodeBegins,
                          runVars, nodeVars, memVars, envVars
<1>15. ASSUME NEW n \in Nodes, NodeRefused(n) PROVE Control'
  BY <1>15, NeverNone DEF Shapes, AllSettled, Control, NoScheduler, Ended,
                          NodeRefused, runVars, nodeVars, memVars, envVars
<1>16. ASSUME NEW n \in Nodes, NodeAnswers(n) PROVE Control'
  BY <1>16, NeverNone DEF Shapes, AllSettled, Control, NoScheduler, Ended,
                          NodeAnswers, runVars, nodeVars, memVars, envVars, Running,
                          Record
<1>17. ASSUME NEW n \in Nodes, NodeRetries(n) PROVE Control'
  BY <1>17, NeverNone DEF Shapes, AllSettled, Control, NoScheduler, Ended,
                          NodeRetries, runVars, nodeVars, memVars, envVars, Running,
                          Record
<1>18. ASSUME NEW n \in Nodes, NodeOverruled(n) PROVE Control'
  BY <1>18, NeverNone DEF Shapes, AllSettled, Control, NoScheduler, Ended,
                          NodeOverruled, runVars, nodeVars, memVars, envVars, Running
<1>19. ASSUME NEW n \in Nodes, NodeFails(n) PROVE Control'
  BY <1>19, NeverNone DEF Shapes, AllSettled, Control, NoScheduler, Ended, NodeFails,
                          runVars, nodeVars, memVars, envVars, Running, Record
<1>20. CASE AdaptersClosed
  BY <1>20, NeverNone DEF Shapes, Control, NoScheduler, Ended, AdaptersClosed,
                          runVars, nodeVars, memVars, envVars, Closes
<1>21. CASE CloseRun
  BY <1>21, NeverNone DEF Shapes, AllSettled, Control, NoScheduler, Ended, CloseRun,
                          runVars, nodeVars, memVars, envVars, Verdict
<1>22. ASSUME NEW n \in Nodes, CloseNode(n) PROVE Control'
  BY <1>22, NeverNone DEF Shapes, AllSettled, Control, NoScheduler, Ended, CloseNode,
                          runVars, nodeVars, memVars, envVars
<1>23. ASSUME NEW n \in Nodes, RecoverNode(n) PROVE Control'
  BY <1>23, NeverNone DEF Shapes, Control, NoScheduler, Ended, RecoverNode, runVars,
                          nodeVars, memVars, envVars
<1>24. ASSUME NEW n \in Nodes, RecoverSkips(n) PROVE Control'
  BY <1>24, NeverNone DEF Shapes, Control, NoScheduler, Ended, RecoverSkips, runVars,
                          nodeVars, memVars, envVars
<1>25. CASE RecoverStopped
  BY <1>25, NeverNone DEF Shapes, Control, NoScheduler, Ended, RecoverStopped,
                          runVars, nodeVars, memVars, envVars, Closes, Recovered
<1>26. CASE RecoverFinished
  BY <1>26, NeverNone DEF Shapes, Control, NoScheduler, Ended, RecoverFinished,
                          runVars, nodeVars, memVars, envVars, Recovered
<1>27. CASE RecoverOutOfBudget
  BY <1>27, NeverNone DEF Shapes, Control, NoScheduler, Ended, RecoverOutOfBudget,
                          runVars, nodeVars, memVars, envVars, Closes, GoneVerdict,
                          Recovered
<1>28. CASE RecoverPauses
  BY <1>28, NeverNone DEF Shapes, Control, NoScheduler, Ended, RecoverPauses, runVars,
                          nodeVars, memVars, envVars, Recovered
<1>29. CASE Cancel
  BY <1>29, NeverNone DEF Shapes, AllSettled, Control, NoScheduler, Ended, Cancel,
                          runVars, nodeVars, memVars, envVars, Closes
<1>30. CASE Expire
  BY <1>30, NeverNone DEF Shapes, AllSettled, Control, NoScheduler, Ended, Expire,
                          runVars, nodeVars, memVars, envVars
<1>31. CASE Crash
  BY <1>31, NeverNone DEF Shapes, Control, NoScheduler, Ended, Crash, runVars,
                          nodeVars, memVars, envVars, Fresh
<1>32. CASE Resume
  BY <1>32, NeverNone DEF Shapes, Control, NoScheduler, Ended, Resume, runVars,
                          nodeVars, memVars, envVars
<1>33. CASE ResumeRefused
  BY <1>33, NeverNone DEF Shapes, Control, NoScheduler, Ended, ResumeRefused, runVars,
                          nodeVars, memVars, envVars, Closes, GoneVerdict
<1>. QED
  BY <1>1, <1>2, <1>3, <1>4, <1>5, <1>6, <1>7, <1>8, <1>9, <1>10, <1>11, <1>12, <1>13,
     <1>14, <1>15, <1>16, <1>17, <1>18, <1>19, <1>20, <1>21, <1>22, <1>23, <1>24,
     <1>25, <1>26, <1>27, <1>28, <1>29, <1>30, <1>31, <1>32, <1>33, ActionsCovered

-----------------------------------------------------------------------------
(* What changes the scheduler's view of the nodes.                         *)
LEMMA ScheduleChanges ==
  ASSUME Next
  PROVE  \/ UNCHANGED <<st, job>>
         \/ ScanCancels \/ ScanMarks \/ ScanDispatches \/ Drain \/ Crash
         \/ Resume
         \/ \E n \in Nodes : \/ NodeCompleted(n) \/ NodeStopsRun(n) \/ NodeLosesBranch(n)
                              \/ SkipOne(n) \/ NodeBegins(n) \/ NodeRefused(n)
                              \/ NodeAnswers(n) \/ NodeRetries(n) \/ NodeOverruled(n)
                              \/ NodeFails(n)
<1>1. CASE Start \/ Cancel \/ Expire
  BY <1>1 DEF Start, memVars, Cancel, Expire
<1>2. CASE ResumeRefused
  BY <1>2 DEF ResumeRefused, memVars
<1>3. CASE ScanReturns
  BY <1>3 DEF ScanReturns, memVars
<1>4. CASE ScanWaits \/ ScanThrows
  BY <1>4 DEF ScanWaits, memVars, ScanThrows
<1>5. CASE Finish
  BY <1>5 DEF Finish, memVars
<1>6. CASE AdaptersClosed \/ CloseRun
  BY <1>6 DEF AdaptersClosed, memVars, CloseRun
<1>7. ASSUME NEW n \in Nodes, CloseNode(n) PROVE UNCHANGED <<st, job>>
  BY <1>7 DEF CloseNode, memVars
<1>8. ASSUME NEW n \in Nodes, RecoverNode(n) \/ RecoverSkips(n)
      PROVE  UNCHANGED <<st, job>>
  BY <1>8 DEF RecoverNode, memVars, RecoverSkips
<1>9. CASE RecoverStopped \/ RecoverFinished
  BY <1>9 DEF RecoverStopped, memVars,
              RecoverFinished
<1>10. CASE RecoverOutOfBudget \/ RecoverPauses
  BY <1>10 DEF RecoverOutOfBudget, memVars,
               RecoverPauses
<1>. QED
  BY <1>1, <1>2, <1>3, <1>4, <1>5, <1>6, <1>7, <1>8, <1>9, <1>10,
     ActionsCovered

(* What changes the stored rows of the nodes.                              *)
LEMMA StoreChanges ==
  ASSUME Next
  PROVE  \/ UNCHANGED nodeVars
         \/ ScanMarks
         \/ \E n \in Nodes : \/ SkipOne(n) \/ NodeBegins(n) \/ NodeAnswers(n)
                              \/ NodeRetries(n) \/ NodeFails(n) \/ CloseNode(n)
                              \/ RecoverNode(n) \/ RecoverSkips(n)
<1>1. CASE Start \/ Cancel \/ Expire
  BY <1>1 DEF Start, nodeVars, memVars, Cancel, Expire
<1>2. CASE Crash \/ Resume \/ ResumeRefused
  BY <1>2 DEF Crash, nodeVars, memVars, Resume,
              ResumeRefused
<1>3. CASE ScanReturns \/ ScanCancels
  BY <1>3 DEF ScanReturns, nodeVars, memVars, ScanCancels
<1>4. CASE ScanDispatches \/ ScanWaits \/ ScanThrows
  BY <1>4 DEF ScanDispatches, nodeVars, memVars, ScanWaits,
              ScanThrows
<1>5. CASE Drain \/ Finish
  BY <1>5 DEF Drain, nodeVars, memVars, Finish
<1>6. ASSUME NEW n \in Nodes, NodeCompleted(n) \/ NodeStopsRun(n) \/ NodeLosesBranch(n)
      PROVE  UNCHANGED nodeVars
  BY <1>6 DEF NodeCompleted, nodeVars, memVars,
              NodeStopsRun, NodeLosesBranch
<1>7. ASSUME NEW n \in Nodes, NodeRefused(n) PROVE UNCHANGED nodeVars
  BY <1>7 DEF NodeRefused, nodeVars, memVars
<1>8. ASSUME NEW n \in Nodes, NodeOverruled(n) PROVE UNCHANGED nodeVars
  BY <1>8 DEF NodeOverruled, nodeVars, memVars
<1>9. CASE AdaptersClosed \/ CloseRun
  BY <1>9 DEF AdaptersClosed, nodeVars, memVars, CloseRun
<1>10. CASE RecoverStopped \/ RecoverFinished
  BY <1>10 DEF RecoverStopped, nodeVars, memVars,
               RecoverFinished
<1>11. CASE RecoverOutOfBudget \/ RecoverPauses
  BY <1>11 DEF RecoverOutOfBudget, nodeVars, memVars,
               RecoverPauses
<1>. QED
  BY <1>1, <1>2, <1>3, <1>4, <1>5, <1>6, <1>7, <1>8, <1>9, <1>10, <1>11,
     ActionsCovered

-----------------------------------------------------------------------------
(* The nodes that are executed.                                            *)

\* The scheduler's bounds still hold of fewer nodes.
LEMMA FewerActive ==
  ASSUME Executing, Active' \subseteq Active,
         \A n \in Nodes : job'[n] # "none" <=> st'[n] = "running"
  PROVE  Executing'
<1>1. IsFiniteSet(Active)
  BY GraphAssumption, FS_Subset DEF Active
<1>2. IsFiniteSet(Active') /\ Cardinality(Active') <= Cardinality(Active)
  BY <1>1, FS_Subset
<1>3. Cardinality(Active) \in Nat /\ Cardinality(Active') \in Nat
  BY <1>1, <1>2, FS_CardinalityType
<1>4. Cardinality(Active') <= MaxParallel
  BY <1>2, <1>3, BudgetAssumption DEF Executing
<1>. QED
  BY <1>4 DEF Executing

LEMMA ExecutingStep ==
  ASSUME Shapes, Control, Executing, JobsStored, Mirrored, Next
  PROVE  Executing'
<1>1. CASE UNCHANGED <<st, job>>
  BY <1>1 DEF Executing, Active
<1>2. CASE ScanCancels
  <2>1. \A n \in Nodes : st[n] # "running" /\ st'[n] # "running" /\ job'[n] = job[n]
    BY <1>2 DEF ScanCancels, Active, Settled
  <2>. QED
    BY <2>1, FewerActive DEF Executing, Active
<1>3. CASE ScanMarks
  <2>. DEFINE n == First(Markable)
  <2>1. n \in Nodes /\ st[n] = "pending"
    BY <1>3, FirstIn DEF ScanMarks, Markable
  <2>2. st'[n] = "ready" /\ job' = job
    BY <1>3, <2>1 DEF ScanMarks, Shapes
  <2>3. \A m \in Nodes \ {n} : st'[m] = st[m]
    BY <1>3 DEF ScanMarks, Shapes
  <2>. QED
    BY <2>1, <2>2, <2>3, FewerActive DEF Executing, Active
<1>4. CASE ScanDispatches
  <2>. DEFINE n == First(Dispatchable)
  <2>1. n \in Dispatchable /\ n \in Nodes
    BY <1>4, FirstIn DEF ScanDispatches, Dispatchable
  <2>2. /\ Cardinality(Active) < MaxParallel
        /\ st[n] = "ready" /\ \A m \in Active : Owner[m] # Owner[n]
    <3>1. IsFiniteSet(Active)
      BY GraphAssumption, FS_Subset DEF Active
    <3>2. Cardinality(Active) \in Nat
      BY <3>1, FS_CardinalityType
    <3>. QED
      BY <2>1, <3>2, BudgetAssumption DEF Dispatchable
  <2>3. /\ st'[n] = "running" /\ job'[n] = "begin"
        /\ \A m \in Nodes \ {n} : st'[m] = st[m] /\ job'[m] = job[m]
    BY <1>4, <2>1 DEF ScanDispatches, Shapes
  <2>4. Active' = Active \cup {n} /\ n \notin Active
    BY <2>1, <2>2, <2>3 DEF Active
  <2>5. Cardinality(Active') <= MaxParallel
    <3>1. IsFiniteSet(Active)
      BY GraphAssumption, FS_Subset DEF Active
    <3>2. Cardinality(Active) \in Nat /\ Cardinality(Active') = Cardinality(Active) + 1
      BY <2>4, <3>1, FS_CardinalityType, FS_AddElement
    <3>. QED
      BY <2>2, <3>2, BudgetAssumption
  <2>6. \A m, k \in Active' : Owner[m] = Owner[k] => m = k
    BY <2>2, <2>4 DEF Executing
  <2>7. \A m \in Nodes : job'[m] # "none" <=> st'[m] = "running"
    BY <2>3 DEF Executing
  <2>. QED
    BY <2>5, <2>6, <2>7 DEF Executing
<1>5. CASE Drain
  <2>1. \A n \in Nodes : st'[n] # "running" /\ job'[n] = "none"
    BY <1>5 DEF Drain, Active, Executing
  <2>. QED
    BY <2>1, FewerActive DEF Active
<1>6. ASSUME NEW n \in Nodes, NodeCompleted(n) PROVE Executing'
  <2>1. st'[n] \in Settled /\ job'[n] = "none" /\ st[n] = "running"
    BY <1>6 DEF NodeCompleted, Shapes, Settled, Wake
  <2>2. \A m \in Nodes \ {n} : job'[m] = job[m] /\ st'[m] = st[m]
    BY <1>6 DEF NodeCompleted, Shapes
  <2>. QED
    BY <2>1, <2>2, FewerActive DEF Executing, Active, Settled
<1>7. ASSUME NEW n \in Nodes, NodeStopsRun(n) PROVE Executing'
  <2>1. st'[n] \in Settled /\ job'[n] = "none" /\ st[n] = "running"
    BY <1>7 DEF NodeStopsRun, Shapes, Settled, Wake
  <2>2. \A m \in Nodes \ {n} : job'[m] = job[m] /\ st'[m] = st[m]
    BY <1>7 DEF NodeStopsRun, Shapes
  <2>. QED
    BY <2>1, <2>2, FewerActive DEF Executing, Active, Settled
<1>8. ASSUME NEW n \in Nodes, NodeLosesBranch(n) PROVE Executing'
  <2>1. st'[n] \in Settled /\ job'[n] = "none" /\ st[n] = "running"
    BY <1>8 DEF NodeLosesBranch, Shapes, Settled, Wake
  <2>2. \A m \in Nodes \ {n} : job'[m] = job[m] /\ st'[m] = st[m]
    BY <1>8 DEF NodeLosesBranch, Shapes
  <2>. QED
    BY <2>1, <2>2, FewerActive DEF Executing, Active, Settled
<1>9. ASSUME NEW n \in Nodes, SkipOne(n) PROVE Executing'
  <2>1. st[n] \in {"pending", "ready"} /\ st'[n] = "skipped" /\ job' = job
    BY <1>9 DEF SkipOne, Shapes, Mirrored
  <2>2. \A m \in Nodes \ {n} : st'[m] = st[m]
    BY <1>9 DEF SkipOne, Shapes
  <2>. QED
    BY <2>1, <2>2, FewerActive DEF Executing, Active
<1>10. ASSUME NEW n \in Nodes, NodeBegins(n) PROVE Executing'
  <2>1. st[n] = "running" /\ UNCHANGED st
    BY <1>10 DEF NodeBegins, Executing
  <2>2. \A m \in Nodes : job'[m] # "none" <=> job[m] # "none"
    BY <1>10 DEF NodeBegins, Shapes
  <2>. QED
    BY <2>1, <2>2, FewerActive DEF Executing, Active
<1>11. ASSUME NEW n \in Nodes, NodeRefused(n) PROVE Executing'
  <2>1. st[n] = "running" /\ UNCHANGED st
    BY <1>11 DEF NodeRefused, Executing
  <2>2. \A m \in Nodes : job'[m] # "none" <=> job[m] # "none"
    BY <1>11 DEF NodeRefused, Shapes
  <2>. QED
    BY <2>1, <2>2, FewerActive DEF Executing, Active
<1>12. ASSUME NEW n \in Nodes, NodeAnswers(n) PROVE Executing'
  <2>1. st[n] = "running" /\ UNCHANGED st
    BY <1>12 DEF NodeAnswers, Executing, Running
  <2>2. \A m \in Nodes : job'[m] # "none" <=> job[m] # "none"
    BY <1>12 DEF NodeAnswers, Shapes, Running
  <2>. QED
    BY <2>1, <2>2, FewerActive DEF Executing, Active
<1>13. ASSUME NEW n \in Nodes, NodeRetries(n) PROVE Executing'
  <2>1. st[n] = "running" /\ UNCHANGED st
    BY <1>13 DEF NodeRetries, Executing, Running
  <2>2. \A m \in Nodes : job'[m] # "none" <=> job[m] # "none"
    BY <1>13 DEF NodeRetries, Shapes, Running
  <2>. QED
    BY <2>1, <2>2, FewerActive DEF Executing, Active
<1>14. ASSUME NEW n \in Nodes, NodeOverruled(n) PROVE Executing'
  <2>1. st[n] = "running" /\ UNCHANGED st
    BY <1>14 DEF NodeOverruled, Executing, Running
  <2>2. \A m \in Nodes : job'[m] # "none" <=> job[m] # "none"
    BY <1>14 DEF NodeOverruled, Shapes, Running
  <2>. QED
    BY <2>1, <2>2, FewerActive DEF Executing, Active
<1>15. ASSUME NEW n \in Nodes, NodeFails(n) PROVE Executing'
  <2>1. st[n] = "running" /\ UNCHANGED st
    BY <1>15 DEF NodeFails, Executing, Running
  <2>2. \A m \in Nodes : job'[m] # "none" <=> job[m] # "none"
    BY <1>15 DEF NodeFails, Shapes, Running
  <2>. QED
    BY <2>1, <2>2, FewerActive DEF Executing, Active
<1>16. CASE Crash
  <2>1. \A n \in Nodes : st'[n] = "pending" /\ job'[n] = "none"
    BY <1>16 DEF Crash, Fresh
  <2>. QED
    BY <2>1, FewerActive DEF Active
<1>17. CASE Resume
  <2>1. \A n \in Nodes : job[n] = "none" /\ db[n] # "running" /\ job'[n] = "none" /\ st'[n] = db[n]
    BY <1>17 DEF Resume, Control, NoScheduler, JobsStored, JobStored
  <2>. QED
    BY <2>1, FewerActive DEF Active
<1>. QED
  BY <1>1, <1>2, <1>3, <1>4, <1>5, <1>6, <1>7, <1>8, <1>9, <1>10, <1>11, <1>12, <1>13,
     <1>14,
     <1>15, <1>16, <1>17, ScheduleChanges

-----------------------------------------------------------------------------
(* The jobs and what is stored.                                            *)

\* A scheduler that has been stopped stays so, and its budget only shrinks.
Onwards == (Stopped => Stopped') /\ (expired => expired') /\ started <= started'

LEMMA GoesOnwards ==
  ASSUME Shapes, Next
  PROVE  Onwards \/ Crash \/ Resume
<1>1. CASE Start \/ Cancel \/ Expire
  BY <1>1 DEF Onwards, Stopped, Shapes, Start, runVars, nodeVars, memVars,
              envVars, Cancel, Closes, GoneVerdict, Expire
<1>2. CASE ResumeRefused
  BY <1>2 DEF Onwards, Stopped, Shapes, ResumeRefused, Closes, GoneVerdict,
              runVars, nodeVars, memVars, envVars
<1>3. CASE ScanReturns \/ ScanCancels \/ ScanMarks
  BY <1>3 DEF Onwards, Stopped, Shapes, ScanReturns, runVars, nodeVars,
              memVars, envVars, ScanCancels, ScanMarks
<1>4. CASE ScanDispatches \/ ScanWaits \/ ScanThrows
  BY <1>4 DEF Onwards, Stopped, Shapes, ScanDispatches, runVars, nodeVars,
              memVars, envVars, ScanWaits, ScanThrows
<1>5. CASE Drain \/ Finish
  BY <1>5 DEF Onwards, Stopped, Shapes, Drain, runVars, nodeVars, memVars,
              envVars, Finish
<1>6. ASSUME NEW n \in Nodes, NodeCompleted(n) \/ NodeStopsRun(n) \/ NodeLosesBranch(n) \/ SkipOne(n)
      PROVE  Onwards
  BY <1>6 DEF Onwards, Stopped, Shapes, NodeCompleted, runVars, nodeVars,
              memVars, envVars, NodeStopsRun, NodeLosesBranch, SkipOne
<1>7. ASSUME NEW n \in Nodes, NodeBegins(n) \/ NodeRefused(n) PROVE Onwards
  BY <1>7, BudgetAssumption DEF Onwards, Stopped, Shapes, NodeBegins,
                                runVars, nodeVars, memVars, envVars,
                                NodeRefused
<1>8. ASSUME NEW n \in Nodes, NodeAnswers(n) \/ NodeRetries(n) \/ NodeOverruled(n) \/ NodeFails(n)
      PROVE  Onwards
  BY <1>8 DEF Onwards, Stopped, Shapes, NodeAnswers, runVars, nodeVars,
              memVars, envVars, NodeRetries, NodeOverruled, NodeFails
<1>9. CASE AdaptersClosed \/ CloseRun
  BY <1>9 DEF Onwards, Stopped, Shapes, AdaptersClosed, Closes, GoneVerdict,
              runVars, nodeVars, memVars, envVars, CloseRun
<1>10. ASSUME NEW n \in Nodes, CloseNode(n) PROVE Onwards
  BY <1>10 DEF Onwards, Stopped, Shapes, CloseNode, runVars, nodeVars,
               memVars, envVars
<1>11. ASSUME NEW n \in Nodes, RecoverNode(n) \/ RecoverSkips(n) PROVE Onwards
  BY <1>11 DEF Onwards, Stopped, Shapes, RecoverNode, runVars, nodeVars,
               memVars, envVars, RecoverSkips
<1>12. CASE RecoverStopped \/ RecoverFinished
  BY <1>12 DEF Onwards, Stopped, Shapes, RecoverStopped, Closes, GoneVerdict,
               runVars, nodeVars, memVars, envVars, RecoverFinished
<1>13. CASE RecoverOutOfBudget \/ RecoverPauses
  BY <1>13 DEF Onwards, Stopped, Shapes, RecoverOutOfBudget, Closes,
               GoneVerdict, runVars, nodeVars, memVars, envVars,
               RecoverPauses
<1>. QED
  BY <1>1, <1>2, <1>3, <1>4, <1>5, <1>6, <1>7, <1>8, <1>9, <1>10, <1>11,
     <1>12, <1>13, ActionsCovered

LEMMA JobKept ==
  ASSUME Shapes, NEW n \in Nodes, JobStored(n), Onwards,
         db'[n] = db[n], job'[n] = job[n], st'[n] = st[n],
         cpu = "recover" => cpu' = "recover" \/ db[n] # "running"
  PROVE  JobStored(n)'
BY BudgetAssumption DEF JobStored, Onwards, Shapes

(* Recovery does not end before the running nodes are ready again.         *)
LEMMA RecoveryEnds ==
  ASSUME Control, Next, cpu = "recover"
  PROVE  cpu' = "recover" \/ Interrupted = {}
<1>1. CASE Start \/ Cancel \/ Expire
  BY <1>1 DEF Start, Cancel, Control,
              Closes, Expire
<1>2. CASE Crash \/ Resume \/ ResumeRefused
  BY <1>2 DEF Crash, Control, Fresh,
              Resume, ResumeRefused, Closes, GoneVerdict
<1>3. CASE ScanReturns \/ ScanCancels \/ ScanMarks
  BY <1>3 DEF ScanReturns, Control, Scanning, ScanCancels, ScanMarks
<1>4. CASE ScanDispatches \/ ScanWaits \/ ScanThrows
  BY <1>4 DEF ScanDispatches, Control, Scanning, ScanWaits, ScanThrows, Stuck
<1>5. CASE Drain \/ Finish
  BY <1>5 DEF Drain, Finish, Control,
              FinishThrows
<1>6. ASSUME NEW n \in Nodes, NodeCompleted(n) \/ NodeStopsRun(n) \/ NodeLosesBranch(n) \/ SkipOne(n)
      PROVE  cpu' = "recover" \/ Interrupted = {}
  BY <1>6 DEF NodeCompleted, Control, Wake, NodeStopsRun, NodeLosesBranch, SkipOne
<1>7. ASSUME NEW n \in Nodes, NodeBegins(n) \/ NodeRefused(n)
      PROVE  cpu' = "recover" \/ Interrupted = {}
  BY <1>7 DEF NodeBegins, NodeRefused
<1>8. ASSUME NEW n \in Nodes, NodeAnswers(n) \/ NodeRetries(n) \/ NodeOverruled(n) \/ NodeFails(n)
      PROVE  cpu' = "recover" \/ Interrupted = {}
  BY <1>8 DEF NodeAnswers, Control, Running, Record, NodeRetries, NodeOverruled, NodeFails
<1>9. CASE AdaptersClosed \/ CloseRun
  BY <1>9 DEF AdaptersClosed, Control, Closes, CloseRun, Verdict
<1>10. ASSUME NEW n \in Nodes, CloseNode(n)
      PROVE  cpu' = "recover" \/ Interrupted = {}
  BY <1>10 DEF CloseNode
<1>11. ASSUME NEW n \in Nodes, RecoverNode(n) \/ RecoverSkips(n)
      PROVE  cpu' = "recover" \/ Interrupted = {}
  BY <1>11 DEF RecoverNode, RecoverSkips
<1>12. CASE RecoverStopped \/ RecoverFinished
  BY <1>12 DEF RecoverStopped, Control, Closes, Recovered, RecoverFinished
<1>13. CASE RecoverOutOfBudget \/ RecoverPauses
  BY <1>13 DEF RecoverOutOfBudget, Control, Closes, GoneVerdict, Recovered, RecoverPauses
<1>. QED
  BY <1>1, <1>2, <1>3, <1>4, <1>5, <1>6, <1>7, <1>8, <1>9, <1>10, <1>11,
     <1>12, <1>13, ActionsCovered

LEMMA JobsStoredStep ==
  ASSUME Flags, Shapes, Control, Executing, JobsStored, Mirrored, NodeStored, Next
  PROVE  JobsStored'
<1>1. CASE UNCHANGED <<st, job, db>> /\ Onwards
  <2>1. \A n \in Nodes : cpu = "recover" => cpu' = "recover" \/ db[n] # "running"
    BY RecoveryEnds DEF Interrupted
  <2>. QED
    BY <1>1, <2>1, JobKept DEF JobsStored
<1>2. CASE ScanCancels
  <2>1. \A n \in Nodes : /\ job[n] = "none" /\ job'[n] = "none" /\ db'[n] = db[n]
                         /\ st'[n] = "completed" => st[n] = "completed"
    BY <1>2 DEF ScanCancels, Active, Executing, nodeVars
  <2>2. cpu = "loop"
    BY <1>2 DEF ScanCancels, Scanning
  <2>. QED
    BY <2>1, <2>2 DEF JobsStored, JobStored
<1>3. CASE ScanMarks
  <2>0. PICK n \in Nodes : n = First(Markable) /\ n \in Markable
    BY <1>3, FirstIn DEF ScanMarks, Markable
  <2>1. n \in Nodes /\ st[n] = "pending" /\ st'[n] = "ready" /\ job'[n] = job[n]
    BY <1>3, <2>0 DEF ScanMarks, Markable, Shapes, memVars
  <2>2. db[n] # "running" /\ db'[n] # "running" /\ job[n] = "none"
    BY <1>3, <2>0, <2>1 DEF ScanMarks, Scanning, Shapes, Mirrored, Control, Executing,
                            Settled
  <2>3. \A m \in Nodes \ {n} : db'[m] = db[m] /\ st'[m] = st[m] /\ job'[m] = job[m]
    BY <1>3, <2>0, <2>1 DEF ScanMarks, Shapes
  <2>4. Onwards /\ cpu # "recover"
    BY <1>3, GoesOnwards DEF ScanMarks, Scanning, Crash, Resume, Control, Shapes,
                             runVars, envVars
  <2>5. JobStored(n)'
    BY <2>1, <2>2 DEF JobStored
  <2>. QED
    BY <2>3, <2>4, <2>5, JobKept DEF JobsStored
<1>4. CASE ScanDispatches
  <2>0. PICK n \in Nodes : n = First(Dispatchable) /\ n \in Dispatchable
    BY <1>4, FirstIn DEF ScanDispatches, Dispatchable
  <2>1. n \in Nodes /\ st[n] = "ready"
    BY <2>0 DEF Dispatchable
  <2>2. st'[n] = "running" /\ job'[n] = "begin" /\ db'[n] = db[n]
    BY <1>4, <2>0, <2>1 DEF ScanDispatches, Shapes, nodeVars
  <2>3. db[n] \in {"ready"} \cup Settled
    BY <1>4, <2>0, <2>1 DEF ScanDispatches, Scanning, Mirrored, Control
  <2>4. \A m \in Nodes \ {n} : db'[m] = db[m] /\ st'[m] = st[m] /\ job'[m] = job[m]
    BY <1>4, <2>0, <2>1 DEF ScanDispatches, Shapes, nodeVars
  <2>5. Onwards /\ cpu # "recover"
    BY <1>4, GoesOnwards DEF ScanDispatches, Scanning, Crash, Resume, Control, Shapes,
                             runVars, envVars
  <2>6. JobStored(n)'
    BY <2>2, <2>3 DEF JobStored, Settled
  <2>. QED
    BY <2>4, <2>5, <2>6, JobKept DEF JobsStored
<1>5. CASE Drain
  <2>1. \A n \in Nodes : /\ job'[n] = "none" /\ db'[n] = db[n]
                         /\ st'[n] = "completed" => st[n] = "completed" \/ job[n] = "ok"
    BY <1>5 DEF Drain, Executing, Active, nodeVars
  <2>2. cpu = "free" /\ cpu' = "free"
    BY <1>5 DEF Drain
  <2>3. \A n \in Nodes : db[n] # "running"
    BY <1>5, <2>2 DEF Drain, Drained, Executing, Active, JobsStored, JobStored
  <2>. QED
    BY <2>1, <2>2, <2>3 DEF JobsStored, JobStored
<1>6. ASSUME NEW n \in Nodes, NodeCompleted(n) PROVE JobsStored'
  <2>1. st'[n] = "completed" /\ job'[n] = "none" /\ db'[n] = "completed"
    BY <1>6 DEF NodeCompleted, Shapes, JobsStored, JobStored, nodeVars
  <2>2. \A m \in Nodes \ {n} : db'[m] = db[m] /\ st'[m] = st[m] /\ job'[m] = job[m]
    BY <1>6 DEF Shapes, NodeCompleted, Record, nodeVars, memVars
  <2>3. Onwards /\ cpu # "recover" /\ cpu' # "recover"
    BY <1>6, GoesOnwards DEF NodeCompleted, Wake, Running, Crash, Resume, Control,
                             Shapes, runVars, envVars
  <2>4. JobStored(n)'
    BY <2>1, <2>3 DEF JobStored, Settled, Onwards
  <2>. QED
    BY <2>2, <2>3, <2>4, JobKept DEF JobsStored
<1>7. ASSUME NEW n \in Nodes, NodeStopsRun(n) PROVE JobsStored'
  <2>1. st'[n] # "completed" /\ job'[n] = "none" /\ db'[n] # "running"
    BY <1>7 DEF NodeStopsRun, Shapes, JobsStored, JobStored, nodeVars, Wake, Control
  <2>2. \A m \in Nodes \ {n} : db'[m] = db[m] /\ st'[m] = st[m] /\ job'[m] = job[m]
    BY <1>7 DEF Shapes, NodeStopsRun, Record, nodeVars, memVars
  <2>3. Onwards /\ cpu # "recover" /\ cpu' # "recover"
    BY <1>7, GoesOnwards DEF NodeStopsRun, Wake, Running, Crash, Resume, Control,
                             Shapes, runVars, envVars
  <2>4. JobStored(n)'
    BY <2>1, <2>3 DEF JobStored, Settled, Onwards
  <2>. QED
    BY <2>2, <2>3, <2>4, JobKept DEF JobsStored
<1>8. ASSUME NEW n \in Nodes, NodeLosesBranch(n) PROVE JobsStored'
  <2>1. st'[n] # "completed" /\ job'[n] = "none" /\ db'[n] # "running"
    BY <1>8 DEF NodeLosesBranch, Shapes, JobsStored, JobStored, nodeVars, Wake, Control
  <2>2. \A m \in Nodes \ {n} : db'[m] = db[m] /\ st'[m] = st[m] /\ job'[m] = job[m]
    BY <1>8 DEF Shapes, NodeLosesBranch, Record, nodeVars, memVars
  <2>3. Onwards /\ cpu # "recover" /\ cpu' # "recover"
    BY <1>8, GoesOnwards DEF NodeLosesBranch, Wake, Running, Crash, Resume, Control,
                             Shapes, runVars, envVars
  <2>4. JobStored(n)'
    BY <2>1, <2>3 DEF JobStored, Settled, Onwards
  <2>. QED
    BY <2>2, <2>3, <2>4, JobKept DEF JobsStored
<1>9. ASSUME NEW n \in Nodes, SkipOne(n) PROVE JobsStored'
  <2>1. st'[n] = "skipped" /\ job'[n] = "none" /\ db'[n] = "skipped"
    BY <1>9 DEF SkipOne, Shapes, Mirrored, Executing
  <2>2. \A m \in Nodes \ {n} : db'[m] = db[m] /\ st'[m] = st[m] /\ job'[m] = job[m]
    BY <1>9 DEF Shapes, SkipOne
  <2>3. Onwards /\ cpu # "recover"
    BY <1>9, GoesOnwards DEF SkipOne, Crash, Resume, Control, Shapes, runVars, envVars
  <2>4. JobStored(n)'
    BY <2>1 DEF JobStored
  <2>. QED
    BY <2>2, <2>3, <2>4, JobKept DEF JobsStored
<1>10. ASSUME NEW n \in Nodes, NodeBegins(n) PROVE JobsStored'
  <2>1. job'[n] = "turn" /\ db'[n] = "running" /\ st'[n] # "completed"
    BY <1>10 DEF NodeBegins, Shapes, JobsStored, JobStored, memVars, Executing
  <2>2. \A m \in Nodes \ {n} : db'[m] = db[m] /\ st'[m] = st[m] /\ job'[m] = job[m]
    BY <1>10 DEF Shapes, NodeBegins, Record, nodeVars, memVars
  <2>3. Onwards /\ cpu # "recover" /\ cpu' # "recover"
    BY <1>10, GoesOnwards DEF NodeBegins, Wake, Running, Crash, Resume, Control,
                              Shapes, runVars, envVars
  <2>4. JobStored(n)'
    BY <2>1, <2>3 DEF JobStored, Settled, Onwards
  <2>. QED
    BY <2>2, <2>3, <2>4, JobKept DEF JobsStored
<1>11. ASSUME NEW n \in Nodes, NodeRefused(n) PROVE JobsStored'
  <2>1. job'[n] = "err" /\ db'[n] = db[n] /\ db[n] \in {"ready"} \cup Settled /\ st'[n] # "completed"
    BY <1>11 DEF NodeRefused, Shapes, JobsStored, JobStored, nodeVars, Executing
  <2>2. \A m \in Nodes \ {n} : db'[m] = db[m] /\ st'[m] = st[m] /\ job'[m] = job[m]
    BY <1>11 DEF Shapes, NodeRefused, nodeVars
  <2>3. Onwards /\ cpu # "recover"
    BY <1>11, GoesOnwards DEF NodeRefused, Crash, Resume, Control, Shapes, runVars,
                              envVars
  <2>4. ASSUME db[n] \in Settled PROVE JobStored(n)'
    BY <2>1, <2>4 DEF JobStored, Settled
  <2>5. ASSUME db[n] = "ready" PROVE JobStored(n)'
    <3>1. ~MayBegin(n)
      BY <1>11, <2>5 DEF NodeRefused
    <3>2. NextAttempt(n) <= RetryLimit[n] + 1
      <4>1. attempt[n] \in Nat /\ RetryLimit[n] \in Nat
        BY GraphAssumption DEF Shapes
      <4>2. attempt[n] <= RetryLimit[n] + 1
        BY DEF NodeStored, RowStored
      <4>3. attempt[n] > 0 /\ ~restarted[n] => attempt[n] <= RetryLimit[n]
        BY <2>5 DEF NodeStored, RowStored
      <4>. QED
        BY <2>5, <4>1, <4>2, <4>3 DEF NextAttempt
    <3>3. Stopped \/ expired \/ started >= MaxTurns
      BY <3>1, <3>2, BudgetAssumption DEF MayBegin, Shapes
    <3>4. Stopped' \/ expired' \/ started' >= MaxTurns
      <4>1. started' \in Nat /\ started \in Nat
        BY <1>11 DEF NodeRefused, Shapes
      <4>. QED
        BY <2>3, <3>3, <4>1, BudgetAssumption DEF Onwards
    <3>. QED
      BY <2>1, <2>5, <3>4 DEF JobStored
  <2>6. JobStored(n)'
    BY <2>1, <2>4, <2>5
  <2>. QED
    BY <2>2, <2>3, <2>6, JobKept DEF JobsStored
<1>12. ASSUME NEW n \in Nodes, NodeAnswers(n) PROVE JobsStored'
  <2>1. job'[n] = "ok" /\ db'[n] = "completed"
    BY <1>12 DEF NodeAnswers, Shapes, Record
  <2>2. \A m \in Nodes \ {n} : db'[m] = db[m] /\ st'[m] = st[m] /\ job'[m] = job[m]
    BY <1>12 DEF Shapes, NodeAnswers, Record, nodeVars, memVars
  <2>3. Onwards /\ cpu # "recover" /\ cpu' # "recover"
    BY <1>12, GoesOnwards DEF NodeAnswers, Wake, Running, Crash, Resume, Control,
                              Shapes, runVars, envVars
  <2>4. JobStored(n)'
    BY <2>1, <2>3 DEF JobStored, Settled, Onwards
  <2>. QED
    BY <2>2, <2>3, <2>4, JobKept DEF JobsStored
<1>13. ASSUME NEW n \in Nodes, NodeRetries(n) PROVE JobsStored'
  <2>1. job'[n] = "begin" /\ db'[n] = "ready" /\ st'[n] # "completed"
    BY <1>13 DEF NodeRetries, Shapes, Record, Executing, memVars, Running
  <2>2. \A m \in Nodes \ {n} : db'[m] = db[m] /\ st'[m] = st[m] /\ job'[m] = job[m]
    BY <1>13 DEF Shapes, NodeRetries, Record, nodeVars, memVars
  <2>3. Onwards /\ cpu # "recover" /\ cpu' # "recover"
    BY <1>13, GoesOnwards DEF NodeRetries, Wake, Running, Crash, Resume, Control,
                              Shapes, runVars, envVars
  <2>4. JobStored(n)'
    BY <2>1, <2>3 DEF JobStored, Settled, Onwards
  <2>. QED
    BY <2>2, <2>3, <2>4, JobKept DEF JobsStored
<1>14. ASSUME NEW n \in Nodes, NodeOverruled(n) PROVE JobsStored'
  <2>1. job'[n] = "err" /\ db'[n] \in Settled /\ st'[n] # "completed"
    BY <1>14 DEF NodeOverruled, Shapes, Executing, nodeVars, Running
  <2>2. \A m \in Nodes \ {n} : db'[m] = db[m] /\ st'[m] = st[m] /\ job'[m] = job[m]
    BY <1>14 DEF Shapes, NodeOverruled, Record, nodeVars, memVars
  <2>3. Onwards /\ cpu # "recover" /\ cpu' # "recover"
    BY <1>14, GoesOnwards DEF NodeOverruled, Wake, Running, Crash, Resume, Control,
                              Shapes, runVars, envVars
  <2>4. JobStored(n)'
    BY <2>1, <2>3 DEF JobStored, Settled, Onwards
  <2>. QED
    BY <2>2, <2>3, <2>4, JobKept DEF JobsStored
<1>15. ASSUME NEW n \in Nodes, NodeFails(n) PROVE JobsStored'
  <2>1. job'[n] = "err" /\ db'[n] \in Settled /\ st'[n] # "completed"
    BY <1>15 DEF NodeFails, Shapes, Record, Executing, Running, Settled
  <2>2. \A m \in Nodes \ {n} : db'[m] = db[m] /\ st'[m] = st[m] /\ job'[m] = job[m]
    BY <1>15 DEF Shapes, NodeFails, Record, nodeVars, memVars
  <2>3. Onwards /\ cpu # "recover" /\ cpu' # "recover"
    BY <1>15, GoesOnwards DEF NodeFails, Wake, Running, Crash, Resume, Control,
                              Shapes, runVars, envVars
  <2>4. JobStored(n)'
    BY <2>1, <2>3 DEF JobStored, Settled, Onwards
  <2>. QED
    BY <2>2, <2>3, <2>4, JobKept DEF JobsStored
<1>16. ASSUME NEW n \in Nodes, CloseNode(n) PROVE JobsStored'
  <2>1. db'[n] = "cancelled" /\ st'[n] = st[n] /\ job'[n] = job[n] /\ db[n] \notin Settled
    BY <1>16 DEF CloseNode, Shapes, Unsettled, memVars
  <2>2. \A m \in Nodes \ {n} : db'[m] = db[m] /\ st'[m] = st[m] /\ job'[m] = job[m]
    BY <1>16 DEF Shapes, CloseNode, memVars
  <2>3. Onwards /\ cpu # "recover"
    BY <1>16, GoesOnwards DEF CloseNode, Crash, Resume, Control, Shapes, runVars, envVars
  <2>4. JobStored(n)'
    BY <2>1 DEF JobStored, JobsStored, Settled
  <2>. QED
    BY <2>2, <2>3, <2>4, JobKept DEF JobsStored
<1>17. ASSUME NEW n \in Nodes, RecoverNode(n) PROVE JobsStored'
  <2>1. \A m \in Nodes : job'[m] = "none" /\ st'[m] = "pending"
    BY <1>17 DEF RecoverNode, Control, NoScheduler, memVars
  <2>2. cpu' = "recover"
    BY <1>17 DEF RecoverNode
  <2>. QED
    BY <2>1, <2>2 DEF JobsStored, JobStored
<1>18. ASSUME NEW n \in Nodes, RecoverSkips(n) PROVE JobsStored'
  <2>1. \A m \in Nodes : job'[m] = "none" /\ st'[m] = "pending"
    BY <1>18 DEF RecoverSkips, Control, NoScheduler, memVars
  <2>2. cpu' = "recover"
    BY <1>18 DEF RecoverSkips
  <2>. QED
    BY <2>1, <2>2 DEF JobsStored, JobStored
<1>19. CASE Crash
  <2>1. \A m \in Nodes : job'[m] = "none" /\ st'[m] = "pending" /\ db'[m] = db[m]
    BY <1>19 DEF Crash, Fresh, nodeVars
  <2>2. cpu' = "recover" \/ \A m \in Nodes : db[m] # "running"
    BY <1>19 DEF Crash, Control, NoScheduler, JobsStored, JobStored
  <2>. QED
    BY <2>1, <2>2 DEF JobsStored, JobStored
<1>20. CASE Resume
  <2>1. \A m \in Nodes : job[m] = "none" /\ job'[m] = "none" /\ st'[m] = db[m] /\ db'[m] = db[m]
    BY <1>20 DEF Resume, Control, NoScheduler, nodeVars
  <2>2. cpu = "free"
    BY <1>20 DEF Resume
  <2>. QED
    BY <2>1, <2>2 DEF JobsStored, JobStored
<1>. QED
  <2>1. CASE UNCHANGED nodeVars
    BY <2>1, <1>1, <1>2, <1>3, <1>4, <1>5, <1>6, <1>7, <1>8, <1>9, <1>10, <1>11,
       <1>12, <1>13,
       <1>14, <1>15, <1>19, <1>20, ScheduleChanges, GoesOnwards DEF nodeVars
  <2>. QED
    BY <2>1, <1>3, <1>9, <1>10, <1>12, <1>13, <1>15, <1>16, <1>17, <1>18, StoreChanges

-----------------------------------------------------------------------------
(* What is in memory is what is stored.                                    *)

LEMMA MirroredStep ==
  ASSUME Shapes, Untouched, Control, Executing, Mirrored, Next
  PROVE  Mirrored'
<1>1. CASE Start
  BY <1>1 DEF Mirrored, Control, Shapes, Start, runVars, nodeVars, memVars, envVars,
              Untouched
<1>2. CASE ScanReturns
  BY <1>2 DEF Mirrored, Control, Shapes, ScanReturns, runVars, nodeVars, memVars,
              envVars, Scanning
<1>3. CASE ScanCancels
  BY <1>3 DEF Mirrored, Control, Shapes, ScanCancels, runVars, nodeVars, memVars,
              envVars, Scanning
<1>4. CASE ScanMarks
  <2>0. PICK n \in Nodes : n = First(Markable) /\ n \in Markable
    BY <1>4, FirstIn DEF ScanMarks, Markable
  <2>1. st'[n] = "ready" /\ \A m \in Nodes \ {n} : db'[m] = db[m] /\ st'[m] = st[m]
    BY <1>4, <2>0 DEF ScanMarks, Shapes
  <2>2. aborted' = aborted /\ toSkip' = {} /\ loop = "scan"
    BY <1>4 DEF ScanMarks, Scanning
  <2>3. loop' = "scan" => db'[n] = "ready"
    BY <1>4, <2>0 DEF ScanMarks, Shapes, Scanning, Control
  <2>4. loop' \in {"scan", "wait"} => loop' = "scan"
    BY <1>4 DEF ScanMarks, Scanning
  <2>. QED
    BY <2>1, <2>2, <2>3, <2>4 DEF Mirrored
<1>5. CASE ScanDispatches
  <2>0. PICK n \in Nodes : n = First(Dispatchable) /\ n \in Dispatchable
    BY <1>5, FirstIn DEF ScanDispatches, Dispatchable
  <2>1. st'[n] = "running" /\ \A m \in Nodes \ {n} : db'[m] = db[m] /\ st'[m] = st[m]
    BY <1>5, <2>0 DEF ScanDispatches, Shapes, nodeVars
  <2>2. aborted' = aborted /\ toSkip' = {} /\ loop = "scan"
    BY <1>5 DEF ScanDispatches, Scanning
  <2>. QED
    BY <2>1, <2>2 DEF Mirrored
<1>6. CASE ScanWaits
  BY <1>6 DEF Mirrored, Control, Shapes, ScanWaits, runVars, nodeVars, memVars,
              envVars, Scanning
<1>7. CASE ScanThrows
  BY <1>7 DEF Mirrored, Control, Shapes, ScanThrows, runVars, nodeVars, memVars,
              envVars, Stuck, Scanning
<1>8. CASE Drain
  BY <1>8 DEF Mirrored, Control, Shapes, Drain, runVars, nodeVars, memVars, envVars
<1>9. CASE Finish
  BY <1>9 DEF Mirrored, Control, Shapes, Finish, runVars, nodeVars, memVars, envVars,
              FinishThrows
<1>10. ASSUME NEW n \in Nodes, NodeCompleted(n) PROVE Mirrored'
  <2>1. /\ st[n] = "running" /\ st'[n] \notin {"pending", "ready"}
        /\ \A m \in Nodes \ {n} : db'[m] = db[m] /\ st'[m] = st[m]
    BY <1>10 DEF NodeCompleted, Shapes, Executing, memVars, nodeVars, Wake
  <2>2. aborted' = aborted /\ (loop' \in {"scan", "wait"} => loop \in {"scan", "wait"})
    BY <1>10 DEF NodeCompleted, memVars, Wake
  <2>3. toSkip' = {}
    BY <1>10 DEF NodeCompleted, Control, memVars, Wake
  <2>. QED
    BY <2>1, <2>2, <2>3 DEF Mirrored
<1>11. ASSUME NEW n \in Nodes, NodeStopsRun(n) PROVE Mirrored'
  <2>1. /\ st[n] = "running" /\ st'[n] \notin {"pending", "ready"}
        /\ \A m \in Nodes \ {n} : db'[m] = db[m] /\ st'[m] = st[m]
    BY <1>11 DEF NodeStopsRun, Shapes, Executing, memVars, nodeVars, Wake
  <2>2. aborted' = aborted /\ (loop' \in {"scan", "wait"} => loop \in {"scan", "wait"})
    BY <1>11 DEF NodeStopsRun, memVars, Wake
  <2>3. toSkip' = {}
    BY <1>11 DEF NodeStopsRun, Control, memVars, Wake
  <2>. QED
    BY <2>1, <2>2, <2>3 DEF Mirrored
<1>12. ASSUME NEW n \in Nodes, NodeLosesBranch(n) PROVE Mirrored'
  <2>1. /\ st[n] = "running" /\ st'[n] \notin {"pending", "ready"}
        /\ \A m \in Nodes \ {n} : db'[m] = db[m] /\ st'[m] = st[m]
    BY <1>12 DEF NodeLosesBranch, Shapes, Executing, memVars, nodeVars, Wake
  <2>2. aborted' = aborted /\ (loop' \in {"scan", "wait"} => loop \in {"scan", "wait"})
    BY <1>12 DEF NodeLosesBranch, memVars, Wake
  <2>3. \A m \in toSkip' : m \in Nodes \ {n} /\ st[m] \in {"pending", "ready"}
    BY <1>12, <2>1, BelowNodes DEF NodeLosesBranch
  <2>. QED
    BY <2>1, <2>2, <2>3 DEF Mirrored
<1>13. ASSUME NEW n \in Nodes, SkipOne(n) PROVE Mirrored'
  <2>1. n \in Nodes /\ st'[n] = "skipped" /\ \A m \in Nodes \ {n} : db'[m] = db[m] /\ st'[m] = st[m]
    BY <1>13 DEF SkipOne, Shapes
  <2>2. aborted' = aborted /\ loop' = loop /\ toSkip' = toSkip \ {n} /\ toSkip \subseteq Nodes
    BY <1>13 DEF SkipOne, Shapes
  <2>. QED
    BY <2>1, <2>2 DEF Mirrored
<1>14. ASSUME NEW n \in Nodes, NodeBegins(n) PROVE Mirrored'
  <2>1. /\ st[n] = "running" /\ st'[n] \notin {"pending", "ready"}
        /\ \A m \in Nodes \ {n} : db'[m] = db[m] /\ st'[m] = st[m]
    BY <1>14 DEF NodeBegins, Shapes, Executing, memVars, nodeVars
  <2>2. aborted' = aborted /\ (loop' \in {"scan", "wait"} => loop \in {"scan", "wait"})
    BY <1>14 DEF NodeBegins, memVars
  <2>3. toSkip' = {}
    BY <1>14 DEF NodeBegins, Control, memVars
  <2>. QED
    BY <2>1, <2>2, <2>3 DEF Mirrored
<1>15. ASSUME NEW n \in Nodes, NodeRefused(n) PROVE Mirrored'
  BY <1>15 DEF Mirrored, Control, Shapes, NodeRefused, runVars, nodeVars, memVars, envVars
<1>16. ASSUME NEW n \in Nodes, NodeAnswers(n) PROVE Mirrored'
  <2>1. /\ st[n] = "running" /\ st'[n] \notin {"pending", "ready"}
        /\ \A m \in Nodes \ {n} : db'[m] = db[m] /\ st'[m] = st[m]
    BY <1>16 DEF NodeAnswers, Shapes, Executing, memVars, nodeVars, Running, Record
  <2>2. aborted' = aborted /\ (loop' \in {"scan", "wait"} => loop \in {"scan", "wait"})
    BY <1>16 DEF NodeAnswers, memVars, Running, Record
  <2>3. toSkip' = {}
    BY <1>16 DEF NodeAnswers, Control, memVars, Running, Record
  <2>. QED
    BY <2>1, <2>2, <2>3 DEF Mirrored
<1>17. ASSUME NEW n \in Nodes, NodeRetries(n) PROVE Mirrored'
  <2>1. /\ st[n] = "running" /\ st'[n] \notin {"pending", "ready"}
        /\ \A m \in Nodes \ {n} : db'[m] = db[m] /\ st'[m] = st[m]
    BY <1>17 DEF NodeRetries, Shapes, Executing, memVars, nodeVars, Running, Record
  <2>2. aborted' = aborted /\ (loop' \in {"scan", "wait"} => loop \in {"scan", "wait"})
    BY <1>17 DEF NodeRetries, memVars, Running, Record
  <2>3. toSkip' = {}
    BY <1>17 DEF NodeRetries, Control, memVars, Running, Record
  <2>. QED
    BY <2>1, <2>2, <2>3 DEF Mirrored
<1>18. ASSUME NEW n \in Nodes, NodeOverruled(n) PROVE Mirrored'
  BY <1>18 DEF Mirrored, Control, Shapes, NodeOverruled, runVars, nodeVars, memVars,
               envVars, Running
<1>19. ASSUME NEW n \in Nodes, NodeFails(n) PROVE Mirrored'
  <2>1. /\ st[n] = "running" /\ st'[n] \notin {"pending", "ready"}
        /\ \A m \in Nodes \ {n} : db'[m] = db[m] /\ st'[m] = st[m]
    BY <1>19 DEF NodeFails, Shapes, Executing, memVars, nodeVars, Running, Record
  <2>2. aborted' = aborted /\ (loop' \in {"scan", "wait"} => loop \in {"scan", "wait"})
    BY <1>19 DEF NodeFails, memVars, Running, Record
  <2>3. toSkip' = {}
    BY <1>19 DEF NodeFails, Control, memVars, Running, Record
  <2>. QED
    BY <2>1, <2>2, <2>3 DEF Mirrored
<1>20. CASE AdaptersClosed
  BY <1>20 DEF Mirrored, Control, Shapes, AdaptersClosed, runVars, nodeVars, memVars,
               envVars, Closes
<1>21. CASE CloseRun
  BY <1>21 DEF Mirrored, Control, Shapes, CloseRun, runVars, nodeVars, memVars,
               envVars, Verdict
<1>22. ASSUME NEW n \in Nodes, CloseNode(n) PROVE Mirrored'
  <2>1. loop \in {"scan", "wait"} => aborted
    BY <1>22 DEF CloseNode, Control
  <2>2. db'[n] = "cancelled" /\ \A m \in Nodes \ {n} : db'[m] = db[m]
    BY <1>22 DEF CloseNode, Shapes
  <2>3. UNCHANGED <<st, aborted, loop, toSkip>>
    BY <1>22 DEF CloseNode, memVars
  <2>. QED
    BY <2>1, <2>2, <2>3 DEF Mirrored, Settled
<1>23. ASSUME NEW n \in Nodes, RecoverNode(n) PROVE Mirrored'
  <2>1. loop' = "off" /\ toSkip' = {}
    BY <1>23 DEF RecoverNode, Control, NoScheduler, memVars
  <2>. QED
    BY <2>1 DEF Mirrored
<1>24. ASSUME NEW n \in Nodes, RecoverSkips(n) PROVE Mirrored'
  <2>1. loop' = "off" /\ toSkip' = {}
    BY <1>24 DEF RecoverSkips, Control, NoScheduler, memVars
  <2>. QED
    BY <2>1 DEF Mirrored
<1>25. CASE RecoverStopped
  BY <1>25 DEF Mirrored, Control, Shapes, RecoverStopped, runVars, nodeVars, memVars,
               envVars, Closes, Recovered
<1>26. CASE RecoverFinished
  BY <1>26 DEF Mirrored, Control, Shapes, RecoverFinished, runVars, nodeVars, memVars,
               envVars, Recovered
<1>27. CASE RecoverOutOfBudget
  BY <1>27 DEF Mirrored, Control, Shapes, RecoverOutOfBudget, runVars, nodeVars,
               memVars, envVars, Closes, GoneVerdict, Recovered
<1>28. CASE RecoverPauses
  BY <1>28 DEF Mirrored, Control, Shapes, RecoverPauses, runVars, nodeVars, memVars,
               envVars, Recovered
<1>29. CASE Cancel
  BY <1>29 DEF Mirrored, Control, Shapes, Cancel, runVars, nodeVars, memVars, envVars,
               Closes
<1>30. CASE Expire
  BY <1>30 DEF Mirrored, Control, Shapes, Expire, runVars, nodeVars, memVars, envVars
<1>31. CASE Crash
  BY <1>31 DEF Mirrored, Control, Shapes, Crash, runVars, nodeVars, memVars, envVars,
               Fresh
<1>32. CASE Resume
  <2>1. st' = db /\ db' = db /\ toSkip' = {}
    BY <1>32 DEF Resume, Control, nodeVars
  <2>. QED
    BY <2>1 DEF Mirrored
<1>33. CASE ResumeRefused
  BY <1>33 DEF Mirrored, Control, Shapes, ResumeRefused, runVars, nodeVars, memVars,
               envVars, Closes, GoneVerdict
<1>. QED
  BY <1>1, <1>2, <1>3, <1>4, <1>5, <1>6, <1>7, <1>8, <1>9, <1>10, <1>11, <1>12, <1>13,
     <1>14, <1>15, <1>16, <1>17, <1>18, <1>19, <1>20, <1>21, <1>22, <1>23, <1>24,
     <1>25, <1>26, <1>27, <1>28, <1>29, <1>30, <1>31, <1>32, <1>33, ActionsCovered

-----------------------------------------------------------------------------
(* What has settled.                                                       *)

\* A node that has settled is not written to again.
LEMMA SettledStays ==
  ASSUME Shapes, Control, JobsStored, Mirrored, Next,
         NEW m \in Nodes, db[m] \in Settled
  PROVE  db'[m] = db[m] /\ attempt'[m] = attempt[m]
<1>1. CASE UNCHANGED nodeVars
  BY <1>1 DEF nodeVars
<1>2. CASE ScanMarks
  <2>0. PICK n \in Nodes : n = First(Markable)
    BY <1>2, FirstIn DEF ScanMarks, Markable
  <2>. QED
    BY <1>2, <2>0 DEF ScanMarks, Shapes, Settled
<1>3. ASSUME NEW n \in Nodes, SkipOne(n) PROVE db'[m] = db[m] /\ attempt'[m] = attempt[m]
  <2>1. db[n] \in {"pending", "ready"}
    BY <1>3 DEF SkipOne, Mirrored, Control
  <2>. QED
    BY <1>3, <2>1 DEF SkipOne, Shapes, Settled
<1>4. ASSUME NEW n \in Nodes, NodeBegins(n) PROVE db'[m] = db[m] /\ attempt'[m] = attempt[m]
  BY <1>4 DEF NodeBegins, Shapes, Settled
<1>5. ASSUME NEW n \in Nodes, NodeAnswers(n) PROVE db'[m] = db[m] /\ attempt'[m] = attempt[m]
  BY <1>5 DEF NodeAnswers, Shapes, Settled, Record
<1>6. ASSUME NEW n \in Nodes, NodeRetries(n) PROVE db'[m] = db[m] /\ attempt'[m] = attempt[m]
  BY <1>6 DEF NodeRetries, Shapes, Settled, Record
<1>7. ASSUME NEW n \in Nodes, NodeFails(n) PROVE db'[m] = db[m] /\ attempt'[m] = attempt[m]
  BY <1>7 DEF NodeFails, Shapes, Settled, Record
<1>8. ASSUME NEW n \in Nodes, CloseNode(n) PROVE db'[m] = db[m] /\ attempt'[m] = attempt[m]
  BY <1>8 DEF CloseNode, Shapes, Settled, Unsettled
<1>9. ASSUME NEW n \in Nodes, RecoverNode(n) PROVE db'[m] = db[m] /\ attempt'[m] = attempt[m]
  BY <1>9 DEF RecoverNode, Shapes, Settled, Interrupted
<1>10. ASSUME NEW n \in Nodes, RecoverSkips(n) PROVE db'[m] = db[m] /\ attempt'[m] = attempt[m]
  BY <1>10 DEF RecoverSkips, Shapes, Settled, Lost
<1>. QED
  BY <1>1, <1>2, <1>3, <1>4, <1>5, <1>6, <1>7, <1>8, <1>9, <1>10, StoreChanges

\* A scheduler goes on in memory, or is begun.
LEMMA SchedulerGoesOn ==
  ASSUME Control, Next, loop' # "off", cause' = "none"
  PROVE  (loop # "off" /\ cause = "none") \/ Start \/ Resume
<1>1. CASE Start \/ Cancel \/ Expire
  BY <1>1 DEF Start, Ended, Control, runVars, nodeVars, memVars, envVars,
              Cancel, Closes, Expire
<1>2. CASE Crash \/ Resume \/ ResumeRefused
  BY <1>2 DEF Crash, Ended, Control, Fresh, runVars, nodeVars, memVars,
              envVars, Resume, ResumeRefused, Closes, GoneVerdict
<1>3. CASE ScanReturns \/ ScanCancels \/ ScanMarks
  BY <1>3 DEF ScanReturns, Ended, Control, Scanning, runVars, nodeVars,
              memVars, envVars, ScanCancels, ScanMarks
<1>4. CASE ScanDispatches \/ ScanWaits \/ ScanThrows
  BY <1>4 DEF ScanDispatches, Ended, Control, Scanning, runVars, nodeVars,
              memVars, envVars, ScanWaits, ScanThrows, Stuck
<1>5. CASE Drain \/ Finish
  BY <1>5 DEF Drain, Ended, Control, runVars, nodeVars, memVars, envVars,
              Finish, FinishThrows
<1>6. ASSUME NEW n \in Nodes, NodeCompleted(n) \/ NodeStopsRun(n) \/ NodeLosesBranch(n) \/ SkipOne(n)
      PROVE  (loop # "off" /\ cause = "none") \/ Start \/ Resume
  BY <1>6 DEF NodeCompleted, Ended, Control, Wake, runVars, nodeVars,
              memVars, envVars, NodeStopsRun, NodeLosesBranch, SkipOne
<1>7. ASSUME NEW n \in Nodes, NodeBegins(n) \/ NodeRefused(n)
      PROVE  (loop # "off" /\ cause = "none") \/ Start \/ Resume
  BY <1>7 DEF NodeBegins, Ended, Control, runVars, nodeVars, memVars,
              envVars, NodeRefused
<1>8. ASSUME NEW n \in Nodes, NodeAnswers(n) \/ NodeRetries(n) \/ NodeOverruled(n) \/ NodeFails(n)
      PROVE  (loop # "off" /\ cause = "none") \/ Start \/ Resume
  BY <1>8 DEF NodeAnswers, Ended, Control, Running, Record, runVars,
              nodeVars, memVars, envVars, NodeRetries, NodeOverruled,
              NodeFails
<1>9. CASE AdaptersClosed \/ CloseRun
  BY <1>9 DEF AdaptersClosed, Ended, Control, Closes, runVars, nodeVars,
              memVars, envVars, CloseRun, Verdict
<1>10. ASSUME NEW n \in Nodes, CloseNode(n)
      PROVE  (loop # "off" /\ cause = "none") \/ Start \/ Resume
  BY <1>10 DEF CloseNode, Ended, Control, runVars, nodeVars, memVars, envVars
<1>11. ASSUME NEW n \in Nodes, RecoverNode(n) \/ RecoverSkips(n)
      PROVE  (loop # "off" /\ cause = "none") \/ Start \/ Resume
  BY <1>11 DEF RecoverNode, Ended, Control, runVars, nodeVars, memVars,
               envVars, RecoverSkips
<1>12. CASE RecoverStopped \/ RecoverFinished
  BY <1>12 DEF RecoverStopped, Ended, Control, Closes, Recovered, runVars,
               nodeVars, memVars, envVars, RecoverFinished
<1>13. CASE RecoverOutOfBudget \/ RecoverPauses
  BY <1>13 DEF RecoverOutOfBudget, Ended, Control, Closes, GoneVerdict,
               Recovered, runVars, nodeVars, memVars, envVars, RecoverPauses
<1>. QED
  BY <1>1, <1>2, <1>3, <1>4, <1>5, <1>6, <1>7, <1>8, <1>9, <1>10, <1>11,
     <1>12, <1>13, ActionsCovered

LEMMA PolicyKept ==
  ASSUME Next
  PROVE  policy' = policy
<1>1. CASE Start \/ Cancel \/ Expire
  BY <1>1 DEF Start, runVars, Cancel, Expire
<1>2. CASE Crash \/ Resume \/ ResumeRefused
  BY <1>2 DEF Crash, runVars, Resume,
              ResumeRefused
<1>3. CASE ScanReturns \/ ScanCancels \/ ScanMarks
  BY <1>3 DEF ScanReturns, runVars, ScanCancels,
              ScanMarks
<1>4. CASE ScanDispatches \/ ScanWaits \/ ScanThrows
  BY <1>4 DEF ScanDispatches, runVars, ScanWaits,
              ScanThrows
<1>5. CASE Drain \/ Finish
  BY <1>5 DEF Drain, runVars, Finish
<1>6. ASSUME NEW n \in Nodes, NodeCompleted(n) \/ NodeStopsRun(n) \/ NodeLosesBranch(n) \/ SkipOne(n)
      PROVE  policy' = policy
  BY <1>6 DEF NodeCompleted, runVars,
              NodeStopsRun, NodeLosesBranch, SkipOne
<1>7. ASSUME NEW n \in Nodes, NodeBegins(n) \/ NodeRefused(n)
      PROVE  policy' = policy
  BY <1>7 DEF NodeBegins, runVars, NodeRefused
<1>8. ASSUME NEW n \in Nodes, NodeAnswers(n) \/ NodeRetries(n) \/ NodeOverruled(n) \/ NodeFails(n)
      PROVE  policy' = policy
  BY <1>8 DEF NodeAnswers, runVars, NodeRetries,
              NodeOverruled, NodeFails
<1>9. CASE AdaptersClosed \/ CloseRun
  BY <1>9 DEF AdaptersClosed, runVars, CloseRun
<1>10. ASSUME NEW n \in Nodes, CloseNode(n) PROVE policy' = policy
  BY <1>10 DEF CloseNode, runVars
<1>11. ASSUME NEW n \in Nodes, RecoverNode(n) \/ RecoverSkips(n)
      PROVE  policy' = policy
  BY <1>11 DEF RecoverNode, runVars, RecoverSkips
<1>12. CASE RecoverStopped \/ RecoverFinished
  BY <1>12 DEF RecoverStopped, runVars,
               RecoverFinished
<1>13. CASE RecoverOutOfBudget \/ RecoverPauses
  BY <1>13 DEF RecoverOutOfBudget, runVars,
               RecoverPauses
<1>. QED
  BY <1>1, <1>2, <1>3, <1>4, <1>5, <1>6, <1>7, <1>8, <1>9, <1>10, <1>11,
     <1>12, <1>13, ActionsCovered

LEMMA SettledStoredStep ==
  ASSUME Shapes, Untouched, Control, Executing, JobsStored, Mirrored, SettledStored, Next
  PROVE  SettledStored'
<1>. SUFFICES ASSUME loop' # "off", cause' = "none", NEW m \in Nodes, st'[m] \in Settled
             PROVE  db'[m] \in Settled \/ LostToBudget'
  BY DEF SettledStored
<1>1. CASE Start
  BY <1>1 DEF Start, Untouched, Settled, memVars
<1>2. CASE Resume
  BY <1>2 DEF Resume, Control, nodeVars
<1>3. CASE loop # "off" /\ cause = "none" /\ st[m] \in Settled /\ ~Resume
  <2>1. ~Crash
    BY DEF Crash, Fresh
  <2>2. Onwards /\ policy' = policy
    <3>1. Onwards
      BY <1>3, <2>1, GoesOnwards
    <3>. QED
      BY <3>1, PolicyKept
  <2>3. LostToBudget => LostToBudget'
    BY <2>2, BudgetAssumption DEF LostToBudget, Onwards, Shapes
  <2>4. db[m] \in Settled \/ LostToBudget
    BY <1>3 DEF SettledStored
  <2>. QED
    BY <2>3, <2>4, SettledStays
<1>4. CASE loop # "off" /\ cause = "none" /\ st[m] \notin Settled
  <2>1. CASE UNCHANGED <<st, job>>
    BY <1>4, <2>1
  <2>2. CASE ScanCancels \/ Crash \/ Resume \/ Drain
    BY <1>4, <2>2, <1>2 DEF ScanCancels, Crash, Fresh, Drain, Control
  <2>3. CASE ScanMarks
    <3>0. PICK n \in Nodes : n = First(Markable)
      BY <2>3, FirstIn DEF ScanMarks, Markable
    <3>. QED
      BY <1>4, <2>3, <3>0 DEF ScanMarks, Shapes, Settled
  <2>4. CASE ScanDispatches
    <3>0. PICK n \in Nodes : n = First(Dispatchable)
      BY <2>4, FirstIn DEF ScanDispatches, Dispatchable
    <3>. QED
      BY <1>4, <2>4, <3>0 DEF ScanDispatches, Shapes, Settled
  <2>5. ASSUME NEW n \in Nodes, NodeCompleted(n) PROVE db'[m] \in Settled
    <3>1. n = m
      BY <1>4, <2>5 DEF NodeCompleted, Shapes
    <3>. QED
      BY <2>5, <3>1 DEF NodeCompleted, JobsStored, JobStored, Settled, nodeVars
  <2>6. ASSUME NEW n \in Nodes, NodeStopsRun(n) PROVE FALSE
    BY <2>6 DEF NodeStopsRun, Shapes
  <2>7. ASSUME NEW n \in Nodes, NodeLosesBranch(n) PROVE db'[m] \in Settled \/ LostToBudget'
    <3>1. n = m /\ job[n] = "err"
      BY <1>4, <2>7 DEF NodeLosesBranch, Shapes
    <3>2. ~Stopped
      BY <1>4, <2>7 DEF NodeLosesBranch, Stopped
    <3>3. db[n] \in Settled \/ expired \/ started >= MaxTurns
      BY <3>1, <3>2 DEF JobsStored, JobStored
    <3>. QED
      BY <2>7, <3>1, <3>3 DEF NodeLosesBranch, LostToBudget, nodeVars, runVars, envVars
  <2>8. ASSUME NEW n \in Nodes, SkipOne(n) PROVE db'[m] \in Settled
    <3>1. n = m
      BY <1>4, <2>8 DEF SkipOne, Shapes
    <3>. QED
      BY <2>8, <3>1 DEF SkipOne, Shapes, Settled
  <2>9. ASSUME NEW n \in Nodes,
               \/ NodeBegins(n) \/ NodeRefused(n) \/ NodeAnswers(n)
               \/ NodeRetries(n) \/ NodeOverruled(n) \/ NodeFails(n)
        PROVE  FALSE
    BY <1>4, <2>9 DEF NodeBegins, NodeRefused, NodeAnswers, NodeRetries,
                      NodeOverruled, NodeFails
  <2>. QED
    BY <2>1, <2>2, <2>3, <2>4, <2>5, <2>6, <2>7, <2>8, <2>9, ScheduleChanges
<1>. QED
  BY <1>1, <1>2, <1>3, <1>4, SchedulerGoesOn

\* When a run has ended and nothing of it is in memory, it is over.
LEMMA NothingLeft ==
  ASSUME Control, run \in Ended, loop = "off", cpu = "free",
         \A n \in Nodes : job[n] = "none", Next
  PROVE  FALSE
<1>1. ASSUME Start \/ Cancel \/ Expire PROVE FALSE
  BY <1>1 DEF Start, Ended, Cancel,
              Closes, Expire
<1>2. ASSUME Crash \/ Resume \/ ResumeRefused PROVE FALSE
  BY <1>2 DEF Crash, Fresh, Ended,
              Resume, ResumeRefused, Closes, GoneVerdict
<1>3. ASSUME ScanReturns \/ ScanCancels \/ ScanMarks PROVE FALSE
  BY <1>3 DEF ScanReturns, Scanning, Ended, ScanCancels, ScanMarks
<1>4. ASSUME ScanDispatches \/ ScanWaits \/ ScanThrows PROVE FALSE
  BY <1>4 DEF ScanDispatches, Scanning, Ended, ScanWaits, ScanThrows, Stuck
<1>5. ASSUME Drain \/ Finish PROVE FALSE
  BY <1>5 DEF Drain, Ended, Finish,
              FinishThrows
<1>6. ASSUME NEW n \in Nodes, NodeCompleted(n) \/ NodeStopsRun(n) \/ NodeLosesBranch(n) \/ SkipOne(n)
      PROVE  FALSE
  BY <1>6 DEF NodeCompleted, Wake, Ended, NodeStopsRun, NodeLosesBranch, SkipOne, Control
<1>7. ASSUME NEW n \in Nodes, NodeBegins(n) \/ NodeRefused(n) PROVE FALSE
  BY <1>7 DEF NodeBegins, Ended,
              NodeRefused
<1>8. ASSUME NEW n \in Nodes, NodeAnswers(n) \/ NodeRetries(n) \/ NodeOverruled(n) \/ NodeFails(n)
      PROVE  FALSE
  BY <1>8 DEF NodeAnswers, Running, Record, Ended, NodeRetries, NodeOverruled, NodeFails
<1>9. ASSUME AdaptersClosed \/ CloseRun PROVE FALSE
  BY <1>9 DEF AdaptersClosed, Closes, Ended, CloseRun, Verdict
<1>10. ASSUME NEW n \in Nodes, CloseNode(n) PROVE FALSE
  BY <1>10 DEF CloseNode
<1>11. ASSUME NEW n \in Nodes, RecoverNode(n) \/ RecoverSkips(n) PROVE FALSE
  BY <1>11 DEF RecoverNode, Ended,
               RecoverSkips
<1>12. ASSUME RecoverStopped \/ RecoverFinished PROVE FALSE
  BY <1>12 DEF RecoverStopped, Closes, Recovered, Ended, RecoverFinished
<1>13. ASSUME RecoverOutOfBudget \/ RecoverPauses PROVE FALSE
  BY <1>13 DEF RecoverOutOfBudget, Closes, GoneVerdict, Recovered, Ended, RecoverPauses
<1>. QED
  BY <1>1, <1>2, <1>3, <1>4, <1>5, <1>6, <1>7, <1>8, <1>9, <1>10, <1>11,
     <1>12, <1>13, ActionsCovered

\* Who ends a run.
LEMMA RunEnds ==
  ASSUME Shapes, Untouched, Control, Next
  PROVE  run' \in Ended => run' = run \/ Finish \/ CloseRun \/ RecoverFinished
<1>1. CASE Start \/ Cancel \/ Expire
  BY <1>1 DEF Start, Ended, runVars, Cancel,
              Control, Untouched, Closes, Expire
<1>2. CASE Crash \/ Resume \/ ResumeRefused
  BY <1>2 DEF Crash, Ended, Control, Untouched, Fresh, runVars, Resume, ResumeRefused,
              Closes, GoneVerdict
<1>3. CASE ScanReturns \/ ScanCancels \/ ScanMarks
  BY <1>3 DEF ScanReturns, Ended, Control, Untouched, Scanning, runVars, ScanCancels,
              ScanMarks
<1>4. CASE ScanDispatches \/ ScanWaits \/ ScanThrows
  BY <1>4 DEF ScanDispatches, Ended, Control, Untouched, Scanning, runVars, ScanWaits,
              ScanThrows, Stuck
<1>5. CASE Drain
  BY <1>5 DEF Drain, Ended, runVars
<1>6. ASSUME NEW n \in Nodes, NodeCompleted(n) \/ NodeStopsRun(n) \/ NodeLosesBranch(n) \/ SkipOne(n)
      PROVE  run' \in Ended => run' = run
  BY <1>6 DEF NodeCompleted, Ended, Control, Untouched, Wake, runVars, NodeStopsRun,
              NodeLosesBranch,
              SkipOne
<1>7. ASSUME NEW n \in Nodes, NodeBegins(n) \/ NodeRefused(n)
      PROVE  run' \in Ended => run' = run
  BY <1>7 DEF NodeBegins, Ended, runVars,
              NodeRefused
<1>8. ASSUME NEW n \in Nodes, NodeAnswers(n) \/ NodeRetries(n) \/ NodeOverruled(n) \/ NodeFails(n)
      PROVE  run' \in Ended => run' = run
  BY <1>8 DEF NodeAnswers, Ended, Control, Untouched, Running, Record,
              runVars, NodeRetries,
              NodeOverruled, NodeFails
<1>9. CASE AdaptersClosed
  BY <1>9 DEF AdaptersClosed, Ended, Control, Untouched, Closes, runVars
<1>10. ASSUME NEW n \in Nodes, CloseNode(n) PROVE run' \in Ended => run' = run
  BY <1>10 DEF CloseNode, Ended, runVars
<1>11. ASSUME NEW n \in Nodes, RecoverNode(n) \/ RecoverSkips(n)
      PROVE  run' \in Ended => run' = run
  BY <1>11 DEF RecoverNode, Ended, runVars,
               RecoverSkips
<1>12. CASE RecoverStopped
  BY <1>12 DEF RecoverStopped, Ended, Control, Untouched, Closes, Recovered,
               runVars
<1>13. CASE RecoverOutOfBudget \/ RecoverPauses
  BY <1>13 DEF RecoverOutOfBudget, Ended, Control, Untouched, Closes,
               GoneVerdict, Recovered, runVars,
               RecoverPauses
<1>. QED
  BY <1>1, <1>2, <1>3, <1>4, <1>5, <1>6, <1>7, <1>8, <1>9, <1>10, <1>11,
     <1>12, <1>13, ActionsCovered

LEMMA EndedClosedStep ==
  ASSUME Shapes, Untouched, Control, Executing, JobsStored, Mirrored, SettledStored,
         EndedClosed, Next
  PROVE  EndedClosed'
<1>. SUFFICES ASSUME run' \in Ended
             PROVE  \/ \A n \in Nodes : db'[n] \in Settled
                    \/ /\ run' = "completed" /\ LostToBudget'
                       /\ loop' = "off" /\ cpu' = "free" /\ \A n \in Nodes : job'[n] = "none"
  BY DEF EndedClosed
<1>1. CASE run \in Ended
  <2>1. \A n \in Nodes : db[n] \in Settled
    BY <1>1, NothingLeft DEF EndedClosed
  <2>. QED
    BY <2>1, SettledStays
<1>2. CASE run \notin Ended /\ Finish
  <2>1. ~FinishThrows
    BY <1>2 DEF Finish
  <2>2. /\ run' = "completed" /\ loop' = "off" /\ cpu' = "free"
        /\ UNCHANGED <<db, job, policy, expired, started>>
    BY <1>2, <2>1 DEF Finish, nodeVars, envVars
  <2>3. /\ cause = "none" /\ AllSettled /\ loop # "off"
    BY <1>2 DEF Finish, Control
  <2>4. \A n \in Nodes : job[n] = "none" /\ (db[n] \in Settled \/ LostToBudget)
    BY <2>3 DEF AllSettled, SettledStored, Executing, Settled
  <2>. QED
    BY <2>2, <2>4 DEF LostToBudget
<1>3. CASE run \notin Ended /\ CloseRun
  BY <1>3 DEF CloseRun, Unsettled, nodeVars
<1>4. CASE run \notin Ended /\ RecoverFinished
  BY <1>4 DEF RecoverFinished, Unsettled, nodeVars
<1>. QED
  BY <1>1, <1>2, <1>3, <1>4, RunEnds

-----------------------------------------------------------------------------
(* The stored rows.                                                        *)

LEMMA RowKept ==
  ASSUME NEW n \in Nodes, RowStored(n), inputs \subseteq inputs',
         db'[n] = db[n], attempt'[n] = attempt[n], restarted'[n] = restarted[n],
         db[n] = "running" => participant'[Owner[n]] = participant[Owner[n]]
  PROVE  RowStored(n)'
BY DEF RowStored

LEMMA NodeStoredStep ==
  ASSUME Flags, Shapes, Control, Mirrored, NodeStored, OwnersApart, Next
  PROVE  NodeStored'
<1>1. CASE UNCHANGED nodeVars
  BY <1>1, RowKept DEF nodeVars, NodeStored
<1>2. CASE ScanMarks
  <2>0. PICK n \in Nodes : n = First(Markable) /\ n \in Markable
    BY <1>2, FirstIn DEF ScanMarks, Markable
  <2>1. /\ UNCHANGED <<attempt, restarted, inputs, participant>>
        /\ \A m \in Nodes \ {n} : db'[m] = db[m]
    BY <1>2, <2>0 DEF ScanMarks, Shapes
  <2>2. db[n] \in {"pending", "ready"} => db[n] = "pending"
    BY <1>2, <2>0 DEF ScanMarks, Scanning, Mirrored, Markable, Settled
  <2>3. db'[n] = db[n] \/ (db[n] = "pending" /\ db'[n] = "ready")
    BY <1>2, <2>0, <2>2 DEF ScanMarks, Shapes
  <2>4. RowStored(n)'
    BY <2>1, <2>3 DEF NodeStored, RowStored
  <2>. QED
    BY <2>1, <2>4, RowKept DEF NodeStored
<1>3. ASSUME NEW n \in Nodes, SkipOne(n) PROVE NodeStored'
  <2>1. /\ db'[n] \in {"skipped", "cancelled"} /\ \A m \in Nodes \ {n} : db'[m] = db[m]
        /\ UNCHANGED <<attempt, restarted, inputs, participant>>
    BY <1>3 DEF SkipOne, Shapes
  <2>2. RowStored(n)'
    BY <2>1 DEF NodeStored, RowStored
  <2>. QED
    BY <2>1, <2>2, RowKept DEF NodeStored
<1>4. ASSUME NEW n \in Nodes, NodeBegins(n) PROVE NodeStored'
  <2>1. /\ db'[n] = "running" /\ attempt'[n] = NextAttempt(n) /\ restarted'[n] = FALSE
        /\ participant'[Owner[n]] = "active"
        /\ UNCHANGED inputs
    BY <1>4, GraphAssumption DEF NodeBegins, Shapes, Flags
  <2>2. /\ \A m \in Nodes \ {n} : db'[m] = db[m] /\ attempt'[m] = attempt[m] /\ restarted'[m] = restarted[m]
        /\ \A m \in Nodes : participant[Owner[m]] = "active" => participant'[Owner[m]] = "active"
    BY <1>4, GraphAssumption DEF NodeBegins, Shapes, Flags
  <2>3. NextAttempt(n) <= RetryLimit[n] + 1 /\ NextAttempt(n) > 0
    BY <1>4 DEF NodeBegins, MayBegin, NextAttempt, Shapes
  <2>4. RowStored(n)'
    BY <2>1, <2>3 DEF RowStored
  <2>5. \A m \in Nodes : db[m] = "running" => participant[Owner[m]] = "active"
    BY DEF NodeStored, RowStored
  <2>. QED
    BY <2>1, <2>2, <2>4, <2>5, RowKept DEF NodeStored
<1>5. ASSUME NEW n \in Nodes, NodeAnswers(n) PROVE NodeStored'
  <2>1. /\ db[n] = "running" /\ db'[n] \in {"completed"}
        /\ attempt' = attempt /\ restarted' = restarted
        /\ inputs' = inputs \cup {<<n, attempt[n]>>}
        /\ \A m \in Nodes \ {n} : db'[m] = db[m]
    BY <1>5 DEF NodeAnswers, Record, Shapes
  <2>2. attempt[n] \in Nat /\ attempt[n] > 0 /\ ~restarted[n] /\ attempt[n] <= RetryLimit[n] + 1
    BY <2>1 DEF NodeStored, RowStored, Shapes
  <2>3. \A m \in Nodes \ {n} : db[m] = "running" => participant'[Owner[m]] = participant[Owner[m]]
    BY <1>5, <2>1, GraphAssumption DEF NodeAnswers, Record, Shapes, OwnersApart,
                                       Interrupted
  <2>4. RowStored(n)'
    BY <2>1, <2>2 DEF RowStored
  <2>. QED
    BY <2>1, <2>3, <2>4, RowKept DEF NodeStored
<1>6. ASSUME NEW n \in Nodes, NodeRetries(n) PROVE NodeStored'
  <2>1. /\ db[n] = "running" /\ db'[n] \in {"ready"}
        /\ attempt' = attempt /\ restarted' = restarted
        /\ inputs' = inputs \cup {<<n, attempt[n]>>}
        /\ \A m \in Nodes \ {n} : db'[m] = db[m]
    BY <1>6 DEF NodeRetries, Record, Shapes
  <2>2. attempt[n] \in Nat /\ attempt[n] > 0 /\ ~restarted[n] /\ attempt[n] <= RetryLimit[n] + 1
    BY <2>1 DEF NodeStored, RowStored, Shapes
  <2>3. \A m \in Nodes \ {n} : db[m] = "running" => participant'[Owner[m]] = participant[Owner[m]]
    BY <1>6, <2>1, GraphAssumption DEF NodeRetries, Record, Shapes, OwnersApart,
                                       Interrupted
  <2>4. RowStored(n)'
    BY <1>6, <2>1, <2>2 DEF RowStored, NodeRetries, MayRetry
  <2>. QED
    BY <2>1, <2>3, <2>4, RowKept DEF NodeStored
<1>7. ASSUME NEW n \in Nodes, NodeFails(n) PROVE NodeStored'
  <2>1. /\ db[n] = "running" /\ db'[n] \in {"failed", "cancelled"}
        /\ attempt' = attempt /\ restarted' = restarted
        /\ inputs' = inputs \cup {<<n, attempt[n]>>}
        /\ \A m \in Nodes \ {n} : db'[m] = db[m]
    BY <1>7 DEF NodeFails, Record, Shapes
  <2>2. attempt[n] \in Nat /\ attempt[n] > 0 /\ ~restarted[n] /\ attempt[n] <= RetryLimit[n] + 1
    BY <2>1 DEF NodeStored, RowStored, Shapes
  <2>3. \A m \in Nodes \ {n} : db[m] = "running" => participant'[Owner[m]] = participant[Owner[m]]
    <3>1. \E v : participant' = [participant EXCEPT ![Owner[n]] = v]
      BY <1>7 DEF NodeFails, Record
    <3>2. \A m \in Nodes \ {n} : db[m] = "running" => Owner[m] # Owner[n]
      BY <2>1 DEF OwnersApart, Interrupted
    <3>. QED
      BY <3>1, <3>2, GraphAssumption DEF Shapes
  <2>4. RowStored(n)'
    BY <2>1, <2>2 DEF RowStored
  <2>. QED
    BY <2>1, <2>3, <2>4, RowKept DEF NodeStored
<1>8. ASSUME NEW n \in Nodes, CloseNode(n) PROVE NodeStored'
  <2>1. /\ db'[n] \in {"skipped", "cancelled"} /\ \A m \in Nodes \ {n} : db'[m] = db[m]
        /\ UNCHANGED <<attempt, restarted, inputs, participant>>
    BY <1>8 DEF CloseNode, Shapes
  <2>2. RowStored(n)'
    BY <2>1 DEF NodeStored, RowStored
  <2>. QED
    BY <2>1, <2>2, RowKept DEF NodeStored
<1>9. ASSUME NEW n \in Nodes, RecoverNode(n) PROVE NodeStored'
  <2>1. /\ db[n] = "running" /\ db'[n] = "ready" /\ restarted'[n] = TRUE
        /\ UNCHANGED <<attempt, inputs>>
        /\ \A m \in Nodes \ {n} : db'[m] = db[m] /\ restarted'[m] = restarted[m]
    BY <1>9 DEF RecoverNode, Interrupted, Shapes, Flags
  <2>2. \A m \in Nodes \ {n} : db[m] = "running" => participant'[Owner[m]] = participant[Owner[m]]
    BY <1>9, GraphAssumption DEF RecoverNode, Shapes, OwnersApart, Interrupted
  <2>3. RowStored(n)'
    BY <2>1 DEF RowStored, NodeStored
  <2>. QED
    BY <2>1, <2>2, <2>3, RowKept DEF NodeStored
<1>10. ASSUME NEW n \in Nodes, RecoverSkips(n) PROVE NodeStored'
  <2>1. /\ db'[n] \in {"skipped", "cancelled"} /\ \A m \in Nodes \ {n} : db'[m] = db[m]
        /\ UNCHANGED <<attempt, restarted, inputs, participant>>
    BY <1>10 DEF RecoverSkips, Shapes
  <2>2. RowStored(n)'
    BY <2>1 DEF NodeStored, RowStored
  <2>. QED
    BY <2>1, <2>2, RowKept DEF NodeStored
<1>. QED
  BY <1>1, <1>2, <1>3, <1>4, <1>5, <1>6, <1>7, <1>8, <1>9, <1>10, StoreChanges

(* Dependencies.                                                           *)
LEMMA DepsDoneStep ==
  ASSUME Shapes, Control, JobsStored, Mirrored, DepsDone, Next
  PROVE  DepsDone'
<1>. SUFFICES ASSUME NEW m \in Nodes, db'[m] \in {"ready", "running", "completed"},
                    NEW d \in Deps[m]
             PROVE  db'[d] = "completed"
  BY DEF DepsDone
<1>0. d \in Nodes
  BY GraphAssumption
<1>1. db[d] = "completed" => db'[d] = "completed"
  BY <1>0, SettledStays DEF Settled
<1>2. CASE db[m] \in {"ready", "running", "completed"}
  BY <1>1, <1>2 DEF DepsDone
<1>3. CASE db[m] \notin {"ready", "running", "completed"}
  <2>1. CASE UNCHANGED nodeVars
    BY <1>3, <2>1 DEF nodeVars
  <2>2. CASE ScanMarks
    <3>0. PICK n \in Nodes : n = First(Markable) /\ n \in Markable
      BY <2>2, FirstIn DEF ScanMarks, Markable
    <3>1. n = m
      BY <1>3, <2>2, <3>0 DEF ScanMarks, Shapes
    <3>2. st[d] = "completed"
      BY <3>0, <3>1 DEF Markable
    <3>. QED
      BY <1>0, <1>1, <3>2 DEF JobsStored, JobStored
  <2>3. ASSUME NEW n \in Nodes,
               \/ SkipOne(n) \/ CloseNode(n) \/ RecoverSkips(n)
        PROVE  FALSE
    BY <1>3, <2>3 DEF SkipOne, CloseNode, RecoverSkips, Shapes
  <2>4. ASSUME NEW n \in Nodes, NodeBegins(n) PROVE FALSE
    BY <1>3, <2>4 DEF NodeBegins, Shapes
  <2>5. ASSUME NEW n \in Nodes, NodeAnswers(n) \/ NodeRetries(n) \/ NodeFails(n) PROVE FALSE
    BY <1>3, <2>5 DEF NodeAnswers, NodeRetries, NodeFails, Record, Shapes
  <2>6. ASSUME NEW n \in Nodes, RecoverNode(n) PROVE FALSE
    BY <1>3, <2>6 DEF RecoverNode, Interrupted, Shapes
  <2>. QED
    BY <2>1, <2>2, <2>3, <2>4, <2>5, <2>6, StoreChanges
<1>. QED
  BY <1>2, <1>3

(* One turn at a time for each participant.                                *)
LEMMA OwnersApartStep ==
  ASSUME Shapes, Control, Executing, JobsStored, OwnersApart, Next
  PROVE  OwnersApart'
<1>1. CASE Interrupted' \subseteq Interrupted
  BY <1>1 DEF OwnersApart
<1>2. CASE UNCHANGED nodeVars
  BY <1>1, <1>2 DEF nodeVars, Interrupted
<1>3. CASE ScanMarks
  <2>0. PICK n \in Nodes : n = First(Markable)
    BY <1>3, FirstIn DEF ScanMarks, Markable
  <2>. QED
    BY <1>1, <1>3, <2>0 DEF ScanMarks, Shapes, Interrupted
<1>4. ASSUME NEW n \in Nodes, NodeBegins(n) PROVE OwnersApart'
  <2>1. Interrupted' \subseteq Interrupted \cup {n}
    BY <1>4 DEF NodeBegins, Shapes, Interrupted
  <2>2. \A m \in Interrupted : job[m] = "turn"
    BY <1>4 DEF NodeBegins, JobsStored, JobStored, Interrupted
  <2>3. Interrupted \subseteq Active /\ n \in Active
    BY <1>4, <2>2 DEF NodeBegins, Executing, Active, Interrupted
  <2>4. \A m, k \in Active : Owner[m] = Owner[k] => m = k
    BY DEF Executing
  <2>. QED
    BY <2>1, <2>3, <2>4 DEF OwnersApart
<1>5. ASSUME NEW n \in Nodes,
             \/ SkipOne(n) \/ CloseNode(n) \/ RecoverNode(n) \/ RecoverSkips(n)
      PROVE  OwnersApart'
  BY <1>1, <1>5 DEF SkipOne, CloseNode, RecoverNode, RecoverSkips, Shapes, Interrupted
<1>6. ASSUME NEW n \in Nodes, NodeAnswers(n) \/ NodeRetries(n) \/ NodeFails(n) PROVE OwnersApart'
  BY <1>1, <1>6 DEF NodeAnswers, NodeRetries, NodeFails, Record, Shapes, Interrupted
<1>. QED
  BY <1>2, <1>3, <1>4, <1>5, <1>6, StoreChanges

-----------------------------------------------------------------------------
(* Stored inputs and the number of attempts.                               *)

LEMMA InputsStoredStep ==
  ASSUME Shapes, Shapes', Control, JobsStored, Mirrored, DepsDone, InputsStored,
         AttemptsCounted, Next
  PROVE  InputsStored'
<1>1. /\ \A d \in Nodes : db[d] = "completed" => db'[d] = "completed"
      /\ \A n \in Nodes : Deps[n] \subseteq Nodes
  BY SettledStays, GraphAssumption DEF Settled
<1>2. CASE UNCHANGED <<inputs, history>> /\ \A n \in Nodes : attempt'[n] >= attempt[n]
  <2>1. \A i \in inputs : i[1] \in Nodes /\ i[2] \in Nat
    BY DEF Shapes
  <2>2. \A n \in Nodes : attempt[n] \in Nat /\ attempt'[n] \in Nat
    BY DEF Shapes
  <2>. QED
    BY <1>1, <1>2, <2>1, <2>2 DEF InputsStored
<1>3. CASE UNCHANGED <<inputs, history, attempt>>
  BY <1>2, <1>3 DEF Shapes
<1>4. ASSUME NEW n \in Nodes, NodeBegins(n) PROVE InputsStored'
  <2>1. \A m \in Nodes : attempt'[m] >= attempt[m]
    BY <1>4 DEF NodeBegins, NextAttempt, Shapes
  <2>. QED
    BY <1>2, <1>4, <2>1 DEF NodeBegins
<1>5. ASSUME NEW n \in Nodes, NodeAnswers(n) PROVE InputsStored'
  <2>1. /\ db[n] = "running" /\ attempt' = attempt /\ restarted' = restarted
        /\ inputs' = inputs \cup {<<n, attempt[n]>>} /\ history' = history + 1
        /\ db'[n] # "running" /\ \A m \in Nodes \ {n} : db'[m] = db[m]
    BY <1>5 DEF NodeAnswers, Record, Shapes
  <2>2. attempt[n] \in Nat /\ attempt[n] > 0 /\ <<n, attempt[n]>> \notin inputs
    BY <2>1 DEF AttemptsCounted, Begun, Shapes
  <2>3. \A d \in Deps[n] : db[d] = "completed"
    BY <2>1 DEF DepsDone
  <2>4. IsFiniteSet(inputs') /\ history' = Cardinality(inputs')
    BY <2>1, <2>2, FS_AddElement DEF InputsStored
  <2>5. \A i \in inputs' : i[2] \in 1..attempt'[i[1]] /\ \A d \in Deps[i[1]] : db[d] = "completed"
    BY <2>1, <2>2, <2>3 DEF InputsStored
  <2>6. \A i \in inputs' : i[1] \in Nodes
    BY DEF Shapes
  <2>. QED
    BY <2>4, <2>5, <2>6, <1>1 DEF InputsStored
<1>6. ASSUME NEW n \in Nodes, NodeRetries(n) PROVE InputsStored'
  <2>1. /\ db[n] = "running" /\ attempt' = attempt /\ restarted' = restarted
        /\ inputs' = inputs \cup {<<n, attempt[n]>>} /\ history' = history + 1
        /\ db'[n] # "running" /\ \A m \in Nodes \ {n} : db'[m] = db[m]
    BY <1>6 DEF NodeRetries, Record, Shapes
  <2>2. attempt[n] \in Nat /\ attempt[n] > 0 /\ <<n, attempt[n]>> \notin inputs
    BY <2>1 DEF AttemptsCounted, Begun, Shapes
  <2>3. \A d \in Deps[n] : db[d] = "completed"
    BY <2>1 DEF DepsDone
  <2>4. IsFiniteSet(inputs') /\ history' = Cardinality(inputs')
    BY <2>1, <2>2, FS_AddElement DEF InputsStored
  <2>5. \A i \in inputs' : i[2] \in 1..attempt'[i[1]] /\ \A d \in Deps[i[1]] : db[d] = "completed"
    BY <2>1, <2>2, <2>3 DEF InputsStored
  <2>6. \A i \in inputs' : i[1] \in Nodes
    BY DEF Shapes
  <2>. QED
    BY <2>4, <2>5, <2>6, <1>1 DEF InputsStored
<1>7. ASSUME NEW n \in Nodes, NodeFails(n) PROVE InputsStored'
  <2>1. /\ db[n] = "running" /\ attempt' = attempt /\ restarted' = restarted
        /\ inputs' = inputs \cup {<<n, attempt[n]>>} /\ history' = history + 1
        /\ db'[n] # "running" /\ \A m \in Nodes \ {n} : db'[m] = db[m]
    BY <1>7 DEF NodeFails, Record, Shapes
  <2>2. attempt[n] \in Nat /\ attempt[n] > 0 /\ <<n, attempt[n]>> \notin inputs
    BY <2>1 DEF AttemptsCounted, Begun, Shapes
  <2>3. \A d \in Deps[n] : db[d] = "completed"
    BY <2>1 DEF DepsDone
  <2>4. IsFiniteSet(inputs') /\ history' = Cardinality(inputs')
    BY <2>1, <2>2, FS_AddElement DEF InputsStored
  <2>5. \A i \in inputs' : i[2] \in 1..attempt'[i[1]] /\ \A d \in Deps[i[1]] : db[d] = "completed"
    BY <2>1, <2>2, <2>3 DEF InputsStored
  <2>6. \A i \in inputs' : i[1] \in Nodes
    BY DEF Shapes
  <2>. QED
    BY <2>4, <2>5, <2>6, <1>1 DEF InputsStored
<1>8. ASSUME NEW n \in Nodes,
             \/ SkipOne(n) \/ CloseNode(n) \/ RecoverNode(n) \/ RecoverSkips(n)
      PROVE  InputsStored'
  BY <1>3, <1>8 DEF SkipOne, CloseNode, RecoverNode, RecoverSkips
<1>9. CASE ScanMarks
  BY <1>3, <1>9 DEF ScanMarks
<1>. QED
  BY <1>3, <1>4, <1>5, <1>6, <1>7, <1>8, <1>9, StoreChanges DEF nodeVars

LEMMA FewerBegun ==
  ASSUME Shapes, AttemptsCounted, InputsStored, Begun' \subseteq Begun,
         UNCHANGED <<attempt, inputs, history, started>>,
         loop' # "off" \/ (\E n \in Nodes : job'[n] # "none")
           => loop # "off" \/ (\E n \in Nodes : job[n] # "none")
  PROVE  AttemptsCounted'
<1>1. IsFiniteSet(Begun)
  BY GraphAssumption, FS_Subset DEF Begun
<1>2. /\ Cardinality(Begun') <= Cardinality(Begun)
      /\ Cardinality(Begun) \in Nat /\ Cardinality(Begun') \in Nat
  BY <1>1, FS_Subset, FS_CardinalityType
<1>3. \A n \in Begun' : attempt'[n] > 0 /\ <<n, attempt'[n]>> \notin inputs'
  BY DEF AttemptsCounted
<1>. QED
  BY <1>2, <1>3, BudgetAssumption DEF AttemptsCounted, Shapes

LEMMA AttemptsCountedStep ==
  ASSUME Flags, Shapes, Shapes', Untouched, Control, Executing, JobsStored, Mirrored,
         NodeStored, InputsStored, AttemptsCounted, Next
  PROVE  AttemptsCounted'
<1>1. /\ IsFiniteSet(Begun) /\ IsFiniteSet(Begun')
      /\ Cardinality(Begun) \in Nat /\ Cardinality(Begun') \in Nat
      /\ MaxTurns \in Nat /\ started \in Nat /\ started' \in 0..MaxTurns /\ history \in Nat
  <2>1. IsFiniteSet(Begun) /\ IsFiniteSet(Begun')
    BY GraphAssumption, FS_Subset DEF Begun
  <2>. QED
    BY <2>1, FS_CardinalityType, BudgetAssumption DEF Shapes
<1>2. CASE /\ UNCHANGED <<nodeVars, started>>
           /\ loop' # "off" \/ (\E n \in Nodes : job'[n] # "none")
                => loop # "off" \/ (\E n \in Nodes : job[n] # "none")
  BY <1>2, FewerBegun DEF nodeVars, Begun
<1>3. CASE Start
  <2>1. Begun = {} /\ Begun' = {} /\ inputs = {} /\ history = 0 /\ history' = 0 /\ started' = 0
    BY <1>3 DEF Start, Untouched, Begun, nodeVars, memVars
  <2>2. Cardinality(Begun') = 0
    BY <2>1, FS_EmptySet
  <2>. QED
    BY <2>1, <2>2, <1>1 DEF AttemptsCounted
<1>4. CASE ScanMarks
  <2>0. PICK n \in Nodes : n = First(Markable) /\ n \in Markable
    BY <1>4, FirstIn DEF ScanMarks, Markable
  <2>1. /\ UNCHANGED <<attempt, restarted, inputs, history, started, job>> /\ loop = "scan"
        /\ \A m \in Nodes \ {n} : db'[m] = db[m]
    BY <1>4, <2>0 DEF ScanMarks, Scanning, Shapes
  <2>2. db[n] \in {"pending", "ready"} => db[n] = "pending"
    BY <1>4, <2>0 DEF ScanMarks, Scanning, Mirrored, Markable, Settled
  <2>3. db'[n] = db[n] \/ (db[n] = "pending" /\ db'[n] = "ready")
    BY <1>4, <2>0, <2>2 DEF ScanMarks, Shapes
  <2>4. Begun' \subseteq Begun
    BY <2>1, <2>3 DEF Begun, NodeStored, RowStored
  <2>. QED
    BY <2>1, <2>4, FewerBegun
<1>5. ASSUME NEW n \in Nodes, SkipOne(n) PROVE AttemptsCounted'
  <2>1. /\ db'[n] \in {"skipped", "cancelled"} /\ \A m \in Nodes \ {n} : db'[m] = db[m]
        /\ UNCHANGED <<attempt, restarted, inputs, history, started, loop, job>>
    BY <1>5 DEF SkipOne, Shapes, memVars
  <2>2. Begun' \subseteq Begun
    BY <2>1 DEF Begun
  <2>. QED
    BY <2>1, <2>2, FewerBegun
<1>6. ASSUME NEW n \in Nodes, NodeBegins(n) PROVE AttemptsCounted'
  <2>1. /\ db'[n] = "running" /\ restarted'[n] = FALSE /\ attempt'[n] = NextAttempt(n)
        /\ \A m \in Nodes \ {n} : db'[m] = db[m] /\ restarted'[m] = restarted[m] /\ attempt'[m] = attempt[m]
        /\ UNCHANGED <<inputs, history>> /\ started' = started + 1 /\ job[n] # "none" /\ db[n] = "ready"
    BY <1>6 DEF NodeBegins, Shapes, Flags
  <2>2. Begun' = Begun \cup {n}
    BY <2>1 DEF Begun
  <2>3. Cardinality(Begun') <= Cardinality(Begun) + 1
    BY <2>2, <1>1, FS_AddElement
  <2>4. history' + Cardinality(Begun') <= started'
    BY <1>1, <2>1, <2>3 DEF AttemptsCounted
  <2>5. attempt'[n] > 0 /\ <<n, attempt'[n]>> \notin inputs'
    <3>1. CASE attempt[n] > 0 /\ restarted[n]
      <4>1. n \in Begun /\ attempt'[n] = attempt[n]
        BY <2>1, <3>1 DEF Begun, NextAttempt
      <4>. QED
        BY <2>1, <4>1 DEF AttemptsCounted
    <3>2. CASE ~(attempt[n] > 0 /\ restarted[n])
      <4>1. attempt[n] \in Nat /\ attempt'[n] = attempt[n] + 1
        BY <2>1, <3>2 DEF Shapes, NextAttempt
      <4>2. \A k \in Nat : <<n, k>> \in inputs => k <= attempt[n]
        BY <4>1 DEF InputsStored
      <4>. QED
        BY <2>1, <4>1, <4>2
    <3>. QED
      BY <3>1, <3>2
  <2>6. \A m \in Begun' : attempt'[m] > 0 /\ <<m, attempt'[m]>> \notin inputs'
    BY <2>1, <2>2, <2>5 DEF AttemptsCounted, Begun
  <2>7. history' + Cardinality(Begun') <= MaxTurns
    BY <1>1, <2>1, <2>4
  <2>. QED
    BY <2>4, <2>6, <2>7 DEF AttemptsCounted
<1>7. ASSUME NEW n \in Nodes, NodeRefused(n) PROVE AttemptsCounted'
  <2>1. /\ UNCHANGED nodeVars /\ started' >= started /\ job[n] # "none"
    BY <1>7 DEF NodeRefused, Shapes
  <2>2. Begun' = Begun /\ UNCHANGED <<attempt, inputs, history>>
    BY <2>1 DEF nodeVars, Begun
  <2>. QED
    BY <1>1, <2>1, <2>2 DEF AttemptsCounted
<1>8. ASSUME NEW n \in Nodes, NodeAnswers(n) PROVE AttemptsCounted'
  <2>1. /\ db[n] = "running" /\ attempt' = attempt /\ restarted' = restarted
        /\ inputs' = inputs \cup {<<n, attempt[n]>>} /\ history' = history + 1
        /\ db'[n] # "running" /\ \A m \in Nodes \ {n} : db'[m] = db[m]
    BY <1>8 DEF NodeAnswers, Record, Shapes
  <2>2. ~restarted[n]
    BY <2>1 DEF NodeStored, RowStored
  <2>3. n \in Begun /\ Begun' = Begun \ {n}
    BY <2>1, <2>2 DEF Begun
  <2>4. Cardinality(Begun') + 1 = Cardinality(Begun)
    BY <2>3, <1>1, FS_RemoveElement
  <2>5. \A m \in Begun' : attempt'[m] > 0 /\ <<m, attempt'[m]>> \notin inputs'
    BY <2>1, <2>3 DEF AttemptsCounted
  <2>6. started' = started /\ loop' = loop /\ job[n] # "none"
    BY <1>8 DEF NodeAnswers, Running
  <2>. QED
    BY <2>1, <2>4, <2>5, <2>6, <1>1 DEF AttemptsCounted, Shapes
<1>9. ASSUME NEW n \in Nodes, NodeRetries(n) PROVE AttemptsCounted'
  <2>1. /\ db[n] = "running" /\ attempt' = attempt /\ restarted' = restarted
        /\ inputs' = inputs \cup {<<n, attempt[n]>>} /\ history' = history + 1
        /\ db'[n] # "running" /\ \A m \in Nodes \ {n} : db'[m] = db[m]
    BY <1>9 DEF NodeRetries, Record, Shapes
  <2>2. ~restarted[n]
    BY <2>1 DEF NodeStored, RowStored
  <2>3. n \in Begun /\ Begun' = Begun \ {n}
    BY <2>1, <2>2 DEF Begun
  <2>4. Cardinality(Begun') + 1 = Cardinality(Begun)
    BY <2>3, <1>1, FS_RemoveElement
  <2>5. \A m \in Begun' : attempt'[m] > 0 /\ <<m, attempt'[m]>> \notin inputs'
    BY <2>1, <2>3 DEF AttemptsCounted
  <2>6. started' = started /\ loop' = loop /\ job[n] # "none"
    BY <1>9 DEF NodeRetries, Running
  <2>. QED
    BY <2>1, <2>4, <2>5, <2>6, <1>1 DEF AttemptsCounted, Shapes
<1>10. ASSUME NEW n \in Nodes, NodeFails(n) PROVE AttemptsCounted'
  <2>1. /\ db[n] = "running" /\ attempt' = attempt /\ restarted' = restarted
        /\ inputs' = inputs \cup {<<n, attempt[n]>>} /\ history' = history + 1
        /\ db'[n] # "running" /\ \A m \in Nodes \ {n} : db'[m] = db[m]
    BY <1>10 DEF NodeFails, Record, Shapes
  <2>2. ~restarted[n]
    BY <2>1 DEF NodeStored, RowStored
  <2>3. n \in Begun /\ Begun' = Begun \ {n}
    BY <2>1, <2>2 DEF Begun
  <2>4. Cardinality(Begun') + 1 = Cardinality(Begun)
    BY <2>3, <1>1, FS_RemoveElement
  <2>5. \A m \in Begun' : attempt'[m] > 0 /\ <<m, attempt'[m]>> \notin inputs'
    BY <2>1, <2>3 DEF AttemptsCounted
  <2>6. started' = started /\ loop' = loop /\ job[n] # "none"
    BY <1>10 DEF NodeFails, Running
  <2>. QED
    BY <2>1, <2>4, <2>5, <2>6, <1>1 DEF AttemptsCounted, Shapes
<1>11. ASSUME NEW n \in Nodes, CloseNode(n) PROVE AttemptsCounted'
  <2>1. /\ db'[n] \in {"skipped", "cancelled"} /\ \A m \in Nodes \ {n} : db'[m] = db[m]
        /\ UNCHANGED <<attempt, restarted, inputs, history, started, loop, job>>
    BY <1>11 DEF CloseNode, Shapes, memVars
  <2>2. Begun' \subseteq Begun
    BY <2>1 DEF Begun
  <2>. QED
    BY <2>1, <2>2, FewerBegun
<1>12. ASSUME NEW n \in Nodes, RecoverNode(n) PROVE AttemptsCounted'
  <2>1. /\ db[n] = "running" /\ db'[n] = "ready" /\ restarted'[n] = TRUE
        /\ UNCHANGED <<attempt, inputs, history, started, loop, job>>
        /\ \A m \in Nodes \ {n} : db'[m] = db[m] /\ restarted'[m] = restarted[m]
    BY <1>12 DEF RecoverNode, Interrupted, Shapes, Flags, memVars
  <2>2. Begun' \subseteq Begun
    BY <2>1 DEF Begun
  <2>. QED
    BY <2>1, <2>2, FewerBegun
<1>13. ASSUME NEW n \in Nodes, RecoverSkips(n) PROVE AttemptsCounted'
  <2>1. /\ db'[n] \in {"skipped", "cancelled"} /\ \A m \in Nodes \ {n} : db'[m] = db[m]
        /\ UNCHANGED <<attempt, restarted, inputs, history, started, loop, job>>
    BY <1>13 DEF RecoverSkips, Shapes, memVars
  <2>2. Begun' \subseteq Begun
    BY <2>1 DEF Begun
  <2>. QED
    BY <2>1, <2>2, FewerBegun
<1>14. CASE Crash
  <2>1. UNCHANGED nodeVars /\ loop' = "off" /\ (\A n \in Nodes : job'[n] = "none")
    BY <1>14 DEF Crash, Fresh
  <2>2. Begun' = Begun /\ UNCHANGED <<attempt, inputs, history>>
    BY <2>1 DEF nodeVars, Begun
  <2>. QED
    BY <2>1, <2>2 DEF AttemptsCounted
<1>15. CASE Resume
  <2>1. /\ UNCHANGED nodeVars /\ started' = AttemptsStored
        /\ \A n \in Nodes : db[n] # "running"
    BY <1>15 DEF Resume, Control, NoScheduler, JobsStored, JobStored
  <2>2. Begun = {n \in Nodes : db[n] = "ready" /\ restarted[n]}
    BY <2>1 DEF Begun
  <2>3. Begun' = Begun /\ UNCHANGED <<attempt, inputs, history>>
    BY <2>1 DEF nodeVars, Begun
  <2>4. history' + Cardinality(Begun') <= started'
    BY <1>1, <2>1, <2>2, <2>3 DEF AttemptsStored
  <2>. QED
    BY <2>3, <2>4 DEF AttemptsCounted
<1>16. CASE ScanReturns
  BY <1>2, <1>16 DEF ScanReturns, Shapes, memVars, Scanning
<1>17. CASE ScanCancels
  BY <1>2, <1>17 DEF ScanCancels, Shapes, memVars, Scanning
<1>18. CASE ScanDispatches
  BY <1>2, <1>18 DEF ScanDispatches, Shapes, memVars, Scanning
<1>19. CASE ScanWaits
  BY <1>2, <1>19 DEF ScanWaits, Shapes, memVars, Scanning
<1>20. CASE ScanThrows
  BY <1>2, <1>20 DEF ScanThrows, Shapes, memVars, Stuck, Scanning
<1>21. CASE Drain
  BY <1>2, <1>21 DEF Drain, Shapes, memVars
<1>22. CASE Finish
  BY <1>2, <1>22 DEF Finish, Shapes, memVars, FinishThrows
<1>23. ASSUME NEW n \in Nodes, NodeCompleted(n) PROVE AttemptsCounted'
  BY <1>2, <1>23 DEF NodeCompleted, Shapes, memVars, Wake
<1>24. ASSUME NEW n \in Nodes, NodeStopsRun(n) PROVE AttemptsCounted'
  BY <1>2, <1>24 DEF NodeStopsRun, Shapes, memVars, Wake
<1>25. ASSUME NEW n \in Nodes, NodeLosesBranch(n) PROVE AttemptsCounted'
  BY <1>2, <1>25 DEF NodeLosesBranch, Shapes, memVars, Wake
<1>26. ASSUME NEW n \in Nodes, NodeOverruled(n) PROVE AttemptsCounted'
  BY <1>2, <1>26 DEF NodeOverruled, Shapes, memVars, Running
<1>27. CASE AdaptersClosed
  BY <1>2, <1>27 DEF AdaptersClosed, Shapes, memVars, Closes
<1>28. CASE CloseRun
  BY <1>2, <1>28 DEF CloseRun, Shapes, memVars, Verdict
<1>29. CASE RecoverStopped
  BY <1>2, <1>29 DEF RecoverStopped, Shapes, memVars, Closes, Recovered
<1>30. CASE RecoverFinished
  BY <1>2, <1>30 DEF RecoverFinished, Shapes, memVars, Recovered
<1>31. CASE RecoverOutOfBudget
  BY <1>2, <1>31 DEF RecoverOutOfBudget, Shapes, memVars, Closes, GoneVerdict, Recovered
<1>32. CASE RecoverPauses
  BY <1>2, <1>32 DEF RecoverPauses, Shapes, memVars, Recovered
<1>33. CASE Cancel
  BY <1>2, <1>33 DEF Cancel, Shapes, memVars, Closes
<1>34. CASE Expire
  BY <1>2, <1>34 DEF Expire, Shapes, memVars
<1>35. CASE ResumeRefused
  BY <1>2, <1>35 DEF ResumeRefused, Shapes, memVars, Closes, GoneVerdict
<1>. QED
  BY <1>3, <1>4, <1>5, <1>6, <1>7, <1>8, <1>9, <1>10, <1>11, <1>12, <1>13, <1>14,
     <1>15, <1>16, <1>17, <1>18, <1>19, <1>20, <1>21, <1>22, <1>23, <1>24, <1>25,
     <1>26, <1>27, <1>28, <1>29, <1>30, <1>31, <1>32, <1>33, <1>34, <1>35,
     ActionsCovered

-----------------------------------------------------------------------------
(* Every conjunct of IInv holds in every state of every run.               *)

LEMMA InitInv == Init => IInv
<1>. SUFFICES ASSUME Init PROVE IInv
  OBVIOUS
<1>1. Active = {} /\ Begun = {} /\ Interrupted = {}
  BY DEF Init, Active, Begun, Interrupted
<1>2. Cardinality({}) = 0 /\ IsFiniteSet({})
  BY FS_EmptySet
<1>3. Flags
  BY DEF Init, Flags
<1>4. Shapes
  BY BudgetAssumption DEF Init, Shapes, NodeStatus
<1>5. Untouched /\ Control /\ JobsStored /\ Mirrored /\ SettledStored
  BY DEF Init, Untouched, Control, JobsStored, JobStored, Mirrored, SettledStored,
         NoScheduler, Ended, Settled
<1>6. Executing /\ OwnersApart
  BY <1>1, <1>2, BudgetAssumption DEF Init, Executing, OwnersApart
<1>7. EndedClosed /\ DepsDone
  BY DEF Init, EndedClosed, DepsDone, Ended
<1>8. NodeStored
  BY GraphAssumption DEF Init, NodeStored, RowStored
<1>9. InputsStored /\ AttemptsCounted
  BY <1>1, <1>2, BudgetAssumption DEF Init, InputsStored, AttemptsCounted
<1>. QED
  BY <1>3, <1>4, <1>5, <1>6, <1>7, <1>8, <1>9, Types DEF IInv

LEMMA StepInv ==
  ASSUME IInv, [Next]_vars
  PROVE  IInv'
<1>1. Flags /\ Shapes
  BY Types DEF IInv
<1>2. CASE Next
  <2>1. Flags' /\ Shapes'
    BY <1>1, <1>2, FlagsStep, ShapesStep DEF IInv
  <2>2. Untouched'
    BY <1>1, <1>2, NeverNone DEF IInv, Untouched
  <2>3. Control' /\ Executing' /\ JobsStored' /\ Mirrored'
    BY <1>1, <1>2, ControlStep, ExecutingStep, JobsStoredStep, MirroredStep DEF IInv
  <2>4. SettledStored' /\ EndedClosed'
    BY <1>1, <1>2, SettledStoredStep, EndedClosedStep DEF IInv
  <2>5. NodeStored' /\ DepsDone' /\ OwnersApart'
    BY <1>1, <1>2, NodeStoredStep, DepsDoneStep, OwnersApartStep DEF IInv
  <2>6. InputsStored' /\ AttemptsCounted'
    BY <1>1, <1>2, <2>1, InputsStoredStep, AttemptsCountedStep DEF IInv
  <2>7. TypeOK'
    BY <2>1 DEF Flags, Shapes, TypeOK
  <2>. QED
    BY <2>2, <2>3, <2>4, <2>5, <2>6, <2>7 DEF IInv
<1>3. CASE UNCHANGED vars
  <2>1. UNCHANGED <<run, policy, audits, db, attempt, restarted, inputs, history, participant>>
    BY <1>3 DEF vars, runVars, nodeVars
  <2>2. UNCHANGED <<cpu, verdict, loop, st, job, cause, failedSome, toSkip, aborted, started,
                    expired, crashes, cancels>>
    BY <1>3 DEF vars, memVars, envVars
  <2>3. TypeOK'
    BY <1>1, <2>1, <2>2 DEF TypeOK, Flags, Shapes
  <2>4. Untouched' /\ Control' /\ Executing'
    BY <2>1, <2>2 DEF IInv, Untouched, Control, NoScheduler, AllSettled, Executing, Active
  <2>5. JobsStored' /\ Mirrored' /\ SettledStored'
    BY <2>1, <2>2 DEF IInv, JobsStored, JobStored, Mirrored, SettledStored,
                      LostToBudget, Stopped
  <2>6. EndedClosed' /\ NodeStored' /\ DepsDone'
    BY <2>1, <2>2 DEF IInv, EndedClosed, NodeStored, RowStored, DepsDone, LostToBudget
  <2>7. InputsStored' /\ AttemptsCounted' /\ OwnersApart'
    BY <2>1, <2>2 DEF IInv, InputsStored, AttemptsCounted, OwnersApart, Begun, Interrupted
  <2>. QED
    BY <2>3, <2>4, <2>5, <2>6, <2>7 DEF IInv
<1>. QED
  BY <1>2, <1>3

(* The inductive invariant holds in every state of every run.              *)
THEOREM Inductive == Spec => []IInv
<1>1. Init => IInv
  BY InitInv
<1>2. IInv /\ [Next]_vars => IInv'
  BY StepInv
<1>. QED
  BY <1>1, <1>2, PTL DEF Spec

(* Every variable keeps its type.                                          *)
THEOREM TypeCorrect == Spec => []TypeOK
<1>1. IInv => TypeOK
  BY DEF IInv
<1>. QED
  BY <1>1, Inductive, PTL

(* The attempts counted by recovery and by resume are the stored turns and *)
(* the attempts that have begun without one.                               *)
LEMMA CountsAgree ==
  ASSUME Shapes, NodeStored
  PROVE  AttemptsStored + Cardinality(Interrupted) = history + Cardinality(Begun)
<1>. DEFINE R == {n \in Nodes : db[n] = "ready" /\ restarted[n]}
<1>1. IsFiniteSet(R) /\ IsFiniteSet(Interrupted)
  BY GraphAssumption, FS_Subset DEF Interrupted
<1>2. Begun = R \cup Interrupted /\ R \cap Interrupted = {}
  BY DEF Begun, Interrupted
<1>3. Cardinality(Begun) = Cardinality(R) + Cardinality(Interrupted) - Cardinality({})
  BY <1>1, <1>2, FS_Union
<1>4. Cardinality({}) = 0 /\ Cardinality(R) \in Nat /\ Cardinality(Interrupted) \in Nat
  BY <1>1, FS_EmptySet, FS_CardinalityType
<1>. QED
  BY <1>3, <1>4 DEF AttemptsStored, Shapes

(* Whatever a crash leaves in the database, recovery and resume accept it: *)
(* none of the conditions of persistence_corruption ever arises.           *)
THEOREM RecoveryAlwaysAccepts == Spec => []RecoveryAccepts
<1>1. ASSUME IInv PROVE RecoveryAccepts
  <2>1. Shapes
    BY <1>1, Types DEF IInv
  <2>2. AttemptsStored + Cardinality(Interrupted) <= MaxTurns
    BY <1>1, <2>1, CountsAgree DEF IInv, AttemptsCounted
  <2>3. \A n \in Nodes : RowStored(n)
    BY <1>1 DEF IInv, NodeStored
  <2>4. /\ \A i \in inputs : /\ i[2] \in 1..attempt[i[1]]
                             /\ \A d \in Deps[i[1]] : db[d] = "completed"
        /\ history = Cardinality(inputs)
    BY <1>1 DEF IInv, InputsStored
  <2>5. \A n, m \in Interrupted : Owner[n] = Owner[m] => n = m
    BY <1>1 DEF IInv, OwnersApart
  <2>. QED
    BY <2>2, <2>3, <2>4, <2>5 DEF RecoveryAccepts, RowStored
<1>. QED
  BY <1>1, Inductive, PTL

(* A run that has ended has left no node open, but for those a used-up     *)
(* budget cost it under skip_dependents.                                   *)
THEOREM EndedIsSettled == Spec => []EndedRunSettled
<1>1. IInv => EndedRunSettled
  BY DEF IInv, EndedClosed, EndedRunSettled, LostToBudget
<1>. QED
  BY <1>1, Inductive, PTL

-----------------------------------------------------------------------------
(* Outcomes are final.                                                     *)

LEMMA EndedStays ==
  ASSUME Shapes, Control, run \in Ended, Next
  PROVE  run' = run
<1>1. CASE Start \/ Cancel \/ Expire
  BY <1>1 DEF Start, Ended, Control, runVars,
              Cancel, Closes, Expire
<1>2. CASE Crash \/ Resume \/ ResumeRefused
  BY <1>2 DEF Crash, Ended, Control, Fresh, runVars, Resume, ResumeRefused, Closes,
              GoneVerdict
<1>3. CASE ScanReturns \/ ScanCancels \/ ScanMarks
  BY <1>3 DEF ScanReturns, Ended, Control, Scanning, runVars, ScanCancels, ScanMarks
<1>4. CASE ScanDispatches \/ ScanWaits \/ ScanThrows
  BY <1>4 DEF ScanDispatches, Ended, Control, Scanning, runVars, ScanWaits,
              ScanThrows, Stuck
<1>5. CASE Drain \/ Finish
  BY <1>5 DEF Drain, Ended, Control, runVars,
              Finish, FinishThrows
<1>6. ASSUME NEW n \in Nodes, NodeCompleted(n) \/ NodeStopsRun(n) \/ NodeLosesBranch(n) \/ SkipOne(n)
      PROVE  run' = run
  BY <1>6 DEF NodeCompleted, Ended, Control, Wake, runVars, NodeStopsRun,
              NodeLosesBranch, SkipOne
<1>7. ASSUME NEW n \in Nodes, NodeBegins(n) \/ NodeRefused(n) PROVE run' = run
  BY <1>7 DEF NodeBegins, Ended, Control, runVars, NodeRefused
<1>8. ASSUME NEW n \in Nodes, NodeAnswers(n) \/ NodeRetries(n) \/ NodeOverruled(n) \/ NodeFails(n)
      PROVE  run' = run
  BY <1>8 DEF NodeAnswers, Ended, Control, Running, Record, runVars, NodeRetries,
              NodeOverruled,
              NodeFails
<1>9. CASE AdaptersClosed \/ CloseRun
  BY <1>9 DEF AdaptersClosed, Ended, Control, Closes, runVars, CloseRun, Verdict
<1>10. ASSUME NEW n \in Nodes, CloseNode(n) PROVE run' = run
  BY <1>10 DEF CloseNode, Ended, Control, runVars
<1>11. ASSUME NEW n \in Nodes, RecoverNode(n) \/ RecoverSkips(n) PROVE run' = run
  BY <1>11 DEF RecoverNode, Ended, Control, runVars, RecoverSkips
<1>12. CASE RecoverStopped \/ RecoverFinished
  BY <1>12 DEF RecoverStopped, Ended, Control, Closes, Recovered, runVars, RecoverFinished
<1>13. CASE RecoverOutOfBudget \/ RecoverPauses
  BY <1>13 DEF RecoverOutOfBudget, Ended, Control, Closes, GoneVerdict,
               Recovered, runVars, RecoverPauses
<1>. QED
  BY <1>1, <1>2, <1>3, <1>4, <1>5, <1>6, <1>7, <1>8, <1>9, <1>10, <1>11,
     <1>12, <1>13, ActionsCovered

LEMMA EndedWritesNothing ==
  ASSUME IInv, run \in Ended, Next
  PROVE  UNCHANGED <<run, db, attempt, inputs, history>>
<1>1. Shapes
  BY Types DEF IInv
<1>2. run' = run
  BY <1>1, EndedStays DEF IInv
<1>3. \A n \in Nodes : db[n] \in Settled
  BY NothingLeft DEF IInv, EndedClosed
<1>4. CASE UNCHANGED nodeVars
  BY <1>2, <1>4 DEF nodeVars
<1>5. CASE ScanMarks
  <2>0. PICK n \in Nodes : n = First(Markable)
    BY <1>5, FirstIn DEF ScanMarks, Markable
  <2>1. db' = db
    BY <1>3, <1>5, <2>0 DEF ScanMarks, Settled
  <2>. QED
    BY <1>2, <1>5, <2>1 DEF ScanMarks
<1>6. ASSUME NEW n \in Nodes, SkipOne(n) PROVE FALSE
  BY <1>6 DEF SkipOne, IInv, Control
<1>7. ASSUME NEW n \in Nodes,
             \/ NodeBegins(n) \/ NodeAnswers(n) \/ NodeRetries(n) \/ NodeFails(n)
             \/ CloseNode(n) \/ RecoverNode(n) \/ RecoverSkips(n)
      PROVE  FALSE
  BY <1>3, <1>7 DEF NodeBegins, NodeAnswers, NodeRetries, NodeFails, CloseNode, Unsettled,
                    RecoverNode, Interrupted, RecoverSkips, Lost, Settled
<1>. QED
  BY <1>4, <1>5, <1>6, <1>7, StoreChanges

(* An aborted scheduler begins no attempt.                                 *)
LEMMA AbortedBeginsNothing ==
  ASSUME IInv, aborted, Next, NEW m \in Nodes, db'[m] = "running"
  PROVE  db[m] = "running"
<1>1. Shapes
  BY Types DEF IInv
<1>2. CASE UNCHANGED nodeVars
  BY <1>2 DEF nodeVars
<1>3. CASE ScanMarks
  <2>0. PICK n \in Nodes : n = First(Markable)
    BY <1>3, FirstIn DEF ScanMarks, Markable
  <2>. QED
    BY <1>1, <1>3, <2>0 DEF ScanMarks, Shapes
<1>4. ASSUME NEW n \in Nodes, NodeBegins(n) PROVE FALSE
  BY <1>4 DEF NodeBegins, MayBegin, Stopped
<1>5. ASSUME NEW n \in Nodes, SkipOne(n) \/ CloseNode(n) \/ RecoverNode(n) \/ RecoverSkips(n)
      PROVE  db[m] = "running"
  BY <1>1, <1>5 DEF SkipOne, CloseNode, RecoverNode, RecoverSkips, Shapes
<1>6. ASSUME NEW n \in Nodes, NodeAnswers(n) \/ NodeRetries(n) \/ NodeFails(n)
      PROVE  db[m] = "running"
  BY <1>1, <1>6 DEF NodeAnswers, NodeRetries, NodeFails, Record, Shapes
<1>. QED
  BY <1>2, <1>3, <1>4, <1>5, <1>6, StoreChanges

(* A node that has settled keeps its outcome, an ended run is not written  *)
(* to, and an aborted one begins nothing.                                  *)
THEOREM OutcomesAreFinal == Spec => OutcomesFinal
<1>. DEFINE A == /\ \A n \in Nodes : db[n] \in Settled =>
                      db'[n] = db[n] /\ attempt'[n] = attempt[n]
                 /\ run \in Ended => UNCHANGED <<run, db, attempt, inputs, history>>
                 /\ aborted /\ aborted' =>
                      \A n \in Nodes : db'[n] = "running" => db[n] = "running"
<1>1. IInv /\ [Next]_vars => [A]_vars
  <2>. SUFFICES ASSUME IInv, Next PROVE A
    OBVIOUS
  <2>1. Shapes
    BY Types DEF IInv
  <2>2. \A n \in Nodes : db[n] \in Settled => db'[n] = db[n] /\ attempt'[n] = attempt[n]
    BY <2>1, SettledStays DEF IInv
  <2>3. run \in Ended => UNCHANGED <<run, db, attempt, inputs, history>>
    BY EndedWritesNothing
  <2>4. aborted => \A n \in Nodes : db'[n] = "running" => db[n] = "running"
    BY AbortedBeginsNothing
  <2>. QED
    BY <2>2, <2>3, <2>4
<1>2. [][A]_vars => OutcomesFinal
  BY PTL DEF OutcomesFinal
<1>. QED
  BY <1>1, <1>2, Inductive, PTL DEF Spec

-----------------------------------------------------------------------------
(* A run implements DagExecution.                                          *)

LEMMA SameCardinality == \A S : Graph!Cardinality(S) = Cardinality(S)
BY DEF Graph!Cardinality, Cardinality

Node == [n \in Nodes |-> Seen(db[n])]

\* A write to the row of one node, as the clients see it.
LEMMA MovesTo ==
  ASSUME Shapes, run \notin {"none"} \cup Ended, run' = run,
         NEW n \in Nodes, NEW s, db' = [db EXCEPT ![n] = s]
  PROVE  Graph!Move(n, Seen(s))
<1>1. Phase = "open" /\ Phase' = Phase
  BY DEF Phase
<1>2. Node' = [Node EXCEPT ![n] = Seen(s)]
  BY DEF Node, Shapes
<1>. QED
  BY <1>1, <1>2 DEF Graph!Move, Node

\* When no row is written, the clients see at most the run begin or end.
LEMMA RunMoves ==
  ASSUME IInv, IInv', Next, db' = db
  PROVE  Graph!Next \/ UNCHANGED Graph!vars
<1>1. Shapes /\ Control /\ Untouched
  BY Types DEF IInv
<1>2. run' # "none" /\ Node' = Node
  BY <1>1, NeverNone DEF Node
<1>3. CASE run \in Ended
  <2>1. Phase' = Phase
    BY <1>1, <1>3, EndedStays DEF Phase
  <2>. QED
    BY <1>2, <2>1 DEF Graph!vars, Node
<1>4. CASE run = "none"
  <2>1. run' \notin Ended
    BY <1>1, <1>4, RunEnds DEF Finish, CloseRun, RecoverFinished, Recovered,
                               Untouched, Control, Ended
  <2>2. Phase = "idle" /\ Phase' = "open"
    BY <1>2, <1>4, <2>1 DEF Phase
  <2>. QED
    BY <1>2, <2>2 DEF Graph!Next, Graph!Open, Node
<1>5. CASE run \notin {"none"} \cup Ended
  <2>1. CASE run' \notin Ended
    <3>1. Phase' = "open" /\ Phase = "open"
      BY <1>2, <1>5, <2>1 DEF Phase
    <3>. QED
      BY <1>2, <3>1 DEF Graph!vars, Node
  <2>2. CASE run' \in Ended
    <3>1. \A n \in Nodes : db'[n] # "running"
      <4>1. CASE \A n \in Nodes : db'[n] \in Settled
        BY <4>1 DEF Settled
      <4>2. CASE cpu' = "free" /\ \A n \in Nodes : job'[n] = "none"
        BY <4>2 DEF IInv, JobsStored, JobStored
      <4>. QED
        BY <2>2, <4>1, <4>2 DEF IInv, EndedClosed
    <3>2. Graph!Working = {}
      BY <3>1 DEF Graph!Working, Seen
    <3>3. Phase = "open" /\ Phase' = "over"
      BY <1>5, <2>2 DEF Phase, Ended
    <3>. QED
      BY <1>2, <3>2, <3>3 DEF Graph!Next, Graph!Close, Node
  <2>. QED
    BY <2>1, <2>2
<1>. QED
  BY <1>3, <1>4, <1>5

(* A run that is not open has no step that writes a row.                   *)
LEMMA OpenWrites ==
  ASSUME IInv, Next, db' # db
  PROVE  run \notin {"none"} \cup Ended /\ run' = run
<1>1. Shapes /\ Control /\ Untouched
  BY Types DEF IInv
<1>2. run \notin Ended
  BY EndedWritesNothing
<1>3. CASE ScanMarks
  BY <1>1, <1>2, <1>3 DEF ScanMarks, Scanning, Untouched, runVars
<1>4. ASSUME NEW n \in Nodes, SkipOne(n) PROVE run # "none" /\ run' = run
  BY <1>1, <1>4 DEF SkipOne, Untouched, runVars
<1>5. ASSUME NEW n \in Nodes, NodeBegins(n) PROVE run # "none" /\ run' = run
  BY <1>1, <1>5 DEF NodeBegins, Untouched, runVars
<1>6. ASSUME NEW n \in Nodes, NodeAnswers(n) \/ NodeRetries(n) \/ NodeFails(n)
      PROVE run # "none" /\ run' = run
  BY <1>1, <1>6 DEF NodeAnswers, NodeRetries, NodeFails, Running, Untouched, runVars
<1>7. ASSUME NEW n \in Nodes, CloseNode(n) \/ RecoverNode(n) \/ RecoverSkips(n)
      PROVE run # "none" /\ run' = run
  BY <1>1, <1>7 DEF CloseNode, RecoverNode, RecoverSkips, Untouched, runVars
<1>. QED
  BY <1>2, <1>3, <1>4, <1>5, <1>6, <1>7, StoreChanges DEF nodeVars

\* A node that begins finds everything it depends on done, a free place, and
\* its participant idle.
LEMMA BeginsInBounds ==
  ASSUME IInv, NEW n \in Nodes, NodeBegins(n)
  PROVE  /\ Deps[n] \subseteq Graph!Done
         /\ Cardinality(Graph!Working) < MaxParallel
         /\ \A m \in Graph!Working : Owner[m] # Owner[n]
<1>1. Shapes
  BY Types DEF IInv
<1>2. \A d \in Deps[n] : d \in Nodes /\ db[d] = "completed"
  BY GraphAssumption DEF NodeBegins, IInv, DepsDone
<1>3. Deps[n] \subseteq Graph!Done
  BY <1>2 DEF Graph!Done, Seen
<1>4. \A m \in Nodes : Seen(db[m]) = "working" <=> db[m] = "running"
  BY DEF Seen
<1>5. \A m \in Nodes : db[m] = "running" => m \in Active /\ m # n
  BY DEF NodeBegins, IInv, JobsStored, JobStored, Executing, Active
<1>6. n \in Active
  BY DEF NodeBegins, IInv, Executing, Active
<1>7. Graph!Working \subseteq Active \ {n}
  BY <1>4, <1>5 DEF Graph!Working
<1>8. Cardinality(Graph!Working) < MaxParallel
  <2>1. IsFiniteSet(Active)
    BY GraphAssumption, FS_Subset DEF Active
  <2>2. /\ IsFiniteSet(Active \ {n})
        /\ Cardinality(Active \ {n}) = Cardinality(Active) - 1
    BY <1>6, <2>1, FS_RemoveElement
  <2>3. /\ Cardinality(Graph!Working) <= Cardinality(Active \ {n})
        /\ Cardinality(Graph!Working) \in Nat
    BY <1>7, <2>2, FS_Subset, FS_CardinalityType
  <2>4. Cardinality(Active) <= MaxParallel /\ Cardinality(Active) \in Nat /\ MaxParallel \in Nat
    BY <2>1, FS_CardinalityType, BudgetAssumption DEF IInv, Executing
  <2>. QED
    BY <2>2, <2>3, <2>4
<1>9. \A m \in Graph!Working : Owner[m] # Owner[n]
  BY <1>6, <1>7 DEF IInv, Executing
<1>. QED
  BY <1>3, <1>8, <1>9

(* Every step is a step of DagExecution, or changes nothing the clients    *)
(* see.                                                                    *)
LEMMA StepImplements ==
  ASSUME IInv, IInv', Next, db' # db
  PROVE  Graph!Next \/ UNCHANGED Graph!vars
<1>1. Shapes /\ run \notin {"none"} \cup Ended /\ run' = run
  BY Types, OpenWrites DEF IInv
<1>2. CASE ScanMarks
  <2>0. PICK n \in Nodes : n = First(Markable)
    BY <1>2, FirstIn DEF ScanMarks, Markable
  <2>1. db[n] \in {"pending", "ready"} /\ db' = [db EXCEPT ![n] = "ready"]
    BY <1>2, <2>0 DEF ScanMarks
  <2>2. Node' = Node
    BY <1>1, <2>1 DEF Node, Seen, Shapes
  <2>3. Phase' = Phase
    BY <1>1 DEF Phase
  <2>. QED
    BY <2>2, <2>3 DEF Graph!vars, Node
<1>3. ASSUME NEW n \in Nodes, SkipOne(n) PROVE Graph!Next
  <2>1. db[n] \in {"pending", "ready"} /\ db' = [db EXCEPT ![n] = "skipped"]
    BY <1>3 DEF SkipOne, IInv, Mirrored, Control
  <2>2. Graph!Move(n, "dropped")
    BY <1>1, <2>1, MovesTo DEF Seen
  <2>. QED
    BY <2>1, <2>2 DEF Graph!Next, Graph!Drop, Graph!Waiting, Graph!Working, Seen
<1>4. ASSUME NEW n \in Nodes, NodeBegins(n) PROVE Graph!Next
  <2>1. db[n] = "ready" /\ db' = [db EXCEPT ![n] = "running"]
    BY <1>4 DEF NodeBegins
  <2>2. Graph!Move(n, "working") /\ n \in Graph!Waiting
    BY <1>1, <2>1, MovesTo DEF Seen, Graph!Waiting
  <2>3. Graph!Cardinality(Graph!Working) < MaxParallel
    BY <1>4, BeginsInBounds, SameCardinality
  <2>4. Graph!Begin(n)
    BY <1>4, <2>2, <2>3, BeginsInBounds DEF Graph!Begin
  <2>. QED
    BY <2>4 DEF Graph!Next
<1>5. ASSUME NEW n \in Nodes, NodeAnswers(n) PROVE Graph!Next
  <2>1. db[n] = "running" /\ db' = [db EXCEPT ![n] = "completed"]
    BY <1>5 DEF NodeAnswers, Record
  <2>2. Graph!Move(n, "done") /\ n \in Graph!Working
    BY <1>1, <2>1, MovesTo DEF Seen, Graph!Working
  <2>. QED
    BY <2>2 DEF Graph!Next, Graph!Complete
<1>6. ASSUME NEW n \in Nodes, NodeRetries(n) PROVE Graph!Next
  <2>1. db[n] = "running" /\ db' = [db EXCEPT ![n] = "ready"]
    BY <1>6 DEF NodeRetries, Record
  <2>2. Graph!Move(n, "waiting") /\ n \in Graph!Working
    BY <1>1, <2>1, MovesTo DEF Seen, Graph!Working
  <2>. QED
    BY <2>2 DEF Graph!Next, Graph!Return
<1>7. ASSUME NEW n \in Nodes, NodeFails(n) PROVE Graph!Next
  <2>1. PICK s \in {"failed", "cancelled"} : db' = [db EXCEPT ![n] = s]
    BY <1>7 DEF NodeFails, Record
  <2>2. Graph!Move(n, "dropped") /\ n \in Graph!Working
    BY <1>1, <1>7, <2>1, MovesTo DEF NodeFails, Seen, Graph!Working
  <2>. QED
    BY <2>2 DEF Graph!Next, Graph!Drop
<1>8. ASSUME NEW n \in Nodes, CloseNode(n) PROVE Graph!Next
  <2>1. db[n] \in {"pending", "ready", "running"} /\ db' = [db EXCEPT ![n] = "cancelled"]
    BY <1>1, <1>8 DEF CloseNode, Unsettled, Settled, Shapes, NodeStatus
  <2>2. Graph!Move(n, "dropped")
    BY <1>1, <2>1, MovesTo DEF Seen
  <2>. QED
    BY <2>1, <2>2 DEF Graph!Next, Graph!Drop, Graph!Waiting, Graph!Working, Seen
<1>9. ASSUME NEW n \in Nodes, RecoverNode(n) PROVE Graph!Next
  <2>1. db[n] = "running" /\ db' = [db EXCEPT ![n] = "ready"]
    BY <1>9 DEF RecoverNode, Interrupted
  <2>2. Graph!Move(n, "waiting") /\ n \in Graph!Working
    BY <1>1, <2>1, MovesTo DEF Seen, Graph!Working
  <2>. QED
    BY <2>2 DEF Graph!Next, Graph!Return
<1>10. ASSUME NEW n \in Nodes, RecoverSkips(n) PROVE Graph!Next
  <2>1. db[n] \in {"pending", "ready"} /\ db' = [db EXCEPT ![n] = "skipped"]
    BY <1>10 DEF RecoverSkips, Lost
  <2>2. Graph!Move(n, "dropped")
    BY <1>1, <2>1, MovesTo DEF Seen
  <2>. QED
    BY <2>1, <2>2 DEF Graph!Next, Graph!Drop, Graph!Waiting, Graph!Working, Seen
<1>. QED
  BY <1>2, <1>3, <1>4, <1>5, <1>6, <1>7, <1>8, <1>9, <1>10, StoreChanges DEF nodeVars

(* Retries, failures, cancellations, crashes and recoveries included, what *)
(* is stored of a run behaves as DagExecution says.                        *)
THEOREM ImplementsExecution == Spec => ImplementsDagExecution
<1>1. Init => Graph!Init
  <2>. SUFFICES ASSUME Init PROVE Graph!Init
    OBVIOUS
  <2>1. Phase = "idle" /\ \A n \in Nodes : Seen(db[n]) = "waiting"
    BY DEF Init, Phase, Seen
  <2>. QED
    BY <2>1 DEF Graph!Init
<1>2. IInv /\ IInv' /\ [Next]_vars => [Graph!Next]_Graph!vars
  <2>. SUFFICES ASSUME IInv, IInv', [Next]_vars PROVE Graph!Next \/ UNCHANGED Graph!vars
    BY DEF Graph!vars
  <2>1. CASE Next
    BY <2>1, RunMoves, StepImplements
  <2>2. CASE UNCHANGED vars
    BY <2>2 DEF vars, runVars, nodeVars, Graph!vars, Phase
  <2>. QED
    BY <2>1, <2>2
<1>. QED
  BY <1>1, <1>2, Inductive, PTL DEF Spec, ImplementsDagExecution, Graph!Spec
=============================================================================
