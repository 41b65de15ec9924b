------------------------------- MODULE DagRun -------------------------------
(***************************************************************************)
(* One run of a collaboration graph: the ready-set scheduler, the          *)
(* execution of its nodes with retries, timeouts and budgets, the SQLite   *)
(* state of the run, cancellation, process crashes, startup recovery and   *)
(* resume (CollaborationDagController with runBoundedCollaborationDag and  *)
(* SqliteCollaborationDagPersistence).                                     *)
(*                                                                         *)
(* Every database transaction is a step of its own, because the process    *)
(* may die between two of them; cpu tells which synchronous stretch of     *)
(* code is under way, and as long as it is not "free" nothing else runs.   *)
(***************************************************************************)
EXTENDS Naturals, Sequences, FiniteSets

CONSTANTS
  Nodes, Participants,
  Order,         \* plan.topologicalOrder
  Deps,          \* dependsOn of each node
  Owner,         \* the participant of each node
  Terminal,      \* the nodes declared terminal
  RetryLimit,    \* retryLimit of each node
  Policies,      \* the failure policies a run may be started with
  MaxParallel,   \* budget.maxParallelTurns
  MaxTurns,      \* budget.maxTurns
  MaxCrashes,    \* bound on process crashes
  MaxCancels     \* bound on cancelRun calls

ASSUME GraphAssumption ==
  /\ IsFiniteSet(Nodes)
  /\ Deps \in [Nodes -> SUBSET Nodes]
  /\ Owner \in [Nodes -> Participants]
  /\ Terminal \subseteq Nodes
  /\ RetryLimit \in [Nodes -> Nat]
  /\ Policies \subseteq {"fail_fast", "skip_dependents"}
ASSUME OrderAssumption ==    \* what DagPlan establishes
  /\ Order \in Seq(Nodes)
  /\ \A n \in Nodes : \E i \in DOMAIN Order : Order[i] = n
  /\ \A i, j \in DOMAIN Order : Order[i] \in Deps[Order[j]] => i < j
ASSUME BudgetAssumption ==   \* a graph needs a turn for each node
  /\ MaxParallel \in Nat \ {0}
  /\ MaxTurns \in Nat /\ Cardinality(Nodes) <= MaxTurns
  /\ MaxCrashes \in Nat /\ MaxCancels \in Nat

VARIABLES
  \* persisted
  run,          \* role_based_runs.status
  policy,       \* metadata.failurePolicy
  db,           \* status of each node
  attempt,      \* attempt of each node
  restarted,    \* the node's error is daemon_restarted
  inputs,       \* the (node, attempt) pairs with stored input provenance
  history,      \* number of stored turns
  participant,  \* status of each participant
  audits,       \* number of terminal audit events of the run
  \* in memory
  cpu,          \* the synchronous stretch under way
  verdict,      \* the status a run that is being closed will get
  loop,         \* where executeLoop and the scheduler are
  st,           \* the scheduler's status of each node
  job,          \* the promise that executes each node
  aborted,      \* control.rootAbortController has fired
  cause,        \* why the scheduler gave up
  failedSome,   \* schedulerResult.failedNodeIds is not empty
  toSkip,       \* dependents of a failed node still to be skipped
  started,      \* control.attemptsStarted
  \* environment
  expired,      \* maxWallClockMs has elapsed
  crashes, cancels

runVars  == <<run, policy, audits>>
nodeVars == <<db, attempt, restarted, inputs, history, participant>>
memVars  == <<st, job, cause, failedSome, toSkip, aborted, started>>
envVars  == <<expired, crashes, cancels>>
vars == <<runVars, nodeVars, cpu, verdict, loop, memVars, envVars>>

NodeStatus == {"pending", "ready", "running", "completed", "failed",
               "skipped", "cancelled"}
Ended    == {"completed", "failed", "cancelled", "budget_exhausted", "timed_out"}
Settled  == {"completed", "failed", "skipped", "cancelled"}

\* Mutant: nodes that only wait for their turn are overlooked.
UnsettledBusy == {n \in Nodes : db[n] \notin Settled \cup {"ready"}}

\* Mutant: running nodes are overlooked.
UnsettledIdle == {n \in Nodes : db[n] \in {"pending", "ready"}}

Unsettled == {n \in Nodes : db[n] \notin Settled}
Active    == {n \in Nodes : st[n] = "running"}
Stopped   == aborted \/ cause # "none"     \* the scheduler's rootAbort

\* The first node of S in topological order.
First(S) == Order[CHOOSE i \in DOMAIN Order :
                    Order[i] \in S /\ \A j \in 1..(i - 1) : Order[j] \notin S]

\* The transitive dependents of a node.
Below[n \in Nodes] ==
  LET next == {m \in Nodes : n \in Deps[m]}
  IN next \cup UNION {Below[m] : m \in next}

Init ==
  /\ run = "none" /\ policy \in Policies /\ audits = 0
  /\ db = [n \in Nodes |-> "pending"]
  /\ attempt = [n \in Nodes |-> 0]
  /\ restarted = [n \in Nodes |-> FALSE]
  /\ inputs = {} /\ history = 0
  /\ participant = [p \in Participants |-> "idle"]
  /\ cpu = "free" /\ verdict = "none" /\ loop = "off"
  /\ st = [n \in Nodes |-> "pending"]
  /\ job = [n \in Nodes |-> "none"]
  /\ aborted = FALSE /\ cause = "none"
  /\ failedSome = FALSE /\ toSkip = {}
  /\ started = 0
  /\ expired = FALSE /\ crashes = 0 /\ cancels = 0

(* start(): persist the run and enter the scheduler.                       *)
Start ==
  /\ cpu = "free" /\ run = "none"
  /\ run' = "running"
  /\ cpu' = "loop" /\ loop' = "scan"
  /\ UNCHANGED <<policy, audits, nodeVars, verdict, memVars, envVars>>

-----------------------------------------------------------------------------
(* One round of the scheduler's loop, up to its await.                     *)
AllSettled == \A n \in Nodes : st[n] \in Settled

Markable == {n \in Nodes : /\ st[n] = "pending"
                           /\ \A d \in Deps[n] : st[d] = "completed"}

Dispatchable ==
  IF Stopped \/ Cardinality(Active) >= MaxParallel THEN {}
  ELSE {n \in Nodes : /\ st[n] = "ready"
                      /\ \A m \in Active : Owner[m] # Owner[n]}

Scanning == cpu = "loop" /\ loop = "scan" /\ toSkip = {}

(* Everything has settled: the scheduler returns.                          *)
ScanReturns ==
  /\ Scanning /\ AllSettled
  /\ loop' = "finishing" /\ cpu' = "free"
  /\ UNCHANGED <<runVars, nodeVars, verdict, memVars, envVars>>

(* The run was cancelled and nothing runs any more: the rest is cancelled  *)
(* in memory.                                                              *)
ScanCancels ==
  /\ Scanning /\ ~AllSettled /\ aborted /\ Active = {}
  /\ st' = [n \in Nodes |-> IF st[n] \in Settled THEN st[n] ELSE "cancelled"]
  /\ cause' = "cancelled"
  /\ loop' = "closing" /\ cpu' = "free"
  /\ UNCHANGED <<runVars, nodeVars, verdict, job, failedSome, toSkip,
                 aborted, started, envVars>>

(* The next node whose predecessors have completed becomes ready, in       *)
(* memory and in the database.  A node that a cancellation has taken is    *)
(* refused by the store, and the scheduler throws.                         *)
ScanMarks ==
  LET n == First(Markable) IN
  /\ Scanning /\ ~AllSettled /\ ~(aborted /\ Active = {})
  /\ Markable # {}
  /\ st' = [st EXCEPT ![n] = "ready"]
  /\ IF db[n] \in {"pending", "ready"}
     THEN /\ db' = [db EXCEPT ![n] = "ready"]
          /\ UNCHANGED <<cpu, loop, cause>>
     ELSE /\ cause' = "failed" /\ loop' = "closing" /\ cpu' = "free"
          /\ UNCHANGED db
  /\ UNCHANGED <<runVars, attempt, restarted, inputs, history, participant,
                 verdict, job, failedSome, toSkip, aborted, started,
                 envVars>>

ScanDispatches ==
  LET n == First(Dispatchable) IN
  /\ Scanning /\ ~AllSettled /\ Markable = {} /\ Dispatchable # {}
  /\ st' = [st EXCEPT ![n] = "running"]
  /\ job' = [job EXCEPT ![n] = "begin"]
  /\ UNCHANGED <<runVars, nodeVars, cpu, verdict, loop, cause, failedSome,
                 toSkip, aborted, started, envVars>>

ScanWaits ==
  /\ Scanning /\ ~AllSettled /\ Markable = {} /\ Dispatchable = {}
  /\ Active # {}
  /\ loop' = "wait" /\ cpu' = "free"
  /\ UNCHANGED <<runVars, nodeVars, verdict, memVars, envVars>>

(* Nothing runs and nothing can: collaboration_dag_deadlock.               *)
Stuck == /\ Scanning /\ ~AllSettled /\ Markable = {} /\ Dispatchable = {}
         /\ Active = {} /\ ~aborted

ScanThrows ==
  /\ Stuck
  /\ cause' = "failed" /\ loop' = "closing" /\ cpu' = "free"
  /\ UNCHANGED <<runVars, nodeVars, verdict, st, job, failedSome, toSkip,
                 aborted, started, envVars>>

-----------------------------------------------------------------------------
(* A node's promise has settled and the scheduler wakes up.                *)
Wake(n) == cpu = "free" /\ loop = "wait" /\ st[n] = "running"

NodeCompleted(n) ==
  /\ Wake(n) /\ job[n] = "ok"
  /\ st' = [st EXCEPT ![n] = "completed"]
  /\ job' = [job EXCEPT ![n] = "none"]
  /\ loop' = "scan" /\ cpu' = "loop"
  /\ UNCHANGED <<runVars, nodeVars, verdict, cause, failedSome, toSkip,
                 aborted, started, envVars>>

(* An error of a cancelled run, or under fail_fast, stops the run; the     *)
(* siblings see the abort and the scheduler waits for all of them.         *)
NodeStopsRun(n) ==
  /\ Wake(n) /\ job[n] = "err"
  /\ aborted \/ policy = "fail_fast"
  /\ st' = [st EXCEPT ![n] = IF aborted THEN "cancelled" ELSE "failed"]
  /\ job' = [job EXCEPT ![n] = "none"]
  /\ failedSome' = (failedSome \/ ~aborted)
  /\ cause' = IF aborted THEN "cancelled" ELSE "failed"
  /\ loop' = "drain"
  /\ UNCHANGED <<runVars, nodeVars, cpu, verdict, toSkip, aborted, started,
                 envVars>>

(* Under skip_dependents the node's transitive dependents are skipped.     *)
NodeLosesBranch(n) ==
  /\ Wake(n) /\ job[n] = "err"
  /\ ~aborted /\ policy = "skip_dependents"
  /\ st' = [st EXCEPT ![n] = "failed"]
  /\ job' = [job EXCEPT ![n] = "none"]
  /\ failedSome' = TRUE
  /\ toSkip' = {m \in Below[n] : st[m] \in {"pending", "ready"}}
  /\ loop' = "scan" /\ cpu' = "loop"
  /\ UNCHANGED <<runVars, nodeVars, verdict, cause, aborted, started,
                 envVars>>

SkipOne(n) ==
  /\ cpu = "loop" /\ n \in toSkip
  /\ st' = [st EXCEPT ![n] = "skipped"]
  /\ db' = [db EXCEPT ![n] = "skipped"]
  /\ toSkip' = toSkip \ {n}
  /\ UNCHANGED <<runVars, attempt, restarted, inputs, history, participant,
                 cpu, verdict, loop, job, cause, failedSome, aborted,
                 started, envVars>>

(* The siblings of the node that stopped the run have settled.             *)
\* Mutant: the scheduler waits for the siblings to succeed.
DrainedOk == \A n \in Active : job[n] = "ok"

Drained == \A n \in Active : job[n] \in {"ok", "err"}

Drain ==
  /\ cpu = "free" /\ loop = "drain" /\ Drained
  /\ st' = [n \in Nodes |-> IF n \notin Active THEN st[n]
                            ELSE IF job[n] = "ok" THEN "completed"
                            ELSE "cancelled"]
  /\ job' = [n \in Nodes |-> IF n \in Active THEN "none" ELSE job[n]]
  /\ loop' = "closing"
  /\ UNCHANGED <<runVars, nodeVars, cpu, verdict, cause, failedSome, toSkip,
                 aborted, started, envVars>>

-----------------------------------------------------------------------------
(* executeNodeWithRetries: one attempt, from its checks to the call of the *)
(* adapter.                                                                *)

\* Mutant: a retry is played under the number of the attempt that failed.
NextAttemptAgain(n) == IF attempt[n] = 0 THEN 1 ELSE attempt[n]

\* An attempt that a restart interrupted is played again under its number.
NextAttempt(n) ==
  IF attempt[n] > 0 /\ db[n] = "ready" /\ restarted[n]
  THEN attempt[n] ELSE attempt[n] + 1

\* Mutant: the cancellation of the run is not looked at.
MayBeginStopped(n) == /\ NextAttempt(n) <= RetryLimit[n] + 1
                      /\ ~expired /\ started < MaxTurns

\* Mutant: one attempt too many.
MayBeginLate(n) == /\ NextAttempt(n) <= RetryLimit[n] + 1
                   /\ ~Stopped /\ ~expired /\ started <= MaxTurns

MayBegin(n) == /\ NextAttempt(n) <= RetryLimit[n] + 1
               /\ ~Stopped /\ ~expired /\ started < MaxTurns

NodeBegins(n) ==
  /\ cpu = "free" /\ job[n] = "begin" /\ MayBegin(n) /\ db[n] = "ready"
  /\ db' = [db EXCEPT ![n] = "running"]
  /\ attempt' = [attempt EXCEPT ![n] = NextAttempt(n)]
  /\ restarted' = [restarted EXCEPT ![n] = FALSE]
  /\ participant' = [participant EXCEPT ![Owner[n]] = "active"]
  /\ started' = started + 1
  /\ job' = [job EXCEPT ![n] = "turn"]
  /\ UNCHANGED <<runVars, inputs, history, cpu, verdict, loop, st, cause,
                 failedSome, toSkip, aborted, envVars>>

(* The run was stopped, a budget is used up, or a cancellation has taken   *)
(* the node: the attempt is given up before anything is written.           *)
NodeRefused(n) ==
  /\ cpu = "free" /\ job[n] = "begin"
  /\ ~MayBegin(n) \/ db[n] # "ready"
  /\ job' = [job EXCEPT ![n] = "err"]
  /\ started' = IF MayBegin(n) THEN started + 1 ELSE started
  /\ UNCHANGED <<runVars, nodeVars, cpu, verdict, loop, st, cause, failedSome,
                 toSkip, aborted, envVars>>

\* The attempt's turn, input and node row are written in one transaction.
Record(n, status, owner) ==
  /\ db' = [db EXCEPT ![n] = status]
  /\ inputs' = inputs \cup {<<n, attempt[n]>>}
  /\ history' = history + 1
  /\ participant' = [participant EXCEPT ![Owner[n]] = owner]

Running(n) == cpu = "free" /\ job[n] = "turn"

NodeAnswers(n) ==
  /\ Running(n) /\ db[n] = "running"
  /\ Record(n, "completed", "idle")
  /\ job' = [job EXCEPT ![n] = "ok"]
  /\ UNCHANGED <<runVars, attempt, restarted, cpu, verdict, loop, st, cause,
                 failedSome, toSkip, aborted, started, envVars>>

(* The attempt fails, at the latest by the node's timeout (an answer that  *)
(* comes after it is dropped by nextWithTimeout).                          *)
NodeFails(n) ==
  /\ Running(n) /\ db[n] = "running"
  /\ IF Stopped THEN Record(n, "cancelled", "cancelled")
                 ELSE Record(n, "failed", "failed")
  /\ job' = [job EXCEPT ![n] = "err"]
  /\ UNCHANGED <<runVars, attempt, restarted, cpu, verdict, loop, st, cause,
                 failedSome, toSkip, aborted, started, envVars>>

MayRetry(n) == ~Stopped /\ attempt[n] <= RetryLimit[n]

NodeRetries(n) ==
  /\ Running(n) /\ db[n] = "running" /\ MayRetry(n)
  /\ Record(n, "ready", "idle")
  /\ job' = [job EXCEPT ![n] = "begin"]
  /\ UNCHANGED <<runVars, attempt, restarted, cpu, verdict, loop, st, cause,
                 failedSome, toSkip, aborted, started, envVars>>

(* A cancellation has closed the node's row: nothing more is stored.       *)
NodeOverruled(n) ==
  /\ Running(n) /\ db[n] \in Settled
  /\ job' = [job EXCEPT ![n] = "err"]
  /\ UNCHANGED <<runVars, nodeVars, cpu, verdict, loop, st, cause,
                 failedSome, toSkip, aborted, started, envVars>>

-----------------------------------------------------------------------------
(* The end of executeLoop.                                                 *)

TerminalLost == /\ policy = "skip_dependents" /\ failedSome
                /\ \A n \in Terminal : db[n] # "completed"

FinishThrows == TerminalLost \/ run \in Ended

Finish ==
  /\ cpu = "free" /\ loop = "finishing"
  /\ IF FinishThrows
     THEN /\ cause' = "failed" /\ loop' = "closing"
          /\ UNCHANGED <<run, audits>>
     ELSE /\ run' = "completed" /\ audits' = audits + 1
          /\ loop' = "off"
          /\ UNCHANGED cause
  /\ UNCHANGED <<policy, nodeVars, cpu, verdict, st, job, failedSome, toSkip,
                 aborted, started, envVars>>

(* The adapters are closed and settleFailure begins: close what is left    *)
(* and then the run.                                                       *)
Closes(v) == cpu' = "close" /\ verdict' = v

AdaptersClosed ==
  /\ cpu = "free" /\ loop = "closing"
  /\ Closes(IF aborted \/ cause = "cancelled" THEN "cancelled" ELSE "failed")
  /\ loop' = "settling"
  /\ UNCHANGED <<runVars, nodeVars, st, job, cause, failedSome, toSkip,
                 aborted, started, envVars>>

CloseNode(n) ==
  /\ cpu = "close" /\ n \in Unsettled
  /\ db' = [db EXCEPT ![n] = "cancelled"]
  /\ UNCHANGED <<runVars, attempt, restarted, inputs, history, participant,
                 cpu, verdict, loop, memVars, envVars>>

Verdict == IF run \in Ended THEN run ELSE verdict

CloseRun ==
  /\ cpu = "close" /\ Unsettled = {}
  /\ run' = Verdict
  /\ cpu' = "free"
  /\ IF loop = "settling" THEN loop' = "off" /\ audits' = audits + 1
                          ELSE UNCHANGED <<loop, audits>>
  /\ UNCHANGED <<policy, nodeVars, verdict, memVars, envVars>>

-----------------------------------------------------------------------------
(* cancelRun: abort the scheduler; a run that has none, or that is being   *)
(* aborted already, is closed in the database at once.                     *)
Cancel ==
  /\ cpu = "free" /\ run \notin {"none"} \cup Ended
  /\ cancels < MaxCancels /\ cancels' = cancels + 1
  /\ IF loop # "off" /\ ~aborted
     THEN aborted' = TRUE /\ UNCHANGED <<cpu, verdict>>
     ELSE Closes("cancelled") /\ UNCHANGED aborted
  /\ UNCHANGED <<runVars, nodeVars, loop, st, job, cause, failedSome, toSkip,
                 started, expired, crashes>>

(* maxWallClockMs after the start of the run.                              *)
Expire ==
  /\ ~expired /\ run \notin {"none"} \cup Ended
  /\ expired' = TRUE
  /\ UNCHANGED <<runVars, nodeVars, cpu, verdict, loop, memVars, crashes,
                 cancels>>

(* The process dies between two transactions.                              *)
Fresh ==
  /\ st' = [n \in Nodes |-> "pending"] /\ job' = [n \in Nodes |-> "none"]
  /\ aborted' = FALSE /\ cause' = "none" /\ failedSome' = FALSE
  /\ toSkip' = {} /\ started' = 0
  /\ verdict' = "none" /\ loop' = "off"

Crash ==
  /\ run \in {"running", "paused"}
  /\ crashes < MaxCrashes /\ crashes' = crashes + 1
  /\ Fresh
  /\ cpu' = IF run = "running" THEN "recover" ELSE "free"
  /\ UNCHANGED <<runVars, nodeVars, expired, cancels>>

-----------------------------------------------------------------------------
(* recoverRunningRuns, before the bridge serves anybody.                   *)

\* Mutant: a restart plays the failed nodes again.
InterruptedFailed == {n \in Nodes : db[n] \in {"running", "failed"}}

Interrupted == {n \in Nodes : db[n] = "running"}

\* Attempts started, as the stored state tells it.
AttemptsStored == history + Cardinality({n \in Nodes : db[n] = "ready" /\ restarted[n]})

Lost == IF policy # "skip_dependents" THEN {}
        ELSE {m \in UNION {Below[n] : n \in {k \in Nodes : db[k] = "failed"}} :
                db[m] \in {"pending", "ready"}}

RecoverNode(n) ==
  /\ cpu = "recover" /\ n \in Interrupted
  /\ db' = [db EXCEPT ![n] = "ready"]
  /\ restarted' = [restarted EXCEPT ![n] = TRUE]
  /\ participant' = [participant EXCEPT ![Owner[n]] = "idle"]
  /\ UNCHANGED <<runVars, attempt, inputs, history, cpu, verdict, loop,
                 memVars, envVars>>

RecoverSkips(n) ==
  /\ cpu = "recover" /\ Interrupted = {} /\ n \in Lost
  /\ db' = [db EXCEPT ![n] = "skipped"]
  /\ UNCHANGED <<runVars, attempt, restarted, inputs, history, participant,
                 cpu, verdict, loop, memVars, envVars>>

Some(status) == \E n \in Nodes : db[n] = status

Recovered == cpu = "recover" /\ Interrupted = {} /\ Lost = {}

RecoverStopped ==
  /\ Recovered
  /\ Some("cancelled") \/ (policy = "fail_fast" /\ Some("failed"))
  /\ Closes(IF Some("cancelled") THEN "cancelled" ELSE "failed")
  /\ UNCHANGED <<runVars, nodeVars, loop, memVars, envVars>>

Resumable == /\ ~Some("cancelled")
             /\ ~(policy = "fail_fast" /\ Some("failed"))
             /\ Unsettled # {}

RecoverFinished ==
  /\ Recovered /\ ~Some("cancelled")
  /\ ~(policy = "fail_fast" /\ Some("failed"))
  /\ Unsettled = {}
  /\ run' = IF /\ policy = "skip_dependents" /\ Some("failed")
               /\ \A n \in Terminal : db[n] # "completed"
            THEN "failed" ELSE "completed"
  /\ cpu' = "free"
  /\ UNCHANGED <<policy, audits, nodeVars, verdict, loop, memVars, envVars>>

\* What is left of the wall clock and of the turns, as resume checks it too.
BudgetGone == expired \/ AttemptsStored >= MaxTurns
GoneVerdict == IF expired THEN "timed_out" ELSE "budget_exhausted"

RecoverOutOfBudget ==
  /\ Recovered /\ Resumable /\ BudgetGone
  /\ Closes(GoneVerdict)
  /\ UNCHANGED <<runVars, nodeVars, loop, memVars, envVars>>

RecoverPauses ==
  /\ Recovered /\ Resumable /\ ~BudgetGone
  /\ run' = "paused" /\ cpu' = "free"
  /\ UNCHANGED <<policy, audits, nodeVars, verdict, loop, memVars, envVars>>

(* resume(): with the acknowledgement that interrupted attempts are played *)
(* again.                                                                  *)
ResumeRefused ==
  /\ cpu = "free" /\ run = "paused" /\ BudgetGone
  /\ Closes(GoneVerdict)
  /\ UNCHANGED <<runVars, nodeVars, loop, memVars, envVars>>

Resume ==
  /\ cpu = "free" /\ run = "paused" /\ ~BudgetGone
  /\ run' = "running" /\ cpu' = "loop" /\ loop' = "scan"
  /\ st' = db /\ started' = AttemptsStored
  /\ UNCHANGED <<policy, audits, nodeVars, verdict, job, cause, failedSome,
                 toSkip, aborted, envVars>>

-----------------------------------------------------------------------------
SchedulerStep == \/ ScanReturns \/ ScanCancels \/ ScanMarks \/ ScanDispatches
                 \/ ScanWaits \/ ScanThrows \/ Drain \/ Finish
                 \/ \E n \in Nodes : \/ NodeCompleted(n) \/ NodeStopsRun(n)
                                     \/ NodeLosesBranch(n) \/ SkipOne(n)

NodeStep(n) == \/ NodeBegins(n) \/ NodeRefused(n) \/ NodeAnswers(n)
               \/ NodeRetries(n) \/ NodeOverruled(n)
               \/ NodeFails(n)

CloseStep == AdaptersClosed \/ CloseRun \/ \E n \in Nodes : CloseNode(n)

RecoverStep == \/ \E n \in Nodes : RecoverNode(n) \/ RecoverSkips(n)
               \/ RecoverStopped \/ RecoverFinished \/ RecoverOutOfBudget
               \/ RecoverPauses

\* What the process does by itself once it has begun.
Progress == \/ SchedulerStep \/ CloseStep \/ RecoverStep
            \/ \E n \in Nodes : NodeStep(n)

Next == \/ Start \/ Progress \/ Cancel \/ Expire \/ Crash
        \/ Resume \/ ResumeRefused

Spec == Init /\ [][Next]_vars

\* The event loop goes on with what has been resolved, and an adapter's call
\* ends: it is raced against the node's timeout.
FairSpec == Spec /\ WF_vars(Progress)

-----------------------------------------------------------------------------
TypeOK ==
  /\ run \in {"none", "running", "paused"} \cup Ended
  /\ policy \in Policies /\ audits \in 0..1
  /\ db \in [Nodes -> NodeStatus]
  /\ attempt \in [Nodes -> Nat]
  /\ restarted \in [Nodes -> BOOLEAN]
  /\ inputs \subseteq Nodes \X Nat /\ history \in Nat
  /\ participant \in [Participants -> {"idle", "active", "failed", "cancelled"}]
  /\ cpu \in {"free", "loop", "close", "recover"}
  /\ verdict \in {"none"} \cup Ended
  /\ loop \in {"off", "scan", "wait", "drain", "finishing", "closing", "settling"}
  /\ st \in [Nodes -> NodeStatus]
  /\ job \in [Nodes -> {"none", "begin", "turn", "ok", "err"}]
  /\ aborted \in BOOLEAN /\ cause \in {"none", "failed", "cancelled"}
  /\ failedSome \in BOOLEAN /\ toSkip \subseteq Nodes
  /\ started \in 0..MaxTurns
  /\ expired \in BOOLEAN
  /\ crashes \in 0..MaxCrashes /\ cancels \in 0..MaxCancels

(* Whatever state a crash leaves in the database, startup recovery and     *)
(* resume accept it: none of the conditions under which                    *)
(* deriveCollaborationDagPersistedState reports persistence_corruption,    *)
(* and none of recoverRunningRuns' own, ever arises.                       *)
RecoveryAccepts ==
  run # "none" =>
    /\ \A n \in Nodes :
         /\ attempt[n] <= RetryLimit[n] + 1
         /\ db[n] = "pending" => attempt[n] = 0
         /\ db[n] \in {"running", "completed"} => attempt[n] > 0
         /\ db[n] = "completed" => <<n, attempt[n]>> \in inputs
         /\ db[n] = "ready" /\ attempt[n] > 0 /\ ~restarted[n]
              => <<n, attempt[n]>> \in inputs
         /\ db[n] = "running" => participant[Owner[n]] = "active"
    /\ \A i \in inputs : /\ i[2] \in 1..attempt[i[1]]
                         /\ \A d \in Deps[i[1]] : db[d] = "completed"
    /\ history = Cardinality(inputs)
    /\ AttemptsStored + Cardinality(Interrupted) <= MaxTurns
    /\ \A n, m \in Interrupted : Owner[n] = Owner[m] => n = m

(* A run is ended only when each of its nodes is: a stopped run leaves no  *)
(* node open.  The exception the code makes: under skip_dependents a node  *)
(* that found the budget used up is lost without being stored as failed.   *)
EndedRunSettled ==
  run \in Ended =>
    \/ \A n \in Nodes : db[n] \in Settled
    \/ /\ run = "completed" /\ policy = "skip_dependents"
       /\ expired \/ started >= MaxTurns

(* Outcomes are final.  A node that has settled is never begun again or    *)
(* given another outcome, by a retry, a cancellation that overtakes it, or *)
(* a recovery; an ended run is not written to any more, although jobs of   *)
(* the scheduler may still come back; and once the abort of a cancellation *)
(* has been given no further attempt begins (those under way may complete).*)
OutcomesFinal ==
  [][/\ \A n \in Nodes : db[n] \in Settled =>
          db'[n] = db[n] /\ attempt'[n] = attempt[n]
     /\ run \in Ended => UNCHANGED <<run, db, attempt, inputs, history>>
     /\ aborted /\ aborted' =>
          \A n \in Nodes : db'[n] = "running" => db[n] = "running"]_vars

(* A running run ends or is paused; and one whose scheduler is aborted     *)
(* ends, unless the process dies first.                                    *)
RunSettles ==
  /\ run = "running" ~> run # "running"
  /\ aborted ~> (run \in Ended \/ ~aborted)
-----------------------------------------------------------------------------
\* What the clients of the run see.
Phase == IF run = "none" THEN "idle" ELSE IF run \in Ended THEN "over" ELSE "open"
Seen(status) == CASE status \in {"pending", "ready"} -> "waiting"
                  [] status = "running"   -> "working"
                  [] status = "completed" -> "done"
                  [] OTHER                -> "dropped"

Graph == INSTANCE DagExecution
           WITH phase <- Phase, node <- [n \in Nodes |-> Seen(db[n])]

(* Every step, with its failures, cancellations, crashes and recoveries,   *)
(* is a step that DagExecution allows on what is stored, or changes        *)
(* nothing there.                                                          *)
ImplementsDagExecution == Graph!Spec

=============================================================================
