------------------------------- MODULE RoleRun -------------------------------
(***************************************************************************)
(* One role-based collaboration: the loop that gives the roles their turns *)
(* (RunController.executeRoleBasedLoop) with retries and budgets, its      *)
(* SQLite state, cancellation of the run or of a participant, process      *)
(* crashes, startup recovery and resume from the derived cursor.           *)
(*                                                                         *)
(* Every database transaction is a step of its own, because the process    *)
(* may die between two of them.  A stretch of code without an await runs   *)
(* alone: while the loop is at "check", or a terminal event is owed, no    *)
(* other call enters (AtAwait).                                            *)
(***************************************************************************)
EXTENDS Integers, Sequences, FiniteSets

CONSTANTS
  Roles,          \* length of policy.roleSequence; role r is participant r
  TerminalRoles,  \* policy.terminalRoles
  MaxTurns,       \* budget.maxTurns
  MaxRetries,     \* budget.maxRetriesPerParticipant
  MaxCrashes,     \* bound on process crashes
  MaxFaults       \* bound on writes (of the run or of the audit trail) that throw

ASSUME RolesAssumption == Roles \in Nat \ {0} /\ TerminalRoles \subseteq 1 .. Roles
ASSUME BudgetAssumption == MaxTurns \in Nat \ {0} /\ MaxRetries \in Nat
ASSUME BoundAssumption == MaxCrashes \in Nat /\ MaxFaults \in Nat

VARIABLES
  \* persisted
  once,       \* policy.loopMode is "once" (otherwise "repeat_until_done")
  run,        \* the run's row: status, round, active participant (0: none)
  part,       \* each participant's row: status, turnsExecuted, consecutiveFailures
  turns,      \* the stored turns, each with the index of its message or NoMsg
  announced,  \* the statuses of the terminal audit events
  \* in memory
  up,         \* the daemon has started and serves calls
  loop,       \* where executeRoleBasedLoop is, and its control record
  leaving,    \* what an earlier loop that still closes adapters will do at its end
  registered, \* activeRoleRuns has the run
  settled,    \* settledTerminalAudits has the run
  owed,       \* emitTerminalAudit is the next statement
  \* environment
  expired,    \* maxWallClockMs have passed since startedAt
  crashes, faults

stored == <<once, run, part, turns>>
memory == <<loop, leaving, registered>>
vars == <<once, run, part, turns, announced, up, loop, leaving, registered,
          settled, owed, expired, crashes, faults>>

Ids == 1 .. Roles
NoMsg == -1
Terminal == {"completed", "failed", "cancelled", "budget_exhausted", "timed_out"}

Gone == [pc |-> "gone", p |-> 1, round |-> 0, idx |-> 0, msg |-> 0, attempt |-> 0,
         start |-> 0, init |-> {}, aborted |-> FALSE, cancelled |-> {}, act |-> 0,
         acked |-> FALSE, exit |-> "normal"]

Init == /\ once \in BOOLEAN
        /\ run = [status |-> "none", round |-> 0, active |-> 0]
        /\ part = [r \in Ids |-> [st |-> "pending", exec |-> 0, fails |-> 0]]
        /\ turns = <<>> /\ announced = <<>>
        /\ up = TRUE /\ loop = Gone /\ leaving = "none" /\ registered = FALSE
        /\ settled = FALSE /\ owed = FALSE
        /\ expired = FALSE /\ crashes = 0 /\ faults = 0

-----------------------------------------------------------------------------
\* The execution cursor that deriveRoleExecutionCursor replays from the rows.

Done(n) == Cardinality({i \in 1 .. n : turns[i].st = "completed"})
LastDone(r) == {i \in DOMAIN turns : turns[i].p = r /\ turns[i].st = "completed"}
FailsOf(r) == Cardinality({i \in DOMAIN turns : /\ turns[i].p = r
                                                /\ turns[i].st = "failed"
                                                /\ \A j \in LastDone(r) : j < i})
Messages(n) == Cardinality({i \in 1 .. n : turns[i].msg # NoMsg})

CursorRound == IF once THEN 0 ELSE Done(Len(turns)) \div Roles
\* Mutant: failed turns advance the cursor too.
CursorSeqByTurns == IF once THEN Len(turns) + 1 ELSE (Len(turns) % Roles) + 1

CursorSeq == IF once THEN Done(Len(turns)) + 1 ELSE (Done(Len(turns)) % Roles) + 1

\* Each stored turn is the one the replay expects at its place.
TurnAccepted(i) ==
  LET d == Done(i - 1) IN
  /\ turns[i].idx = i - 1
  /\ once => d < Roles
  /\ turns[i].p = (d % Roles) + 1
  /\ turns[i].round = IF once THEN 0 ELSE d \div Roles
  /\ turns[i].msg \in {NoMsg, Messages(i - 1)}
  /\ turns[i].why # "decision" => turns[i].msg = NoMsg

CursorAccepted ==
  /\ run.status = "paused" => run.active = 0 /\ \A r \in Ids : part[r].st # "active"
  /\ \A i \in DOMAIN turns : TurnAccepted(i)
  /\ \A r \in Ids : /\ part[r].exec = Cardinality(LastDone(r))
                    /\ part[r].fails = FailsOf(r)

\* The participant's latest turn was cut off by a restart of the daemon.
LastInterrupted(r) ==
  \E i \in DOMAIN turns : /\ turns[i].p = r /\ turns[i].why = "daemon"
                          /\ \A j \in i + 1 .. Len(turns) : turns[j].p # r

-----------------------------------------------------------------------------
\* Between awaits nobody else runs.
AtAwait == up /\ ~owed /\ loop.pc # "check"
LoopRuns(pc) == up /\ ~owed /\ loop.pc = pc

Fault == faults < MaxFaults /\ faults' = faults + 1
NoFault == faults' = faults

\* Mutant: settledTerminalAudits is not looked at.
AnnounceAgain == /\ up /\ owed
                 /\ announced' = Append(announced, run.status)
                 /\ settled' = TRUE /\ owed' = FALSE
                 /\ UNCHANGED <<stored, memory, up, expired, crashes, faults>>

\* emitTerminalAudit, called with a terminal run: once per process.
Announce == /\ up /\ owed
            /\ announced' = IF settled THEN announced ELSE Append(announced, run.status)
            /\ settled' = TRUE /\ owed' = FALSE
            /\ UNCHANGED <<stored, memory, up, expired, crashes, faults>>

\* The loop is left; the adapters are closed before the promise settles.
Left(exit) == [Gone EXCEPT !.pc = "cleanup", !.exit = exit, !.aborted = loop.aborted,
                           !.cancelled = loop.cancelled]

\* The loop reaches role p of the sequence.
Enter(p, round) == [loop EXCEPT !.pc = "check", !.p = p, !.round = round, !.act = 0,
                                !.attempt = IF p = loop.start THEN part[p].fails ELSE 0]

Turn(st, why, msg) == [p |-> loop.p, idx |-> loop.idx, round |-> loop.round,
                       st |-> st, why |-> why, msg |-> msg]

\* The participant's counters after a turn.
Counted(r, t, st) == [st |-> st,
                      exec |-> r.exec + (IF t.st = "completed" THEN 1 ELSE 0),
                      fails |-> CASE t.st = "completed" -> 0
                                  [] t.st = "failed" -> r.fails + 1
                                  [] OTHER -> r.fails]

\* Mutant: a patch on a run that has ended is let through.
RecordedAnyway(t, st, status, round) ==
  /\ turns' = Append(turns, t)
  /\ part' = [part EXCEPT ![t.p] = Counted(@, t, st)]
  /\ run' = [status |-> status, round |-> round, active |-> 0]
  /\ UNCHANGED once

\* recordTurnTransaction: the turn, its message, the participant and the run.
Recorded(t, st, status, round) ==
  /\ run.status = "running"
  /\ turns' = Append(turns, t)
  /\ part' = [part EXCEPT ![t.p] = Counted(@, t, st)]
  /\ run' = [status |-> status, round |-> round, active |-> 0]
  /\ UNCHANGED once

\* A write of the loop that throws: the database failed, or the run has ended
\* and assertRoleBasedRunPatchAllowed refuses.
\* act is control.activeParticipantId at that point.
Refused(act) == /\ IF run.status = "running" THEN Fault ELSE NoFault
                /\ loop' = [Left("persist") EXCEPT !.act = act] /\ owed' = FALSE
                /\ UNCHANGED stored

\* A turn ends: it is recorded, then its audit event is written, which may
\* throw; the loop goes on as next says.
EndTurn(t, st, status, round, act, next) ==
  /\ \/ /\ Recorded(t, st, status, round)
        /\ \/ NoFault /\ loop' = next /\ owed' = (status \in Terminal)
           \/ Fault /\ loop' = Left("error") /\ owed' = FALSE
     \/ Refused(act)
  /\ UNCHANGED <<announced, up, leaving, registered, settled, expired, crashes>>

\* finalizeRoleRunDurably, the loop's own last word.
FinalizeRoleRunDurably(status) ==
  /\ \/ /\ run.status = "running" /\ NoFault
        /\ run' = [status |-> status, round |-> loop.round, active |-> 0]
        /\ loop' = Left("normal") /\ owed' = TRUE
     \/ /\ IF run.status = "running" THEN Fault ELSE NoFault
        /\ UNCHANGED run /\ loop' = Left("error") /\ owed' = FALSE
  /\ UNCHANGED <<once, part, turns, announced, up, leaving, registered, settled,
                 expired, crashes>>

-----------------------------------------------------------------------------
\* startRoleBasedRun: the run is created; if the "collaboration.started" event
\* cannot be written the call throws before the loop exists.
Start == /\ up /\ run.status = "none"
         /\ run' = [run EXCEPT !.status = "running"]
         /\ \/ /\ NoFault /\ registered' = TRUE
               /\ loop' = [Gone EXCEPT !.pc = "check"]
            \/ Fault /\ UNCHANGED <<loop, registered>>
         /\ UNCHANGED <<once, part, turns, announced, up, leaving, settled, owed,
                        expired, crashes>>

\* Mutant: one turn more than the budget.
VerdictOffByOne == IF loop.idx > MaxTurns THEN "budget_exhausted"
                   ELSE IF expired THEN "timed_out"
                   ELSE IF loop.cancelled # {} THEN "failed"
                   ELSE IF loop.aborted THEN "cancelled"
                   ELSE "running"

\* The limits looked at before each turn, in the code's order.
Verdict == IF loop.idx >= MaxTurns THEN "budget_exhausted"
           ELSE IF expired THEN "timed_out"
           ELSE IF loop.cancelled # {} THEN "failed"
           ELSE IF loop.aborted THEN "cancelled"
           ELSE "running"

CheckStops == /\ LoopRuns("check") /\ loop.p <= Roles /\ Verdict # "running"
              /\ FinalizeRoleRunDurably(Verdict)

\* The participant is marked active; an adapter is initialised on first use.
Begin == /\ LoopRuns("check") /\ loop.p <= Roles /\ Verdict = "running"
         /\ \/ /\ run.status = "running"
               /\ part' = [part EXCEPT ![loop.p].st = "active"]
               /\ run' = [run EXCEPT !.active = loop.p]
               /\ \/ /\ NoFault
                     /\ loop' = [loop EXCEPT
                          !.act = loop.p,
                          !.pc = IF loop.p \in loop.init THEN "turn" ELSE "init"]
                  \/ Fault /\ loop' = [Left("error") EXCEPT !.act = loop.p]
               /\ UNCHANGED <<once, turns, owed>>
            \/ Refused(0)
         /\ UNCHANGED <<announced, up, leaving, registered, settled, expired, crashes>>

\* Mutant: the next round does not begin with the first role.
EndOfSequenceRunsOn ==
  /\ LoopRuns("check") /\ loop.p > Roles
  /\ IF once
     THEN FinalizeRoleRunDurably("completed")
     ELSE /\ loop' = Enter(loop.p + 1, loop.round + 1)
          /\ UNCHANGED <<stored, announced, up, leaving, registered, settled, owed,
                         expired, crashes, faults>>

\* Every role has had its turn.
EndOfSequence ==
  /\ LoopRuns("check") /\ loop.p > Roles
  /\ IF once
     THEN FinalizeRoleRunDurably("completed")
     ELSE /\ loop' = Enter(1, loop.round + 1)
          /\ UNCHANGED <<stored, announced, up, leaving, registered, settled, owed,
                         expired, crashes, faults>>

\* The adapter is ready; the deadline is looked at once more.
Initialized ==
  /\ LoopRuns("init")
  /\ IF expired
     THEN IF run.status = "running"
          THEN FinalizeRoleRunDurably("timed_out")
          ELSE /\ loop' = Left("normal")
               /\ UNCHANGED <<stored, announced, up, leaving, registered, settled,
                              owed, expired, crashes, faults>>
     ELSE /\ loop' = [loop EXCEPT !.pc = "turn", !.init = @ \cup {loop.p}]
          /\ UNCHANGED <<stored, announced, up, leaving, registered, settled, owed,
                         expired, crashes, faults>>

\* Mutant: one retry too many.
MayRetryOnceMore == /\ loop.attempt <= MaxRetries /\ loop.idx + 1 < MaxTurns
                    /\ ~expired /\ ~loop.aborted /\ loop.cancelled = {}

\* What a retry needs besides a retryable error.
MayRetry == /\ loop.attempt < MaxRetries /\ loop.idx + 1 < MaxTurns
            /\ ~expired /\ ~loop.aborted /\ loop.cancelled = {}

\* How a failure that is not retried leaves the run.
GivenUp(retryable) == IF retryable /\ loop.idx + 1 >= MaxTurns THEN "budget_exhausted"
                      ELSE IF retryable /\ expired THEN "timed_out"
                      ELSE "failed"

\* Mutant: a retried turn is not counted.
RetriedUncounted(pc) == [loop EXCEPT !.pc = pc, !.attempt = @ + 1, !.act = 0]

Retried(pc) == [loop EXCEPT !.pc = pc, !.idx = @ + 1, !.attempt = @ + 1, !.act = 0]

InitializeThrows(retryable) ==
  /\ LoopRuns("init")
  /\ IF retryable /\ MayRetry
     THEN EndTurn(Turn("failed", "thrown", NoMsg), "idle", "running", run.round,
                  loop.act, Retried("closing"))
     ELSE EndTurn(Turn("failed", "thrown", NoMsg), "failed", "failed", run.round,
                  loop.act, Left("normal"))

\* A turn that is interrupted because another participant was cancelled keeps
\* the terminal values that the cancellation has stored.
OtherCancelled ==
  /\ \/ /\ run.status \in {"running", "failed"}
        /\ turns' = Append(turns, Turn("cancelled", "thrown", NoMsg))
        /\ part' = [part EXCEPT ![loop.p].st = "idle"]
        /\ run' = [run EXCEPT !.status = "failed", !.active = 0]
        /\ \/ NoFault /\ loop' = Left("normal") /\ owed' = TRUE
           \/ Fault /\ loop' = Left("error") /\ owed' = FALSE
        /\ UNCHANGED once
     \/ run.status # "failed" /\ Refused(0)
     \/ run.status = "failed" /\ Fault /\ loop' = Left("persist") /\ UNCHANGED <<stored, owed>>
  /\ UNCHANGED <<announced, up, leaving, registered, settled, expired, crashes>>

\* adapter.next throws: a cancellation takes precedence over the deadline, and
\* the deadline over the adapter's own error.
TurnThrows(retryable) ==
  /\ LoopRuns("turn")
  /\ IF loop.p \in loop.cancelled
     THEN EndTurn(Turn("cancelled", "thrown", NoMsg), "cancelled", "failed", run.round,
                  0, Left("normal"))
     ELSE IF loop.cancelled # {} THEN OtherCancelled
     ELSE IF loop.aborted
     THEN EndTurn(Turn("cancelled", "thrown", NoMsg), "cancelled", "cancelled",
                  run.round, 0, Left("normal"))
     ELSE IF expired
     THEN EndTurn(Turn("failed", "thrown", NoMsg), "failed", "timed_out", run.round,
                  0, Left("normal"))
     ELSE IF retryable /\ MayRetry
     THEN EndTurn(Turn("failed", "thrown", NoMsg), "idle", "running", run.round,
                  0, Retried("closing"))
     ELSE EndTurn(Turn("failed", "thrown", NoMsg), "failed", GivenUp(retryable),
                  run.round, 0, Left("normal"))

\* The adapter of the failed attempt is closed and will be initialised again.
RetryCloses == /\ LoopRuns("closing")
               /\ loop' = [loop EXCEPT !.pc = "check", !.init = @ \ {loop.p}]
               /\ UNCHANGED <<stored, announced, up, leaving, registered, settled,
                              owed, expired, crashes, faults>>

\* An explicit error decision has a message and keeps the adapter.
DecidesError(retryable) ==
  /\ LoopRuns("turn")
  /\ IF retryable /\ MayRetry
     THEN EndTurn(Turn("failed", "decision", loop.msg), "idle", "running", loop.round,
                  loop.act, [Retried("check") EXCEPT !.msg = @ + 1])
     ELSE EndTurn(Turn("failed", "decision", loop.msg), "failed", GivenUp(retryable),
                  loop.round, loop.act, Left("normal"))

\* "message", "done" or "pause": the turn is completed.
Decides(d) ==
  /\ LoopRuns("turn")
  /\ LET status == CASE d = "done" /\ loop.p \in TerminalRoles -> "completed"
                     [] d = "pause" -> "paused"
                     [] OTHER -> "running"
         next == IF status # "running" THEN Left("normal")
                 ELSE [Enter(loop.p + 1, loop.round) EXCEPT !.idx = @ + 1, !.msg = @ + 1]
     IN EndTurn(Turn("completed", "decision", loop.msg), "idle", status, loop.round,
                loop.act, next)

\* assertMessageWithinSizeBound throws out of the loop.
DecidesOversize == /\ LoopRuns("turn")
                   /\ loop' = [Left("error") EXCEPT !.act = loop.act]
                   /\ UNCHANGED <<stored, announced, up, leaving, registered, settled,
                                  owed, expired, crashes, faults>>

\* The adapters are closed and the promise settles.  A persistence error is
\* rethrown; after any other error the run is closed as failed or cancelled.
Ended(status) ==
  IF run.status \in Terminal
  THEN owed' = TRUE /\ NoFault /\ UNCHANGED run
  ELSE \/ /\ run' = [run EXCEPT !.status = status, !.active = 0]
          /\ owed' = TRUE /\ NoFault
       \/ Fault /\ UNCHANGED <<run, owed>>

\* Mutant: an error of the loop is taken for a normal end.
OutcomeSwallowed(exit, aborted) == "normal"

Outcome(exit, aborted) == IF exit # "error" THEN "normal"
                          ELSE IF aborted THEN "cancelled" ELSE "failed"

LoopEnds ==
  /\ LoopRuns("cleanup")
  /\ loop' = Gone /\ registered' = FALSE
  /\ IF Outcome(loop.exit, loop.aborted) = "normal" THEN UNCHANGED <<run, owed, faults>>
     ELSE Ended(Outcome(loop.exit, loop.aborted))
  /\ UNCHANGED <<once, part, turns, announced, up, leaving, settled, expired, crashes>>

\* The same for a loop that had paused the run and was still closing its
\* adapters when the run was resumed: its finally deletes the run's entry.
EarlierLoopEnds ==
  /\ AtAwait /\ leaving # "none"
  /\ leaving' = "none" /\ registered' = FALSE
  /\ IF leaving = "normal" THEN UNCHANGED <<run, owed, faults>> ELSE Ended(leaving)
  /\ UNCHANGED <<once, part, turns, announced, up, loop, settled, expired, crashes>>

-----------------------------------------------------------------------------
\* cancelRoleBasedRun: aborts the loop that is registered; without one it
\* closes the run itself.
CancelRun ==
  /\ AtAwait /\ run.status = "running"
  /\ IF registered
     THEN /\ ~loop.aborted /\ loop' = [loop EXCEPT !.aborted = TRUE]
          /\ UNCHANGED <<run, owed>>
     ELSE /\ run' = [run EXCEPT !.status = "cancelled", !.active = 0]
          /\ owed' = TRUE /\ UNCHANGED loop
  /\ UNCHANGED <<once, part, turns, announced, up, leaving, registered, settled,
                 expired, crashes, faults>>

\* cancelRoleParticipant: the active participant's turn is aborted and the loop
\* records it; for any other participant the call itself fails the run first.
CancelParticipant(q) ==
  /\ AtAwait /\ run.status = "running" /\ registered /\ q \notin loop.cancelled
  /\ loop' = [loop EXCEPT !.cancelled = @ \cup {q}, !.aborted = TRUE]
  /\ IF loop.act = q \/ part[q].st = "cancelled"
     THEN UNCHANGED <<run, part, owed, faults>>
     ELSE \/ /\ NoFault /\ owed' = TRUE
             /\ part' = [part EXCEPT ![q].st = "cancelled"]
             /\ run' = [run EXCEPT !.status = "failed", !.active = 0]
          \/ Fault /\ UNCHANGED <<run, part, owed>>
  /\ UNCHANGED <<once, turns, announced, up, leaving, registered, settled, expired,
                 crashes>>

\* Mutant: the last role of the sequence is forgotten.
ReplayRequiredBefore == CursorSeq < Roles /\ LastInterrupted(CursorSeq)

ReplayRequired == CursorSeq <= Roles /\ LastInterrupted(CursorSeq)

\* resumeRoleBasedRun: refused unless the cursor is accepted and, after an
\* interrupted turn, the replay is acknowledged.
Resumable == AtAwait /\ run.status = "paused" /\ leaving = "none" /\ CursorAccepted

ResumeCloses(ack) ==
  /\ Resumable
  /\ \/ /\ once /\ CursorSeq > Roles
        /\ run' = [run EXCEPT !.status = "completed"]
     \/ /\ ~(once /\ CursorSeq > Roles) /\ (ReplayRequired => ack)
        /\ \/ expired /\ run' = [run EXCEPT !.status = "timed_out"]
           \/ /\ ~expired /\ Len(turns) >= MaxTurns
              /\ run' = [run EXCEPT !.status = "budget_exhausted"]
  /\ owed' = TRUE
  /\ UNCHANGED <<once, part, turns, announced, up, memory, settled, expired, crashes,
                 faults>>

\* The run is running again and a loop starts at the cursor; an earlier loop
\* may still be closing its adapters.
Resume(ack) ==
  /\ Resumable
  /\ CursorSeq <= Roles /\ (ReplayRequired => ack)
  /\ ~expired /\ Len(turns) < MaxTurns
  /\ run' = [run EXCEPT !.status = "running"]
  /\ \/ /\ NoFault /\ registered' = TRUE
        /\ leaving' = IF loop.pc = "cleanup" THEN Outcome(loop.exit, loop.aborted)
                      ELSE "none"
        /\ loop' = [Gone EXCEPT !.pc = "check", !.p = CursorSeq, !.start = CursorSeq,
                                !.round = CursorRound, !.idx = Len(turns),
                                !.msg = Messages(Len(turns)),
                                !.attempt = part[CursorSeq].fails, !.acked = ack]
     \/ Fault /\ UNCHANGED memory   \* the "collaboration.resumed" event
  /\ UNCHANGED <<once, part, turns, announced, up, settled, owed, expired, crashes>>

-----------------------------------------------------------------------------
Crash == /\ up /\ crashes < MaxCrashes /\ crashes' = crashes + 1
         /\ up' = FALSE /\ loop' = Gone /\ leaving' = "none" /\ registered' = FALSE
         /\ settled' = FALSE /\ owed' = FALSE
         /\ UNCHANGED <<stored, announced, expired, faults>>

\* What recovery would reject as corrupt, so that the daemon would not start.
RecoverySound ==
  run.status = "running" =>
    IF run.active = 0 THEN \A r \in Ids : part[r].st # "active"
                      ELSE Len(turns) < MaxTurns

\* recoverRoleBasedRuns on a run that was between two turns.
RecoverAtBoundary ==
  /\ run.status = "running" /\ run.active = 0
  /\ run' = [run EXCEPT !.status = IF expired THEN "timed_out"
                                   ELSE IF Len(turns) >= MaxTurns THEN "budget_exhausted"
                                   ELSE "paused"]
  /\ UNCHANGED <<part, turns>>

\* On a run that was in a turn: a synthetic failed turn stands for it.
RecoverTurn ==
  /\ run.status = "running" /\ run.active # 0
  /\ LET p == run.active
         fails == part[p].fails + 1
         status == IF expired THEN "timed_out"
                   ELSE IF Len(turns) + 1 >= MaxTurns THEN "budget_exhausted"
                   ELSE IF fails > MaxRetries THEN "failed"
                   ELSE "paused"
     IN /\ turns' = Append(turns, [p |-> p, idx |-> Len(turns), round |-> run.round,
                                   st |-> "failed", why |-> "daemon", msg |-> NoMsg])
        /\ part' = [part EXCEPT ![p].fails = fails,
                                ![p].st = IF status = "paused" THEN "idle" ELSE "failed"]
        /\ run' = [run EXCEPT !.status = status, !.active = 0]

\* The daemon starts again; it accepts calls after recovery.
Recover == /\ ~up /\ RecoverySound
           /\ up' = TRUE
           /\ \/ RecoverAtBoundary
              \/ RecoverTurn
              \/ run.status # "running" /\ UNCHANGED <<run, part, turns>>
           /\ owed' = (run.status = "running" /\ run'.status \in Terminal)
           /\ UNCHANGED <<once, announced, memory, settled, expired, crashes, faults>>

\* The wall clock passes the deadline, also while the run is paused or down.
Deadline == /\ run.status # "none" /\ ~expired /\ expired' = TRUE
            /\ UNCHANGED <<stored, announced, up, memory, settled, owed, crashes, faults>>

-----------------------------------------------------------------------------
\* What the event loop and the database do by themselves.
CodeStep == Announce \/ CheckStops \/ Begin \/ EndOfSequence \/ RetryCloses
            \/ LoopEnds \/ EarlierLoopEnds \/ Recover

Initializes == Initialized \/ \E r \in BOOLEAN : InitializeThrows(r)

TurnEnds == \/ \E r \in BOOLEAN : TurnThrows(r) \/ DecidesError(r)
            \/ \E d \in {"message", "done", "pause"} : Decides(d)
            \/ DecidesOversize

ClientStep == \/ Start \/ CancelRun
              \/ \E q \in Ids : CancelParticipant(q)
              \/ \E ack \in BOOLEAN : ResumeCloses(ack) \/ Resume(ack)

Next == CodeStep \/ Initializes \/ TurnEnds \/ ClientStep \/ Crash \/ Deadline

Spec == Init /\ [][Next]_vars

\* An adapter's turn ends when its signal is aborted, which the timer of
\* nextAgentDecision does at the deadline at the latest.  An adapter's
\* initialize and close have no timer: that they return is assumed of adapters.
FairSpec == /\ Spec
            /\ WF_vars(CodeStep) /\ WF_vars(Initializes) /\ WF_vars(Deadline)
            /\ WF_vars((loop.aborted \/ expired) /\ TurnEnds)

-----------------------------------------------------------------------------
RunType == [status : Terminal \cup {"none", "running", "paused"}, round : Nat,
            active : 0 .. Roles]
ParticipantType == [st : {"pending", "idle", "active", "failed", "cancelled"},
                    exec : Nat, fails : Nat]
ControlType == [pc : {"gone", "check", "init", "turn", "closing", "cleanup"},
                p : 1 .. Roles + 1, round : Nat, idx : Nat, msg : Nat, attempt : Nat,
                start : 0 .. Roles, init : SUBSET Ids, aborted : BOOLEAN,
                cancelled : SUBSET Ids, act : 0 .. Roles, acked : BOOLEAN,
                exit : {"normal", "error", "persist"}]
TurnType == [p : Ids, idx : Nat, round : Nat, st : {"completed", "failed", "cancelled"},
             why : {"decision", "thrown", "daemon"}, msg : Nat \cup {NoMsg}]

\* Types: rows, control record and counters keep their shape.
TypeOK ==
  /\ once \in BOOLEAN
  /\ run \in RunType
  /\ part \in [Ids -> ParticipantType]
  /\ turns \in Seq(TurnType)
  /\ announced \in Seq(Terminal)
  /\ up \in BOOLEAN /\ registered \in BOOLEAN /\ settled \in BOOLEAN
  /\ owed \in BOOLEAN /\ expired \in BOOLEAN
  /\ loop \in ControlType
  /\ leaving \in {"none", "normal", "failed", "cancelled"}
  /\ crashes \in 0 .. MaxCrashes /\ faults \in 0 .. MaxFaults

\* Whenever the process dies, the rows it leaves are ones that startup recovery
\* accepts (_recoverSingleRun throws persistence_corruption on any other, and
\* the daemon does not start).
RecoveryAccepts == RecoverySound

\* While a loop is on its way, what it holds in memory (position, counters,
\* message index, attempts) is what a replay of the stored rows would derive,
\* so that a resume goes on exactly where the loop was.
CursorMatchesLoop ==
  run.status = "running" /\ loop.pc \in {"check", "init", "turn", "closing"} =>
    /\ CursorAccepted
    /\ loop.idx = Len(turns) /\ loop.msg = Messages(Len(turns))
    /\ loop.round * Roles + loop.p - 1 = Done(Len(turns))
    /\ loop.p <= Roles => loop.attempt = part[loop.p].fails

\* Crashes, restarts and resumes included, a run never has more turns than its
\* budget, and no participant more consecutive failures than its retries allow.
BudgetsKept ==
  /\ Len(turns) <= MaxTurns
  /\ \A r \in Ids : part[r].fails <= MaxRetries + 1

\* A turn that a restart cut off, and that may have had effects, is repeated
\* only by a loop whose caller has acknowledged the replay.
ReplayAcknowledged ==
  loop.pc \in {"init", "turn"} /\ LastInterrupted(loop.p) => loop.acked

\* At most one terminal event is written for a run, over all its processes, and
\* it names the outcome that is stored.
AnnouncedOnce ==
  Len(announced) <= 1 /\ \A i \in DOMAIN announced : announced[i] = run.status

\* A run that has ended keeps its outcome, and no turn is completed for it.
OutcomeFinal ==
  [][run.status \in Terminal =>
       run' = run /\ \A i \in DOMAIN turns' : i > Len(turns) => turns'[i].st = "cancelled"]_vars

Phase == CASE run.status = "none" -> "idle" [] run.status = "running" -> "open"
           [] run.status = "paused" -> "paused" [] OTHER -> "over"

Abstract == INSTANCE RoleExecution WITH
  phase <- Phase, once <- once, done <- Done(Len(turns)), working <- run.active

\* The stored run, whatever the loops, restarts and cancellations do, is one in
\* which the roles take their turns one at a time and in the policy's order.
ImplementsRoleExecution == Abstract!Spec

\* A run that is running settles (ends or is paused), unless a write failed.
RunSettles == run.status = "running" ~> (run.status # "running" \/ faults > 0)

\* "Resume must reconstruct the exact execution cursor from persistence": a
\* run that was left paused can be resumed.
PausedIsResumable == run.status = "paused" => CursorAccepted
=============================================================================
