---------------------------- MODULE RoleRunProofs ----------------------------
(***************************************************************************)
(* Proofs about RoleRun, for any number of roles, any budgets and any      *)
(* bounds on crashes and failing writes: types, what recovery accepts, the *)
(* budgets over restarts and resumes, the single terminal event, and that  *)
(* outcomes are final.                                                     *)
(***************************************************************************)
EXTENDS RoleRun, FiniteSetTheorems, TLAPS

Live   == loop.pc \in {"check", "init", "turn", "closing"}
InTurn == loop.pc \in {"init", "turn"}
Open   == run.status \in {"none", "running", "paused"}

\* Where the loop can be, given the run's row.
Placed ==
  /\ ~up => loop.pc = "gone" /\ leaving = "none" /\ ~owed
  /\ run.status = "none" => loop.pc = "gone" /\ leaving = "none" /\ turns = <<>>
  /\ run.status = "paused" => ~Live
  /\ run.status # "running" => run.active = 0
  /\ owed => run.status \in Terminal
  /\ InTurn \/ loop.pc = "closing" => loop.p <= Roles

\* The loop's turn index counts the stored turns, and leaves room for the turn
\* under way.
TurnsCounted ==
  /\ Len(turns) <= MaxTurns
  /\ Live => loop.idx = Len(turns)
  /\ InTurn => loop.idx < MaxTurns

\* Only the participant whose turn it is has failures, and the loop's attempt
\* number counts them.
FailsCounted ==
  /\ \A r \in Ids : part[r].fails <= MaxRetries + 1
  /\ Open => \A r \in Ids :
       /\ part[r].fails <= MaxRetries
       /\ part[r].fails # 0 => /\ turns # <<>>
                               /\ turns[Len(turns)].p = r
                               /\ turns[Len(turns)].st # "completed"
  /\ Live /\ run.status = "running" =>
       /\ \A r \in Ids : part[r].fails # 0 => r = loop.p
       /\ loop.p <= Roles => loop.attempt = part[loop.p].fails
  /\ run.status = "running" /\ run.active # 0 =>
       \A r \in Ids : part[r].fails # 0 => r = run.active

\* The participant that is marked active is the one the run's row names.
ActiveNamed ==
  /\ run.status \in {"none", "running"} =>
       \A r \in Ids : part[r].st = "active" => r = run.active
  /\ run.status = "running" /\ run.active # 0 => Len(turns) < MaxTurns
  /\ InTurn /\ run.status = "running" => run.active = loop.p
  /\ loop.pc \in {"check", "closing"} /\ run.status = "running" => run.active = 0

\* A terminal event has been written: the process that wrote it remembers, and
\* a later process has no occasion to write another.
Announced ==
  /\ AnnouncedOnce
  /\ announced # <<>> => run.status \in Terminal
  /\ announced # <<>> /\ ~settled => loop.pc = "gone" /\ leaving = "none" /\ ~owed

IInv == TypeOK /\ Placed /\ TurnsCounted /\ FailsCounted /\ ActiveNamed /\ Announced

-----------------------------------------------------------------------------
\* The number of completed turns, and of messages, among the first n.
LEMMA CountsNat ==
  ASSUME NEW n \in Nat
  PROVE  Done(n) \in Nat /\ Messages(n) \in Nat
<1>1. IsFiniteSet(1 .. n)
  BY FS_Interval
<1>2. /\ {i \in 1 .. n : turns[i].st = "completed"} \subseteq 1 .. n
      /\ {i \in 1 .. n : turns[i].msg # NoMsg} \subseteq 1 .. n
  OBVIOUS
<1> QED
  BY <1>1, <1>2, FS_Subset, FS_CardinalityType DEF Done, Messages

\* A turn that was not completed does not move the cursor.
LEMMA DoneSame ==
  ASSUME NEW n \in Nat, turns[n + 1].st # "completed"
  PROVE  Done(n + 1) = Done(n)
<1>1. {i \in 1 .. (n + 1) : turns[i].st = "completed"}
        = {i \in 1 .. n : turns[i].st = "completed"}
  OBVIOUS
<1> QED
  BY <1>1 DEF Done

\* The derived cursor is a place in the sequence.
LEMMA CursorType ==
  ASSUME TypeOK
  PROVE  /\ CursorRound \in Nat /\ CursorSeq \in Nat /\ CursorSeq >= 1
         /\ Messages(Len(turns)) \in Nat
<1>1. Done(Len(turns)) \in Nat /\ Messages(Len(turns)) \in Nat
  BY CountsNat DEF TypeOK
<1>2. Roles \in Nat /\ Roles > 0
  BY RolesAssumption
<1>3. Done(Len(turns)) \div Roles \in Nat /\ Done(Len(turns)) % Roles \in Nat
  <2>1. \A d \in Nat : d \div Roles \in Nat /\ d % Roles \in Nat
    BY <1>2, Z3
  <2> QED
    BY <1>1, <2>1
<1> QED
  BY <1>1, <1>3 DEF CursorRound, CursorSeq

\* The control record of a run without a loop, and what a loop leaves behind.
LEMMA GoneType == Gone \in ControlType /\ Gone.pc = "gone"
  BY RolesAssumption DEF Gone, ControlType, Ids

\* A loop that is left keeps a control record.
LEMMA LeftType ==
  ASSUME TypeOK, NEW e \in {"normal", "error", "persist"}
  PROVE  /\ Left(e) \in ControlType
         /\ Left(e).pc = "cleanup"
         /\ \A a \in 0 .. Roles : /\ [Left(e) EXCEPT !.act = a] \in ControlType
                                  /\ [Left(e) EXCEPT !.act = a].pc = "cleanup"
<1>1. /\ loop.aborted \in BOOLEAN /\ loop.cancelled \in SUBSET Ids
      /\ 0 \in 0 .. Roles /\ 1 \in 1 .. Roles + 1
  BY RolesAssumption DEF TypeOK, ControlType
<1>2. \A c \in ControlType :
        LET d == [c EXCEPT !.pc = "cleanup", !.exit = e, !.aborted = loop.aborted,
                           !.cancelled = loop.cancelled]
        IN d \in ControlType /\ d.pc = "cleanup"
  BY <1>1 DEF ControlType
<1>3. Left(e) \in ControlType /\ Left(e).pc = "cleanup"
  BY <1>2, GoneType DEF Left
<1>4. ASSUME NEW a \in 0 .. Roles
      PROVE  /\ [Left(e) EXCEPT !.act = a] \in ControlType
             /\ [Left(e) EXCEPT !.act = a].pc = "cleanup"
  BY <1>3 DEF ControlType
<1> QED
  BY <1>3, <1>4

-----------------------------------------------------------------------------
\* The invariant holds before the run is started.
LEMMA InitIInv == Init => IInv
<1> SUFFICES ASSUME Init PROVE IInv
  OBVIOUS
<1> USE DEF Init
<1>1. TypeOK
  <2>1. run \in RunType /\ part \in [Ids -> ParticipantType]
    BY RolesAssumption DEF RunType, ParticipantType
  <2>2. turns \in Seq(TurnType) /\ announced \in Seq(Terminal)
    OBVIOUS
  <2>3. crashes \in 0 .. MaxCrashes /\ faults \in 0 .. MaxFaults
    BY BoundAssumption
  <2> QED
    BY <2>1, <2>2, <2>3, GoneType DEF TypeOK
<1>2. Placed /\ TurnsCounted
  BY GoneType, BudgetAssumption DEF Placed, TurnsCounted, Live, InTurn, Terminal
<1>3. FailsCounted
  BY GoneType, BudgetAssumption DEF FailsCounted, Live, Ids
<1>4. ActiveNamed /\ Announced
  BY GoneType DEF ActiveNamed, Announced, AnnouncedOnce, InTurn
<1> QED
  BY <1>1, <1>2, <1>3, <1>4 DEF IInv

-----------------------------------------------------------------------------
\* The loop is left and nothing is stored.
LEMMA LoopLeft ==
  ASSUME IInv, up, loop.pc # "gone",
         UNCHANGED <<stored, announced, up, leaving, registered, settled, expired, crashes>>,
         loop' \in ControlType, loop'.pc = "cleanup",
         ~owed', owed' \in BOOLEAN, faults' \in 0 .. MaxFaults
  PROVE  IInv'
<1> USE DEF IInv, stored
<1>1. TypeOK'
  BY DEF TypeOK
<1>2. Placed' /\ TurnsCounted'
  BY DEF Placed, TurnsCounted, Live, InTurn
<1>3. FailsCounted'
  BY DEF FailsCounted, Live, Open
<1>4. ActiveNamed' /\ Announced'
  BY DEF ActiveNamed, Announced, AnnouncedOnce, InTurn
<1> QED
  BY <1>1, <1>2, <1>3, <1>4

\* The run is closed, by whomever; the loop goes on as it was or is left.
LEMMA RunClosed ==
  ASSUME IInv, up, run.status \in {"running", "paused"},
         run' \in RunType, run'.status \in Terminal, run'.active = 0,
         part' \in [Ids -> ParticipantType],
         \A r \in Ids : part'[r].fails = part[r].fails,
         loop' \in ControlType,
         \/ loop'.pc \in {"gone", "cleanup"}
         \/ /\ loop'.pc = loop.pc /\ loop'.p = loop.p /\ loop'.idx = loop.idx,
         leaving' \in {"none", "normal", "failed", "cancelled"},
         registered' \in BOOLEAN, owed' \in BOOLEAN, faults' \in 0 .. MaxFaults,
         UNCHANGED <<once, turns, announced, up, settled, expired, crashes>>
  PROVE  IInv'
<1> USE DEF IInv
<1>1. announced = <<>>
  BY DEF Announced, Terminal
<1>2. run'.status \notin {"none", "running", "paused"}
  BY DEF Terminal
<1>3. TypeOK'
  BY DEF TypeOK
<1>4. Placed' /\ TurnsCounted'
  BY <1>2 DEF Placed, TurnsCounted, Live, InTurn
<1>5. FailsCounted'
  <2>1. \A r \in Ids : part'[r].fails <= MaxRetries + 1
    BY DEF FailsCounted
  <2> QED
    BY <1>2, <2>1 DEF FailsCounted, Live, Open
<1>6. ActiveNamed' /\ Announced'
  BY <1>1, <1>2 DEF ActiveNamed, Announced, AnnouncedOnce, InTurn
<1> QED
  BY <1>3, <1>4, <1>5, <1>6

\* The loop's own faults.
LEMMA FaultType ==
  ASSUME TypeOK, Fault \/ NoFault
  PROVE  faults' \in 0 .. MaxFaults
  BY BoundAssumption DEF TypeOK, Fault, NoFault

\* A write of the loop that throws keeps the invariant.
LEMMA RefusedInv ==
  ASSUME IInv, up, loop.pc # "gone", NEW act \in 0 .. Roles, Refused(act),
         UNCHANGED <<announced, up, leaving, registered, settled, expired, crashes>>
  PROVE  IInv'
<1>1. loop' \in ControlType /\ loop'.pc = "cleanup"
  BY LeftType DEF Refused, IInv
<1>2. faults' \in 0 .. MaxFaults
  BY FaultType DEF Refused, IInv
<1> QED
  BY <1>1, <1>2, LoopLeft DEF Refused

\* The loop's own last write keeps the invariant, whether it succeeds or throws.
LEMMA FinalizeInv ==
  ASSUME IInv, up, loop.pc # "gone", NEW status \in Terminal,
         FinalizeRoleRunDurably(status)
  PROVE  IInv'
<1>1. Left("normal") \in ControlType /\ Left("error") \in ControlType
      /\ Left("normal").pc = "cleanup" /\ Left("error").pc = "cleanup"
  BY LeftType DEF IInv
<1>2. CASE run.status = "running" /\ run' = [status |-> status, round |-> loop.round, active |-> 0]
           /\ loop' = Left("normal") /\ owed' = TRUE /\ NoFault
  <2>1. run' \in RunType /\ run'.status = status /\ run'.active = 0
    BY <1>2, RolesAssumption DEF RunType, IInv, TypeOK, ControlType
  <2>2. faults' \in 0 .. MaxFaults
    BY <1>2, FaultType DEF IInv
  <2>3. part \in [Ids -> ParticipantType] /\ leaving \in {"none", "normal", "failed", "cancelled"}
        /\ registered \in BOOLEAN
    BY DEF IInv, TypeOK
  <2> QED
    BY <1>1, <1>2, <2>1, <2>2, <2>3, RunClosed DEF FinalizeRoleRunDurably
<1>3. CASE /\ IF run.status = "running" THEN Fault ELSE NoFault
           /\ UNCHANGED run /\ loop' = Left("error") /\ owed' = FALSE
  <2>1. faults' \in 0 .. MaxFaults
    BY <1>3, FaultType DEF IInv
  <2> QED
    BY <1>1, <1>3, <2>1, LoopLeft DEF FinalizeRoleRunDurably, stored
<1> QED
  BY <1>2, <1>3 DEF FinalizeRoleRunDurably

-----------------------------------------------------------------------------
\* Where the loop may go after a turn t that leaves the run in a status.
Follows(t, status, next) ==
  \/ next.pc = "cleanup"
  \/ /\ status = "running" /\ next.pc \in {"check", "closing"}
     /\ next.idx = loop.idx + 1
     /\ \/ t.st = "completed" /\ next.p = loop.p + 1 /\ next.attempt = 0
           /\ next.pc = "check"
        \/ t.st = "failed" /\ next.p = loop.p /\ next.attempt = loop.attempt + 1

\* A recorded turn keeps the invariant.
LEMMA RecordedInv ==
  ASSUME IInv, InTurn, up,
         NEW t \in TurnType, NEW st \in {"idle", "failed", "cancelled"},
         NEW status \in Terminal \cup {"running", "paused"}, NEW round \in Nat,
         t.p = loop.p,
         \/ t.st = "completed"
         \/ status \in Terminal
         \/ t.st = "failed" /\ status = "running" /\ loop.attempt < MaxRetries,
         Recorded(t, st, status, round),
         loop' \in ControlType, Follows(t, status, loop'),
         owed' \in BOOLEAN, owed' => status \in Terminal, faults' \in 0 .. MaxFaults,
         UNCHANGED <<announced, up, leaving, registered, settled, expired, crashes>>
  PROVE  IInv'
<1>1. /\ run.status = "running" /\ run.active = loop.p /\ loop.p \in Ids
      /\ loop.idx = Len(turns) /\ Len(turns) < MaxTurns /\ Len(turns) \in Nat
      /\ loop.attempt = part[loop.p].fails /\ loop.attempt \in Nat
      /\ part[loop.p] \in ParticipantType
      /\ MaxTurns \in Nat /\ MaxRetries \in Nat
      /\ turns \in Seq(TurnType) /\ part \in [Ids -> ParticipantType]
  <2>1. /\ turns \in Seq(TurnType) /\ part \in [Ids -> ParticipantType]
        /\ loop \in ControlType /\ MaxTurns \in Nat /\ MaxRetries \in Nat
        /\ run.status = "running" /\ Len(turns) \in Nat
    BY BudgetAssumption DEF IInv, TypeOK, Recorded
  <2>2. loop.p \in Ids /\ loop.attempt \in Nat
    BY <2>1 DEF IInv, Placed, ControlType, Ids
  <2>3. /\ run.active = loop.p /\ loop.idx = Len(turns) /\ Len(turns) < MaxTurns
        /\ loop.attempt = part[loop.p].fails
    BY <2>1, <2>2
    DEF IInv, ActiveNamed, TurnsCounted, FailsCounted, InTurn, Live, Ids
  <2> QED
    BY <2>1, <2>2, <2>3
<1>2. /\ \A r \in Ids : part[r].fails # 0 => r = loop.p
      /\ \A r \in Ids : part[r].fails <= MaxRetries /\ part[r].fails \in Nat
      /\ \A r \in Ids : part[r].st = "active" => r = loop.p
  BY <1>1
  DEF IInv, TypeOK, FailsCounted, ActiveNamed, InTurn, Live, Open, ParticipantType
<1>3. /\ turns' = Append(turns, t) /\ turns' \in Seq(TurnType)
      /\ Len(turns') = Len(turns) + 1 /\ turns'[Len(turns')] = t /\ turns' # <<>>
  BY <1>1 DEF Recorded
<1>4. /\ run' = [status |-> status, round |-> round, active |-> 0]
      /\ run' \in RunType /\ run'.status = status /\ run'.active = 0
  BY RolesAssumption DEF Recorded, RunType
<1> DEFINE c == Counted(part[loop.p], t, st)
<1>5. /\ c \in ParticipantType /\ c.st = st
      /\ t.st = "completed" => c.fails = 0
      /\ t.st = "failed" => c.fails = part[loop.p].fails + 1
      /\ t.st = "cancelled" => c.fails = part[loop.p].fails
  BY <1>1 DEF Counted, ParticipantType, TurnType
<1>6. /\ part' = [part EXCEPT ![loop.p] = c] /\ part' \in [Ids -> ParticipantType]
      /\ part'[loop.p] = c /\ \A r \in Ids : r # loop.p => part'[r] = part[r]
  BY <1>1, <1>5 DEF Recorded
<1> HIDE DEF c
<1>7. t.st \in {"completed", "failed", "cancelled"}
  BY DEF TurnType
<1>8. TypeOK'
  BY <1>3, <1>4, <1>6 DEF IInv, TypeOK, Recorded
<1>9. Placed'
  BY <1>1, <1>4, <1>7 DEF IInv, Placed, InTurn, Live, Follows, Terminal, Ids
<1>10. TurnsCounted'
  BY <1>1, <1>3 DEF TurnsCounted, InTurn, Live, Follows
<1>11. FailsCounted'
  <2>1. \A r \in Ids : part'[r].fails <= MaxRetries + 1
    BY <1>1, <1>2, <1>5, <1>6, <1>7 DEF ParticipantType
  <2>2. ASSUME status \notin Terminal
        PROVE  /\ c.fails <= MaxRetries
               /\ c.fails # 0 => t.st # "completed"
    BY <1>1, <1>2, <1>5, <2>2
  <2>3. ASSUME status \notin Terminal, NEW r \in Ids
        PROVE  /\ part'[r].fails <= MaxRetries
               /\ part'[r].fails # 0 => r = loop.p /\ t.st # "completed"
    BY <1>1, <1>2, <1>6, <2>2, <2>3
  <2>4. Open' => \A r \in Ids :
          /\ part'[r].fails <= MaxRetries
          /\ part'[r].fails # 0 => /\ turns' # <<>>
                                   /\ turns'[Len(turns')].p = r
                                   /\ turns'[Len(turns')].st # "completed"
    BY <1>3, <1>4, <2>3 DEF Open, Terminal
  <2>5. ASSUME Live', run'.status = "running"
        PROVE  /\ \A r \in Ids : part'[r].fails # 0 => r = loop'.p
               /\ loop'.p <= Roles => loop'.attempt = part'[loop'.p].fails
    <3>1. status = "running" /\ status \notin Terminal
      BY <1>4, <2>5 DEF Terminal
    <3>2. CASE t.st = "completed" /\ loop'.p = loop.p + 1 /\ loop'.attempt = 0
      <4>1. \A r \in Ids : part'[r].fails = 0
        BY <2>3, <3>1, <3>2
      <4>2. loop'.p <= Roles => loop'.p \in Ids
        BY <1>1, <3>2 DEF Ids
      <4> QED
        BY <3>2, <4>1, <4>2
    <3>3. CASE /\ t.st = "failed" /\ loop'.p = loop.p
               /\ loop'.attempt = loop.attempt + 1
      BY <1>1, <1>5, <1>6, <2>3, <3>1, <3>3
    <3> QED
      BY <2>5, <3>2, <3>3 DEF Follows, Live
  <2> QED
    BY <1>4, <2>1, <2>4, <2>5 DEF FailsCounted
<1>12. ActiveNamed'
  BY <1>1, <1>2, <1>4, <1>5, <1>6 DEF ActiveNamed, InTurn, Follows
<1>13. Announced'
  BY <1>1 DEF IInv, Announced, AnnouncedOnce, Terminal
<1> QED
  BY <1>8, <1>9, <1>10, <1>11, <1>12, <1>13 DEF IInv

\* The end of a turn keeps the invariant, with the audit event that follows it.
LEMMA EndTurnInv ==
  ASSUME IInv, InTurn, up,
         NEW t \in TurnType, NEW st \in {"idle", "failed", "cancelled"},
         NEW status \in Terminal \cup {"running", "paused"}, NEW round \in Nat,
         NEW act \in 0 .. Roles, NEW next \in ControlType,
         t.p = loop.p,
         \/ t.st = "completed"
         \/ status \in Terminal
         \/ t.st = "failed" /\ status = "running" /\ loop.attempt < MaxRetries,
         Follows(t, status, next),
         EndTurn(t, st, status, round, act, next)
  PROVE  IInv'
<1>1. Left("error") \in ControlType /\ Left("error").pc = "cleanup"
  BY LeftType DEF IInv
<1>2. CASE Recorded(t, st, status, round) /\ NoFault /\ loop' = next
           /\ owed' = (status \in Terminal)
  <2>1. faults' \in 0 .. MaxFaults
    BY <1>2, FaultType DEF IInv
  <2>2. owed' \in BOOLEAN /\ (owed' => status \in Terminal)
    <3>1. owed' \in BOOLEAN
      BY <1>2
    <3>2. owed' => status \in Terminal
      BY <1>2
    <3> QED
      BY <3>1, <3>2
  <2> QED
    BY <1>2, <2>1, <2>2, RecordedInv DEF EndTurn
<1>3. CASE Recorded(t, st, status, round) /\ Fault /\ loop' = Left("error")
           /\ owed' = FALSE
  <2>1. faults' \in 0 .. MaxFaults
    BY <1>3, FaultType DEF IInv
  <2>2. Follows(t, status, loop')
    BY <1>1, <1>3 DEF Follows
  <2> QED
    BY <1>1, <1>3, <2>1, <2>2, RecordedInv DEF EndTurn
<1>4. CASE Refused(act)
  BY <1>4, RefusedInv DEF EndTurn, InTurn
<1> QED
  BY <1>2, <1>3, <1>4 DEF EndTurn

-----------------------------------------------------------------------------
\* The turn that ends is the loop's, and a retry stays at its place.
LEMMA TurnShape ==
  ASSUME IInv, InTurn, NEW st \in {"completed", "failed", "cancelled"},
         NEW why \in {"decision", "thrown", "daemon"}, NEW msg \in Nat \cup {NoMsg}
  PROVE  /\ Turn(st, why, msg) \in TurnType
         /\ Turn(st, why, msg).p = loop.p /\ Turn(st, why, msg).st = st
<1>1. loop.p \in Ids /\ loop.idx \in Nat /\ loop.round \in Nat
  BY RolesAssumption DEF IInv, TypeOK, ControlType, Placed, Ids
<1> QED
  BY <1>1 DEF Turn, TurnType

\* A retry stays at the participant and counts one turn and one attempt more.
LEMMA RetryShape ==
  ASSUME IInv, NEW pc \in {"check", "closing"}
  PROVE  /\ Retried(pc) \in ControlType
         /\ [Retried("check") EXCEPT !.msg = @ + 1] \in ControlType
         /\ \A t : t.st = "failed" =>
              /\ Follows(t, "running", Retried(pc))
              /\ Follows(t, "running", [Retried("check") EXCEPT !.msg = @ + 1])
<1>1. loop \in ControlType /\ 0 \in 0 .. Roles
  BY RolesAssumption DEF IInv, TypeOK
<1>2. ASSUME NEW c \in {"check", "closing"}
      PROVE  /\ Retried(c) \in ControlType /\ Retried(c).pc = c
             /\ Retried(c).idx = loop.idx + 1 /\ Retried(c).p = loop.p
             /\ Retried(c).attempt = loop.attempt + 1
  <2> DEFINE i == loop.idx + 1
             k == loop.attempt + 1
  <2>2. i \in Nat /\ k \in Nat
    BY <1>1 DEF ControlType
  <2>3. Retried(c) = [loop EXCEPT !.pc = c, !.idx = i, !.attempt = k, !.act = 0]
    BY DEF Retried
  <2>4. i = loop.idx + 1 /\ k = loop.attempt + 1
    OBVIOUS
  <2> HIDE DEF i, k
  <2>5. /\ Retried(c) \in ControlType /\ Retried(c).pc = c /\ Retried(c).idx = i
        /\ Retried(c).p = loop.p /\ Retried(c).attempt = k
    BY <1>1, <2>2, <2>3 DEF ControlType
  <2> QED
    BY <2>4, <2>5
<1> DEFINE e == [Retried("check") EXCEPT !.msg = @ + 1]
<1>3. /\ e \in ControlType /\ e.pc = "check" /\ e.idx = loop.idx + 1
      /\ e.p = loop.p /\ e.attempt = loop.attempt + 1
  BY <1>2 DEF ControlType
<1> QED
  BY <1>2, <1>3 DEF Follows

\* An adapter that cannot be initialised: a retry or a failed run.
LEMMA InitializeThrowsInv ==
  ASSUME IInv, NEW retryable \in BOOLEAN, InitializeThrows(retryable)
  PROVE  IInv'
<1>1. up /\ InTurn /\ run.round \in Nat /\ loop.act \in 0 .. Roles
  BY DEF InitializeThrows, LoopRuns, InTurn, IInv, TypeOK, RunType, ControlType
<1>2. /\ Turn("failed", "thrown", NoMsg) \in TurnType
      /\ Turn("failed", "thrown", NoMsg).p = loop.p
      /\ Turn("failed", "thrown", NoMsg).st = "failed"
  BY <1>1, TurnShape
<1>3. CASE retryable /\ MayRetry
  <2>1. loop.attempt < MaxRetries
    BY <1>3 DEF MayRetry
  <2> QED
    BY <1>1, <1>2, <1>3, <2>1, RetryShape, EndTurnInv DEF InitializeThrows
<1>4. CASE ~(retryable /\ MayRetry)
  BY <1>1, <1>2, <1>4, LeftType, EndTurnInv
  DEF InitializeThrows, IInv, Follows, Terminal
<1> QED
  BY <1>3, <1>4

\* A turn that was cut off because another participant was cancelled.
LEMMA OtherCancelledInv ==
  ASSUME IInv, InTurn, up, ~owed, OtherCancelled
  PROVE  IInv'
<1>1. /\ Left("normal") \in ControlType /\ Left("normal").pc = "cleanup"
      /\ Left("error") \in ControlType /\ Left("error").pc = "cleanup"
      /\ Left("persist") \in ControlType /\ Left("persist").pc = "cleanup"
  BY LeftType DEF IInv
<1>2. CASE /\ run.status \in {"running", "failed"}
           /\ turns' = Append(turns, Turn("cancelled", "thrown", NoMsg))
           /\ part' = [part EXCEPT ![loop.p].st = "idle"]
           /\ run' = [run EXCEPT !.status = "failed", !.active = 0]
           /\ \/ NoFault /\ loop' = Left("normal") /\ owed' = TRUE
              \/ Fault /\ loop' = Left("error") /\ owed' = FALSE
           /\ UNCHANGED once
  <2>1. /\ turns \in Seq(TurnType) /\ part \in [Ids -> ParticipantType]
        /\ run \in RunType /\ Len(turns) < MaxTurns /\ Len(turns) \in Nat
        /\ MaxTurns \in Nat
    BY BudgetAssumption DEF IInv, TypeOK, TurnsCounted, InTurn, Live
  <2>2. /\ turns' \in Seq(TurnType) /\ Len(turns') <= MaxTurns
    BY <1>2, <2>1, TurnShape
  <2>3. /\ part' \in [Ids -> ParticipantType]
        /\ \A r \in Ids : part'[r].fails = part[r].fails
    BY <1>2, <2>1 DEF ParticipantType
  <2>4. run' \in RunType /\ run'.status = "failed" /\ run'.active = 0
    <3>1. 0 \in 0 .. Roles /\ "failed" \in Terminal
      BY RolesAssumption DEF Terminal
    <3> QED
      BY <1>2, <2>1, <3>1 DEF RunType
  <2>5. /\ loop' \in ControlType /\ loop'.pc = "cleanup" /\ owed' \in BOOLEAN
        /\ faults' \in 0 .. MaxFaults
    BY <1>1, <1>2, FaultType DEF IInv
  <2>6. TypeOK'
    BY <1>2, <2>2, <2>3, <2>4, <2>5 DEF IInv, TypeOK, OtherCancelled
  <2>7. Placed' /\ TurnsCounted'
    BY <2>2, <2>4, <2>5
    DEF IInv, Placed, TurnsCounted, Live, InTurn, Terminal, OtherCancelled
  <2>8. FailsCounted'
    BY <2>3, <2>4, <2>5 DEF IInv, FailsCounted, Open, Live
  <2>9. ActiveNamed'
    BY <2>4, <2>5 DEF ActiveNamed, InTurn
  <2>10. Announced'
    BY <1>2, <2>4
    DEF IInv, Announced, AnnouncedOnce, InTurn, OtherCancelled, Terminal
  <2> QED
    BY <2>6, <2>7, <2>8, <2>9, <2>10 DEF IInv
<1>3. CASE run.status # "failed" /\ Refused(0)
  BY <1>3, RefusedInv, RolesAssumption DEF OtherCancelled, InTurn
<1>4. CASE run.status = "failed" /\ Fault /\ loop' = Left("persist")
           /\ UNCHANGED <<stored, owed>>
  <2>1. faults' \in 0 .. MaxFaults
    BY <1>4, FaultType DEF IInv
  <2> QED
    BY <1>1, <1>4, <2>1, LoopLeft DEF OtherCancelled, InTurn, IInv, TypeOK
<1> QED
  BY <1>2, <1>3, <1>4 DEF OtherCancelled

\* An adapter that throws: each precedence among the causes.
LEMMA TurnThrowsInv ==
  ASSUME IInv, NEW retryable \in BOOLEAN, TurnThrows(retryable)
  PROVE  IInv'
<1>1. /\ up /\ ~owed /\ InTurn /\ run.round \in Nat /\ 0 \in 0 .. Roles
      /\ GivenUp(retryable) \in Terminal
  BY RolesAssumption
  DEF TurnThrows, LoopRuns, InTurn, IInv, TypeOK, RunType, GivenUp, Terminal
<1>2. \A st \in {"failed", "cancelled"} :
        /\ Turn(st, "thrown", NoMsg) \in TurnType
        /\ Turn(st, "thrown", NoMsg).p = loop.p /\ Turn(st, "thrown", NoMsg).st = st
  <2>1. /\ Turn("failed", "thrown", NoMsg) \in TurnType
        /\ Turn("failed", "thrown", NoMsg).p = loop.p
        /\ Turn("failed", "thrown", NoMsg).st = "failed"
    BY <1>1, TurnShape
  <2>2. /\ Turn("cancelled", "thrown", NoMsg) \in TurnType
        /\ Turn("cancelled", "thrown", NoMsg).p = loop.p
        /\ Turn("cancelled", "thrown", NoMsg).st = "cancelled"
    BY <1>1, TurnShape
  <2> QED
    BY <2>1, <2>2
<1>3. /\ Left("normal") \in ControlType
      /\ \A t, status : Follows(t, status, Left("normal"))
  BY LeftType DEF IInv, Follows
<1>4. ASSUME NEW st \in {"failed", "cancelled"}, NEW status \in Terminal,
             EndTurn(Turn(st, "thrown", NoMsg), st, status, run.round, 0, Left("normal"))
      PROVE  IInv'
  BY <1>1, <1>2, <1>3, <1>4, EndTurnInv
<1>5. CASE loop.p \in loop.cancelled
  BY <1>4, <1>5 DEF TurnThrows, Terminal
<1>6. CASE loop.p \notin loop.cancelled /\ loop.cancelled # {}
  BY <1>1, <1>6, OtherCancelledInv DEF TurnThrows
<1>7. CASE loop.cancelled = {} /\ loop.aborted
  BY <1>4, <1>7 DEF TurnThrows, Terminal
<1>8. CASE loop.cancelled = {} /\ ~loop.aborted /\ expired
  BY <1>4, <1>8 DEF TurnThrows, Terminal
<1>9. CASE loop.cancelled = {} /\ ~loop.aborted /\ ~expired /\ retryable /\ MayRetry
  <2>1. /\ loop.attempt < MaxRetries
        /\ EndTurn(Turn("failed", "thrown", NoMsg), "idle", "running", run.round, 0,
                   Retried("closing"))
    BY <1>9 DEF TurnThrows, MayRetry
  <2> QED
    BY <1>1, <1>2, <2>1, RetryShape, EndTurnInv
<1>10. CASE loop.cancelled = {} /\ ~loop.aborted /\ ~expired /\ ~(retryable /\ MayRetry)
  BY <1>1, <1>4, <1>10 DEF TurnThrows
<1> QED
  BY <1>5, <1>6, <1>7, <1>8, <1>9, <1>10

\* An error decision: a retry or the end of the run.
LEMMA DecidesErrorInv ==
  ASSUME IInv, NEW retryable \in BOOLEAN, DecidesError(retryable)
  PROVE  IInv'
<1>1. /\ up /\ InTurn /\ loop.round \in Nat /\ loop.msg \in Nat /\ loop.act \in 0 .. Roles
      /\ GivenUp(retryable) \in Terminal
  BY DEF DecidesError, LoopRuns, InTurn, IInv, TypeOK, ControlType, GivenUp, Terminal
<1>2. /\ Turn("failed", "decision", loop.msg) \in TurnType
      /\ Turn("failed", "decision", loop.msg).p = loop.p
      /\ Turn("failed", "decision", loop.msg).st = "failed"
  BY <1>1, TurnShape
<1>3. CASE retryable /\ MayRetry
  <2>1. loop.attempt < MaxRetries
    BY <1>3 DEF MayRetry
  <2> QED
    BY <1>1, <1>2, <1>3, <2>1, RetryShape, EndTurnInv DEF DecidesError
<1>4. CASE ~(retryable /\ MayRetry)
  BY <1>1, <1>2, <1>4, LeftType, EndTurnInv DEF DecidesError, IInv, Follows
<1> QED
  BY <1>3, <1>4

\* Where a completed turn leads.
LEMMA EnterShape ==
  ASSUME IInv, InTurn, run.status = "running"
  PROVE  LET next == [Enter(loop.p + 1, loop.round) EXCEPT !.idx = @ + 1, !.msg = @ + 1]
         IN  /\ next \in ControlType
             /\ \A t : t.st = "completed" => Follows(t, "running", next)
<1>1. /\ loop \in ControlType /\ loop.p \in Ids /\ Roles \in Nat
      /\ part \in [Ids -> ParticipantType]
  BY RolesAssumption DEF IInv, TypeOK, Placed, ControlType, Ids
<1>2. \A r \in Ids : r # loop.p => part[r].fails = 0
  BY DEF IInv, FailsCounted, Live, InTurn
<1> DEFINE p == loop.p + 1
           k == IF p = loop.start THEN part[p].fails ELSE 0
           i == loop.idx + 1
           m == loop.msg + 1
           next == [Enter(loop.p + 1, loop.round) EXCEPT !.idx = @ + 1, !.msg = @ + 1]
<1>3. /\ p \in 1 .. Roles + 1 /\ p # loop.p /\ i \in Nat /\ m \in Nat
      /\ loop.start \in 0 .. Roles
  BY <1>1 DEF ControlType, Ids
<1>4. k = 0
  BY <1>1, <1>2, <1>3 DEF Ids
<1>5. Enter(loop.p + 1, loop.round)
        = [loop EXCEPT !.pc = "check", !.p = p, !.round = loop.round, !.act = 0,
                       !.attempt = k]
  BY DEF Enter
<1>6. /\ p = loop.p + 1 /\ i = loop.idx + 1 /\ m = loop.msg + 1
      /\ loop.round \in Nat /\ 0 \in 0 .. Roles
  BY <1>1 DEF ControlType
<1> DEFINE e == Enter(loop.p + 1, loop.round)
<1> HIDE DEF p, k, i, m
<1>7. /\ e \in ControlType /\ e.pc = "check" /\ e.p = p /\ e.attempt = 0
      /\ e.idx = loop.idx /\ e.msg = loop.msg
  <2>1. e = [loop EXCEPT !.pc = "check", !.p = p, !.round = loop.round, !.act = 0,
                         !.attempt = 0]
    BY <1>4, <1>5
  <2> HIDE DEF e
  <2> QED
    BY <1>1, <1>3, <1>6, <2>1 DEF ControlType
<1>8. next = [e EXCEPT !.idx = i, !.msg = m]
  BY <1>6, <1>7
<1> HIDE DEF e, next
<1>9. /\ next \in ControlType /\ next.pc = "check" /\ next.p = p /\ next.attempt = 0
      /\ next.idx = i
  BY <1>3, <1>7, <1>8 DEF ControlType
<1>10. \A t : t.st = "completed" => Follows(t, "running", next)
  BY <1>6, <1>9 DEF Follows
<1> QED
  BY <1>9, <1>10 DEF next

\* A completed turn: the next role, a pause or the end of the run.
LEMMA DecidesInv ==
  ASSUME IInv, NEW d \in {"message", "done", "pause"}, Decides(d)
  PROVE  IInv'
<1> DEFINE status == CASE d = "done" /\ loop.p \in TerminalRoles -> "completed"
                       [] d = "pause" -> "paused"
                       [] OTHER -> "running"
           next == IF status # "running" THEN Left("normal")
                   ELSE [Enter(loop.p + 1, loop.round) EXCEPT !.idx = @ + 1, !.msg = @ + 1]
           t == Turn("completed", "decision", loop.msg)
<1>1. /\ up /\ InTurn /\ loop.round \in Nat /\ loop.msg \in Nat /\ loop.act \in 0 .. Roles
  BY DEF Decides, LoopRuns, InTurn, IInv, TypeOK, ControlType
<1>2. t \in TurnType /\ t.p = loop.p /\ t.st = "completed"
  BY <1>1, TurnShape
<1>3. status \in Terminal \cup {"running", "paused"}
  BY DEF Terminal
<1>4. EndTurn(t, "idle", status, loop.round, loop.act, next)
  BY DEF Decides
<1> HIDE DEF t
<1>5. CASE run.status = "running" \/ status # "running"
  <2>1. next \in ControlType /\ Follows(t, status, next)
    <3>1. CASE status # "running"
      BY <3>1, LeftType DEF IInv, Follows
    <3>2. CASE status = "running"
      BY <1>1, <1>2, <1>5, <3>2, EnterShape
    <3> QED
      BY <3>1, <3>2
  <2> HIDE DEF status, next
  <2> QED
    BY <1>1, <1>2, <1>3, <1>4, <2>1, EndTurnInv
<1>6. CASE run.status # "running"
  <2>1. Refused(loop.act)
    BY <1>4, <1>6 DEF EndTurn, Recorded
  <2>2. UNCHANGED <<announced, up, leaving, registered, settled, expired, crashes>>
    BY <1>4 DEF EndTurn
  <2> QED
    BY <1>1, <2>1, <2>2, RefusedInv DEF InTurn
<1> QED
  BY <1>5, <1>6

-----------------------------------------------------------------------------
\* Steps of the loop that end no turn.
LEMMA CheckStopsInv ==
  ASSUME IInv, CheckStops
  PROVE  IInv'
<1>1. Verdict \in Terminal /\ up /\ loop.pc # "gone"
  BY DEF CheckStops, Verdict, Terminal, LoopRuns
<1> QED
  BY <1>1, FinalizeInv DEF CheckStops

\* The participant that is marked active is the one at the loop's place.
LEMMA BeginInv ==
  ASSUME IInv, Begin
  PROVE  IInv'
<1>1. /\ up /\ ~owed /\ loop.pc = "check" /\ loop.p \in Ids /\ Roles \in Nat
      /\ loop \in ControlType /\ run \in RunType /\ part \in [Ids -> ParticipantType]
      /\ loop.idx = Len(turns) /\ loop.idx < MaxTurns
  <2>1. loop.idx \in Nat /\ MaxTurns \in Nat
    BY BudgetAssumption DEF IInv, TypeOK, ControlType
  <2>2. loop.idx < MaxTurns
    BY <2>1 DEF Begin, Verdict
  <2> QED
    BY <2>2, RolesAssumption
    DEF Begin, LoopRuns, IInv, TypeOK, ControlType, Ids, TurnsCounted, Live
<1>2. CASE /\ run.status = "running"
           /\ part' = [part EXCEPT ![loop.p].st = "active"]
           /\ run' = [run EXCEPT !.active = loop.p]
           /\ \/ /\ NoFault
                 /\ loop' = [loop EXCEPT
                      !.act = loop.p,
                      !.pc = IF loop.p \in loop.init THEN "turn" ELSE "init"]
              \/ Fault /\ loop' = [Left("error") EXCEPT !.act = loop.p]
           /\ UNCHANGED <<once, turns, owed>>
  <2>1. faults' \in 0 .. MaxFaults
    BY <1>2, FaultType DEF IInv
  <2>2. /\ run' \in RunType /\ run'.status = "running" /\ run'.active = loop.p
    BY <1>1, <1>2 DEF RunType, Ids
  <2>3. /\ part' \in [Ids -> ParticipantType] /\ part'[loop.p].st = "active"
        /\ \A r \in Ids : /\ part'[r].fails = part[r].fails
                          /\ r # loop.p => part'[r].st = part[r].st
    BY <1>1, <1>2 DEF ParticipantType
  <2>4. /\ loop' \in ControlType
        /\ \/ loop'.pc = "cleanup"
           \/ /\ loop'.pc \in {"init", "turn"} /\ loop'.p = loop.p /\ loop'.idx = loop.idx
              /\ loop'.attempt = loop.attempt
    <3>1. loop.p \in 0 .. Roles
      BY <1>1 DEF Ids
    <3>2. ASSUME NoFault,
                 loop' = [loop EXCEPT
                      !.act = loop.p,
                      !.pc = IF loop.p \in loop.init THEN "turn" ELSE "init"]
          PROVE  /\ loop' \in ControlType /\ loop'.pc \in {"init", "turn"}
                 /\ loop'.p = loop.p /\ loop'.idx = loop.idx
                 /\ loop'.attempt = loop.attempt
      BY <1>1, <3>1, <3>2 DEF ControlType
    <3>3. ASSUME loop' = [Left("error") EXCEPT !.act = loop.p]
          PROVE  loop' \in ControlType /\ loop'.pc = "cleanup"
      BY <3>1, <3>3, LeftType DEF IInv
    <3> QED
      BY <1>2, <3>2, <3>3
  <2>5. TypeOK'
    BY <1>2, <2>1, <2>2, <2>3, <2>4 DEF IInv, TypeOK, Begin
  <2>6. Placed' /\ TurnsCounted'
    BY <1>1, <1>2, <2>2, <2>4
    DEF IInv, Placed, TurnsCounted, Live, InTurn, Begin, Ids
  <2>7. FailsCounted'
    <3>1. \A r \in Ids : part[r].fails # 0 => r = loop.p
      BY <1>1, <1>2 DEF IInv, FailsCounted, Live
    <3>2. loop.attempt = part[loop.p].fails
      BY <1>1, <1>2 DEF IInv, FailsCounted, Live, Ids
    <3>3. \A r \in Ids :
            /\ part[r].fails <= MaxRetries + 1 /\ part[r].fails <= MaxRetries
            /\ part[r].fails # 0 => /\ turns # <<>>
                                    /\ turns[Len(turns)].p = r
                                    /\ turns[Len(turns)].st # "completed"
      BY <1>2 DEF IInv, FailsCounted, Open
    <3> QED
      BY <1>1, <1>2, <2>2, <2>3, <2>4, <3>1, <3>2, <3>3 DEF FailsCounted, Live, Open
  <2>8. ActiveNamed'
    <3>1. \A r \in Ids : part[r].st = "active" => r = run.active
      BY <1>2 DEF IInv, ActiveNamed
    <3>2. run.active = 0
      BY <1>1, <1>2 DEF IInv, ActiveNamed
    <3> QED
      BY <1>1, <1>2, <2>2, <2>3, <2>4, <3>1, <3>2 DEF ActiveNamed, InTurn, Ids
  <2>9. Announced'
    BY <1>1, <1>2, <2>2, <2>4 DEF IInv, Announced, AnnouncedOnce, Begin, Terminal
  <2> QED
    BY <2>5, <2>6, <2>7, <2>8, <2>9 DEF IInv
<1>3. CASE Refused(0)
  BY <1>1, <1>3, RefusedInv DEF Begin
<1> QED
  BY <1>2, <1>3 DEF Begin

\* The loop moves on without a write.
LEMMA LoopMoves ==
  ASSUME IInv, up, ~owed, loop.pc # "gone",
         loop' \in ControlType, loop'.idx = loop.idx,
         \/ loop'.pc \in {"check", "closing"} /\ loop.pc \in {"check", "closing"}
         \/ loop'.pc \in {"init", "turn"} /\ loop.pc \in {"init", "turn"} /\ loop'.p = loop.p,
         run.status = "running" =>
           /\ \A r \in Ids : part[r].fails # 0 => r = loop'.p
           /\ loop'.p <= Roles => loop'.attempt = part[loop'.p].fails,
         loop'.pc = "closing" => loop'.p <= Roles,
         UNCHANGED <<stored, announced, up, leaving, registered, settled, owed, expired,
                     crashes, faults>>
  PROVE  IInv'
<1> USE DEF stored, IInv
<1>1. TypeOK'
  BY DEF TypeOK
<1>2. Placed' /\ TurnsCounted'
  BY DEF Placed, TurnsCounted, Live, InTurn
<1>3. FailsCounted'
  BY DEF FailsCounted, Live, Open
<1>4. ActiveNamed' /\ Announced'
  BY DEF ActiveNamed, Announced, AnnouncedOnce, InTurn
<1> QED
  BY <1>1, <1>2, <1>3, <1>4

\* The end of the sequence: the run is completed, or the next round begins.
LEMMA EndOfSequenceInv ==
  ASSUME IInv, EndOfSequence
  PROVE  IInv'
<1>1. /\ up /\ ~owed /\ loop.pc = "check" /\ loop.p > Roles /\ Roles \in Nat /\ Roles > 0
      /\ loop \in ControlType /\ part \in [Ids -> ParticipantType]
  BY RolesAssumption DEF EndOfSequence, LoopRuns, IInv, TypeOK
<1>2. CASE once
  BY <1>1, <1>2, FinalizeInv DEF EndOfSequence, Terminal
<1>3. CASE ~once
  <2> DEFINE k == IF 1 = loop.start THEN part[1].fails ELSE 0
             n == loop.round + 1
  <2>1. 1 \in Ids /\ part[1].fails \in Nat /\ n \in Nat /\ k \in Nat
    BY <1>1 DEF Ids, ControlType, ParticipantType
  <2>2. n = loop.round + 1 /\ k = IF 1 = loop.start THEN part[1].fails ELSE 0
    OBVIOUS
  <2>3. loop' = [loop EXCEPT !.pc = "check", !.p = 1, !.round = n, !.act = 0,
                             !.attempt = k]
    BY <1>1, <1>3 DEF EndOfSequence, Enter
  <2>4. 0 \in 0 .. Roles /\ 1 \in 1 .. Roles + 1
    BY <1>1
  <2> HIDE DEF n, k
  <2>5. /\ loop' \in ControlType /\ loop'.pc = "check" /\ loop'.p = 1
        /\ loop'.attempt = k /\ loop'.idx = loop.idx
    BY <1>1, <2>1, <2>3, <2>4 DEF ControlType
  <2>6. ASSUME run.status = "running"
        PROVE  \A r \in Ids : part[r].fails = 0
    BY <1>1, <2>6 DEF IInv, FailsCounted, Live, Ids
  <2> QED
    BY <1>1, <1>3, <2>1, <2>2, <2>5, <2>6, LoopMoves DEF EndOfSequence
<1> QED
  BY <1>2, <1>3

\* The adapter is ready, in time or too late.
LEMMA InitializedInv ==
  ASSUME IInv, Initialized
  PROVE  IInv'
<1>1. /\ up /\ ~owed /\ loop.pc = "init" /\ loop.p <= Roles /\ loop \in ControlType
      /\ loop.p \in Ids
  BY RolesAssumption
  DEF Initialized, LoopRuns, IInv, TypeOK, Placed, InTurn, ControlType, Ids
<1>2. CASE expired /\ run.status = "running"
  BY <1>1, <1>2, FinalizeInv DEF Initialized, Terminal
<1>3. CASE expired /\ run.status # "running"
  BY <1>1, <1>3, LeftType, LoopLeft DEF Initialized, IInv, TypeOK
<1>4. CASE ~expired
  <2>1. loop' = [loop EXCEPT !.pc = "turn", !.init = loop.init \cup {loop.p}]
    BY <1>4 DEF Initialized
  <2>2. /\ loop' \in ControlType /\ loop'.pc = "turn" /\ loop'.p = loop.p
        /\ loop'.idx = loop.idx /\ loop'.attempt = loop.attempt
    BY <1>1, <2>1 DEF ControlType
  <2>3. run.status = "running" =>
          /\ \A r \in Ids : part[r].fails # 0 => r = loop.p
          /\ loop.attempt = part[loop.p].fails
    BY <1>1 DEF IInv, FailsCounted, Live
  <2> QED
    BY <1>1, <1>4, <2>2, <2>3, LoopMoves DEF Initialized
<1> QED
  BY <1>2, <1>3, <1>4

\* The failed attempt's adapter is closed.
LEMMA RetryClosesInv ==
  ASSUME IInv, RetryCloses
  PROVE  IInv'
<1>1. /\ up /\ ~owed /\ loop.pc = "closing" /\ loop \in ControlType
      /\ loop' = [loop EXCEPT !.pc = "check", !.init = loop.init \ {loop.p}]
  BY DEF RetryCloses, LoopRuns, IInv, TypeOK
<1>2. /\ loop' \in ControlType /\ loop'.pc = "check" /\ loop'.p = loop.p
      /\ loop'.idx = loop.idx /\ loop'.attempt = loop.attempt
  BY <1>1 DEF ControlType
<1>3. run.status = "running" =>
        /\ \A r \in Ids : part[r].fails # 0 => r = loop.p
        /\ loop.p <= Roles => loop.attempt = part[loop.p].fails
  BY <1>1 DEF IInv, FailsCounted, Live
<1> QED
  BY <1>1, <1>2, <1>3, LoopMoves DEF RetryCloses

\* An oversize message throws out of the loop.
LEMMA DecidesOversizeInv ==
  ASSUME IInv, DecidesOversize
  PROVE  IInv'
<1>1. up /\ ~owed /\ loop.pc = "turn" /\ loop.act \in 0 .. Roles
  BY DEF DecidesOversize, LoopRuns, IInv, TypeOK, ControlType
<1>2. loop' \in ControlType /\ loop'.pc = "cleanup"
  BY <1>1, LeftType DEF DecidesOversize, IInv
<1> QED
  BY <1>1, <1>2, LoopLeft DEF DecidesOversize, IInv, TypeOK

-----------------------------------------------------------------------------
\* The settlement of a loop that is left.
LEMMA EndedInv ==
  ASSUME IInv, up, ~owed, NEW status \in {"failed", "cancelled"}, Ended(status),
         loop.pc # "gone" \/ leaving # "none",
         loop' = loop \/ loop' = Gone,
         leaving' \in {"none", leaving}, registered' \in BOOLEAN,
         UNCHANGED <<once, part, turns, announced, up, settled, expired, crashes>>
  PROVE  IInv'
<1>1. /\ loop' \in ControlType /\ run \in RunType /\ part \in [Ids -> ParticipantType]
      /\ \/ loop'.pc = "gone"
         \/ loop'.pc = loop.pc /\ loop'.p = loop.p /\ loop'.idx = loop.idx
            /\ loop'.attempt = loop.attempt
      /\ leaving' \in {"none", "normal", "failed", "cancelled"}
  BY GoneType DEF IInv, TypeOK
<1>2. CASE run.status \in Terminal
  <2>1. owed' = TRUE /\ run' = run /\ faults' \in 0 .. MaxFaults
    BY <1>2, FaultType DEF Ended, IInv
  <2>2. TypeOK'
    BY <1>1, <2>1 DEF IInv, TypeOK
  <2>3. Placed' /\ TurnsCounted'
    BY <1>1, <1>2, <2>1 DEF IInv, Placed, TurnsCounted, Live, InTurn, Terminal
  <2>4. FailsCounted'
    BY <1>1, <1>2, <2>1 DEF IInv, FailsCounted, Live, Open, Terminal
  <2>5. ActiveNamed'
    BY <1>2, <2>1 DEF ActiveNamed, Terminal
  <2>6. Announced'
    BY <1>2, <2>1 DEF IInv, Announced, AnnouncedOnce
  <2> QED
    BY <2>2, <2>3, <2>4, <2>5, <2>6 DEF IInv
<1>3. CASE /\ run.status \notin Terminal
           /\ run' = [run EXCEPT !.status = status, !.active = 0]
           /\ owed' = TRUE /\ NoFault
  <2>1. run.status \in {"running", "paused"}
    BY <1>1, <1>3 DEF IInv, Placed, RunType
  <2>2. run' \in RunType /\ run'.status \in Terminal /\ run'.active = 0
    <3>1. 0 \in 0 .. Roles /\ "failed" \in Terminal /\ "cancelled" \in Terminal
      BY RolesAssumption DEF Terminal
    <3> QED
      BY <1>1, <1>3, <3>1 DEF RunType
  <2>3. faults' \in 0 .. MaxFaults
    BY <1>3, FaultType DEF IInv
  <2> QED
    BY <1>1, <1>3, <2>1, <2>2, <2>3, RunClosed
<1>4. CASE run.status \notin Terminal /\ Fault /\ UNCHANGED <<run, owed>>
  <2>1. faults' \in 0 .. MaxFaults
    BY <1>4, FaultType DEF IInv
  <2>2. TypeOK'
    BY <1>1, <1>4, <2>1 DEF IInv, TypeOK
  <2>3. Placed' /\ TurnsCounted'
    BY <1>1, <1>4 DEF IInv, Placed, TurnsCounted, Live, InTurn
  <2>4. FailsCounted'
    BY <1>1, <1>4 DEF IInv, FailsCounted, Live, Open
  <2>5. ActiveNamed'
    BY <1>1, <1>4 DEF IInv, ActiveNamed, InTurn
  <2>6. Announced'
    BY <1>4 DEF IInv, Announced, AnnouncedOnce
  <2> QED
    BY <2>2, <2>3, <2>4, <2>5, <2>6 DEF IInv
<1> QED
  BY <1>2, <1>3, <1>4 DEF Ended

\* A loop's end, and an earlier loop's, that writes nothing.
LEMMA QuietEnd ==
  ASSUME IInv, up, ~owed,
         loop.pc # "gone" \/ leaving # "none",
         loop' = loop \/ loop' = Gone,
         leaving' \in {"none", leaving}, registered' \in BOOLEAN,
         UNCHANGED <<stored, announced, up, settled, owed, expired, crashes, faults>>
  PROVE  IInv'
<1> USE DEF stored, IInv
<1>1. loop' \in ControlType /\ (loop'.pc = "gone" \/ loop' = loop)
  BY GoneType DEF TypeOK
<1>2. TypeOK'
  BY <1>1 DEF TypeOK
<1>3. Placed' /\ TurnsCounted'
  BY <1>1 DEF Placed, TurnsCounted, Live, InTurn
<1>4. FailsCounted'
  BY <1>1 DEF FailsCounted, Live, Open
<1>5. ActiveNamed' /\ Announced'
  BY <1>1 DEF ActiveNamed, Announced, AnnouncedOnce, InTurn
<1> QED
  BY <1>2, <1>3, <1>4, <1>5

\* The settlement of the current loop.
LEMMA LoopEndsInv ==
  ASSUME IInv, LoopEnds
  PROVE  IInv'
<1>1. up /\ ~owed /\ loop.pc # "gone"
  BY DEF LoopEnds, LoopRuns
<1>2. CASE Outcome(loop.exit, loop.aborted) = "normal"
  BY <1>1, <1>2, QuietEnd DEF LoopEnds, stored
<1>3. CASE Outcome(loop.exit, loop.aborted) # "normal"
  <2>1. Outcome(loop.exit, loop.aborted) \in {"failed", "cancelled"}
    BY <1>3 DEF Outcome
  <2> QED
    BY <1>1, <1>3, <2>1, EndedInv DEF LoopEnds
<1> QED
  BY <1>2, <1>3

\* The settlement of a loop that had paused the run.
LEMMA EarlierLoopEndsInv ==
  ASSUME IInv, EarlierLoopEnds
  PROVE  IInv'
<1>1. up /\ ~owed /\ leaving # "none" /\ leaving \in {"normal", "failed", "cancelled"}
  BY DEF EarlierLoopEnds, AtAwait, IInv, TypeOK
<1>2. CASE leaving = "normal"
  BY <1>1, <1>2, QuietEnd DEF EarlierLoopEnds, stored
<1>3. CASE leaving \in {"failed", "cancelled"}
  BY <1>1, <1>3, EndedInv DEF EarlierLoopEnds
<1> QED
  BY <1>1, <1>2, <1>3

-----------------------------------------------------------------------------
\* The loop is told of a cancellation; nothing else changes.
LEMMA LoopMarked ==
  ASSUME IInv, up,
         loop' \in ControlType, loop'.pc = loop.pc, loop'.p = loop.p,
         loop'.idx = loop.idx, loop'.attempt = loop.attempt,
         faults' \in 0 .. MaxFaults,
         UNCHANGED <<stored, announced, up, leaving, registered, settled, owed,
                     expired, crashes>>
  PROVE  IInv'
<1> USE DEF stored, IInv
<1>1. TypeOK'
  BY DEF TypeOK
<1>2. Placed' /\ TurnsCounted'
  BY DEF Placed, TurnsCounted, Live, InTurn
<1>3. FailsCounted'
  BY DEF FailsCounted, Live, Open
<1>4. ActiveNamed' /\ Announced'
  BY DEF ActiveNamed, Announced, AnnouncedOnce, InTurn
<1> QED
  BY <1>1, <1>2, <1>3, <1>4

\* A run that is closed at status from outside its loop.
LEMMA ClosedType ==
  ASSUME TypeOK, NEW status \in Terminal
  PROVE  LET closed == [run EXCEPT !.status = status, !.active = 0]
         IN  closed \in RunType /\ closed.status = status /\ closed.active = 0
<1>1. run \in RunType /\ 0 \in 0 .. Roles
  BY RolesAssumption DEF TypeOK
<1> QED
  BY <1>1 DEF RunType

\* Cancelling the run, with and without a registered loop.
LEMMA CancelRunInv ==
  ASSUME IInv, CancelRun
  PROVE  IInv'
<1>1. /\ up /\ run.status = "running" /\ loop \in ControlType
      /\ faults \in 0 .. MaxFaults
  BY DEF CancelRun, AtAwait, IInv, TypeOK
<1>2. CASE registered
  <2>1. loop' = [loop EXCEPT !.aborted = TRUE]
    BY <1>2 DEF CancelRun
  <2>2. /\ loop' \in ControlType /\ loop'.pc = loop.pc /\ loop'.p = loop.p
        /\ loop'.idx = loop.idx /\ loop'.attempt = loop.attempt
    BY <1>1, <2>1 DEF ControlType
  <2> QED
    BY <1>1, <1>2, <2>2, LoopMarked DEF CancelRun, stored
<1>3. CASE ~registered
  <2>1. /\ run' \in RunType /\ run'.status = "cancelled" /\ run'.active = 0
        /\ "cancelled" \in Terminal
    <3>1. "cancelled" \in Terminal
      BY DEF Terminal
    <3> QED
      BY <1>3, <3>1, ClosedType DEF CancelRun, IInv
  <2>2. /\ part \in [Ids -> ParticipantType] /\ registered \in BOOLEAN
        /\ leaving \in {"none", "normal", "failed", "cancelled"}
    BY DEF IInv, TypeOK
  <2> QED
    BY <1>1, <1>3, <2>1, <2>2, RunClosed DEF CancelRun
<1> QED
  BY <1>2, <1>3

\* Cancelling a participant, whose turn it is or not.
LEMMA CancelParticipantInv ==
  ASSUME IInv, NEW q \in Ids, CancelParticipant(q)
  PROVE  IInv'
<1>1. /\ up /\ run.status = "running" /\ loop \in ControlType /\ registered \in BOOLEAN
      /\ faults \in 0 .. MaxFaults /\ part \in [Ids -> ParticipantType]
      /\ leaving \in {"none", "normal", "failed", "cancelled"}
  BY DEF CancelParticipant, AtAwait, IInv, TypeOK
<1>2. loop' = [loop EXCEPT !.cancelled = loop.cancelled \cup {q}, !.aborted = TRUE]
  BY DEF CancelParticipant
<1>3. /\ loop' \in ControlType /\ loop'.pc = loop.pc /\ loop'.p = loop.p
      /\ loop'.idx = loop.idx /\ loop'.attempt = loop.attempt
  BY <1>1, <1>2 DEF ControlType
<1>4. CASE UNCHANGED <<run, part, owed, faults>>
  BY <1>1, <1>3, <1>4, LoopMarked DEF CancelParticipant, stored
<1>5. CASE Fault /\ UNCHANGED <<run, part, owed>>
  <2>1. faults' \in 0 .. MaxFaults
    BY <1>5, FaultType DEF IInv
  <2> QED
    BY <1>1, <1>3, <1>5, <2>1, LoopMarked DEF CancelParticipant, stored
<1>6. CASE /\ NoFault /\ owed' = TRUE
           /\ part' = [part EXCEPT ![q].st = "cancelled"]
           /\ run' = [run EXCEPT !.status = "failed", !.active = 0]
  <2>1. /\ run' \in RunType /\ run'.status = "failed" /\ run'.active = 0
        /\ "failed" \in Terminal
    <3>1. "failed" \in Terminal
      BY DEF Terminal
    <3> QED
      BY <1>6, <3>1, ClosedType DEF IInv
  <2>2. /\ part' \in [Ids -> ParticipantType]
        /\ \A r \in Ids : part'[r].fails = part[r].fails
    BY <1>1, <1>6 DEF ParticipantType
  <2>3. faults' \in 0 .. MaxFaults
    BY <1>6, FaultType DEF IInv
  <2>4. /\ leaving' = leaving /\ registered' = registered
        /\ UNCHANGED <<once, turns, announced, up, settled, expired, crashes>>
    BY DEF CancelParticipant
  <2> QED
    BY <1>1, <1>3, <1>6, <2>1, <2>2, <2>3, <2>4, RunClosed
<1> QED
  BY <1>4, <1>5, <1>6 DEF CancelParticipant

-----------------------------------------------------------------------------
\* A resume that finds the run at its end.
LEMMA ResumeClosesInv ==
  ASSUME IInv, NEW ack \in BOOLEAN, ResumeCloses(ack)
  PROVE  IInv'
<1>1. /\ up /\ run.status = "paused" /\ run.active = 0 /\ run \in RunType
      /\ loop \in ControlType /\ part \in [Ids -> ParticipantType]
      /\ leaving \in {"none", "normal", "failed", "cancelled"}
      /\ registered \in BOOLEAN /\ faults \in 0 .. MaxFaults
  BY DEF ResumeCloses, Resumable, AtAwait, CursorAccepted, IInv, TypeOK
<1>2. PICK status \in {"completed", "timed_out", "budget_exhausted"} :
        run' = [run EXCEPT !.status = status]
  BY DEF ResumeCloses
<1>3. status \in Terminal
  BY DEF Terminal
<1>4. run' \in RunType /\ run'.status \in Terminal /\ run'.active = 0
  BY <1>1, <1>2, <1>3 DEF RunType
<1>5. /\ owed' = TRUE
      /\ UNCHANGED <<once, part, turns, announced, up, memory, settled, expired,
                     crashes, faults>>
  BY DEF ResumeCloses
<1> QED
  BY <1>1, <1>4, <1>5, RunClosed DEF memory

\* A participant with failures is the one at the cursor.
LEMMA FailsAtCursor ==
  ASSUME IInv, run.status = "paused", CursorAccepted, NEW r \in Ids, part[r].fails # 0
  PROVE  r = CursorSeq
<1>1. /\ turns # <<>> /\ turns[Len(turns)].p = r
      /\ turns[Len(turns)].st # "completed"
  BY DEF IInv, FailsCounted, Open
<1>2. /\ turns \in Seq(TurnType) /\ Len(turns) \in Nat /\ Len(turns) # 0
      /\ Roles \in Nat /\ Roles > 0
  BY <1>1, RolesAssumption DEF IInv, TypeOK
<1> DEFINE n == Len(turns) - 1
<1>3. n \in Nat /\ Len(turns) = n + 1
  BY <1>2
<1>4. Done(Len(turns)) = Done(n) /\ Done(n) \in Nat
  BY <1>1, <1>3, DoneSame, CountsNat
<1>5. /\ once => Done(n) < Roles
      /\ r = (Done(n) % Roles) + 1
  BY <1>1, <1>2 DEF CursorAccepted, TurnAccepted
<1> HIDE DEF n
<1>6. CASE once
  BY <1>2, <1>4, <1>5, <1>6 DEF CursorSeq
<1>7. CASE ~once
  BY <1>4, <1>5, <1>7 DEF CursorSeq
<1> QED
  BY <1>6, <1>7

\* The control record with which a resumed loop starts.
LEMMA ResumedType ==
  ASSUME TypeOK, CursorSeq <= Roles, NEW ack \in BOOLEAN,
         loop' = [Gone EXCEPT !.pc = "check", !.p = CursorSeq, !.start = CursorSeq,
                              !.round = CursorRound, !.idx = Len(turns),
                              !.msg = Messages(Len(turns)),
                              !.attempt = part[CursorSeq].fails, !.acked = ack]
  PROVE  /\ loop' \in ControlType /\ loop'.pc = "check" /\ loop'.p = CursorSeq
         /\ loop'.idx = Len(turns) /\ loop'.attempt = part[CursorSeq].fails
         /\ CursorSeq \in Ids
<1>1. CursorSeq \in Ids /\ CursorSeq \in 1 .. Roles + 1 /\ CursorSeq \in 0 .. Roles
  BY CursorType, RolesAssumption DEF Ids
<1>2. /\ part[CursorSeq].fails \in Nat /\ Len(turns) \in Nat
      /\ CursorRound \in Nat /\ Messages(Len(turns)) \in Nat
  BY <1>1, CursorType DEF TypeOK, ParticipantType
<1>3. Gone \in ControlType
  BY GoneType
<1> QED
  BY <1>1, <1>2, <1>3 DEF ControlType

\* A resume that starts a loop at the cursor.
LEMMA ResumeInv ==
  ASSUME IInv, NEW ack \in BOOLEAN, Resume(ack)
  PROVE  IInv'
<1>1. /\ up /\ ~owed /\ run.status = "paused" /\ run.active = 0 /\ run \in RunType
      /\ CursorAccepted /\ announced = <<>> /\ Len(turns) \in Nat
      /\ part \in [Ids -> ParticipantType] /\ ~Live
  BY DEF Resume, Resumable, AtAwait, CursorAccepted, IInv, TypeOK, Placed, Announced,
         Terminal
<1>2. /\ run' \in RunType /\ run'.status = "running" /\ run'.active = 0
      /\ UNCHANGED <<once, part, turns, announced, up, settled, owed, expired, crashes>>
  BY <1>1 DEF Resume, RunType
<1>3. /\ \A r \in Ids : part[r].fails <= MaxRetries + 1 /\ part[r].fails <= MaxRetries
      /\ \A r \in Ids : part[r].fails # 0 => /\ turns # <<>>
                                             /\ turns[Len(turns)].p = r
                                             /\ turns[Len(turns)].st # "completed"
      /\ \A r \in Ids : part[r].st # "active"
  BY <1>1 DEF IInv, FailsCounted, Open, CursorAccepted
<1>4. Len(turns) < MaxTurns
  BY DEF Resume
<1>5. faults' \in 0 .. MaxFaults
  BY FaultType DEF Resume, IInv
<1>6. CASE /\ registered' = TRUE
           /\ leaving' = IF loop.pc = "cleanup" THEN Outcome(loop.exit, loop.aborted)
                         ELSE "none"
           /\ loop' = [Gone EXCEPT !.pc = "check", !.p = CursorSeq, !.start = CursorSeq,
                                   !.round = CursorRound, !.idx = Len(turns),
                                   !.msg = Messages(Len(turns)),
                                   !.attempt = part[CursorSeq].fails, !.acked = ack]
  <2>1. /\ loop' \in ControlType /\ loop'.pc = "check" /\ loop'.p = CursorSeq
        /\ loop'.idx = Len(turns) /\ loop'.attempt = part[CursorSeq].fails
        /\ CursorSeq \in Ids
    BY <1>6, ResumedType DEF Resume, IInv
  <2>2. leaving' \in {"none", "normal", "failed", "cancelled"}
    BY <1>6 DEF Outcome
  <2>3. \A r \in Ids : part[r].fails # 0 => r = CursorSeq
    BY <1>1, FailsAtCursor
  <2>4. TypeOK'
    BY <1>2, <1>5, <1>6, <2>1, <2>2 DEF IInv, TypeOK
  <2>5. Placed' /\ TurnsCounted'
    BY <1>1, <1>2, <1>4, <2>1 DEF Placed, TurnsCounted, Live, InTurn, IInv
  <2>6. FailsCounted'
    BY <1>2, <1>3, <2>1, <2>3 DEF FailsCounted, Live, Open
  <2>7. ActiveNamed' /\ Announced'
    BY <1>1, <1>2, <1>3, <2>1 DEF ActiveNamed, Announced, AnnouncedOnce, InTurn
  <2> QED
    BY <2>4, <2>5, <2>6, <2>7 DEF IInv
<1>7. CASE UNCHANGED memory
  <2>1. TypeOK'
    BY <1>2, <1>5, <1>7 DEF IInv, TypeOK, memory
  <2>2. Placed' /\ TurnsCounted'
    BY <1>1, <1>2, <1>4, <1>7
    DEF IInv, Placed, TurnsCounted, Live, InTurn, memory
  <2>3. FailsCounted'
    BY <1>1, <1>2, <1>3, <1>7 DEF FailsCounted, Live, Open, memory
  <2>4. ActiveNamed' /\ Announced'
    BY <1>1, <1>2, <1>3, <1>7
    DEF ActiveNamed, Announced, AnnouncedOnce, InTurn, Live, memory
  <2> QED
    BY <2>1, <2>2, <2>3, <2>4 DEF IInv
<1> QED
  BY <1>6, <1>7 DEF Resume

-----------------------------------------------------------------------------
\* The start of a run.
LEMMA StartInv ==
  ASSUME IInv, Start
  PROVE  IInv'
<1>1. /\ up /\ run.status = "none" /\ run.active = 0 /\ run \in RunType
      /\ turns = <<>> /\ ~owed /\ loop.pc = "gone" /\ leaving = "none"
      /\ announced = <<>> /\ part \in [Ids -> ParticipantType] /\ 0 <= MaxRetries
      /\ 0 < MaxTurns
  BY BudgetAssumption DEF Start, IInv, TypeOK, Placed, Announced, Terminal
<1>2. /\ run' \in RunType /\ run'.status = "running" /\ run'.active = 0
  BY <1>1 DEF Start, RunType
<1>3. \A r \in Ids : part[r].fails = 0 /\ (part[r].st # "active")
  BY <1>1, RolesAssumption DEF IInv, FailsCounted, ActiveNamed, Open, Ids
<1>4. /\ loop' \in ControlType
      /\ \/ loop'.pc = "gone"
         \/ loop'.pc = "check" /\ loop'.p = 1 /\ loop'.idx = 0 /\ loop'.attempt = 0
  <2>1. Gone.p = 1 /\ Gone.idx = 0 /\ Gone.attempt = 0
    BY DEF Gone
  <2>2. CASE loop' = [Gone EXCEPT !.pc = "check"]
    BY <2>1, <2>2, GoneType DEF ControlType
  <2>3. CASE loop' = loop
    BY <1>1, <2>3 DEF IInv, TypeOK
  <2> QED
    BY <2>2, <2>3 DEF Start
<1>5. faults' \in 0 .. MaxFaults /\ registered' \in BOOLEAN
  BY FaultType DEF Start, IInv, TypeOK
<1>6. UNCHANGED <<once, part, turns, announced, up, leaving, settled, owed, expired,
                  crashes>>
  BY DEF Start
<1>7. TypeOK'
  BY <1>2, <1>4, <1>5, <1>6 DEF IInv, TypeOK
<1>8. Placed' /\ TurnsCounted'
  <2>1. Len(turns') = 0 /\ 0 <= MaxTurns
    BY <1>1, <1>6, BudgetAssumption
  <2>2. Placed'
    BY <1>1, <1>2, <1>4, <1>6 DEF Placed, Live, InTurn
  <2>3. TurnsCounted'
    BY <1>1, <1>4, <2>1 DEF TurnsCounted, Live, InTurn
  <2> QED
    BY <2>2, <2>3
<1>9. FailsCounted'
  BY <1>1, <1>2, <1>3, <1>4, <1>6, RolesAssumption DEF IInv, FailsCounted, Live, Open, Ids
<1>10. ActiveNamed' /\ Announced'
  BY <1>1, <1>2, <1>3, <1>4, <1>6 DEF ActiveNamed, Announced, AnnouncedOnce, InTurn
<1> QED
  BY <1>7, <1>8, <1>9, <1>10 DEF IInv

\* The process may die between any two steps.
LEMMA CrashInv ==
  ASSUME IInv, Crash
  PROVE  IInv'
<1> USE DEF IInv, stored
<1>1. /\ loop' = Gone /\ Gone \in ControlType /\ Gone.pc = "gone"
      /\ ~up' /\ leaving' = "none" /\ ~registered' /\ ~settled' /\ ~owed'
      /\ UNCHANGED <<stored, announced, expired, faults>>
      /\ up' \in BOOLEAN /\ registered' \in BOOLEAN /\ settled' \in BOOLEAN
      /\ owed' \in BOOLEAN
  BY GoneType DEF Crash
<1>2. crashes' \in 0 .. MaxCrashes
  BY BoundAssumption DEF Crash, TypeOK
<1>3. TypeOK'
  BY <1>1, <1>2 DEF TypeOK
<1>4. Placed' /\ TurnsCounted'
  BY <1>1 DEF Placed, TurnsCounted, Live, InTurn
<1>5. FailsCounted'
  BY <1>1 DEF FailsCounted, Live, Open
<1>6. ActiveNamed' /\ Announced'
  BY <1>1 DEF ActiveNamed, Announced, AnnouncedOnce, InTurn
<1> QED
  BY <1>3, <1>4, <1>5, <1>6

\* The deadline passes.
LEMMA DeadlineInv ==
  ASSUME IInv, Deadline
  PROVE  IInv'
<1> USE DEF IInv, Deadline, stored, memory
<1>1. TypeOK'
  BY DEF TypeOK
<1>2. Placed' /\ TurnsCounted'
  BY DEF Placed, TurnsCounted, Live, InTurn
<1>3. FailsCounted'
  BY DEF FailsCounted, Live, Open
<1>4. ActiveNamed' /\ Announced'
  BY DEF ActiveNamed, Announced, AnnouncedOnce, InTurn
<1> QED
  BY <1>1, <1>2, <1>3, <1>4

\* The terminal event is written once.
LEMMA AnnounceInv ==
  ASSUME IInv, Announce
  PROVE  IInv'
<1> USE DEF IInv, stored, memory
<1>1. /\ run.status \in Terminal /\ up /\ owed /\ settled' /\ ~owed'
      /\ settled' \in BOOLEAN /\ owed' \in BOOLEAN
      /\ announced \in Seq(Terminal)
      /\ UNCHANGED <<stored, memory, up, expired, crashes, faults>>
  BY DEF Announce, Placed, TypeOK
<1>2. /\ announced' \in Seq(Terminal) /\ Len(announced') <= 1
      /\ \A i \in DOMAIN announced' : announced'[i] = run.status
  <2>1. CASE settled
    BY <1>1, <2>1 DEF Announce, Announced, AnnouncedOnce
  <2>2. CASE ~settled
    <3>1. announced = <<>> /\ announced' = Append(announced, run.status)
      BY <1>1, <2>2 DEF Announce, Announced
    <3> QED
      BY <1>1, <3>1
  <2> QED
    BY <2>1, <2>2
<1>3. TypeOK'
  BY <1>1, <1>2 DEF TypeOK
<1>4. Placed' /\ TurnsCounted'
  BY <1>1 DEF Placed, TurnsCounted, Live, InTurn
<1>5. FailsCounted'
  BY <1>1 DEF FailsCounted, Live, Open
<1>6. ActiveNamed' /\ Announced'
  BY <1>1, <1>2 DEF ActiveNamed, Announced, AnnouncedOnce, InTurn
<1> QED
  BY <1>3, <1>4, <1>5, <1>6

-----------------------------------------------------------------------------
\* What recovery may leave of a run that was running.
LEMMA RecoveredInv ==
  ASSUME IInv, ~up, up', run.status = "running",
         run' \in RunType, run'.status \in Terminal \cup {"paused"}, run'.active = 0,
         part' \in [Ids -> ParticipantType], turns' \in Seq(TurnType),
         Len(turns') <= MaxTurns,
         \A r \in Ids : part'[r].fails <= MaxRetries + 1,
         run'.status = "paused" =>
           \A r \in Ids :
             /\ part'[r].fails <= MaxRetries
             /\ part'[r].fails # 0 => /\ turns' # <<>>
                                      /\ turns'[Len(turns')].p = r
                                      /\ turns'[Len(turns')].st # "completed",
         owed' \in BOOLEAN, owed' => run'.status \in Terminal,
         UNCHANGED <<once, announced, memory, settled, expired, crashes, faults>>
  PROVE  IInv'
<1> USE DEF memory
<1>1. /\ loop.pc = "gone" /\ leaving = "none" /\ announced = <<>> /\ loop' = loop
      /\ leaving' = leaving
  BY DEF IInv, Placed, Announced, Terminal
<1>2. run'.status \notin {"none", "running"}
  BY DEF Terminal
<1>3. TypeOK'
  BY DEF IInv, TypeOK
<1>4. Placed' /\ TurnsCounted'
  BY <1>1, <1>2 DEF Placed, TurnsCounted, Live, InTurn
<1>5. FailsCounted'
  BY <1>1, <1>2 DEF FailsCounted, Live, Open
<1>6. ActiveNamed' /\ Announced'
  BY <1>1, <1>2 DEF ActiveNamed, Announced, AnnouncedOnce, InTurn
<1> QED
  BY <1>3, <1>4, <1>5, <1>6 DEF IInv

\* Startup recovery, at a boundary and in a turn.
LEMMA RecoverInv ==
  ASSUME IInv, Recover
  PROVE  IInv'
<1>1. /\ ~up /\ up' /\ RecoverySound /\ run \in RunType /\ turns \in Seq(TurnType)
      /\ part \in [Ids -> ParticipantType] /\ Len(turns) \in Nat
      /\ MaxTurns \in Nat /\ MaxRetries \in Nat /\ Roles \in Nat
      /\ UNCHANGED <<once, announced, memory, settled, expired, crashes, faults>>
  BY BudgetAssumption, RolesAssumption DEF Recover, IInv, TypeOK
<1>2. owed' \in BOOLEAN /\ (owed' => run.status = "running" /\ run'.status \in Terminal)
  <2>1. owed' \in BOOLEAN
    BY DEF Recover
  <2>2. owed' => run.status = "running" /\ run'.status \in Terminal
    BY DEF Recover
  <2> QED
    BY <2>1, <2>2
<1>3. CASE RecoverAtBoundary
  <2>1. run.status = "running" /\ run.active = 0 /\ UNCHANGED <<part, turns>>
    BY <1>3 DEF RecoverAtBoundary
  <2>2. PICK status \in {"timed_out", "budget_exhausted", "paused"} :
          run' = [run EXCEPT !.status = status]
    BY <1>3 DEF RecoverAtBoundary
  <2>3. status \in Terminal \cup {"paused"}
    BY DEF Terminal
  <2>4. run' \in RunType /\ run'.status \in Terminal \cup {"paused"} /\ run'.active = 0
    BY <1>1, <2>1, <2>2, <2>3 DEF RunType
  <2>5. /\ Len(turns) <= MaxTurns
        /\ \A r \in Ids :
             /\ part[r].fails <= MaxRetries + 1 /\ part[r].fails <= MaxRetries
             /\ part[r].fails # 0 => /\ turns # <<>>
                                     /\ turns[Len(turns)].p = r
                                     /\ turns[Len(turns)].st # "completed"
    BY <2>1 DEF IInv, TurnsCounted, FailsCounted, Open
  <2> QED
    BY <1>1, <1>2, <2>1, <2>4, <2>5, RecoveredInv
<1>4. CASE RecoverTurn
  <2> DEFINE p == run.active
             fails == part[p].fails + 1
             status == IF expired THEN "timed_out"
                       ELSE IF Len(turns) + 1 >= MaxTurns THEN "budget_exhausted"
                       ELSE IF fails > MaxRetries THEN "failed"
                       ELSE "paused"
             st == IF status = "paused" THEN "idle" ELSE "failed"
             t == [p |-> p, idx |-> Len(turns), round |-> run.round,
                   st |-> "failed", why |-> "daemon", msg |-> NoMsg]
  <2>1. /\ run.status = "running" /\ p \in Ids
        /\ turns' = Append(turns, t)
        /\ part' = [part EXCEPT ![p].fails = fails, ![p].st = st]
        /\ run' = [run EXCEPT !.status = status, !.active = 0]
    BY <1>1, <1>4 DEF RecoverTurn, RunType, Ids
  <2>2. t \in TurnType /\ t.p = p /\ t.st = "failed"
    BY <1>1, <2>1 DEF TurnType, RunType
  <2>3. Len(turns) < MaxTurns
    BY <1>1, <2>1 DEF RecoverySound, Ids
  <2>4. /\ \A r \in Ids : /\ part[r].fails <= MaxRetries /\ part[r].fails \in Nat
                          /\ part[r].fails # 0 => r = p
    BY <1>1, <2>1 DEF IInv, FailsCounted, Open, ParticipantType, Ids
  <2>5. /\ fails \in Nat /\ fails <= MaxRetries + 1
        /\ status = "paused" => fails <= MaxRetries
    BY <1>1, <2>1, <2>4
  <2>6. status \in Terminal \cup {"paused"} /\ st \in {"idle", "failed"}
    BY DEF Terminal
  <2> HIDE DEF fails, status, st, t, p
  <2>7. /\ turns' \in Seq(TurnType) /\ Len(turns') = Len(turns) + 1
        /\ turns' # <<>> /\ turns'[Len(turns')] = t
    BY <1>1, <2>1, <2>2
  <2>8. /\ part' \in [Ids -> ParticipantType] /\ part'[p].fails = fails
        /\ \A r \in Ids : r # p => part'[r] = part[r]
    BY <1>1, <2>1, <2>5, <2>6 DEF ParticipantType
  <2>9. run' \in RunType /\ run'.status = status /\ run'.active = 0
    <3>1. 0 \in 0 .. Roles /\ status \in Terminal \cup {"none", "running", "paused"}
      BY <1>1, <2>6
    <3> QED
      BY <1>1, <2>1, <3>1 DEF RunType
  <2>10. \A r \in Ids :
           /\ part'[r].fails <= MaxRetries + 1
           /\ status = "paused" =>
                /\ part'[r].fails <= MaxRetries
                /\ part'[r].fails # 0 => r = p
    BY <1>1, <2>4, <2>5, <2>8
  <2>11. Len(turns') <= MaxTurns
    BY <1>1, <2>3, <2>7
  <2> QED
    BY <1>1, <1>2, <2>1, <2>2, <2>6, <2>7, <2>8, <2>9, <2>10, <2>11, RecoveredInv
<1>5. CASE run.status # "running" /\ UNCHANGED <<run, part, turns>>
  <2> USE DEF IInv, memory
  <2>1. ~owed' /\ loop.pc = "gone" /\ up' \in BOOLEAN
    BY <1>1, <1>2, <1>5 DEF Placed, Recover
  <2>2. TypeOK'
    BY <1>1, <1>2, <1>5, <2>1 DEF TypeOK
  <2>3. Placed' /\ TurnsCounted'
    BY <1>1, <1>5, <2>1 DEF Placed, TurnsCounted, Live, InTurn
  <2>4. FailsCounted'
    BY <1>1, <1>5, <2>1 DEF FailsCounted, Live, Open
  <2>5. ActiveNamed' /\ Announced'
    BY <1>1, <1>5, <2>1 DEF Placed, ActiveNamed, Announced, AnnouncedOnce, InTurn
  <2> QED
    BY <2>2, <2>3, <2>4, <2>5
<1> QED
  BY <1>3, <1>4, <1>5 DEF Recover

-----------------------------------------------------------------------------
\* Every step keeps the invariant.
LEMMA NextIInv == IInv /\ [Next]_vars => IInv'
<1> SUFFICES ASSUME IInv, [Next]_vars PROVE IInv'
  OBVIOUS
<1>1. CASE CodeStep
  BY <1>1, AnnounceInv, CheckStopsInv, BeginInv, EndOfSequenceInv, RetryClosesInv,
     LoopEndsInv, EarlierLoopEndsInv, RecoverInv DEF CodeStep
<1>2. CASE Initializes
  BY <1>2, InitializedInv, InitializeThrowsInv DEF Initializes
<1>3. CASE TurnEnds
  BY <1>3, TurnThrowsInv, DecidesErrorInv, DecidesInv, DecidesOversizeInv DEF TurnEnds
<1>4. CASE ClientStep
  BY <1>4, StartInv, CancelRunInv, CancelParticipantInv, ResumeClosesInv, ResumeInv
  DEF ClientStep
<1>5. CASE Crash \/ Deadline
  BY <1>5, CrashInv, DeadlineInv
<1>6. CASE UNCHANGED vars
  <2> USE <1>6 DEF vars, IInv
  <2>1. TypeOK'
    BY DEF TypeOK
  <2>2. Placed' /\ TurnsCounted'
    BY DEF Placed, TurnsCounted, Live, InTurn
  <2>3. FailsCounted'
    BY DEF FailsCounted, Live, Open
  <2>4. ActiveNamed' /\ Announced'
    BY DEF ActiveNamed, Announced, AnnouncedOnce, InTurn
  <2> QED
    BY <2>1, <2>2, <2>3, <2>4
<1> QED
  BY <1>1, <1>2, <1>3, <1>4, <1>5, <1>6 DEF Next

\* The invariant holds in every behaviour.
LEMMA SpecIInv == Spec => []IInv
<1> QED
  BY InitIInv, NextIInv, PTL DEF Spec

\* The rows, the control record of executeRoleBasedLoop and the counters keep
\* their shape, for any number of roles and any budget.
THEOREM TypeCorrect == Spec => []TypeOK
<1>1. IInv => TypeOK
  BY DEF IInv
<1> QED
  BY <1>1, SpecIInv, PTL

\* At whatever step the process dies, the rows are ones that _recoverSingleRun
\* accepts, so that the daemon starts again.
THEOREM RecoverySucceeds == Spec => []RecoveryAccepts
<1>1. IInv => RecoveryAccepts
  <2> SUFFICES ASSUME IInv, run.status = "running" PROVE
        IF run.active = 0 THEN \A r \in Ids : part[r].st # "active"
                          ELSE Len(turns) < MaxTurns
    BY DEF RecoveryAccepts, RecoverySound
  <2> QED
    BY RolesAssumption DEF IInv, ActiveNamed, Ids
<1> QED
  BY <1>1, SpecIInv, PTL

\* Loops, recoveries and resumes together store at most budget.maxTurns turns,
\* and no participant fails more often in a row than its retries allow.
THEOREM BudgetsHold == Spec => []BudgetsKept
<1>1. IInv => BudgetsKept
  BY DEF IInv, TurnsCounted, FailsCounted, BudgetsKept
<1> QED
  BY <1>1, SpecIInv, PTL

\* emitTerminalAudit, whoever calls it and in whichever process, has written at
\* most one event, and it names the stored outcome.
THEOREM TerminalEventOnce == Spec => []AnnouncedOnce
<1>1. IInv => AnnouncedOnce
  BY DEF IInv, Announced
<1> QED
  BY <1>1, SpecIInv, PTL

-----------------------------------------------------------------------------
\* What a step may do to a run that has ended.
Frozen == run' = run /\ \A i \in DOMAIN turns' : i > Len(turns) => turns'[i].st = "cancelled"

\* A turn of a run that has ended is not recorded, unless it was cut off by the
\* cancellation of another participant.
LEMMA EndedTurn ==
  ASSUME IInv, run.status \in Terminal,
         NEW t, NEW st, NEW status, NEW round, NEW act, NEW next,
         EndTurn(t, st, status, round, act, next)
  PROVE  UNCHANGED <<run, turns>>
<1>1. run.status # "running"
  BY DEF Terminal
<1> QED
  BY <1>1 DEF EndTurn, Recorded, Refused, stored

\* The turn that another participant's cancellation cut off is the one exception.
LEMMA EndedOther ==
  ASSUME IInv, InTurn, run.status \in Terminal, OtherCancelled
  PROVE  Frozen
<1>1. run \in RunType /\ run.active = 0 /\ turns \in Seq(TurnType) /\ Len(turns) \in Nat
  BY DEF IInv, TypeOK, Placed, Terminal
<1>2. CASE /\ run.status \in {"running", "failed"}
           /\ turns' = Append(turns, Turn("cancelled", "thrown", NoMsg))
           /\ run' = [run EXCEPT !.status = "failed", !.active = 0]
  <2>1. run.status = "failed"
    BY <1>2 DEF Terminal
  <2>2. run' = run
    BY <1>1, <1>2, <2>1 DEF RunType
  <2>3. /\ Turn("cancelled", "thrown", NoMsg) \in TurnType
        /\ Turn("cancelled", "thrown", NoMsg).st = "cancelled"
    BY TurnShape
  <2> QED
    BY <1>1, <1>2, <2>2, <2>3 DEF Frozen
<1>3. CASE UNCHANGED <<run, turns>>
  BY <1>1, <1>3 DEF Frozen
<1> QED
  BY <1>2, <1>3 DEF OtherCancelled, Refused, stored

\* The settlement of a loop does not change a run that has ended.
LEMMA EndedSettled ==
  ASSUME run.status \in Terminal, NEW status, Ended(status)
  PROVE  UNCHANGED run
  BY DEF Ended

\* No step changes a run that has ended, nor completes a turn for it.
LEMMA EndedStep == IInv /\ [Next]_vars => (run.status \in Terminal => Frozen)
<1> SUFFICES ASSUME IInv, [Next]_vars, run.status \in Terminal PROVE Frozen
  OBVIOUS
<1>1. /\ run.status \notin {"none", "running", "paused"}
      /\ turns \in Seq(TurnType) /\ Len(turns) \in Nat
  BY DEF Terminal, IInv, TypeOK
<1>2. ASSUME UNCHANGED <<run, turns>>
      PROVE  Frozen
  BY <1>1, <1>2 DEF Frozen
<1>3. ASSUME NEW status, FinalizeRoleRunDurably(status)
      PROVE  Frozen
  BY <1>1, <1>2, <1>3 DEF FinalizeRoleRunDurably
<1>4. CASE CodeStep
  <2>1. CASE Announce
    BY <1>2, <2>1 DEF Announce, stored
  <2>2. CASE CheckStops
    BY <1>3, <2>2 DEF CheckStops
  <2>3. CASE Begin
    BY <1>1, <1>2, <2>3 DEF Begin, Refused, stored
  <2>4. CASE EndOfSequence
    BY <1>2, <1>3, <2>4 DEF EndOfSequence, stored
  <2>5. CASE RetryCloses
    BY <1>2, <2>5 DEF RetryCloses, stored
  <2>6. CASE LoopEnds
    BY <1>2, <2>6, EndedSettled DEF LoopEnds
  <2>7. CASE EarlierLoopEnds
    BY <1>2, <2>7, EndedSettled DEF EarlierLoopEnds
  <2>8. CASE Recover
    BY <1>1, <1>2, <2>8 DEF Recover, RecoverAtBoundary, RecoverTurn
  <2> QED
    BY <1>4, <2>1, <2>2, <2>3, <2>4, <2>5, <2>6, <2>7, <2>8 DEF CodeStep
<1>5. CASE Initializes
  <2>1. CASE Initialized
    BY <1>2, <1>3, <2>1 DEF Initialized, stored
  <2>2. ASSUME NEW r \in BOOLEAN, InitializeThrows(r)
        PROVE  Frozen
    BY <1>2, <2>2, EndedTurn DEF InitializeThrows
  <2> QED
    BY <1>5, <2>1, <2>2 DEF Initializes
<1>6. CASE TurnEnds
  <2>1. ASSUME NEW r \in BOOLEAN, TurnThrows(r)
        PROVE  Frozen
    <3>1. CASE OtherCancelled
      BY <2>1, <3>1, EndedOther DEF TurnThrows, LoopRuns, InTurn
    <3>2. CASE UNCHANGED <<run, turns>>
      BY <1>2, <3>2
    <3> QED
      BY <2>1, <3>1, <3>2, EndedTurn DEF TurnThrows
  <2>2. ASSUME NEW r \in BOOLEAN, DecidesError(r)
        PROVE  Frozen
    BY <1>2, <2>2, EndedTurn DEF DecidesError
  <2>3. ASSUME NEW d \in {"message", "done", "pause"}, Decides(d)
        PROVE  Frozen
    BY <1>2, <2>3, EndedTurn DEF Decides
  <2>4. CASE DecidesOversize
    BY <1>2, <2>4 DEF DecidesOversize, stored
  <2> QED
    BY <1>6, <2>1, <2>2, <2>3, <2>4 DEF TurnEnds
<1>7. CASE ClientStep
  BY <1>1, <1>7
  DEF ClientStep, Start, CancelRun, CancelParticipant, ResumeCloses, Resume, Resumable
<1>8. CASE Crash \/ Deadline
  BY <1>2, <1>8 DEF Crash, Deadline, stored
<1>9. CASE UNCHANGED vars
  BY <1>2, <1>9 DEF vars
<1> QED
  BY <1>4, <1>5, <1>6, <1>7, <1>8, <1>9 DEF Next

\* assertRoleBasedRunPatchAllowed and the guards before it: no loop, recovery or
\* call changes a run that has ended, and no turn is completed for it.
THEOREM OutcomesAreFinal == Spec => OutcomeFinal
<1>1. IInv /\ [Next]_vars =>
        [run.status \in Terminal =>
           run' = run /\ \A i \in DOMAIN turns' : i > Len(turns) => turns'[i].st = "cancelled"]_vars
  BY EndedStep DEF Frozen
<1> QED
  BY <1>1, SpecIInv, PTL DEF Spec, OutcomeFinal
=============================================================================
