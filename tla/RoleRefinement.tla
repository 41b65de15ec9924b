--------------------------- MODULE RoleRefinement ---------------------------
(***************************************************************************)
(* RoleRun implements RoleExecution, what its loop holds in memory is what *)
(* a replay of the stored rows derives, and a turn that a restart cut off  *)
(* is repeated only with the caller's consent: for any number of roles,    *)
(* any budgets and any bounds on crashes and failing writes.  Types,       *)
(* limits and the active participant come from RoleRunProofs; what is      *)
(* added here is where the loop stands in the sequence of roles            *)
(* (Positioned), and that the rows are ones the replay accepts (Derived).  *)
(***************************************************************************)
EXTENDS RoleRunProofs

\* Completed turns, in the stored run.
Count == Done(Len(turns))

\* The loop stands where the completed turns have brought it.
Positioned ==
  Live /\ run.status = "running" =>
    /\ loop.round * Roles + loop.p = Count + 1
    /\ once => loop.round = 0

RInv == IInv /\ Positioned

-----------------------------------------------------------------------------
\* Division with remainder, as deriveRoleExecutionCursor uses it.
LEMMA DivMod ==
  ASSUME NEW R \in Nat \ {0}, NEW d \in Nat
  PROVE  /\ d \div R \in Nat /\ d % R \in 0 .. R - 1
         /\ d = (d \div R) * R + (d % R)
<1>1. d % R \in 0 .. R - 1
  BY Z3
<1>2. d \div R \in Nat
  BY Z3
<1>3. d = (d \div R) * R + (d % R)
  BY <1>1, <1>2, Z3
<1> QED
  BY <1>1, <1>2, <1>3

\* Quotient and remainder are unique.
LEMMA Remainder ==
  ASSUME NEW R \in Nat \ {0}, NEW q \in Nat, NEW k \in 0 .. R - 1
  PROVE  (q * R + k) % R = k
<1> DEFINE d == q * R + k
           u == d \div R
           v == d % R
<1>1. d \in Nat
  BY Z3
<1>2. u \in Nat /\ v \in 0 .. R - 1 /\ q * R + k = u * R + v
  <2> HIDE DEF d
  <2>1. u \in Nat /\ v \in 0 .. R - 1 /\ d = u * R + v
    BY <1>1, DivMod
  <2> QED
    BY <2>1 DEF d
<1> HIDE DEF d, u, v
<1>3. \A a, b \in Nat : a + 1 <= b => (a + 1) * R <= b * R
  BY Z3
<1>4. CASE q < u
  BY <1>2, <1>3, <1>4, Z3
<1>5. CASE u < q
  BY <1>2, <1>3, <1>5, Z3
<1>6. v = k
  BY <1>2, <1>4, <1>5, Z3
<1> QED
  BY <1>6 DEF v, d

\* A stored turn adds to the completed ones when it is one.
LEMMA CountAppended ==
  ASSUME TypeOK, NEW t \in TurnType, turns' = Append(turns, t)
  PROVE  Count' = IF t.st = "completed" THEN Count + 1 ELSE Count
<1> DEFINE n == Len(turns)
           S == {i \in 1 .. n : turns[i].st = "completed"}
           T == {i \in 1 .. n + 1 : turns'[i].st = "completed"}
<1>1. turns \in Seq(TurnType) /\ n \in Nat
  BY DEF TypeOK
<1>2. /\ Len(turns') = n + 1 /\ turns'[n + 1] = t
      /\ \A i \in 1 .. n : turns'[i] = turns[i]
  BY <1>1
<1>3. Count = Cardinality(S) /\ Count' = Cardinality(T)
  BY <1>2 DEF Count, Done
<1>4. IsFiniteSet(S) /\ n + 1 \notin S
  <2>1. IsFiniteSet(1 .. n) /\ S \subseteq 1 .. n
    BY <1>1, FS_Interval
  <2> QED
    BY <1>1, <2>1, FS_Subset
<1>5. T = IF t.st = "completed" THEN S \cup {n + 1} ELSE S
  BY <1>1, <1>2
<1> QED
  BY <1>3, <1>4, <1>5, FS_AddElement

\* The number of completed turns is a number.
LEMMA CountNat ==
  ASSUME TypeOK
  PROVE  Count \in Nat
  BY CountsNat DEF TypeOK, Count

-----------------------------------------------------------------------------
\* A step that leaves the stored run alone is no step of the abstract run.
LEMMA Stutters ==
  ASSUME UNCHANGED <<run, turns, once>>
  PROVE  UNCHANGED Abstract!vars
  BY DEF Abstract!vars, Phase, Done

\* Closing or pausing a run, with nobody or somebody working, is a step of the
\* abstract run, also when the turn under way is stored without completing.
LEMMA Closes ==
  ASSUME RInv,
         \/ run.status = "running" /\ run'.status \in Terminal \cup {"paused"}
         \/ run.status = "paused" /\ run'.status \in Terminal,
         run'.active = 0, UNCHANGED once, Count' = Count
  PROVE  Abstract!Next
<1>1. /\ Phase = "open" \/ (Phase = "paused" /\ run.active = 0)
      /\ Phase' \in {"paused", "over"}
      /\ Phase = "paused" => Phase' = "over"
  BY DEF Phase, RInv, IInv, Placed, Terminal
<1>2. CASE run.active = 0
  BY <1>1, <1>2 DEF Abstract!Next, Abstract!Between, Count
<1>3. CASE run.active # 0
  BY <1>1, <1>3 DEF Abstract!Next, Abstract!Fail, Count
<1> QED
  BY <1>2, <1>3

\* What each step is shown to do.
Step == [Abstract!Next]_(Abstract!vars) /\ Positioned'

\* A step of the loop, of a client or of the process that stores nothing and
\* starts no loop, or leaves one.
LEMMA Quietly ==
  ASSUME Positioned, UNCHANGED <<run, turns, once>>,
         \/ loop'.pc \in {"gone", "cleanup"}
         \/ /\ loop'.pc \in {"check", "init", "turn", "closing"} => Live
            /\ loop'.p = loop.p /\ loop'.round = loop.round
  PROVE  Step
<1>1. Count' = Count
  BY DEF Count, Done
<1>2. Positioned'
  BY <1>1 DEF Positioned, Live
<1> QED
  BY <1>2, Stutters DEF Step

\* A step that closes or pauses the run and stores no completed turn.
LEMMA Closing ==
  ASSUME RInv,
         \/ run.status = "running" /\ run'.status \in Terminal \cup {"paused"}
         \/ run.status = "paused" /\ run'.status \in Terminal,
         run'.active = 0, UNCHANGED once, Count' = Count
  PROVE  Step
<1>1. run'.status # "running"
  BY DEF Terminal
<1> QED
  BY <1>1, Closes DEF Step, Positioned

\* A turn that ends: completed, or failed and retried, or the last one.
LEMMA TurnGoes ==
  ASSUME RInv, InTurn,
         NEW t \in TurnType, NEW st, NEW status \in Terminal \cup {"running", "paused"},
         NEW round, NEW act, NEW next,
         EndTurn(t, st, status, round, act, next),
         \/ next.pc = "cleanup"
         \/ /\ status = "running" /\ next.round = loop.round
            /\ \/ t.st = "completed" /\ next.p = loop.p + 1
               \/ t.st = "failed" /\ next.p = loop.p,
         Left("error").pc = "cleanup", [Left("persist") EXCEPT !.act = act].pc = "cleanup"
  PROVE  Step
<1>1. CASE Refused(act)
  BY <1>1, Quietly DEF RInv, Refused, stored, EndTurn
<1>2. CASE /\ Recorded(t, st, status, round)
           /\ loop' = next \/ loop' = Left("error")
  <2>1. /\ run.status = "running" /\ turns' = Append(turns, t) /\ UNCHANGED once
        /\ run' = [status |-> status, round |-> round, active |-> 0]
    BY <1>2 DEF Recorded
  <2>2. /\ loop.p \in Ids /\ run.active = loop.p /\ loop.round \in Nat /\ loop.p # 0
        /\ loop.round * Roles + loop.p = Count + 1 /\ (once => loop.round = 0)
    BY <2>1, RolesAssumption
    DEF RInv, IInv, TypeOK, Placed, ActiveNamed, Positioned, InTurn, Live, ControlType, Ids
  <2>3. Count' = (IF t.st = "completed" THEN Count + 1 ELSE Count) /\ Count \in Nat
    BY <2>1, CountAppended, CountNat DEF RInv, IInv
  <2>4. run'.status = status /\ run'.active = 0
    BY <2>1
  <2>5. Positioned'
    <3>1. CASE loop'.pc = "cleanup"
      BY <3>1 DEF Positioned, Live
    <3>2. CASE loop' = next /\ next.pc # "cleanup"
      <4>1. loop'.round = loop.round /\ loop.round * Roles \in Nat
        BY <2>2, <3>2, RolesAssumption
      <4>2. loop'.p + Count = loop.p + Count'
        BY <2>2, <2>3, <3>2 DEF Ids
      <4>3. loop'.p \in Nat /\ Count' \in Nat
        BY <2>2, <2>3, <3>2, RolesAssumption DEF Ids
      <4>4. loop'.round * Roles + loop'.p = Count' + 1
        BY <2>2, <2>3, <4>1, <4>2, <4>3, RolesAssumption DEF Ids
      <4> QED
        BY <2>1, <2>2, <4>1, <4>4 DEF Positioned
    <3> QED
      BY <1>2, <3>1, <3>2
  <2>6. Phase = "open" /\ Phase' \in {"open", "paused", "over"}
    BY <2>1, <2>4 DEF Phase, Terminal
  <2>7. Abstract!Next
    <3>1. CASE t.st = "completed"
      BY <2>1, <2>2, <2>3, <2>4, <2>6, <3>1 DEF Abstract!Next, Abstract!Complete, Count
    <3>2. CASE t.st # "completed"
      BY <2>1, <2>2, <2>3, <2>4, <2>6, <3>2 DEF Abstract!Next, Abstract!Fail, Count
    <3> QED
      BY <3>1, <3>2
  <2> QED
    BY <2>5, <2>7 DEF Step
<1> QED
  BY <1>1, <1>2 DEF EndTurn

\* The loop's own last word.
LEMMA Finalizes ==
  ASSUME RInv, NEW status \in Terminal, FinalizeRoleRunDurably(status)
  PROVE  Step
<1>1. Left("normal").pc = "cleanup" /\ Left("error").pc = "cleanup"
  BY LeftType DEF RInv, IInv
<1>2. CASE run.status = "running" /\ run' = [status |-> status, round |-> loop.round, active |-> 0]
  <2>1. Count' = Count /\ UNCHANGED once
    BY DEF FinalizeRoleRunDurably, Count, Done
  <2> QED
    BY <1>2, <2>1, Closing
<1>3. CASE UNCHANGED run /\ loop' = Left("error")
  BY <1>1, <1>3, Quietly DEF FinalizeRoleRunDurably, RInv
<1> QED
  BY <1>2, <1>3 DEF FinalizeRoleRunDurably

\* The settlement of a loop that threw.
LEMMA Settles ==
  ASSUME RInv, run.status # "none", NEW status \in {"failed", "cancelled"}, Ended(status),
         UNCHANGED <<turns, once>>,
         \/ loop'.pc \in {"gone", "cleanup"}
         \/ loop' = loop
  PROVE  Step
<1>1. CASE UNCHANGED run
  BY <1>1, Quietly DEF RInv, Live
<1>2. CASE run.status \notin Terminal /\ run' = [run EXCEPT !.status = status, !.active = 0]
  <2>1. run \in RunType
    BY DEF RInv, IInv, TypeOK
  <2>2. run'.status \in Terminal /\ run'.active = 0
    BY <1>2, <2>1 DEF RunType, Terminal
  <2>3. run.status \in {"running", "paused"}
    BY <1>2, <2>1 DEF RunType
  <2>4. Count' = Count
    BY DEF Count, Done
  <2> QED
    BY <2>2, <2>3, <2>4, Closing
<1> QED
  BY <1>1, <1>2 DEF Ended

-----------------------------------------------------------------------------
\* Where a retry and where a completed turn leave the loop.
LEMMA RetryPlace ==
  ASSUME TypeOK, NEW pc
  PROVE  /\ Retried(pc).p = loop.p /\ Retried(pc).round = loop.round
         /\ [Retried(pc) EXCEPT !.msg = @ + 1].p = loop.p
         /\ [Retried(pc) EXCEPT !.msg = @ + 1].round = loop.round
  BY DEF Retried, TypeOK, ControlType

\* What a loop that enters a role records.
LEMMA EnterPlace ==
  ASSUME TypeOK, NEW p, NEW round
  PROVE  /\ Enter(p, round).p = p /\ Enter(p, round).round = round
         /\ [Enter(p, round) EXCEPT !.idx = @ + 1, !.msg = @ + 1].p = p
         /\ [Enter(p, round) EXCEPT !.idx = @ + 1, !.msg = @ + 1].round = round
<1> DEFINE a == IF p = loop.start THEN part[p].fails ELSE 0
<1>1. Enter(p, round) = [loop EXCEPT !.pc = "check", !.p = p, !.round = round,
                                     !.act = 0, !.attempt = a]
  BY DEF Enter
<1> HIDE DEF a
<1> QED
  BY <1>1 DEF TypeOK, ControlType

\* A loop that is left, whatever it had come to.
LEMMA LeftPlace ==
  ASSUME TypeOK, NEW act
  PROVE  /\ \A e \in {"normal", "error", "persist"} : Left(e).pc = "cleanup"
         /\ [Left("persist") EXCEPT !.act = act].pc = "cleanup"
         /\ [Left("error") EXCEPT !.act = act].pc = "cleanup"
<1>1. \A e \in {"normal", "error", "persist"} :
        Left(e) \in ControlType /\ Left(e).pc = "cleanup"
  BY LeftType
<1> QED
  BY <1>1 DEF ControlType

\* The steps that end a turn.
LEMMA InitializeThrowsStep ==
  ASSUME RInv, NEW retryable \in BOOLEAN, InitializeThrows(retryable)
  PROVE  Step
<1>1. TypeOK /\ IInv /\ InTurn
  BY DEF RInv, IInv, InitializeThrows, LoopRuns, InTurn
<1>2. /\ Turn("failed", "thrown", NoMsg) \in TurnType
      /\ Turn("failed", "thrown", NoMsg).st = "failed"
  BY <1>1, TurnShape
<1> QED
  BY <1>1, <1>2, RetryPlace, LeftPlace, TurnGoes DEF InitializeThrows, Terminal

\* A turn cut off by another participant's cancellation is not completed.
LEMMA OtherCancelledStep ==
  ASSUME RInv, InTurn, OtherCancelled
  PROVE  Step
<1>1. TypeOK /\ IInv
  BY DEF RInv, IInv
<1> DEFINE t == Turn("cancelled", "thrown", NoMsg)
<1>2. t \in TurnType /\ t.st = "cancelled"
  BY <1>1, TurnShape
<1>3. CASE UNCHANGED stored
  <2>1. loop'.pc = "cleanup"
    BY <1>1, <1>3, LeftPlace DEF OtherCancelled, Refused
  <2> QED
    BY <1>3, <2>1, Quietly DEF RInv, stored
<1>4. CASE /\ run.status \in {"running", "failed"} /\ turns' = Append(turns, t)
           /\ run' = [run EXCEPT !.status = "failed", !.active = 0] /\ UNCHANGED once
  <2>1. Count' = Count
    BY <1>1, <1>2, <1>4, CountAppended
  <2>2. run \in RunType /\ run'.status = "failed" /\ run'.active = 0
    BY <1>1, <1>4 DEF TypeOK, RunType
  <2>3. CASE run.status = "running"
    BY <1>4, <2>1, <2>2, <2>3, Closing DEF Terminal
  <2>4. CASE run.status = "failed"
    <3>1. run.active = 0
      BY <1>1, <2>4 DEF IInv, Placed
    <3>2. Phase' = Phase
      BY <2>2, <2>4 DEF Phase
    <3>3. Positioned'
      BY <2>2 DEF Positioned
    <3> QED
      BY <1>4, <2>1, <2>2, <3>1, <3>2, <3>3 DEF Step, Abstract!vars, Count
  <2> QED
    BY <1>4, <2>3, <2>4
<1> QED
  BY <1>3, <1>4, <1>2 DEF OtherCancelled, Refused

\* adapter.next throws.
LEMMA TurnThrowsStep ==
  ASSUME RInv, NEW retryable \in BOOLEAN, TurnThrows(retryable)
  PROVE  Step
<1>1. TypeOK /\ IInv /\ InTurn
  BY DEF RInv, IInv, TurnThrows, LoopRuns, InTurn
<1>2. /\ Turn("failed", "thrown", NoMsg) \in TurnType
      /\ Turn("failed", "thrown", NoMsg).st = "failed"
      /\ Turn("cancelled", "thrown", NoMsg) \in TurnType
      /\ Turn("cancelled", "thrown", NoMsg).st = "cancelled"
  BY <1>1, TurnShape
<1>3. GivenUp(retryable) \in Terminal
  BY DEF GivenUp, Terminal
<1>4. CASE OtherCancelled
  BY <1>1, <1>4, OtherCancelledStep
<1>5. CASE ~OtherCancelled
  BY <1>1, <1>2, <1>3, <1>5, RetryPlace, LeftPlace, TurnGoes DEF TurnThrows, Terminal
<1> QED
  BY <1>4, <1>5

\* An explicit error decision.
LEMMA DecidesErrorStep ==
  ASSUME RInv, NEW retryable \in BOOLEAN, DecidesError(retryable)
  PROVE  Step
<1>1. TypeOK /\ IInv /\ InTurn /\ loop.msg \in Nat
  BY DEF RInv, IInv, TypeOK, ControlType, DecidesError, LoopRuns, InTurn
<1>2. /\ Turn("failed", "decision", loop.msg) \in TurnType
      /\ Turn("failed", "decision", loop.msg).st = "failed"
  BY <1>1, TurnShape
<1>3. GivenUp(retryable) \in Terminal
  BY DEF GivenUp, Terminal
<1> QED
  BY <1>1, <1>2, <1>3, RetryPlace, LeftPlace, TurnGoes DEF DecidesError

\* A decision completes the turn.
LEMMA DecidesStep ==
  ASSUME RInv, NEW d \in {"message", "done", "pause"}, Decides(d)
  PROVE  Step
<1> DEFINE status == CASE d = "done" /\ loop.p \in TerminalRoles -> "completed"
                       [] d = "pause" -> "paused"
                       [] OTHER -> "running"
           next == IF status # "running" THEN Left("normal")
                   ELSE [Enter(loop.p + 1, loop.round) EXCEPT !.idx = @ + 1, !.msg = @ + 1]
           t == Turn("completed", "decision", loop.msg)
<1>1. TypeOK /\ IInv /\ InTurn /\ loop.msg \in Nat
  BY DEF RInv, IInv, TypeOK, ControlType, Decides, LoopRuns, InTurn
<1>2. t \in TurnType /\ t.st = "completed"
  BY <1>1, TurnShape
<1>3. status \in Terminal \cup {"running", "paused"}
  BY DEF Terminal
<1>4. EndTurn(t, "idle", status, loop.round, loop.act, next)
  BY DEF Decides
<1>5. \/ next.pc = "cleanup"
      \/ status = "running" /\ next.round = loop.round /\ next.p = loop.p + 1
  BY <1>1, EnterPlace, LeftPlace
<1> HIDE DEF status, next, t
<1> QED
  BY <1>1, <1>2, <1>3, <1>4, <1>5, LeftPlace, TurnGoes

-----------------------------------------------------------------------------
\* The other steps of the loop.
LEMMA CheckStopsStep ==
  ASSUME RInv, CheckStops
  PROVE  Step
<1>1. Verdict \in Terminal
  BY DEF CheckStops, Verdict, Terminal
<1> QED
  BY <1>1, Finalizes DEF CheckStops

\* The participant whose turn begins is the one that is due.
LEMMA BeginStep ==
  ASSUME RInv, Begin
  PROVE  Step
<1>1. TypeOK /\ IInv
  BY DEF RInv, IInv
<1>2. CASE Refused(0)
  <2>1. loop'.pc = "cleanup"
    BY <1>1, <1>2, LeftPlace DEF Refused
  <2> QED
    BY <1>2, <2>1, Quietly DEF RInv, Refused, stored
<1>3. CASE /\ run.status = "running" /\ run' = [run EXCEPT !.active = loop.p]
           /\ UNCHANGED <<once, turns>>
  <2>1. /\ loop.p \in Ids /\ run.active = 0 /\ loop.round \in Nat
        /\ loop.round * Roles + loop.p = Count + 1 /\ (once => loop.round = 0)
        /\ Roles \in Nat \ {0} /\ Count \in Nat
    BY <1>1, <1>3, RolesAssumption, CountNat
    DEF RInv, IInv, TypeOK, ControlType, ActiveNamed, Positioned, Live, Begin, LoopRuns, Ids
  <2>2. /\ run' \in RunType /\ run'.status = "running" /\ run'.active = loop.p
    <3>1. loop.p \in 0 .. Roles
      BY <2>1 DEF Ids
    <3> QED
      BY <1>1, <1>3, <3>1 DEF TypeOK, RunType
  <2>3. Count' = Count
    BY <1>3 DEF Count, Done
  <2>4. Count % Roles = loop.p - 1
    <3>1. loop.p - 1 \in 0 .. Roles - 1
      BY <2>1 DEF Ids
    <3>2. Count = loop.round * Roles + (loop.p - 1)
      <4> DEFINE m == loop.round * Roles
      <4>1. m \in Nat /\ m + loop.p = Count + 1 /\ loop.p \in Nat
        BY <2>1 DEF Ids
      <4> HIDE DEF m
      <4>2. Count = m + (loop.p - 1)
        BY <2>1, <4>1
      <4> QED
        BY <4>2 DEF m
    <3> QED
      BY <2>1, <3>1, <3>2, Remainder
  <2>5. once => Count < Roles
    BY <2>1 DEF Ids
  <2>6. Phase = "open" /\ Phase' = "open"
    BY <1>3, <2>2 DEF Phase
  <2>7. Abstract!Next
    <3>1. run'.active = (Count % Roles) + 1
      BY <2>1, <2>2, <2>4 DEF Ids
    <3> QED
      BY <1>3, <2>1, <2>3, <2>5, <2>6, <3>1 DEF Abstract!Next, Abstract!Begin, Count
  <2>8. Positioned'
    <3>1. \/ loop'.pc = "cleanup"
          \/ loop'.p = loop.p /\ loop'.round = loop.round
      <4>1. loop \in ControlType
        BY <1>1 DEF TypeOK
      <4>2. CASE loop' = [loop EXCEPT !.act = loop.p,
                            !.pc = IF loop.p \in loop.init THEN "turn" ELSE "init"]
        BY <4>1, <4>2 DEF ControlType
      <4>3. CASE loop' = [Left("error") EXCEPT !.act = loop.p] \/ Refused(0)
        BY <1>1, <4>3, LeftPlace DEF Refused
      <4> QED
        BY <4>2, <4>3 DEF Begin
    <3> QED
      BY <1>3, <2>1, <2>3, <3>1 DEF Positioned, Live
  <2> QED
    BY <2>7, <2>8 DEF Step
<1> QED
  BY <1>2, <1>3 DEF Begin

\* The next round begins where the last one ended.
LEMMA EndOfSequenceStep ==
  ASSUME RInv, EndOfSequence
  PROVE  Step
<1>1. TypeOK /\ loop \in ControlType
  BY DEF RInv, IInv, TypeOK
<1>2. CASE once
  BY <1>2, Finalizes DEF EndOfSequence, Terminal
<1>3. CASE ~once
  <2>1. loop' = Enter(1, loop.round + 1) /\ UNCHANGED stored
    BY <1>3 DEF EndOfSequence
  <2>2. loop'.p = 1 /\ loop'.round = loop.round + 1
    BY <1>1, <2>1, EnterPlace
  <2>3. loop.p = Roles + 1 /\ loop.round \in Nat /\ Roles \in Nat \ {0} /\ Live
    BY <1>1, RolesAssumption DEF ControlType, EndOfSequence, LoopRuns, Live
  <2>4. Count' = Count /\ Count \in Nat /\ once' = once /\ run' = run
    BY <1>1, <2>1, CountNat DEF stored, Count, Done
  <2>5. (loop.round + 1) * Roles + 1 = loop.round * Roles + (Roles + 1)
    <3>1. \A a, b \in Nat : (a + 1) * b + 1 = a * b + (b + 1)
      BY Z3
    <3> QED
      BY <2>3, <3>1
  <2>6. Positioned'
    BY <1>3, <2>2, <2>3, <2>4, <2>5 DEF RInv, Positioned
  <2> QED
    BY <2>1, <2>6, Stutters DEF Step, stored
<1> QED
  BY <1>2, <1>3

\* An initialised adapter stores nothing, unless the time is up.
LEMMA InitializedStep ==
  ASSUME RInv, Initialized
  PROVE  Step
<1>1. TypeOK /\ Live
  BY DEF RInv, IInv, Initialized, LoopRuns, Live
<1>2. CASE FinalizeRoleRunDurably("timed_out")
  BY <1>2, Finalizes DEF Terminal
<1>3. CASE UNCHANGED stored
  <2>1. CASE loop' = Left("normal")
    BY <1>1, <1>3, <2>1, LeftPlace, Quietly DEF RInv, stored
  <2>2. CASE loop' = [loop EXCEPT !.pc = "turn", !.init = @ \cup {loop.p}]
    <3>1. loop'.p = loop.p /\ loop'.round = loop.round
      BY <1>1, <2>2 DEF TypeOK, ControlType
    <3> QED
      BY <1>1, <1>3, <3>1, Quietly DEF RInv, stored
  <2> QED
    BY <1>2, <1>3, <2>1, <2>2 DEF Initialized
<1> QED
  BY <1>2, <1>3 DEF Initialized

\* A retry stays at its place.
LEMMA RetryClosesStep ==
  ASSUME RInv, RetryCloses
  PROVE  Step
<1>1. TypeOK /\ Live
  BY DEF RInv, IInv, RetryCloses, LoopRuns, Live
<1>2. loop'.p = loop.p /\ loop'.round = loop.round
  BY <1>1 DEF RetryCloses, TypeOK, ControlType
<1> QED
  BY <1>1, <1>2, Quietly DEF RetryCloses, RInv, stored

\* A message that is too large leaves the loop.
LEMMA DecidesOversizeStep ==
  ASSUME RInv, DecidesOversize
  PROVE  Step
<1>1. loop'.pc = "cleanup"
  BY LeftPlace DEF DecidesOversize, RInv, IInv
<1> QED
  BY <1>1, Quietly DEF DecidesOversize, RInv, stored

\* The end of a loop closes the run or leaves it.
LEMMA LoopEndsStep ==
  ASSUME RInv, LoopEnds \/ EarlierLoopEnds
  PROVE  Step
<1>1. run.status # "none"
  BY DEF RInv, IInv, Placed, LoopEnds, EarlierLoopEnds, LoopRuns
<1>2. CASE LoopEnds
  <2>1. loop'.pc = "gone"
    BY <1>2, GoneType DEF LoopEnds
  <2>2. Outcome(loop.exit, loop.aborted) \in {"normal", "failed", "cancelled"}
    BY DEF Outcome
  <2> QED
    BY <1>1, <1>2, <2>1, <2>2, Quietly, Settles DEF LoopEnds, RInv
<1>3. CASE EarlierLoopEnds
  <2>1. leaving \in {"normal", "failed", "cancelled"}
    BY <1>3 DEF EarlierLoopEnds, RInv, IInv, TypeOK
  <2> QED
    BY <1>1, <1>3, <2>1, Quietly, Settles DEF EarlierLoopEnds, RInv, Live
<1> QED
  BY <1>2, <1>3

-----------------------------------------------------------------------------
\* The calls of clients, the crash and the recovery.
LEMMA StartStep ==
  ASSUME RInv, Start
  PROVE  Step
<1>1. TypeOK /\ turns = <<>> /\ run.active = 0 /\ run.status = "none" /\ run \in RunType
  BY DEF RInv, IInv, TypeOK, Placed, Start
<1>2. run'.status = "running" /\ run'.active = 0 /\ UNCHANGED <<once, turns>>
  BY <1>1 DEF Start, RunType
<1>3. Count' = Count /\ Count = 0
  <2>1. {i \in 1 .. 0 : turns[i].st = "completed"} = {}
    OBVIOUS
  <2> QED
    BY <1>1, <1>2, <2>1, FS_EmptySet DEF Count, Done
<1>4. Abstract!Next
  BY <1>1, <1>2, <1>3 DEF Abstract!Next, Abstract!Open, Phase, Count
<1>5. Positioned'
  <2>1. loop' = [Gone EXCEPT !.pc = "check"] \/ loop' = loop
    BY DEF Start
  <2>2. [Gone EXCEPT !.pc = "check"].p = 1 /\ [Gone EXCEPT !.pc = "check"].round = 0
    BY DEF Gone
  <2>3. loop.pc = "gone"
    BY <1>1 DEF RInv, IInv, Placed
  <2> QED
    <3>1. CASE loop' = loop
      BY <2>3, <3>1 DEF Positioned, Live
    <3>2. CASE loop'.p = 1 /\ loop'.round = 0
      <4>1. 0 * Roles + 1 = 0 + 1
        BY RolesAssumption
      <4> QED
        BY <1>3, <3>2, <4>1 DEF Positioned
    <3> QED
      BY <2>1, <2>2, <3>1, <3>2
<1> QED
  BY <1>4, <1>5 DEF Step

\* A cancellation closes the run or aborts its loop.
LEMMA CancelStep ==
  ASSUME RInv, CancelRun \/ \E q \in Ids : CancelParticipant(q)
  PROVE  Step
<1>1. run.status = "running" /\ run \in RunType /\ loop \in ControlType
  BY DEF RInv, IInv, TypeOK, CancelRun, CancelParticipant
<1>2. Count' = Count /\ UNCHANGED <<once, turns>>
  BY DEF CancelRun, CancelParticipant, Count, Done
<1>3. CASE run' = run
  <2>1. loop'.pc = loop.pc /\ loop'.p = loop.p /\ loop'.round = loop.round
    BY <1>1 DEF CancelRun, CancelParticipant, ControlType
  <2> QED
    BY <1>2, <1>3, <2>1, Quietly DEF RInv, Live
<1>4. CASE run' # run
  <2>1. run'.status \in Terminal /\ run'.active = 0
    BY <1>1, <1>4 DEF CancelRun, CancelParticipant, RunType, Terminal
  <2> QED
    BY <1>1, <1>2, <2>1, Closing
<1> QED
  BY <1>3, <1>4

\* A resumed loop begins where the derived cursor points.
LEMMA ResumeStep ==
  ASSUME RInv, NEW ack \in BOOLEAN, ResumeCloses(ack) \/ Resume(ack)
  PROVE  Step
<1>1. /\ run.status = "paused" /\ run.active = 0 /\ run \in RunType /\ TypeOK /\ ~Live
      /\ UNCHANGED <<once, turns>> /\ Count' = Count /\ Count \in Nat
  BY CountNat
  DEF RInv, IInv, TypeOK, Placed, ResumeCloses, Resume, Resumable, Count, Done
<1>2. CASE ResumeCloses(ack)
  <2>1. run'.status \in Terminal /\ run'.active = 0
    BY <1>1, <1>2 DEF ResumeCloses, RunType, Terminal
  <2> QED
    BY <1>1, <2>1, Closing
<1>3. CASE Resume(ack)
  <2>1. run'.status = "running" /\ run'.active = 0
    BY <1>1, <1>3 DEF Resume, RunType
  <2>2. Abstract!Next
    BY <1>1, <2>1 DEF Abstract!Next, Abstract!Between, Phase, Count
  <2>3. CASE UNCHANGED loop
    BY <1>1, <2>2, <2>3 DEF Step, Positioned, Live
  <2>4. CASE /\ loop'.p = CursorSeq /\ loop'.round = CursorRound
    <3>1. Roles \in Nat \ {0}
      BY RolesAssumption
    <3>2. CASE once
      <4>1. CursorSeq = Count + 1 /\ CursorRound = 0
        BY <3>2 DEF CursorSeq, CursorRound, Count
      <4>2. 0 * Roles + (Count + 1) = Count + 1
        BY <1>1, <3>1
      <4>3. Positioned'
        BY <1>1, <2>4, <4>1, <4>2 DEF Positioned
      <4> QED
        BY <2>2, <4>3 DEF Step
    <3>3. CASE ~once
      <4>1. CursorSeq = (Count % Roles) + 1 /\ CursorRound = Count \div Roles
        BY <3>3 DEF CursorSeq, CursorRound, Count
      <4>2. /\ Count \div Roles \in Nat /\ Count % Roles \in 0 .. Roles - 1
            /\ Count = (Count \div Roles) * Roles + (Count % Roles)
        BY <1>1, <3>1, DivMod
      <4>3. CursorRound * Roles \in Nat
        BY <3>1, <4>1, <4>2
      <4>4. CursorRound * Roles + CursorSeq = Count + 1
        BY <1>1, <3>1, <4>1, <4>2, <4>3
      <4>5. Positioned'
        BY <1>1, <2>4, <3>3, <4>4 DEF Positioned
      <4> QED
        BY <2>2, <4>5 DEF Step
    <3> QED
      BY <3>2, <3>3
  <2>5. \/ UNCHANGED loop
        \/ loop'.p = CursorSeq /\ loop'.round = CursorRound
    BY <1>3 DEF Resume, memory, Gone
  <2> QED
    BY <2>3, <2>4, <2>5
<1> QED
  BY <1>2, <1>3

\* Recovery pauses or closes the run; an interrupted turn is not completed.
LEMMA RecoverStep ==
  ASSUME RInv, Recover
  PROVE  Step
<1>1. /\ TypeOK /\ run \in RunType /\ loop.pc = "gone" /\ loop' = loop /\ once' = once
      /\ turns \in Seq(TurnType) /\ Len(turns) \in Nat
  BY DEF RInv, IInv, TypeOK, Placed, Recover, memory
<1>2. CASE run.status # "running" /\ UNCHANGED <<run, part, turns>>
  BY <1>1, <1>2, Quietly DEF RInv
<1>3. CASE RecoverAtBoundary
  <2>1. run.status = "running" /\ run.active = 0 /\ Count' = Count
    BY <1>3 DEF RecoverAtBoundary, Count, Done
  <2>2. run'.status \in Terminal \cup {"paused"} /\ run'.active = 0
    BY <1>1, <1>3, <2>1 DEF RecoverAtBoundary, RunType, Terminal
  <2> QED
    BY <1>1, <2>1, <2>2, Closing
<1>4. CASE RecoverTurn
  <2> DEFINE t == [p |-> run.active, idx |-> Len(turns), round |-> run.round,
                   st |-> "failed", why |-> "daemon", msg |-> NoMsg]
  <2>1. run.status = "running" /\ run.active # 0 /\ turns' = Append(turns, t)
    BY <1>4 DEF RecoverTurn
  <2>2. t \in TurnType /\ t.st = "failed"
    BY <1>1, <2>1 DEF TurnType, RunType, Ids
  <2>3. PICK status \in Terminal \cup {"paused"} :
          run' = [run EXCEPT !.status = status, !.active = 0]
    BY <1>4 DEF RecoverTurn, Terminal
  <2>4. run'.status \in Terminal \cup {"paused"} /\ run'.active = 0
    BY <1>1, <2>3 DEF RunType
  <2> HIDE DEF t
  <2>5. Count' = Count
    BY <1>1, <2>1, <2>2, CountAppended
  <2> QED
    BY <1>1, <2>1, <2>4, <2>5, Closing
<1> QED
  BY <1>2, <1>3, <1>4 DEF Recover

-----------------------------------------------------------------------------
\* Every step is a step of the abstract run or leaves it alone, and keeps the
\* loop where the completed turns have brought it.
LEMMA EveryStep == RInv /\ [Next]_vars => Step
<1> SUFFICES ASSUME RInv, [Next]_vars PROVE Step
  OBVIOUS
<1>1. CASE CodeStep
  <2>1. CASE Announce
    BY <2>1, Quietly DEF Announce, stored, memory, RInv, Live
  <2> QED
    BY <1>1, <2>1, CheckStopsStep, BeginStep, EndOfSequenceStep, RetryClosesStep,
       LoopEndsStep, RecoverStep DEF CodeStep
<1>2. CASE Initializes
  BY <1>2, InitializedStep, InitializeThrowsStep DEF Initializes
<1>3. CASE TurnEnds
  BY <1>3, TurnThrowsStep, DecidesErrorStep, DecidesStep, DecidesOversizeStep DEF TurnEnds
<1>4. CASE ClientStep
  BY <1>4, StartStep, CancelStep, ResumeStep DEF ClientStep
<1>5. CASE Crash
  BY <1>5, GoneType, Quietly DEF Crash, stored, RInv
<1>6. CASE Deadline
  BY <1>6, Quietly DEF Deadline, stored, memory, RInv, Live
<1>7. CASE UNCHANGED vars
  BY <1>7, Quietly DEF vars, RInv, Live
<1> QED
  BY <1>1, <1>2, <1>3, <1>4, <1>5, <1>6, <1>7 DEF Next

\* The loops of RunController, their failures, cancellations, restarts and
\* resumes are an implementation of RoleExecution: the roles have their turns
\* one at a time and in the policy's order.
THEOREM RolesInOrder == Spec => ImplementsRoleExecution
<1>1. Init => RInv /\ Abstract!Init
  <2> SUFFICES ASSUME Init PROVE RInv /\ Abstract!Init
    OBVIOUS
  <2>1. Positioned
    BY GoneType DEF Init, Positioned, Live
  <2>2. {i \in 1 .. 0 : turns[i].st = "completed"} = {}
    OBVIOUS
  <2>3. Done(Len(turns)) = 0
    BY <2>2, FS_EmptySet DEF Init, Done
  <2> QED
    BY <2>1, <2>3, InitIInv DEF RInv, Init, Abstract!Init, Phase
<1>2. RInv /\ [Next]_vars => RInv' /\ [Abstract!Next]_(Abstract!vars)
  BY NextIInv, EveryStep DEF RInv, Step
<1> QED
  BY <1>1, <1>2, PTL DEF Spec, ImplementsRoleExecution, Abstract!Spec

-----------------------------------------------------------------------------
(***************************************************************************)
(* What the loop holds in memory is what a replay of the rows derives.     *)
(***************************************************************************)
\* The rows are ones that the replay of deriveRoleExecutionCursor accepts.
RowsAccepted ==
  /\ \A i \in DOMAIN turns : TurnAccepted(i)
  /\ \A r \in Ids : /\ part[r].exec = Cardinality(LastDone(r))
                    /\ part[r].fails = FailsOf(r)

\* They are before the start and while a loop is on its way.
Replayed ==
  run.status = "none" \/ (Live /\ run.status = "running") => RowsAccepted

MessagesHeld == Live /\ run.status = "running" => loop.msg = Messages(Len(turns))

\* A turn that recovery stored is a failed one.
CutsFailed == \A i \in DOMAIN turns : turns[i].why = "daemon" => turns[i].st = "failed"

\* A loop that finds a participant whose latest turn was cut off may repeat it.
Acknowledged == Live /\ (\E r \in Ids : LastInterrupted(r)) => loop.acked

Derived == Replayed /\ MessagesHeld /\ CutsFailed /\ Acknowledged

CInv == RInv /\ Derived

-----------------------------------------------------------------------------
\* The rows after one more turn.
LEMMA AppendTurn ==
  ASSUME TypeOK, NEW t \in TurnType, turns' = Append(turns, t)
  PROVE  /\ Len(turns) \in Nat /\ Len(turns') = Len(turns) + 1
         /\ DOMAIN turns = 1 .. Len(turns) /\ DOMAIN turns' = 1 .. Len(turns) + 1
         /\ turns'[Len(turns) + 1] = t
         /\ \A i \in 1 .. Len(turns) : turns'[i] = turns[i] /\ turns[i] \in TurnType
  BY DEF TypeOK

\* The counts of the turns before it do not change.
LEMMA PrefixCounts ==
  ASSUME TypeOK, NEW t \in TurnType, turns' = Append(turns, t),
         NEW n \in 0 .. Len(turns)
  PROVE  Done(n)' = Done(n) /\ Messages(n)' = Messages(n)
<1>1. \A i \in 1 .. n : turns'[i] = turns[i]
  BY AppendTurn
<1>2. /\ {i \in 1 .. n : turns'[i].st = "completed"} = {i \in 1 .. n : turns[i].st = "completed"}
      /\ {i \in 1 .. n : turns'[i].msg # NoMsg} = {i \in 1 .. n : turns[i].msg # NoMsg}
  BY <1>1
<1> QED
  BY <1>2 DEF Done, Messages

\* The message of a turn is counted when it has one.
LEMMA MessagesAppended ==
  ASSUME TypeOK, NEW t \in TurnType, turns' = Append(turns, t)
  PROVE  Messages(Len(turns))' =
           IF t.msg = NoMsg THEN Messages(Len(turns)) ELSE Messages(Len(turns)) + 1
<1> DEFINE n == Len(turns)
           S == {i \in 1 .. n : turns[i].msg # NoMsg}
           T == {i \in 1 .. n + 1 : turns'[i].msg # NoMsg}
<1>1. /\ n \in Nat /\ Len(turns') = n + 1 /\ turns'[n + 1] = t
      /\ \A i \in 1 .. n : turns'[i] = turns[i]
  BY AppendTurn
<1>2. Messages(Len(turns)) = Cardinality(S) /\ Messages(Len(turns))' = Cardinality(T)
  BY <1>1 DEF Messages
<1>3. IsFiniteSet(S) /\ n + 1 \notin S
  <2>1. IsFiniteSet(1 .. n) /\ S \subseteq 1 .. n
    BY <1>1, FS_Interval
  <2> QED
    BY <1>1, <2>1, FS_Subset
<1>4. T = IF t.msg = NoMsg THEN S ELSE S \cup {n + 1}
  BY <1>1
<1> QED
  BY <1>2, <1>3, <1>4, FS_AddElement

\* A participant's completed turns after one more turn.
LEMMA LastDoneAppended ==
  ASSUME TypeOK, NEW t \in TurnType, turns' = Append(turns, t), NEW r \in Ids
  PROVE  /\ LastDone(r) \subseteq 1 .. Len(turns) /\ IsFiniteSet(LastDone(r))
         /\ LastDone(r)' = IF t.p = r /\ t.st = "completed"
                           THEN LastDone(r) \cup {Len(turns) + 1} ELSE LastDone(r)
<1>1. /\ Len(turns) \in Nat /\ DOMAIN turns = 1 .. Len(turns)
      /\ DOMAIN turns' = 1 .. Len(turns) + 1 /\ turns'[Len(turns) + 1] = t
      /\ \A i \in 1 .. Len(turns) : turns'[i] = turns[i]
  BY AppendTurn
<1>2. LastDone(r) \subseteq 1 .. Len(turns)
  BY <1>1 DEF LastDone
<1>3. IsFiniteSet(LastDone(r))
  <2>1. IsFiniteSet(1 .. Len(turns))
    BY <1>1, FS_Interval
  <2> QED
    BY <1>2, <2>1, FS_Subset
<1>4. LastDone(r)' = IF t.p = r /\ t.st = "completed"
                     THEN LastDone(r) \cup {Len(turns) + 1} ELSE LastDone(r)
  BY <1>1 DEF LastDone
<1> QED
  BY <1>2, <1>3, <1>4

\* Its consecutive failures: none after a completed turn, one more after a
\* failed one.
LEMMA FailsAppended ==
  ASSUME TypeOK, NEW t \in TurnType, turns' = Append(turns, t), NEW r \in Ids
  PROVE  /\ FailsOf(r) \in Nat
         /\ FailsOf(r)' = CASE t.p = r /\ t.st = "completed" -> 0
                            [] t.p = r /\ t.st = "failed" -> FailsOf(r) + 1
                            [] OTHER -> FailsOf(r)
<1> DEFINE n == Len(turns)
           D == LastDone(r)
           E == LastDone(r)'
           S == {i \in DOMAIN turns : turns[i].p = r /\ turns[i].st = "failed"
                                      /\ \A j \in D : j < i}
           T == {i \in DOMAIN turns' : turns'[i].p = r /\ turns'[i].st = "failed"
                                       /\ \A j \in E : j < i}
<1>1. /\ n \in Nat /\ DOMAIN turns = 1 .. n
      /\ DOMAIN turns' = 1 .. n + 1 /\ turns'[n + 1] = t
      /\ \A i \in 1 .. n : turns'[i] = turns[i]
  BY AppendTurn
<1>2. /\ D \subseteq 1 .. n
      /\ E = IF t.p = r /\ t.st = "completed" THEN D \cup {n + 1} ELSE D
  BY LastDoneAppended
<1>3. FailsOf(r) = Cardinality(S) /\ FailsOf(r)' = Cardinality(T)
  BY DEF FailsOf
<1> HIDE DEF D, E
<1>4. IsFiniteSet(S) /\ n + 1 \notin S
  <2>1. IsFiniteSet(1 .. n) /\ S \subseteq 1 .. n
    BY <1>1, FS_Interval
  <2> QED
    BY <1>1, <2>1, FS_Subset
<1>5. CASE t.p = r /\ t.st = "completed"
  <2>1. n + 1 \in E
    BY <1>2, <1>5
  <2>2. T = {}
    BY <1>1, <1>5, <2>1
  <2> QED
    BY <1>3, <1>4, <1>5, <2>2, FS_EmptySet, FS_CardinalityType
<1>6. CASE t.p = r /\ t.st = "failed"
  <2>1. E = D /\ \A j \in D : j < n + 1
    BY <1>1, <1>2, <1>6
  <2>2. T = S \cup {n + 1}
    BY <1>1, <1>6, <2>1
  <2>3. Cardinality(S \cup {n + 1}) = Cardinality(S) + 1 /\ Cardinality(S) \in Nat
    BY <1>4, FS_AddElement, FS_CardinalityType
  <2>4. FailsOf(r)' = FailsOf(r) + 1 /\ FailsOf(r) \in Nat
    BY <1>3, <2>2, <2>3
  <2> QED
    BY <1>6, <2>4
<1>7. CASE ~(t.p = r /\ t.st \in {"completed", "failed"})
  <2>1. E = D
    BY <1>2, <1>7
  <2>2. T = S
    BY <1>1, <1>7, <2>1
  <2> QED
    BY <1>3, <1>4, <1>7, <2>2, FS_CardinalityType
<1> QED
  BY <1>5, <1>6, <1>7

\* A turn that was not cut off leaves no more interrupted participants.
LEMMA InterruptedAppended ==
  ASSUME TypeOK, NEW t \in TurnType, turns' = Append(turns, t), t.why # "daemon",
         NEW r \in Ids, LastInterrupted(r)'
  PROVE  LastInterrupted(r)
<1>1. /\ Len(turns) \in Nat /\ DOMAIN turns = 1 .. Len(turns)
      /\ DOMAIN turns' = 1 .. Len(turns) + 1 /\ turns'[Len(turns) + 1] = t
      /\ Len(turns') = Len(turns) + 1
      /\ \A i \in 1 .. Len(turns) : turns'[i] = turns[i]
  BY AppendTurn
<1>2. PICK i \in DOMAIN turns' : /\ turns'[i].p = r /\ turns'[i].why = "daemon"
                                 /\ \A j \in i + 1 .. Len(turns') : turns'[j].p # r
  BY DEF LastInterrupted
<1>3. i \in 1 .. Len(turns)
  BY <1>1, <1>2
<1>4. \A j \in i + 1 .. Len(turns) : j \in 1 .. Len(turns) /\ j \in i + 1 .. Len(turns')
  BY <1>1, <1>3
<1>5. \A j \in i + 1 .. Len(turns) : turns[j].p # r
  BY <1>1, <1>2, <1>4
<1> QED
  BY <1>1, <1>2, <1>3, <1>5 DEF LastInterrupted

-----------------------------------------------------------------------------
\* The other half of Remainder.
LEMMA Quotient ==
  ASSUME NEW R \in Nat \ {0}, NEW q \in Nat, NEW k \in 0 .. R - 1
  PROVE  (q * R + k) \div R = q
<1> DEFINE d == q * R + k
           u == d \div R
<1>1. d \in Nat
  BY Z3
<1>2. u \in Nat /\ q * R + k = u * R + k
  <2> HIDE DEF d
  <2>1. u \in Nat /\ d = u * R + (d % R)
    BY <1>1, DivMod
  <2>2. d % R = k
    BY Remainder DEF d
  <2> QED
    BY <2>1, <2>2 DEF d
<1> HIDE DEF d, u
<1>3. \A a, b \in Nat : a + 1 <= b => (a + 1) * R <= b * R
  BY Z3
<1>4. CASE q < u
  BY <1>2, <1>3, <1>4, Z3
<1>5. CASE u < q
  BY <1>2, <1>3, <1>5, Z3
<1>6. u = q
  BY <1>2, <1>4, <1>5, Z3
<1> QED
  BY <1>6 DEF u, d

\* Place p of round q, after c completed turns, as the replay computes it.
LEMMA PlaceByDivision ==
  ASSUME NEW R \in Nat \ {0}, NEW q \in Nat, NEW p \in 1 .. R, NEW c \in Nat,
         q * R + p = c + 1
  PROVE  /\ p = (c % R) + 1
         /\ q = c \div R
         /\ q = 0 => c < R
<1> DEFINE k == p - 1
<1>1. k \in 0 .. R - 1 /\ p = k + 1
  OBVIOUS
<1>2. c = q * R + k
  <2> DEFINE m == q * R
  <2>1. m \in Nat
    BY Z3
  <2>2. m + p = c + 1 /\ p \in Nat
    OBVIOUS
  <2> HIDE DEF m, k
  <2>3. c = m + k
    BY <1>1, <2>1, <2>2, Z3
  <2> QED
    BY <2>3 DEF m
<1> HIDE DEF k
<1>3. c % R = k
  BY <1>1, <1>2, Remainder
<1>4. c \div R = q
  BY <1>1, <1>2, Quotient
<1>5. q = 0 => c = k
  BY <1>1, <1>2, Z3
<1>6. p = (c % R) + 1
  BY <1>1, <1>3
<1>7. k < R
  BY <1>1, Z3
<1> QED
  BY <1>4, <1>5, <1>6, <1>7

\* The turn of a loop stands where the replay expects the next one.
LEMMA TurnDue ==
  ASSUME CInv, InTurn, run.status = "running"
  PROVE  /\ Count \in Nat /\ Roles \in Nat \ {0} /\ loop.idx = Len(turns)
         /\ (once => Count < Roles)
         /\ loop.p = (Count % Roles) + 1
         /\ loop.round = IF once THEN 0 ELSE Count \div Roles
<1>1. /\ loop.p \in 1 .. Roles /\ loop.round \in Nat /\ Count \in Nat
      /\ Roles \in Nat \ {0} /\ loop.round * Roles + loop.p = Count + 1
      /\ (once => loop.round = 0) /\ loop.idx = Len(turns)
  BY RolesAssumption, CountNat
  DEF CInv, RInv, IInv, TypeOK, ControlType, Placed, TurnsCounted, Positioned, InTurn,
      Live, Ids
<1>2. /\ loop.p = (Count % Roles) + 1
      /\ loop.round = Count \div Roles
      /\ loop.round = 0 => Count < Roles
  <2> DEFINE p == loop.p
             q == loop.round
  <2>1. /\ p \in 1 .. Roles /\ q \in Nat /\ Count \in Nat /\ Roles \in Nat \ {0}
        /\ q * Roles + p = Count + 1
    BY <1>1
  <2>2. /\ p = (Count % Roles) + 1
        /\ q = Count \div Roles
        /\ q = 0 => Count < Roles
    <3> HIDE DEF p, q
    <3> QED
      BY <2>1, PlaceByDivision
  <2> QED
    BY <2>2
<1> QED
  BY <1>1, <1>2

\* A step that stores no turn and moves no counter, and leaves the loop or keeps
\* what it knows.
LEMMA Keeps ==
  ASSUME CInv, UNCHANGED <<turns, once>>,
         \A r \in Ids : part'[r].exec = part[r].exec /\ part'[r].fails = part[r].fails,
         run'.status = "none" => run.status = "none",
         \/ loop'.pc \in {"gone", "cleanup"}
         \/ /\ loop'.pc \in {"check", "init", "turn", "closing"} => Live
            /\ loop'.msg = loop.msg /\ loop'.acked = loop.acked
            /\ run'.status = "running" => run.status = "running"
  PROVE  Derived'
<1>1. /\ \A n : Done(n)' = Done(n) /\ Messages(n)' = Messages(n)
      /\ \A r : /\ LastDone(r)' = LastDone(r) /\ FailsOf(r)' = FailsOf(r)
                /\ LastInterrupted(r)' <=> LastInterrupted(r)
  BY DEF Done, Messages, LastDone, FailsOf, LastInterrupted
<1>2. RowsAccepted => RowsAccepted'
  BY <1>1 DEF RowsAccepted, TurnAccepted
<1>3. Replayed' /\ MessagesHeld'
  BY <1>1, <1>2 DEF CInv, Derived, Replayed, MessagesHeld, Live
<1>4. CutsFailed' /\ Acknowledged'
  BY <1>1 DEF CInv, Derived, CutsFailed, Acknowledged, Live
<1> QED
  BY <1>3, <1>4 DEF Derived

\* A recorded turn keeps the rows accepted.
LEMMA RowsRecorded ==
  ASSUME CInv, InTurn, NEW t \in TurnType, NEW st, NEW status, NEW round,
         Recorded(t, st, status, round),
         t.p = loop.p, t.idx = loop.idx, t.round = loop.round,
         t.msg \in {NoMsg, loop.msg}, t.why # "decision" => t.msg = NoMsg
  PROVE  RowsAccepted'
<1>1. /\ TypeOK /\ run.status = "running" /\ turns' = Append(turns, t) /\ once' = once
      /\ part' = [part EXCEPT ![t.p] = Counted(@, t, st)]
      /\ part \in [Ids -> ParticipantType] /\ RowsAccepted
      /\ loop.msg = Messages(Len(turns))
  BY DEF Recorded, CInv, RInv, IInv, TypeOK, Derived, Replayed, MessagesHeld, InTurn, Live
<1>2. /\ Len(turns) \in Nat /\ DOMAIN turns = 1 .. Len(turns)
      /\ DOMAIN turns' = 1 .. Len(turns) + 1 /\ turns'[Len(turns) + 1] = t
      /\ \A i \in 1 .. Len(turns) : turns'[i] = turns[i]
  BY <1>1, AppendTurn
<1>3. ASSUME NEW i \in 1 .. Len(turns)
      PROVE  TurnAccepted(i)'
  <2>1. i - 1 \in 0 .. Len(turns)
    BY <1>2
  <2>2. Done(i - 1)' = Done(i - 1) /\ Messages(i - 1)' = Messages(i - 1)
    BY <1>1, <2>1, PrefixCounts
  <2>3. TurnAccepted(i)
    BY <1>1, <1>2 DEF RowsAccepted
  <2> QED
    BY <1>1, <1>2, <2>2, <2>3 DEF TurnAccepted
<1>4. ASSUME NEW n \in Nat, n = Len(turns)
      PROVE  TurnAccepted(n + 1)'
  <2>1. n \in 0 .. Len(turns) /\ (n + 1) - 1 = n /\ turns'[n + 1] = t
    BY <1>2, <1>4
  <2>2. Done(n)' = Count /\ Messages(n)' = loop.msg
    BY <1>1, <1>4, <2>1, PrefixCounts DEF Count
  <2>3. /\ t.idx = n /\ (once => Count < Roles) /\ t.p = (Count % Roles) + 1
        /\ t.round = IF once THEN 0 ELSE Count \div Roles
    BY <1>1, <1>4, TurnDue
  <2> QED
    BY <1>1, <2>1, <2>2, <2>3 DEF TurnAccepted
<1>5. ASSUME NEW r \in Ids
      PROVE  part'[r].exec = Cardinality(LastDone(r)') /\ part'[r].fails = FailsOf(r)'
  <2>1. /\ part[r].exec = Cardinality(LastDone(r)) /\ part[r].fails = FailsOf(r)
        /\ part'[r] = IF r = t.p THEN Counted(part[r], t, st) ELSE part[r]
    BY <1>1 DEF RowsAccepted
  <2>2. part'[r].exec = part[r].exec + (IF r = t.p /\ t.st = "completed" THEN 1 ELSE 0)
    BY <1>1, <2>1 DEF Counted, ParticipantType
  <2>3. part'[r].fails = CASE t.p = r /\ t.st = "completed" -> 0
                           [] t.p = r /\ t.st = "failed" -> part[r].fails + 1
                           [] OTHER -> part[r].fails
    BY <1>1, <2>1 DEF Counted, ParticipantType
  <2>4. Cardinality(LastDone(r)') =
          Cardinality(LastDone(r)) + (IF r = t.p /\ t.st = "completed" THEN 1 ELSE 0)
    <3>1. /\ LastDone(r) \subseteq 1 .. Len(turns) /\ IsFiniteSet(LastDone(r))
          /\ LastDone(r)' = IF t.p = r /\ t.st = "completed"
                            THEN LastDone(r) \cup {Len(turns) + 1} ELSE LastDone(r)
      BY <1>1, LastDoneAppended
    <3>2. Len(turns) + 1 \notin LastDone(r)
      BY <1>2, <3>1
    <3>3. /\ Cardinality(LastDone(r) \cup {Len(turns) + 1}) = Cardinality(LastDone(r)) + 1
          /\ Cardinality(LastDone(r)) \in Nat
      BY <3>1, <3>2, FS_AddElement, FS_CardinalityType
    <3> QED
      BY <3>1, <3>3
  <2>5. FailsOf(r)' = CASE t.p = r /\ t.st = "completed" -> 0
                        [] t.p = r /\ t.st = "failed" -> FailsOf(r) + 1
                        [] OTHER -> FailsOf(r)
    BY <1>1, FailsAppended
  <2> QED
    BY <2>1, <2>2, <2>3, <2>4, <2>5
<1>6. ASSUME NEW i \in DOMAIN turns'
      PROVE  TurnAccepted(i)'
  <2>1. i \in 1 .. Len(turns) \/ i = Len(turns) + 1
    BY <1>2
  <2> QED
    BY <1>2, <1>3, <1>4, <2>1
<1> QED
  BY <1>5, <1>6 DEF RowsAccepted

\* A turn that ends.
LEMMA TurnStored ==
  ASSUME CInv, InTurn, NEW t \in TurnType, NEW st, NEW status, NEW round, NEW act, NEW next,
         EndTurn(t, st, status, round, act, next), status # "none",
         t.p = loop.p, t.idx = loop.idx, t.round = loop.round, t.why # "daemon",
         t.msg \in {NoMsg, loop.msg}, t.why # "decision" => t.msg = NoMsg,
         \/ next.pc = "cleanup"
         \/ /\ next.acked = loop.acked
            /\ next.msg = IF t.msg = NoMsg THEN loop.msg ELSE loop.msg + 1
  PROVE  Derived'
<1>0. /\ TypeOK /\ Left("error").pc = "cleanup" /\ NoMsg \notin Nat /\ loop.msg \in Nat
      /\ [Left("persist") EXCEPT !.act = act].pc = "cleanup" /\ Live
  BY LeftPlace DEF CInv, RInv, IInv, TypeOK, ControlType, NoMsg, InTurn, Live
<1>1. CASE Refused(act)
  BY <1>0, <1>1, Keeps DEF Refused, stored
<1>2. CASE Recorded(t, st, status, round) /\ (loop' = next \/ loop' = Left("error"))
  <2>1. /\ run.status = "running" /\ turns' = Append(turns, t)
        /\ run' = [status |-> status, round |-> round, active |-> 0]
    BY <1>2 DEF Recorded
  <2>2. RowsAccepted'
    BY <1>2, RowsRecorded
  <2>3. Replayed'
    BY <2>2 DEF Replayed
  <2>4. MessagesHeld'
    <3>1. CASE loop'.pc = "cleanup"
      BY <3>1 DEF MessagesHeld, Live
    <3>2. CASE loop' = next /\ next.pc # "cleanup"
      <4>1. loop.msg = Messages(Len(turns)) /\ Len(turns) \in Nat
            /\ Len(turns') = Len(turns) + 1
        BY <1>0, <2>1, AppendTurn DEF CInv, Derived, MessagesHeld
      <4>2. Messages(Len(turns)) ' =
              IF t.msg = NoMsg THEN Messages(Len(turns)) ELSE Messages(Len(turns)) + 1
        BY <1>0, <2>1, MessagesAppended
      <4> QED
        BY <3>2, <4>1, <4>2 DEF MessagesHeld
    <3> QED
      BY <1>0, <1>2, <3>1, <3>2
  <2>5. CutsFailed'
    BY <1>0, <2>1, AppendTurn DEF CInv, Derived, CutsFailed
  <2>6. Acknowledged'
    <3>1. CASE loop'.pc = "cleanup"
      BY <3>1 DEF Acknowledged, Live
    <3>2. CASE loop' = next /\ next.pc # "cleanup"
      BY <1>0, <2>1, <3>2, InterruptedAppended DEF CInv, Derived, Acknowledged
    <3> QED
      BY <1>0, <1>2, <3>1, <3>2
  <2> QED
    BY <2>3, <2>4, <2>5, <2>6 DEF Derived
<1> QED
  BY <1>1, <1>2 DEF EndTurn

-----------------------------------------------------------------------------
\* What a loop holds after a turn that is retried or completed, and a turn's
\* record.
LEMMA NextHolds ==
  ASSUME IInv, NEW pc, NEW p, NEW round
  PROVE  /\ Retried(pc).acked = loop.acked /\ Retried(pc).msg = loop.msg
         /\ [Retried(pc) EXCEPT !.msg = @ + 1].acked = loop.acked
         /\ [Retried(pc) EXCEPT !.msg = @ + 1].msg = loop.msg + 1
         /\ Enter(p, round).acked = loop.acked /\ Enter(p, round).msg = loop.msg
         /\ [Enter(p, round) EXCEPT !.idx = @ + 1, !.msg = @ + 1].acked = loop.acked
         /\ [Enter(p, round) EXCEPT !.idx = @ + 1, !.msg = @ + 1].msg = loop.msg + 1
<1> DEFINE a == IF p = loop.start THEN part[p].fails ELSE 0
<1>1. Enter(p, round) = [loop EXCEPT !.pc = "check", !.p = p, !.round = round,
                                     !.act = 0, !.attempt = a]
  BY DEF Enter
<1>2. Retried(pc) = [loop EXCEPT !.pc = pc, !.idx = @ + 1, !.attempt = @ + 1, !.act = 0]
  BY DEF Retried
<1>3. loop \in ControlType
  BY DEF IInv, TypeOK
<1> HIDE DEF a
<1> QED
  BY <1>1, <1>2, <1>3 DEF ControlType

LEMMA TurnRecord ==
  ASSUME IInv, InTurn, NEW st \in {"completed", "failed", "cancelled"},
         NEW why \in {"decision", "thrown"}, NEW msg \in Nat \cup {NoMsg}
  PROVE  /\ Turn(st, why, msg) \in TurnType
         /\ Turn(st, why, msg).p = loop.p /\ Turn(st, why, msg).idx = loop.idx
         /\ Turn(st, why, msg).round = loop.round /\ Turn(st, why, msg).st = st
         /\ Turn(st, why, msg).why = why /\ Turn(st, why, msg).msg = msg
  BY TurnShape DEF Turn

\* The steps that end a turn.
LEMMA InitializeThrowsDerived ==
  ASSUME CInv, NEW retryable \in BOOLEAN, InitializeThrows(retryable)
  PROVE  Derived'
<1> DEFINE t == Turn("failed", "thrown", NoMsg)
<1>1. TypeOK /\ IInv /\ InTurn
  BY DEF CInv, RInv, IInv, InitializeThrows, LoopRuns, InTurn
<1>2. /\ t \in TurnType /\ t.p = loop.p /\ t.idx = loop.idx /\ t.round = loop.round
      /\ t.why = "thrown" /\ t.msg = NoMsg
  BY <1>1, TurnRecord
<1>3. CASE EndTurn(t, "idle", "running", run.round, loop.act, Retried("closing"))
  BY <1>1, <1>2, <1>3, NextHolds, TurnStored
<1>4. CASE EndTurn(t, "failed", "failed", run.round, loop.act, Left("normal"))
  BY <1>1, <1>2, <1>4, LeftPlace, TurnStored
<1> QED
  BY <1>3, <1>4 DEF InitializeThrows

LEMMA OtherCancelledDerived ==
  ASSUME CInv, InTurn, OtherCancelled
  PROVE  Derived'
<1> DEFINE t == Turn("cancelled", "thrown", NoMsg)
<1>1. TypeOK /\ IInv
  BY DEF CInv, RInv, IInv
<1>2. t \in TurnType /\ t.st = "cancelled" /\ t.why = "thrown"
  BY <1>1, TurnRecord
<1>3. loop'.pc = "cleanup"
  BY <1>1, LeftPlace DEF OtherCancelled, Refused
<1>4. CASE UNCHANGED stored
  BY <1>3, <1>4, Keeps DEF stored
<1>5. CASE /\ turns' = Append(turns, t)
           /\ run' = [run EXCEPT !.status = "failed", !.active = 0]
  <2>1. run'.status = "failed"
    BY <1>1, <1>5 DEF TypeOK, RunType
  <2>2. Replayed' /\ MessagesHeld' /\ Acknowledged'
    BY <1>3, <2>1 DEF Replayed, MessagesHeld, Acknowledged, Live
  <2>3. CutsFailed'
    BY <1>1, <1>2, <1>5, AppendTurn DEF CInv, Derived, CutsFailed
  <2> QED
    BY <2>2, <2>3 DEF Derived
<1> QED
  BY <1>4, <1>5 DEF OtherCancelled, Refused

LEMMA TurnThrowsDerived ==
  ASSUME CInv, NEW retryable \in BOOLEAN, TurnThrows(retryable)
  PROVE  Derived'
<1>1. TypeOK /\ IInv /\ InTurn
  BY DEF CInv, RInv, IInv, TurnThrows, LoopRuns, InTurn
<1>2. ASSUME NEW st \in {"failed", "cancelled"}
      PROVE  /\ Turn(st, "thrown", NoMsg) \in TurnType
             /\ Turn(st, "thrown", NoMsg).p = loop.p
             /\ Turn(st, "thrown", NoMsg).idx = loop.idx
             /\ Turn(st, "thrown", NoMsg).round = loop.round
             /\ Turn(st, "thrown", NoMsg).why = "thrown"
             /\ Turn(st, "thrown", NoMsg).msg = NoMsg
  BY <1>1, TurnShape DEF Turn
<1>3. ASSUME NEW st \in {"failed", "cancelled"}, NEW ps, NEW status, status # "none",
             EndTurn(Turn(st, "thrown", NoMsg), ps, status, run.round, 0, Left("normal"))
      PROVE  Derived'
  BY <1>1, <1>2, <1>3, LeftPlace, TurnStored
<1>4. CASE EndTurn(Turn("failed", "thrown", NoMsg), "idle", "running", run.round,
                   0, Retried("closing"))
  BY <1>1, <1>2, <1>4, NextHolds, TurnStored
<1>5. GivenUp(retryable) # "none"
  BY DEF GivenUp
<1> QED
  BY <1>1, <1>3, <1>4, <1>5, OtherCancelledDerived DEF TurnThrows

LEMMA DecidesErrorDerived ==
  ASSUME CInv, NEW retryable \in BOOLEAN, DecidesError(retryable)
  PROVE  Derived'
<1> DEFINE t == Turn("failed", "decision", loop.msg)
<1>1. TypeOK /\ IInv /\ InTurn /\ loop.msg \in Nat /\ NoMsg \notin Nat
  BY DEF CInv, RInv, IInv, TypeOK, ControlType, DecidesError, LoopRuns, InTurn, NoMsg
<1>2. /\ t \in TurnType /\ t.p = loop.p /\ t.idx = loop.idx /\ t.round = loop.round
      /\ t.why = "decision" /\ t.msg = loop.msg
  BY <1>1, TurnRecord
<1>3. GivenUp(retryable) # "none"
  BY DEF GivenUp
<1>4. CASE EndTurn(t, "idle", "running", loop.round, loop.act,
                   [Retried("check") EXCEPT !.msg = @ + 1])
  BY <1>1, <1>2, <1>4, NextHolds, TurnStored
<1>5. CASE EndTurn(t, "failed", GivenUp(retryable), loop.round, loop.act, Left("normal"))
  BY <1>1, <1>2, <1>3, <1>5, LeftPlace, TurnStored
<1> QED
  BY <1>4, <1>5 DEF DecidesError

LEMMA DecidesDerived ==
  ASSUME CInv, NEW d \in {"message", "done", "pause"}, Decides(d)
  PROVE  Derived'
<1> DEFINE status == CASE d = "done" /\ loop.p \in TerminalRoles -> "completed"
                       [] d = "pause" -> "paused"
                       [] OTHER -> "running"
           next == IF status # "running" THEN Left("normal")
                   ELSE [Enter(loop.p + 1, loop.round) EXCEPT !.idx = @ + 1, !.msg = @ + 1]
           t == Turn("completed", "decision", loop.msg)
<1>1. TypeOK /\ IInv /\ InTurn /\ loop.msg \in Nat /\ NoMsg \notin Nat
  BY DEF CInv, RInv, IInv, TypeOK, ControlType, Decides, LoopRuns, InTurn, NoMsg
<1>2. /\ t \in TurnType /\ t.p = loop.p /\ t.idx = loop.idx /\ t.round = loop.round
      /\ t.why = "decision" /\ t.msg = loop.msg
  BY <1>1, TurnRecord
<1>3. status # "none" /\ EndTurn(t, "idle", status, loop.round, loop.act, next)
  BY DEF Decides
<1>4. \/ next.pc = "cleanup"
      \/ next.acked = loop.acked /\ next.msg = loop.msg + 1
  BY <1>1, NextHolds, LeftPlace
<1> HIDE DEF status, next, t
<1> QED
  BY <1>1, <1>2, <1>3, <1>4, TurnStored

-----------------------------------------------------------------------------
\* The other steps of the loop.
LEMMA FinalizesDerived ==
  ASSUME CInv, NEW status \in Terminal, FinalizeRoleRunDurably(status)
  PROVE  Derived'
<1>1. loop'.pc = "cleanup"
  BY LeftPlace DEF FinalizeRoleRunDurably, CInv, RInv, IInv
<1>2. run'.status = "none" => run.status = "none"
  BY DEF FinalizeRoleRunDurably, Terminal
<1> QED
  BY <1>1, <1>2, Keeps DEF FinalizeRoleRunDurably

LEMMA BeginDerived ==
  ASSUME CInv, Begin
  PROVE  Derived'
<1>1. TypeOK /\ IInv /\ Live /\ loop \in ControlType /\ run \in RunType
      /\ part \in [Ids -> ParticipantType]
  BY DEF CInv, RInv, IInv, TypeOK, Begin, LoopRuns, Live
<1>2. CASE Refused(0)
  <2>1. loop'.pc = "cleanup"
    BY <1>1, <1>2, LeftPlace DEF Refused
  <2> QED
    BY <1>2, <2>1, Keeps DEF Refused, stored
<1>3. CASE /\ run.status = "running" /\ run' = [run EXCEPT !.active = loop.p]
           /\ part' = [part EXCEPT ![loop.p].st = "active"]
           /\ UNCHANGED <<once, turns>>
           /\ \/ loop' = [loop EXCEPT
                    !.act = loop.p,
                    !.pc = IF loop.p \in loop.init THEN "turn" ELSE "init"]
              \/ loop' = [Left("error") EXCEPT !.act = loop.p]
  <2>1. \A r \in Ids : part'[r].exec = part[r].exec /\ part'[r].fails = part[r].fails
    BY <1>1, <1>3 DEF ParticipantType
  <2>2. \/ loop'.pc = "cleanup"
        \/ loop'.msg = loop.msg /\ loop'.acked = loop.acked
    <3>1. CASE loop' = [Left("error") EXCEPT !.act = loop.p]
      BY <1>1, <3>1, LeftPlace
    <3>2. CASE loop' = [loop EXCEPT !.act = loop.p,
                            !.pc = IF loop.p \in loop.init THEN "turn" ELSE "init"]
      BY <1>1, <3>2 DEF ControlType
    <3> QED
      BY <1>3, <3>1, <3>2
  <2>3. run'.status = "running"
    BY <1>1, <1>3 DEF RunType
  <2> QED
    BY <1>1, <1>3, <2>1, <2>2, <2>3, Keeps
<1> QED
  BY <1>2, <1>3 DEF Begin

\* A step of the loop that stores nothing.
LEMMA MovesDerived ==
  ASSUME CInv, UNCHANGED stored, Live, loop'.msg = loop.msg, loop'.acked = loop.acked
  PROVE  Derived'
<1>1. /\ UNCHANGED <<turns, once>>
      /\ \A r \in Ids : part'[r].exec = part[r].exec /\ part'[r].fails = part[r].fails
      /\ run'.status = "none" => run.status = "none"
      /\ run'.status = "running" => run.status = "running"
  BY DEF stored
<1> QED
  BY <1>1, Keeps

LEMMA LoopStepsDerived ==
  ASSUME CInv, Announce \/ CheckStops \/ EndOfSequence \/ RetryCloses
               \/ Initialized \/ DecidesOversize
  PROVE  Derived'
<1>1. TypeOK /\ IInv /\ loop \in ControlType
  BY DEF CInv, RInv, IInv, TypeOK
<1>2. CASE Announce
  BY <1>2, Keeps, <1>1 DEF Announce, stored, memory, Live, CInv, Derived
<1>3. CASE CheckStops
  <2>1. Verdict \in Terminal
    BY <1>3 DEF CheckStops, Verdict, Terminal
  <2> QED
    BY <1>3, <2>1, FinalizesDerived DEF CheckStops
<1>4. CASE EndOfSequence
  <2>1. CASE FinalizeRoleRunDurably("completed")
    BY <2>1, FinalizesDerived DEF Terminal
  <2>2. CASE loop' = Enter(1, loop.round + 1) /\ UNCHANGED stored
    <3>1. loop'.msg = loop.msg /\ loop'.acked = loop.acked
      BY <1>1, <2>2, NextHolds
    <3>2. Live
      BY <1>4 DEF EndOfSequence, LoopRuns, Live
    <3> QED
      BY <2>2, <3>1, <3>2, MovesDerived
  <2> QED
    BY <1>4, <2>1, <2>2 DEF EndOfSequence
<1>5. CASE RetryCloses
  <2>1. loop'.msg = loop.msg /\ loop'.acked = loop.acked
    BY <1>1, <1>5 DEF RetryCloses, ControlType
  <2>2. Live /\ UNCHANGED stored
    BY <1>5 DEF RetryCloses, LoopRuns, Live
  <2> QED
    BY <2>1, <2>2, MovesDerived
<1>6. CASE Initialized
  <2>1. CASE FinalizeRoleRunDurably("timed_out")
    BY <2>1, FinalizesDerived DEF Terminal
  <2>2. CASE loop' = Left("normal") /\ UNCHANGED stored
    BY <1>1, <2>2, LeftPlace, Keeps DEF stored
  <2>3. CASE /\ loop' = [loop EXCEPT !.pc = "turn", !.init = @ \cup {loop.p}]
             /\ UNCHANGED stored
    <3>1. loop'.msg = loop.msg /\ loop'.acked = loop.acked
      BY <1>1, <2>3 DEF ControlType
    <3>2. Live
      BY <1>6 DEF Initialized, LoopRuns, Live
    <3> QED
      BY <2>3, <3>1, <3>2, MovesDerived
  <2> QED
    BY <1>6, <2>1, <2>2, <2>3 DEF Initialized
<1>7. CASE DecidesOversize
  BY <1>1, <1>7, LeftPlace, Keeps DEF DecidesOversize, stored
<1> QED
  BY <1>2, <1>3, <1>4, <1>5, <1>6, <1>7

\* The end of a loop.
LEMMA LoopEndsDerived ==
  ASSUME CInv, LoopEnds \/ EarlierLoopEnds
  PROVE  Derived'
<1>1. run.status # "none" /\ run \in RunType
  BY DEF CInv, RInv, IInv, TypeOK, Placed, LoopEnds, EarlierLoopEnds, LoopRuns
<1>2. ASSUME NEW status \in {"failed", "cancelled"}, Ended(status)
      PROVE  run'.status # "none" /\ (run'.status = "running" => run.status = "running")
  <2>1. \/ run' = run
        \/ run' = [run EXCEPT !.status = status, !.active = 0]
    BY <1>2 DEF Ended
  <2>2. CASE run' = [run EXCEPT !.status = status, !.active = 0]
    <3>1. run'.status = status
      BY <1>1, <2>2 DEF RunType
    <3> QED
      BY <3>1
  <2> QED
    BY <1>1, <2>1, <2>2
<1>3. Outcome(loop.exit, loop.aborted) \in {"normal", "failed", "cancelled"}
      /\ leaving \in {"none", "normal", "failed", "cancelled"}
  BY DEF Outcome, CInv, RInv, IInv, TypeOK
<1>4. run'.status # "none" /\ (run'.status = "running" => run.status = "running")
  BY <1>1, <1>2, <1>3 DEF LoopEnds, EarlierLoopEnds
<1>5. CASE LoopEnds
  BY <1>4, <1>5, GoneType, Keeps DEF LoopEnds
<1>6. CASE EarlierLoopEnds
  BY <1>4, <1>6, Keeps DEF EarlierLoopEnds, Live
<1> QED
  BY <1>5, <1>6

-----------------------------------------------------------------------------
\* The calls of clients, the crash and the recovery.
LEMMA StartDerived ==
  ASSUME CInv, Start
  PROVE  Derived'
<1>1. /\ run.status = "none" /\ loop.pc = "gone" /\ turns = <<>> /\ RowsAccepted
      /\ run \in RunType
  BY DEF CInv, RInv, IInv, TypeOK, Placed, Start, Derived, Replayed
<1>2. UNCHANGED <<once, part, turns>>
  BY DEF Start
<1>3. Messages(Len(turns)) = 0
  <2>1. {i \in 1 .. 0 : turns[i].msg # NoMsg} = {}
    OBVIOUS
  <2> QED
    BY <1>1, <2>1, FS_EmptySet DEF Messages
<1>4. RowsAccepted' /\ Messages(Len(turns))' = 0
  <2>1. RowsAccepted' = RowsAccepted' /\ run'.status = "running"
    BY <1>1 DEF Start, RunType
  <2>2. \A i : TurnAccepted(i)' <=> TurnAccepted(i)
    BY <1>2 DEF TurnAccepted, Done, Messages
  <2> QED
    BY <1>1, <1>2, <1>3, <2>2 DEF RowsAccepted, LastDone, FailsOf, Messages
<1>5. \A r \in Ids : ~LastInterrupted(r)'
  BY <1>1, <1>2 DEF LastInterrupted
<1>6. loop'.pc # "check" => loop'.pc = "gone"
  BY <1>1 DEF Start, Gone
<1>7. loop'.pc = "check" => loop'.msg = 0
  BY <1>1 DEF Start, Gone
<1>8. CutsFailed'
  BY <1>1, <1>2 DEF CutsFailed
<1> QED
  BY <1>4, <1>5, <1>6, <1>7, <1>8
  DEF Derived, Replayed, MessagesHeld, Acknowledged, Live

LEMMA CancelDerived ==
  ASSUME CInv, CancelRun \/ \E q \in Ids : CancelParticipant(q)
  PROVE  Derived'
<1>1. /\ run.status = "running" /\ run \in RunType /\ loop \in ControlType
      /\ part \in [Ids -> ParticipantType]
  BY DEF CInv, RInv, IInv, TypeOK, CancelRun, CancelParticipant
<1>2. run'.status # "none" /\ UNCHANGED <<once, turns>>
  BY <1>1 DEF CancelRun, CancelParticipant, RunType
<1>3. loop'.pc = loop.pc /\ loop'.msg = loop.msg /\ loop'.acked = loop.acked
  BY <1>1 DEF CancelRun, CancelParticipant, ControlType
<1>4. \A r \in Ids : part'[r].exec = part[r].exec /\ part'[r].fails = part[r].fails
  <2>1. CASE part' = part
    BY <2>1
  <2>2. ASSUME NEW q \in Ids, part' = [part EXCEPT ![q].st = "cancelled"]
        PROVE  \A r \in Ids : part'[r].exec = part[r].exec /\ part'[r].fails = part[r].fails
    BY <1>1, <2>2 DEF ParticipantType
  <2>3. \/ part' = part
        \/ \E q \in Ids : part' = [part EXCEPT ![q].st = "cancelled"]
    BY DEF CancelRun, CancelParticipant
  <2> QED
    BY <2>1, <2>2, <2>3
<1> QED
  BY <1>1, <1>2, <1>3, <1>4, Keeps DEF Live

\* A participant whose latest turn was cut off is the one at the cursor.
LEMMA InterruptedAtCursor ==
  ASSUME TypeOK, CursorAccepted, CutsFailed, NEW r \in Ids, LastInterrupted(r)
  PROVE  r = CursorSeq
<1>1. /\ Len(turns) \in Nat /\ DOMAIN turns = 1 .. Len(turns)
      /\ Roles \in Nat \ {0}
  BY RolesAssumption DEF TypeOK
<1>2. PICK i \in 1 .. Len(turns) :
        /\ turns[i].p = r /\ turns[i].why = "daemon"
        /\ \A j \in i + 1 .. Len(turns) : turns[j].p # r
  BY <1>1 DEF LastInterrupted
<1>3. turns[i].st # "completed" /\ i - 1 \in Nat /\ (i - 1) + 1 = i
  BY <1>1, <1>2 DEF CutsFailed
<1>4. Done(i) = Done(i - 1) /\ Done(i) \in Nat
  BY <1>3, DoneSame, CountsNat
<1>5. /\ once => Done(i) < Roles
      /\ r = (Done(i) % Roles) + 1
  BY <1>1, <1>2, <1>4 DEF CursorAccepted, TurnAccepted
<1>6. i = Len(turns)
  <2>1. SUFFICES ASSUME i # Len(turns) PROVE FALSE
    OBVIOUS
  <2>2. i + 1 \in 1 .. Len(turns) /\ i + 1 \in i + 1 .. Len(turns) /\ (i + 1) - 1 = i
    <3>1. \A n \in Nat : \A k \in 1 .. n : k # n =>
            k + 1 \in 1 .. n /\ k + 1 \in k + 1 .. n /\ (k + 1) - 1 = k
      OBVIOUS
    <3> QED
      BY <1>1, <2>1, <3>1
  <2>3. turns[i + 1].p = (Done(i) % Roles) + 1
    BY <1>1, <2>2 DEF CursorAccepted, TurnAccepted
  <2> QED
    BY <1>2, <1>5, <2>2, <2>3
<1>7. CASE once
  BY <1>1, <1>4, <1>5, <1>6, <1>7 DEF CursorSeq
<1>8. CASE ~once
  BY <1>5, <1>6, <1>8 DEF CursorSeq
<1> QED
  BY <1>7, <1>8

LEMMA ResumeDerived ==
  ASSUME CInv, NEW ack \in BOOLEAN, ResumeCloses(ack) \/ Resume(ack)
  PROVE  Derived'
<1>1. /\ TypeOK /\ run.status = "paused" /\ run \in RunType /\ ~Live /\ CursorAccepted
      /\ UNCHANGED <<once, part, turns>>
  BY DEF CInv, RInv, IInv, TypeOK, Placed, ResumeCloses, Resume, Resumable
<1>2. run'.status # "none"
  BY <1>1 DEF ResumeCloses, Resume, RunType
<1>3. CASE UNCHANGED loop
  BY <1>1, <1>2, <1>3 DEF Derived, Replayed, MessagesHeld, Acknowledged, CutsFailed,
                          Live, CInv
<1>4. CASE /\ CursorSeq <= Roles /\ (ReplayRequired => ack)
           /\ loop' = [Gone EXCEPT !.pc = "check", !.p = CursorSeq, !.start = CursorSeq,
                                   !.round = CursorRound, !.idx = Len(turns),
                                   !.msg = Messages(Len(turns)),
                                   !.attempt = part[CursorSeq].fails, !.acked = ack]
  <2>1. loop'.msg = Messages(Len(turns)) /\ loop'.acked = ack
    BY <1>4 DEF Gone
  <2>2. RowsAccepted'
    <3>1. RowsAccepted
      BY <1>1 DEF CursorAccepted, RowsAccepted
    <3>2. \A i : TurnAccepted(i)' <=> TurnAccepted(i)
      BY <1>1 DEF TurnAccepted, Done, Messages
    <3> QED
      BY <1>1, <3>1, <3>2 DEF RowsAccepted, LastDone, FailsOf
  <2>3. Messages(Len(turns))' = Messages(Len(turns))
    BY <1>1 DEF Messages
  <2>4. CutsFailed'
    BY <1>1 DEF CInv, Derived, CutsFailed
  <2>5. ASSUME NEW r \in Ids, LastInterrupted(r)'
        PROVE  ack
    <3>1. LastInterrupted(r)
      BY <1>1, <2>5 DEF LastInterrupted
    <3>2. r = CursorSeq
      BY <1>1, <3>1, InterruptedAtCursor DEF CInv, Derived
    <3> QED
      BY <1>4, <3>1, <3>2 DEF ReplayRequired
  <2> QED
    BY <2>1, <2>2, <2>3, <2>4, <2>5
    DEF Derived, Replayed, MessagesHeld, Acknowledged
<1> QED
  BY <1>3, <1>4 DEF ResumeCloses, Resume, memory

LEMMA CrashDerived ==
  ASSUME CInv, Crash
  PROVE  Derived'
  BY GoneType, Keeps DEF Crash, stored

LEMMA RecoverDerived ==
  ASSUME CInv, Recover
  PROVE  Derived'
<1>1. TypeOK /\ run \in RunType /\ ~Live /\ loop' = loop /\ once' = once
  BY DEF CInv, RInv, IInv, TypeOK, Placed, Recover, Live, memory
<1>2. CASE UNCHANGED <<run, part, turns>>
  BY <1>1, <1>2, Keeps DEF Live
<1>3. CASE run.status = "running"
  <2>1. run'.status # "none"
    BY <1>1, <1>3 DEF Recover, RecoverAtBoundary, RecoverTurn, RunType
  <2>2. Replayed' /\ MessagesHeld' /\ Acknowledged'
    BY <1>1, <2>1 DEF Replayed, MessagesHeld, Acknowledged, Live
  <2>3. CutsFailed'
    <3>1. CASE UNCHANGED turns
      BY <3>1 DEF CInv, Derived, CutsFailed
    <3>2. ASSUME NEW t, turns' = Append(turns, t), t.st = "failed"
          PROVE  CutsFailed'
      <4>1. turns \in Seq(TurnType)
        BY <1>1 DEF TypeOK
      <4>2. \A i \in DOMAIN turns' : turns'[i] = t \/ (i \in DOMAIN turns /\ turns'[i] = turns[i])
        BY <3>2, <4>1
      <4> QED
        BY <3>2, <4>2 DEF CInv, Derived, CutsFailed
    <3> QED
      BY <1>3, <3>1, <3>2 DEF Recover, RecoverAtBoundary, RecoverTurn
  <2> QED
    BY <2>2, <2>3 DEF Derived
<1> QED
  BY <1>2, <1>3 DEF Recover, RecoverAtBoundary, RecoverTurn

LEMMA DeadlineDerived ==
  ASSUME CInv, Deadline \/ UNCHANGED vars
  PROVE  Derived'
  BY Keeps DEF Deadline, vars, stored, memory, Live

\* Every step.
LEMMA NextDerived == CInv /\ [Next]_vars => Derived'
<1> SUFFICES ASSUME CInv, [Next]_vars PROVE Derived'
  OBVIOUS
<1>1. CASE CodeStep
  BY <1>1, LoopStepsDerived, BeginDerived, LoopEndsDerived, RecoverDerived DEF CodeStep
<1>2. CASE Initializes
  BY <1>2, LoopStepsDerived, InitializeThrowsDerived DEF Initializes
<1>3. CASE TurnEnds
  BY <1>3, TurnThrowsDerived, DecidesErrorDerived, DecidesDerived, LoopStepsDerived
  DEF TurnEnds
<1>4. CASE ClientStep
  BY <1>4, StartDerived, CancelDerived, ResumeDerived DEF ClientStep
<1>5. CASE Crash
  BY <1>5, CrashDerived
<1> QED
  BY <1>1, <1>2, <1>3, <1>4, <1>5, DeadlineDerived DEF Next

LEMMA InitCInv == Init => CInv
<1> SUFFICES ASSUME Init PROVE CInv
  OBVIOUS
<1>1. RInv
  <2>1. Positioned
    BY GoneType DEF Init, Positioned, Live
  <2> QED
    BY <2>1, InitIInv DEF RInv
<1>2. turns = <<>> /\ DOMAIN turns = {} /\ ~Live
  BY GoneType DEF Init, Live
<1>3. \A r \in Ids : part[r].exec = 0 /\ part[r].fails = 0
  BY DEF Init
<1>4. \A r \in Ids : Cardinality(LastDone(r)) = 0 /\ FailsOf(r) = 0
  <2> TAKE r \in Ids
  <2>1. /\ LastDone(r) = {}
        /\ {i \in DOMAIN turns : /\ turns[i].p = r /\ turns[i].st = "failed"
                                 /\ \A j \in LastDone(r) : j < i} = {}
    BY <1>2 DEF LastDone
  <2> QED
    BY <2>1, FS_EmptySet DEF FailsOf
<1>5. RowsAccepted
  BY <1>2, <1>3, <1>4 DEF RowsAccepted
<1>6. Derived
  BY <1>2, <1>5 DEF Derived, Replayed, MessagesHeld, CutsFailed, Acknowledged
<1> QED
  BY <1>1, <1>6 DEF CInv

LEMMA SpecCInv == Spec => []CInv
<1>1. CInv /\ [Next]_vars => CInv'
  BY NextDerived, NextIInv, EveryStep DEF CInv, RInv, Step
<1> QED
  BY InitCInv, <1>1, PTL DEF Spec

\* Where the completed turns have brought the loop, read as deriveRoleExecutionCursor
\* counts it.
LEMMA PlaceCounted ==
  ASSUME NEW m \in Nat, NEW p \in Nat, NEW c \in Nat, m + p = c + 1
  PROVE  m + p - 1 = c
  OBVIOUS

\* What executeRoleBasedLoop holds in memory (position, turn and message index,
\* attempts) is what deriveRoleExecutionCursor computes from the stored rows, at
\* every step of a loop that is on its way: a daemon that dies there resumes
\* exactly where the loop was.
THEOREM LoopIsReplayable == Spec => []CursorMatchesLoop
<1>1. CInv => CursorMatchesLoop
  <2> SUFFICES ASSUME CInv, run.status = "running", Live
               PROVE  /\ CursorAccepted
                      /\ loop.idx = Len(turns) /\ loop.msg = Messages(Len(turns))
                      /\ loop.round * Roles + loop.p - 1 = Done(Len(turns))
                      /\ loop.p <= Roles => loop.attempt = part[loop.p].fails
    BY DEF CursorMatchesLoop, Live
  <2>1. CursorAccepted
    BY DEF CInv, Derived, Replayed, RowsAccepted, CursorAccepted
  <2>2. loop.idx = Len(turns) /\ loop.msg = Messages(Len(turns))
    BY DEF CInv, RInv, IInv, TurnsCounted, Derived, MessagesHeld
  <2>3. loop.round * Roles + loop.p - 1 = Done(Len(turns))
    <3>1. loop.round * Roles \in Nat /\ loop.p \in Nat
      BY RolesAssumption DEF CInv, RInv, IInv, TypeOK, ControlType
    <3>2. loop.round * Roles + loop.p = Count + 1 /\ Count \in Nat
      BY CountNat DEF CInv, RInv, Positioned, IInv
    <3>3. loop.round * Roles + loop.p - 1 = Count
      BY <3>1, <3>2, PlaceCounted
    <3> QED
      BY <3>3 DEF Count
  <2>4. loop.p <= Roles => loop.attempt = part[loop.p].fails
    BY DEF CInv, RInv, IInv, FailsCounted
  <2> QED
    BY <2>1, <2>2, <2>3, <2>4
<1> QED
  BY <1>1, SpecCInv, PTL

\* A turn that a restart of the daemon cut off, and that may have had effects, is
\* given again only by a loop whose caller passed acknowledgeReplay to
\* resumeRoleBasedRun, however many restarts and resumes there are.
THEOREM ReplayNeedsConsent == Spec => []ReplayAcknowledged
<1>1. CInv => ReplayAcknowledged
  <2> SUFFICES ASSUME CInv, InTurn, LastInterrupted(loop.p) PROVE loop.acked
    BY DEF ReplayAcknowledged, InTurn
  <2>1. loop.p \in Ids /\ Live
    BY RolesAssumption DEF CInv, RInv, IInv, TypeOK, ControlType, Placed, InTurn, Live, Ids
  <2> QED
    BY <2>1 DEF CInv, Derived, Acknowledged
<1> QED
  BY <1>1, SpecCInv, PTL
=============================================================================
