---------------------------- MODULE RoleExecution ----------------------------
(***************************************************************************)
(* What a role-based collaboration promises, whatever retries, failures,   *)
(* cancellations, restarts and resumes happen underneath: the roles take   *)
(* their turns strictly one at a time and in the order of the policy; a    *)
(* role that fails has not had its turn; a collaboration that is over or   *)
(* paused has nobody working; and what is over stays over.                 *)
(***************************************************************************)
EXTENDS Naturals

CONSTANTS Roles   \* number of roles of the policy, in order 1 .. Roles

VARIABLES
  phase,   \* "idle", "open", "paused" or "over"
  once,    \* every role has one turn, or they repeat until one says done
  done,    \* turns completed so far
  working  \* the role that has its turn, 0 when none has

vars == <<phase, once, done, working>>

Init == phase = "idle" /\ once \in BOOLEAN /\ done = 0 /\ working = 0

Open == phase = "idle" /\ phase' = "open" /\ UNCHANGED <<once, done, working>>

\* The role whose turn it is begins it.
Begin == /\ phase = "open" /\ working = 0
         /\ once => done < Roles
         /\ working' = (done % Roles) + 1
         /\ UNCHANGED <<phase, once, done>>

\* The turn is completed; its decision may pause the collaboration or end it.
Complete == /\ phase = "open" /\ working # 0
            /\ working' = 0 /\ done' = done + 1
            /\ phase' \in {"open", "paused", "over"}
            /\ UNCHANGED once

\* The turn fails, is cancelled, or is interrupted by a restart.
Fail == /\ phase = "open" /\ working # 0
        /\ working' = 0
        /\ phase' \in {"open", "paused", "over"}
        /\ UNCHANGED <<once, done>>

\* Between turns: a restart pauses, a limit, a cancellation or the end of the
\* sequence closes, a resume opens again.
Between == /\ working = 0
           /\ \/ phase = "open" /\ phase' \in {"paused", "over"}
              \/ phase = "paused" /\ phase' \in {"open", "over"}
           /\ UNCHANGED <<once, done, working>>

Next == Open \/ Begin \/ Complete \/ Fail \/ Between

Spec == Init /\ [][Next]_vars
=============================================================================
