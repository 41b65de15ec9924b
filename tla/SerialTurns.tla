----------------------------- MODULE SerialTurns -----------------------------
(***************************************************************************)
(* What the session manager promises its clients, without locks, queues or *)
(* cancellation: the turns of a session run one after the other, at most   *)
(* MaxActive turns run at a time, and a turn that ends may append itself   *)
(* to the transcript it was started from, which nothing else touched.      *)
(***************************************************************************)
EXTENDS Naturals, Sequences, FiniteSets

CONSTANTS Sessions, Sends, TurnIds, MaxActive, None

VARIABLES
  turn,        \* the running turn of a send: its session, id and transcript
  transcript   \* the stored turns of each session

vars == <<turn, transcript>>

Turn == [session : Sessions, id : TurnIds, base : Seq(TurnIds)]

Running(s) == turn[s] # None

Init ==
  /\ turn = [s \in Sends |-> None]
  /\ transcript = [x \in Sessions |-> <<>>]

(* A turn starts in an idle session, from its transcript.                  *)
Start(s, x, t) ==
  /\ ~Running(s)
  /\ \A r \in Sends : Running(r) => turn[r].session # x
  /\ Cardinality({r \in Sends : Running(r)}) < MaxActive
  /\ turn' = [turn EXCEPT ![s] = [session |-> x, id |-> t, base |-> transcript[x]]]
  /\ UNCHANGED transcript

(* A turn ends without a trace, or its id extends what it was started from.*)
End(s) ==
  /\ Running(s)
  /\ turn' = [turn EXCEPT ![s] = None]
  /\ \/ UNCHANGED transcript
     \/ transcript' = [transcript EXCEPT ![turn[s].session] =
                         Append(turn[s].base, turn[s].id)]

(* A restart ends every turn without a trace.                              *)
EndAll ==
  /\ turn' = [s \in Sends |-> None]
  /\ UNCHANGED transcript

Next ==
  \/ \E s \in Sends : (\E x \in Sessions, t \in TurnIds : Start(s, x, t)) \/ End(s)
  \/ EndAll

Spec == Init /\ [][Next]_vars
=============================================================================
