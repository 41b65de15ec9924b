-------------------------- MODULE MCSessionManager --------------------------
(* Instances of SessionManager for TLC.                                    *)
EXTENDS SessionManager, TLC

(* Sends that have not begun are interchangeable, so are turn ids and      *)
(* sessions; no definition orders them.                                    *)
Symmetric == Permutations(Sends) \cup Permutations(TurnIds) \cup Permutations(Sessions)

(* Without symmetry, which temporal properties forbid, the calls of a kind  *)
(* begin in a fixed order, and all sends have the one priority: two of them *)
(* never wait for a slot at the same time.  Beginning is not a fair step,   *)
(* so that what is left out are whole behaviours, each the image of another *)
(* one under a permutation of the calls.                                    *)
InOrder(C) ==
  LET first == CHOOSE c \in C : TRUE
  IN pc[first] = "idle" => \A c \in C : pc[c] = "idle"

OneByOne ==
  /\ InOrder(Sends) /\ InOrder(Closers)
  /\ \A s \in Sends : prio[s] = "normal"
=============================================================================
