---------------------------- MODULE MCToolBridge ----------------------------
(* Instances of ToolBridge for TLC.                                        *)
EXTENDS ToolBridge, TLC

(* Requests and answers that nothing orders are interchangeable.           *)
Symmetric == Permutations(Requests) \cup Permutations(Answers)
=============================================================================
