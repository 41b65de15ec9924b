------------------------------ MODULE MCDagRun ------------------------------
(* Graphs for DagRun.                                                      *)
EXTENDS DagRun, TLC

CONSTANTS a, b, c, d, p1, p2, p3

\* a and b are roots of two participants, c joins them, d depends on b alone:
\* fan-in, fan-out, two branches that may fail apart, and participants that
\* own two nodes (p1: a and d, p2: b) or one (p3: c).
GraphDeps     == (a :> {}) @@ (b :> {}) @@ (c :> {a, b}) @@ (d :> {b})
GraphOrder    == <<a, b, c, d>>
GraphOwner    == (a :> p1) @@ (b :> p2) @@ (c :> p3) @@ (d :> p1)
GraphTerminal == {c}
GraphRetries  == (a :> 1) @@ (b :> 0) @@ (c :> 1) @@ (d :> 0)

BothPolicies  == {"fail_fast", "skip_dependents"}
=============================================================================
