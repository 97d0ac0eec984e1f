------------------------ MODULE ReconciliationClaims ------------------------
(* What the documentation says of reconciliation and the code does not keep: *)
(* the run that checks it finds a counterexample.                            *)
EXTENDS Reconciliation

CONSTANTS r1, s1

\* "Reconciliation compares internal positions against broker state and persists
\* every run for operator review." (docs/architecture.md:10): a live run of the
\* route that meets no failing gateway and no failing database compares.
LiveRunsCompare ==
    ~GatewayFails /\ dbFaults = 0 =>
        \A r \in Runs : asked[r].origin = "route" => pc[r] # "raised"
=============================================================================
