-------------------------- MODULE BootstrapClaims --------------------------
(* What the documentation says of a start and the code does not keep: the    *)
(* run that checks it finds a counterexample.                                *)
EXTENDS Bootstrap

CONSTANT a1

\* The first start on a new database comes up if the settings name a strategy
\* that makes a schema and nothing goes wrong on the way.
FirstStartComesUp ==
    starts = 1 /\ faults = 0 =>
        \A c \in Apis : pc[c] = "failed" => config[c].mode \in {"skipped", "none"}
=============================================================================
