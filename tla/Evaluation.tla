----------------------------- MODULE Evaluation -----------------------------
(***************************************************************************)
(* The evaluation of a set of neighbours as its caller sees it: start(),   *)
(* then join(), and one of the reports of EvaluationResults in between.    *)
(***************************************************************************)
EXTENDS EvaluationResults

CONSTANTS States, InitialH

VARIABLES finished, best, limit

vars == <<finished, best, limit>>

\* An evaluation of no states is over as it starts.
Init == finished = (States = {}) /\ best = NoState /\ limit = 0

Finish ==
    /\ ~ finished
    /\ finished' = TRUE
    /\ \E report \in Results(States, InitialH, limit) :
        best' = report.best /\ limit' = report.limit

Spec == Init /\ [][Finish]_vars /\ WF_vars(Finish)
=============================================================================
