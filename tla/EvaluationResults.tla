-------------------------- MODULE EvaluationResults --------------------------
(***************************************************************************)
(* What one evaluation of neighbours (EHCMultiStateEvaluation) may report: *)
(* the best state, or none, and the new value of the static LIMIT.  Hill   *)
(* climbing relies on this and on nothing else of the evaluation.          *)
(***************************************************************************)
EXTENDS Naturals, FiniteSets

CONSTANTS
    H,         \* the heuristic value of each state
    Goals,
    Failing,   \* the states whose evaluation throws
    NoState,   \* null
    EvaluationSize,  \* concurrentEvaluationSize
    MaxLimit         \* MAX_LIMIT

ASSUME LimitAssumption ==
    /\ EvaluationSize \in Nat \ {0}
    /\ MaxLimit \in Nat \ {0}

\* Fault: a state as good as the best counts as better.
ImprovesOrEquals(s, initialH) == s \in Goals \/ H[s] <= initialH

\* A state that ends an evaluation in success.
Improves(s, initialH) == s \in Goals \/ H[s] < initialH

(***************************************************************************)
(* The iteration order of a HashSet decides which of the states are tried. *)
(***************************************************************************)
FirstOf(states) ==
    IF Cardinality(states) <= EvaluationSize
    THEN {states}
    ELSE {first \in SUBSET states : Cardinality(first) = EvaluationSize}

Results(states, initialH, limit) ==
    LET Report(best, l) == [best |-> best, limit |-> l]
        Found == {Report(s, limit) : s \in {t \in states : Improves(t, initialH)}}
        GivenUp ==
            IF \E first \in FirstOf(states) :
                  /\ first # {}
                  /\ \A s \in first : ~ Improves(s, initialH) /\ s \notin Failing
            THEN {Report(NoState, l) : l \in MaxLimit .. MaxLimit + EvaluationSize - 1}
            ELSE {}
        Interrupted ==
            IF states = {} \/ states \cap Failing # {}
            THEN {Report(NoState, limit)} ELSE {}
    IN  Found \cup GivenUp \cup Interrupted
=============================================================================
