---------------------------- MODULE EHCEvaluator ----------------------------
(***************************************************************************)
(* EHCMultiStateEvaluation: the thread hill climbing starts, and joins, to *)
(* evaluate the neighbours of a state.  It hands a few of them at a time   *)
(* to a MultiThreadStateManager until one is a goal or strictly better     *)
(* than initialH, or the static LIMIT has reached MAX_LIMIT.               *)
(*                                                                         *)
(* notDone is never reduced, and an unmodified HashSet iterates in one     *)
(* order, so that every round evaluates the same first states.             *)
(***************************************************************************)
EXTENDS StateManager

CONSTANTS InitialH, EvaluationSize, MaxLimit

ASSUME EvaluatorAssumption ==
    /\ InitialH \in Nat
    /\ EvaluationSize \in Nat \ {0}
    /\ MaxLimit \in Nat \ {0}

(***************************************************************************)
(* Each round looks its states up again, also one the round before has     *)
(* evaluated: the value an earlier search has left in the history must be  *)
(* the one the evaluation yields.                                          *)
(***************************************************************************)
ASSUME HistoryAgrees ==
    \A s \in States : HistoryEntry[s] = s => HistoryValue[s] = H[s]

Promise == INSTANCE EvaluationResults

VARIABLES
    first,    \* the states the iterator yields first
    phase,    \* where run() is
    ehcBest,
    limit     \* LIMIT

evaluatorVars == <<first, phase, ehcBest, limit>>
vars == <<managerVars, objectVars, evaluatorVars>>

Init ==
    /\ ManagerInit
    /\ first \in Promise!FirstOf(States)
    /\ phase = IF States = {} THEN "finished" ELSE "choose"
    /\ ehcBest = NoState
    /\ limit = 0

ChooseSubset ==
    /\ phase = "choose"
    /\ NewBatch(first)
    /\ phase' = "started"
    /\ UNCHANGED <<objectVars, first, ehcBest, limit>>

StartThreads ==
    /\ phase = "started"
    /\ ManagerStep
    /\ UNCHANGED evaluatorVars

RunThread(s) == ThreadStep(s) /\ UNCHANGED evaluatorVars

\* calculateHeuristic after MTSM.join().
TakeGoal ==
    /\ phase = "started" /\ Joined
    /\ goalReached # NoState
    /\ ehcBest' = goalReached
    /\ phase' = "finished"
    /\ UNCHANGED <<managerVars, objectVars, first, limit>>

\* Fault: a state as good as the best is taken for a better one.
TakeNotWorse(s) ==
    /\ phase = "started" /\ Joined
    /\ goalReached = NoState
    /\ s \in first \ Failing
    /\ value[s] <= InitialH
    /\ ehcBest' = s
    /\ phase' = "finished"
    /\ UNCHANGED <<managerVars, objectVars, first, limit>>

TakeBetter(s) ==
    /\ phase = "started" /\ Joined
    /\ goalReached = NoState
    /\ s \in first \ Failing
    /\ value[s] < InitialH
    /\ ehcBest' = s
    /\ phase' = "finished"
    /\ UNCHANGED <<managerVars, objectVars, first, limit>>

\* getHValue throws once more, in the evaluator; run() catches it and ends.
Interrupted ==
    /\ phase = "started" /\ Joined
    /\ goalReached = NoState
    /\ first \cap Failing # {}
    /\ phase' = "finished"
    /\ UNCHANGED <<managerVars, objectVars, first, ehcBest, limit>>

\* Fault: LIMIT is compared before it is increased.
NoneBetterLimitLate ==
    /\ phase = "started" /\ Joined
    /\ goalReached = NoState
    /\ \A s \in first : s \notin Failing /\ value[s] >= InitialH
    /\ limit' = limit + EvaluationSize
    /\ phase' = IF limit >= MaxLimit THEN "finished" ELSE "choose"
    /\ UNCHANGED <<managerVars, objectVars, first, ehcBest>>

NoneBetter ==
    /\ phase = "started" /\ Joined
    /\ goalReached = NoState
    /\ \A s \in first : s \notin Failing /\ value[s] >= InitialH
    /\ limit' = limit + EvaluationSize
    /\ phase' = IF limit' >= MaxLimit THEN "finished" ELSE "choose"
    /\ UNCHANGED <<managerVars, objectVars, first, ehcBest>>

Evaluator ==
    \/ ChooseSubset \/ StartThreads
    \/ TakeGoal \/ (\E s \in States : TakeBetter(s)) \/ Interrupted \/ NoneBetter

Next == Evaluator \/ \E s \in States : RunThread(s)

\* Every thread the JVM has started is scheduled again and again.
Fairness == WF_vars(Evaluator) /\ \A s \in States : WF_vars(RunThread(s))

Spec == Init /\ [][Next]_vars
FairSpec == Spec /\ Fairness

-----------------------------------------------------------------------------

\* The variables of the manager, its threads and the evaluator have their types.
TypeOK ==
    /\ ManagerTypeOK
    /\ first \in SUBSET States
    /\ phase \in {"choose", "started", "finished"}
    /\ ehcBest \in States \cup {NoState}
    /\ limit \in Nat

(***************************************************************************)
(* A state is reported exactly if one of those tried is a goal or strictly *)
(* better than the best value so far, judged by the true heuristic values  *)
(* and not by what racing threads left in HValue; an evaluation that throws*)
(* may hide a better state, never invent one.                              *)
(***************************************************************************)
ReportIsRight ==
    phase = "finished" =>
        IF ehcBest # NoState
        THEN ehcBest \in first /\ Promise!Improves(ehcBest, InitialH)
        ELSE \A s \in first : Promise!Improves(s, InitialH) => first \cap Failing # {}

(***************************************************************************)
(* Each evaluation ends and gives its caller one of the reports it relies  *)
(* on.                                                                     *)
(***************************************************************************)
Abstract ==
    INSTANCE Evaluation WITH
        finished <- phase = "finished",
        best <- ehcBest,
        limit <- IF phase = "finished" THEN limit ELSE 0

ImplementsEvaluation == Abstract!Spec

(***************************************************************************)
(* "continues until all neighbours are evaluated or a strictly better      *)
(* state has been found beforehand"                                        *)
(***************************************************************************)
AllNeighboursEvaluated ==
    phase = "finished" /\ ehcBest = NoState => \A s \in States : calculated[s]

=============================================================================
