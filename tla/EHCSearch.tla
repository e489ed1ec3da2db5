------------------------------ MODULE EHCSearch ------------------------------
(***************************************************************************)
(* EnforcedHillClimbingSearch.search(), one run of the single walk: a best *)
(* state, its heuristic value and the list of open states.  A turn of the  *)
(* loop looks ahead by the relaxed plan and, if that is no better, has the *)
(* neighbours evaluated; of that evaluation only EvaluationResults is used.*)
(***************************************************************************)
EXTENDS EvaluationResults, SequencesExt

CONSTANTS
    States,
    Starts,      \* the states a search may be started from
    Neighbours,  \* the states helpful actions lead to, of each state
    LookAhead,   \* the state the relaxed plan leads to, of each state
    Reached      \* the subgoals each state has reached

ASSUME SearchAssumption ==
    /\ NoState \notin States
    /\ Starts \subseteq States /\ Goals \subseteq States /\ Failing \subseteq States
    /\ H \in [States -> Nat]
    /\ \A s \in Goals : H[s] = 0    \* its relaxed plan is empty
    /\ Neighbours \in [States -> SUBSET States]
    /\ LookAhead \in [States -> States]
    /\ \A s \in States : IsFiniteSet(Neighbours[s]) /\ IsFiniteSet(Reached[s])

VARIABLES
    phase,      \* "begin", "search", "returned" or "raised"
    start,
    open,
    bestState,
    limit,      \* the static LIMIT
    result      \* what search() returns

vars == <<phase, start, open, bestState, limit, result>>

bestHValue == H[bestState]

Init ==
    /\ start \in Starts
    /\ phase = "begin"
    /\ open = <<>>
    /\ bestState = start
    /\ limit = 0
    /\ result = NoState

StartIsGoal ==
    /\ phase = "begin"
    /\ start \in Goals
    /\ phase' = "returned"
    /\ result' = start
    /\ UNCHANGED <<start, open, bestState, limit>>

\* The start is opened and evaluated, which may throw.
OpenStart ==
    /\ phase = "begin"
    /\ start \notin Goals
    /\ open' = <<start>>
    /\ phase' = IF start \in Failing THEN "raised" ELSE "search"
    /\ UNCHANGED <<start, bestState, limit, result>>

\* filterGoalRemovingState counts the subgoals, it does not compare them.
FilterGoalRemovingState(s) ==
    {t \in Neighbours[s] : Cardinality(Reached[t]) >= Cardinality(Reached[s])}

\* removeNext yields s.
Continuing(s) == phase = "search" /\ s = Head(open)

\* An exception of an evaluation leaves search().
Raise(s) ==
    /\ Continuing(s)
    /\ \/ s \in Failing
       \/ LookAhead[s] \in Failing \ Goals
    /\ phase' = "raised"
    /\ open' = Tail(open)
    /\ UNCHANGED <<start, bestState, limit, result>>

LookAheadReachesGoal(s) ==
    /\ Continuing(s)
    /\ s \notin Failing
    /\ LookAhead[s] \in Goals
    /\ result' = LookAhead[s]
    /\ phase' = "returned"
    /\ open' = Tail(open)
    /\ UNCHANGED <<start, bestState, limit>>

Evaluable(s) == {s, LookAhead[s]} \cap Failing = {} /\ LookAhead[s] \notin Goals

\* Fault: a look-ahead that is as good is taken as well.
LookAheadNotWorse(s) ==
    /\ Continuing(s)
    /\ Evaluable(s)
    /\ H[LookAhead[s]] <= bestHValue
    /\ bestState' = LookAhead[s]
    /\ open' = <<LookAhead[s]>>
    /\ UNCHANGED <<phase, start, limit, result>>

LookAheadImproves(s) ==
    /\ Continuing(s)
    /\ Evaluable(s)
    /\ H[LookAhead[s]] < bestHValue
    /\ bestState' = LookAhead[s]
    /\ open' = <<LookAhead[s]>>
    /\ UNCHANGED <<phase, start, limit, result>>

\* Fault: LIMIT is left as it is for the next search.
GiveUpKeepingLimit(newLimit) ==
    /\ phase' = IF newLimit >= MaxLimit THEN "returned" ELSE "search"
    /\ result' = IF newLimit >= MaxLimit THEN bestState' ELSE NoState
    /\ limit' = newLimit

\* Fault: the bound of the search is above the one the evaluator stops at.
GiveUpAtTwiceTheLimit(newLimit) ==
    /\ phase' = IF newLimit >= 2 * MaxLimit THEN "returned" ELSE "search"
    /\ result' = IF newLimit >= 2 * MaxLimit THEN bestState' ELSE NoState
    /\ limit' = 0

\* The test of LIMIT that ends a turn.
GiveUpAtLimit(newLimit) ==
    /\ phase' = IF newLimit >= MaxLimit THEN "returned" ELSE "search"
    /\ result' = IF newLimit >= MaxLimit THEN bestState' ELSE NoState
    /\ limit' = IF newLimit >= MaxLimit THEN 0 ELSE newLimit

(***************************************************************************)
(* The neighbours are evaluated.  A state reported becomes the best state  *)
(* and the only open one; otherwise all of them are appended to open, in   *)
(* the order of a HashSet.  A best state that is a goal is evaluated here  *)
(* for the first time, and that may throw.                                 *)
(***************************************************************************)
EvaluateNeighbours(s) ==
    LET Filtered == FilterGoalRemovingState(s)
    IN  /\ Continuing(s)
        /\ Evaluable(s)
        /\ H[LookAhead[s]] >= bestHValue
        /\ \E report \in Results(Filtered, bestHValue, limit) :
            \/ /\ report.best \in States \ Failing
               /\ bestState' = report.best
               /\ open' = <<report.best>>
               /\ GiveUpAtLimit(report.limit)
            \/ /\ report.best \in Failing
               /\ phase' = "raised"
               /\ open' = Tail(open)
               /\ UNCHANGED <<bestState, limit, result>>
            \/ /\ report.best = NoState
               /\ \E order \in SetToSeqs(Filtered) : open' = Tail(open) \o order
               /\ UNCHANGED bestState
               /\ GiveUpAtLimit(report.limit)
        /\ UNCHANGED start

\* The loop ends with no state open.
OpenExhausted ==
    /\ phase = "search"
    /\ open = <<>>
    /\ result' = bestState
    /\ phase' = "returned"
    /\ UNCHANGED <<start, open, bestState, limit>>

Turn(s) ==
    Raise(s) \/ LookAheadReachesGoal(s) \/ LookAheadImproves(s) \/ EvaluateNeighbours(s)

Next == StartIsGoal \/ OpenStart \/ OpenExhausted \/ \E s \in Range(open) : Turn(s)

\* The loop is sequential code and each evaluation ends (ImplementsEvaluation).
Spec == Init /\ [][Next]_vars
FairSpec == Spec /\ WF_vars(Next)

-----------------------------------------------------------------------------

\* The search's fields have their types, and it returns a state.
TypeOK ==
    /\ phase \in {"begin", "search", "returned", "raised"}
    /\ start \in Starts
    /\ open \in Seq(States)
    /\ bestState \in States
    /\ limit \in Nat
    /\ result \in IF phase = "returned" THEN States ELSE {NoState}

(***************************************************************************)
(* search() returns a goal, a state strictly better than its start, or the *)
(* start itself: what BestPerforming goes on with is never worse.          *)
(***************************************************************************)
ResultImproves ==
    phase = "returned" => result \in Goals \cup {start} \/ H[result] < H[start]

(***************************************************************************)
(* Hill climbing is enforced: the best state is replaced by a strictly     *)
(* better one or a goal only, by look-ahead and by evaluation alike.       *)
(***************************************************************************)
BestOnlyImproves ==
    [][bestState' # bestState => bestState' \in Goals \/ H[bestState'] < H[bestState]]_vars

(***************************************************************************)
(* The search goes breadth-first, opening states besides the best one, only*)
(* at a turn whose own evaluation of neighbours threw: after any other the *)
(* evaluator has found a better state or exhausted LIMIT.                  *)
(***************************************************************************)
Opened == Range(open') \ (Range(open) \cup {bestState'})

BreadthOnlyAfterException ==
    [][phase' = "search" /\ Opened # {} =>
         FilterGoalRemovingState(Head(open)) \cap Failing # {}]_vars

(***************************************************************************)
(* LIMIT is static and outlives the search; whichever way the search ends, *)
(* the next one finds it at zero.                                          *)
(***************************************************************************)
LimitLeftAtZero == phase \in {"returned", "raised"} => limit = 0

(***************************************************************************)
(* The search ends though nothing but start is put on the closed list:     *)
(* values fall, and a plateau uses up LIMIT.                               *)
(***************************************************************************)
SearchEnds == <>(phase \in {"returned", "raised"})

=============================================================================
