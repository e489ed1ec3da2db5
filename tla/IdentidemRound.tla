--------------------------- MODULE IdentidemRound ---------------------------
(***************************************************************************)
(* One step of an Identidem probe: the sampled neighbours are handed to a  *)
(* MultiThreadStateManager, whose threads run while the searching thread   *)
(* evaluates the look-ahead state on the graph all states share; after the *)
(* join a goal among the neighbours ends the search, otherwise the         *)
(* selector chooses among the neighbours and the look-ahead state.         *)
(***************************************************************************)
EXTENDS StateManager, RoundOutcomes

CONSTANT NeighbourSize

ASSUME RoundAssumption == NeighbourSize \in Nat

VARIABLES
    rpgState,    \* the look-ahead state
    searcherAt,  \* where the searching thread is
    chosen       \* the state it goes on with, or NoState

searcherVars == <<rpgState, searcherAt, chosen>>
roundVars == <<managerVars, objectVars, searcherVars>>

Samples == {sample \in SUBSET States : Cardinality(sample) <= NeighbourSize}

RoundInit ==
    /\ ManagerInit
    /\ rpgState \in LookAheads
    /\ searcherAt = "sample"
    /\ chosen = NoState

\* neighbourSampling, getNextStates and applyRPG.
Sample ==
    /\ searcherAt = "sample"
    /\ \E sample \in Samples : NewBatch(sample)
    /\ searcherAt' = "start"
    /\ UNCHANGED <<objectVars, rpgState, chosen>>

StartSample ==
    /\ searcherAt = "start"
    /\ ManagerStep
    /\ UNCHANGED searcherVars

\* Fault: the look-ahead state is given the first of the new graphs.
EvaluateLookAheadOnFirstGraph ==
    /\ searcherAt = "start" /\ Started
    /\ rpg' = [rpg EXCEPT ![rpgState] = <<round, 1>>]
    /\ thread' = [thread EXCEPT ![rpgState] = "evaluate"]
    /\ searcherAt' = "join"
    /\ UNCHANGED <<managerVars, value, calculated, planOf, torn,
                   rpgState, chosen>>

\* The call of rpgState.getHValue().
EvaluateLookAhead ==
    /\ searcherAt = "start" /\ Started
    /\ thread' = [thread EXCEPT ![rpgState] = "evaluate"]
    /\ searcherAt' = "join"
    /\ UNCHANGED <<managerVars, rpg, value, calculated, planOf, torn,
                   rpgState, chosen>>

RunRoundThread(s) == ThreadStep(s) /\ UNCHANGED searcherVars

\* An exception of getHValue leaves the search.
Raise ==
    /\ searcherAt = "join"
    /\ \/ thread[rpgState] = "failed"
       \/ /\ thread[rpgState] = "done" /\ Joined /\ goalReached = NoState
          /\ batch \cap Failing # {}
    /\ searcherAt' = "raised"
    /\ UNCHANGED <<managerVars, objectVars, rpgState, chosen>>

\* Fault: the goal is returned before the threads are joined.
GoOnBeforeJoin ==
    /\ searcherAt = "join"
    /\ thread[rpgState] = "done"
    /\ goalReached # NoState
    /\ chosen' = goalReached
    /\ searcherAt' = "chosen"
    /\ UNCHANGED <<managerVars, objectVars, rpgState>>

GoOnWithGoal ==
    /\ searcherAt = "join"
    /\ thread[rpgState] = "done" /\ Joined
    /\ goalReached # NoState
    /\ chosen' = goalReached
    /\ searcherAt' = "chosen"
    /\ UNCHANGED <<managerVars, objectVars, rpgState>>

\* Fault: the selector chooses before the manager is asked for a goal.
ChooseFirst(s) ==
    /\ searcherAt = "join"
    /\ thread[rpgState] = "done" /\ Joined
    /\ s \in batch \cup {rpgState}
    /\ IF rpgState \in Goals THEN s = rpgState ELSE batch \cap Failing = {}
    /\ chosen' = s
    /\ searcherAt' = "chosen"
    /\ UNCHANGED <<managerVars, objectVars, rpgState>>

(***************************************************************************)
(* RouletteSelector.choose asks the states for their values in the order   *)
(* of the set, until one is a goal: it may return the goal before it meets *)
(* a state that throws.  Without a goal any state may be chosen, its chance*)
(* growing as its value falls.                                             *)
(***************************************************************************)
Choose(s) ==
    /\ searcherAt = "join"
    /\ thread[rpgState] = "done" /\ Joined
    /\ goalReached = NoState
    /\ s \in batch \cup {rpgState}
    /\ IF rpgState \in Goals THEN s = rpgState ELSE batch \cap Failing = {}
    /\ chosen' = s
    /\ searcherAt' = "chosen"
    /\ UNCHANGED <<managerVars, objectVars, rpgState>>

Searcher ==
    \/ Sample \/ StartSample \/ EvaluateLookAhead
    \/ Raise \/ GoOnWithGoal \/ \E s \in Objects : Choose(s)

RoundNext == Searcher \/ \E s \in Objects : RunRoundThread(s)

\* Every thread the JVM has started is scheduled again and again.
RoundFairness == WF_roundVars(Searcher) /\ \A s \in Objects : WF_roundVars(RunRoundThread(s))

RoundSpec == RoundInit /\ [][RoundNext]_roundVars
FairRoundSpec == RoundSpec /\ RoundFairness

-----------------------------------------------------------------------------

\* The variables of the manager, its threads and the step have their types.
RoundTypeOK ==
    /\ ManagerTypeOK
    /\ rpgState \in LookAheads
    /\ searcherAt \in {"sample", "start", "join", "chosen", "raised"}
    /\ chosen \in Objects \cup {NoState}

(***************************************************************************)
(* When the searching thread goes on with a state no thread it started is  *)
(* running, and that state is fit to be searched from: a goal, or evaluated*)
(* rightly and on the graph that all states share.                         *)
(***************************************************************************)
ChosenIsReady ==
    searcherAt = "chosen" =>
        /\ Running = {}
        /\ rpg[chosen] = Original
        /\ chosen \notin Goals => calculated[chosen] /\ value[chosen] = H[chosen]

(***************************************************************************)
(* A step that succeeds goes on with a goal whenever the sample or the     *)
(* look-ahead is one: start() may leave states without a thread, and the   *)
(* selector is random, but neither misses a goal.                          *)
(***************************************************************************)
ChoosesWell ==
    searcherAt = "chosen" => chosen \in Outcomes(batch, rpgState, Goals)

(***************************************************************************)
(* Every step ends, in a state or in an exception, also when start()       *)
(* returned early or when the look-ahead state's evaluation throws.        *)
(***************************************************************************)
RoundEnds == <>(searcherAt \in {"chosen", "raised"})

=============================================================================
