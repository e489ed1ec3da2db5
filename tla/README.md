# A verification project for the local-search planner and its plan validator

The repository has two programs. Under `src/src/` is JavaFF extended with local
search: a forward planner for temporal and numeric PDDL that evaluates states with
relaxed planning graphs, several threads at a time. Under
`src/VAL_KCL/libraries/VAL/` is VAL, the C++ validator with which plans are judged.
This directory holds TLA+ models of both, the TLC runs that check them and proofs
about them. Source paths below are relative to one of these two
directories (`*.java` to the first, `*.cpp` and `*.h` to the second). Each
definition is tied to the lines it models in `PROJECT.json`, which also lists the
components, the hazards and the findings.

## Inventory

### The planner

| part | state | operations | what is hard | what makes it right |
|---|---|---|---|---|
| ground actions and states (`planning/*State`, the filters, `data/strips`, `data/temporal`) | facts, open actions, protected propositions, offered actions, plan | isApplicable, checkAvailability, apply, applySplit | sequences of starts and ends that share conditions; states compared by facts alone | running actions keep their conditions, facts determine the rest, plans pair starts with ends |
| parallel evaluation (`threading/StateThread`, `MultiThreadStateManager`, `EHCMultiStateEvaluation`) | a relaxed planning graph (RPG) per thread, a cached value per state, LIMIT | start, join, getHValue, copyInto | an RPG must not be used by two threads; a goal met while threads are being started; an evaluation that throws; the history of earlier searches | exclusive use of an RPG, right cached values, a best state that is strictly better, an end |
| enforced hill climbing (`search/EnforcedHillClimbingSearch`) | open, closed, best state and value | search, baseEHC | static LIMIT; states visited again; a closed list keyed by hash code | the value only falls, the result is never worse than the start, the search ends |
| Identidem (`search/Identidem`, `RouletteSelector`) | iteration, probe and depth counters, static failCount, maxFailCount, restarts | search, shouldRestart | threads beside the searching thread; counters shared by all searches | a result improves on the start, counters agree |
| driver (`JavaFF`) | present state, start time | BestPerforming, MultiWalk | three searches, restarts, a time-out that is looked at once a turn | a goal is never lost, walks never start from worse states |
| multi-walk (`threading/MultiThreadSearchManager`, `SearchThread`) | candidates, running searches, best | start, join, combineResults, getBest | up to MAX_SEARCH_THREADS searches, results fed back, time-out | the shortest goal is returned, no candidate is lost |
| relaxed planning graphs (`planning/*PlanningGraph`) | layers of facts and actions, bounds of functions, operators that count | getPlan: createActionLayer, createFactLayer, searchRelaxedPlan | one graph evaluates state after state; it levels off by facts or by numbers | a state without a relaxed plan is a dead end; a relaxed plan reaches the goal and begins with an applicable action |
| other searches, genetic search, scheduling, grounding, parser | | | | see "Not modelled" |

### The validator

| part | state | operations | what is hard | what makes it right |
|---|---|---|---|---|
| plan execution (`Plan`, `Action`, `State`, `Validator`) | propositions, fluents, time, the iterator with its context of invariants and monitors | handleDurativeAction, operator++, executeOneStep, checkGoal | effects split among two ends and a monitor; actions of one time in any order; invariants checked between happenings only | the states are those the domain means, and the verdict follows from them |
| mutual exclusion (`Ownership`) | who claims each proposition and fluent, and how | markOwnedPrecondition, ownsForAdd, ownsForDel, markOwnedEffectFE | the verdict must not depend on the order of the claims | actions that disturb each other are refused |
| trajectory constraints and preferences (`TrajectoryConstraints`) | one list per kind of constraint, the violated ones | checkAtState, checkFinalState | states are shown again at a later time; deadlines, triggers and windows | the violated constraints are those the states violate |
| derived predicates (`Proposition`) | the cache of answers, the predicates being built and evaluated | evaluate, resetLists | predicates that depend on each other; what may be cached | answers are the least fixpoint of the rules |
| events and processes (`Events`) | changed literals and fluents, triggered events, running processes | triggerInitialEvents, triggerDiscreteEvents, triggerDiscreteProcesses | cascades; changes forgotten before they are looked at | no event is left, the right processes run, cascades end |
| continuous change (`Polynomial`, the comparisons and intervals of `Proposition`) | what each fluent is as a function of time, until the next happening | getRoots, getIntervals, triggerContinuousEvents | the first of several reactions; a threshold reached just at a happening; open and closed ends of intervals | time passes over no event |
| parser, type analysis and instantiation, repair advice, reports | | | | see "Not modelled" |

## How the parts interact

The planner's driver runs one algorithm. *Best performing* alternates a walk of
enforced hill climbing with Identidem; *multi-walk* runs rounds of the sequential
`baseEHC` in threads of their own. Both kinds of parallel search give batches of
states to a `MultiThreadStateManager`, whose `StateThread`s compute each state's
value on an RPG of its own; between batches all states share one graph. Static
fields (LIMIT, the fail counts, the history) outlive a search and are shared by all.

VAL is sequential. Its main loop shows each state to the trajectory monitor,
progresses it by a happening, whose actions claim what they read and write of the
`Ownership`, and lets events and processes react. Conditions are evaluated through
the cache of derived predicates, which is cleared when a step begins. The two
programs share no state: the planner's plans are files that VAL reads.

## Modules

### States and actions: `TemporalState`

A behaviour is a path a search can walk. `makeInstants` splits a durative action
into a start and an end tied by two dummy facts; `Start`, `End`, `Join`, `Done`
are those. `ApplyInstant`, `ApplyStart` and `ApplyEnd` are `apply` with its
`applySplit`: facts, open actions, the list of protected propositions (how often
each is in the list), the actions offered and the plan. The variable `guide` says
where a behaviour takes its actions from: the null filter, which offers what the
state offers, or the relaxed plan and the helpful filter, which ask `isApplicable`
only. Numeric functions are left out.

### Relaxed planning graphs: `PlanningGraph`

One graph and the states it evaluates, one after another: `Evaluate` is `getPlan` as
far as `resetAll` and the first layer, for the initial state or a successor of the
state evaluated last; `AddLayer` is a turn of its loop. A layer is what its facts
and actions say they are in (`factLayer`, `actionLayer`), with an upper and a lower
bound of the one function (`high`, `low`); `operators` is `resOps`, which a reset
leaves alone. `ChooseActions` is one level of `searchRelaxedPlan`, from the last
layer down, and iterates over the hash sets of facts and comparators in any order;
`FinishPlan` adds the ends of what the plan starts. Which actions a state has open
is read off its facts, as `FactsTellWhatRuns` allows. `Relaxed` is the reference:
what can be reached within so many layers, computed from the problem alone. `kept`
is history: the operators that were there when the evaluation began.

### Parallel evaluation: `StateManager`, `EHCEvaluator`, `Evaluation`

`StateManager` is one `MultiThreadStateManager` and its threads. `start()` is a
loop of one action a turn, which meets a goal and stops or gives a state the next
graph and starts its thread; a thread is a sequence of steps (look-up in the
history, the evaluation begins, ends or throws, the graph is put back) that
interleave with everything else. The evaluation takes two steps, so that two on
one graph overlap; the values of an overlap are arbitrary (`torn`). The module has
no specification of its own: its two clients have.

`EHCEvaluator` is the client of hill climbing, `EHCMultiStateEvaluation.run()`. The
first states a `HashSet` iterator yields are chosen once, since the set is never
changed; an evaluation of no states has ended as it begins. `EvaluationResults`
states what an evaluation may report, `Evaluation` is the one-step abstract
specification made of it, and `ImplementsEvaluation` checks that the threads
implement it, its end included.

### Hill climbing: `EHCSearch` and `BaseEHC`

`EHCSearch` is `search()`, one turn of the loop an action, `EvaluateNeighbours`
using `EvaluationResults` in place of the threads. `BaseEHC` is `baseEHC()`, whose
successors are visited one step at a time, with `closed` as it is in the code: a
map from hash codes to *one* state each. Its variables `visited` and `tree` are
history only.

### Identidem and the driver: `IdentidemRound`, `RoundOutcomes`, `Identidem`, `BestPerforming`

`IdentidemRound` is one step of a probe, the second client of `StateManager`: the
searching thread evaluates the look-ahead state on the shared graph while the
threads run. `RoundOutcomes` says which states a step may go on with;
`IdentidemRound` establishes it (`ChoosesWell`) and `Identidem` uses it.
`Identidem` holds the nested loops and the static counters; `BestPerforming`
starts its searches one after another, after a walk of which only the promise of
`EHCSearch` (`ResultImproves`) is used.

### Multi-walk: `MultiWalk`

One manager and its threads. Of a search only what it may return is used: some
state, or nothing for a dead end, the time or an exception. `TIME_OUT` may elapse
at any moment. `combineResults` goes through the threads in any order.

### The validator: `PlanExecution`, `Ownership`, `TrajectoryMonitor`

`PlanExecution` takes a domain as it is written and a plan with times. `Built` is
the plan builder: `HandleDurativeAction` splits a durative action into its two
ends, `HandleConditional` and `MonitorsOf` do so with its conditional effects, of
which those that span the action become monitors. `Advance` is the iterator with
its context (`invariants`, `monitors`); `ExecuteRegular` is a happening, its actions
in any order, and `ExecuteInvariant` the check between two happenings. Of an action
of no duration both ends are in one happening, and either may come first (`late`);
`EndExecution` and `CheckGoal` give the verdict. What the domain means is told
apart from all this, by `Written`, `Fires`, `EffectsAt` and `RequiredAt` over the
actions as written and over `trace`, the history of the states reached.

`Ownership` holds, for a proposition or fluent, who claimed it last and as what;
`Claimed` is what the claims of one effect leave, in the order the code makes them.
`TrajectoryMonitor` is the monitor as a record of lists, one per kind of
constraint; `Answers` says from which looks it comes back, and an execution it does
not come back to has ended without a verdict (`Crashed`). Both are operators on values, used by `PlanExecution` (and `Ownership`
by `Events`), and have no behaviour of their own.

### The validator: `DerivedPredicates`

A step begins with an empty cache (`StartStep`), asks any questions in any order
(`Ask`) and ends with new facts (`EndStep`); questions may also come between two
steps. `Evaluate` follows the code's recursion: the unfolding of rules as far as
they are not quantified, the order conditions are sorted into, the predicates met
again and the flag that keeps their answers out of the cache. `Meaning` is the
least fixpoint, stratum by stratum.

### The validator: `Events` and `Intervals`

After `TriggerInitialEvents`, each happening of the plan (`ExecuteHappening`, any
effects) is followed by rounds: `NoEvents` or `TriggerEvents`, then
`TriggerProcesses`, until a round triggers no event. `changed` is what the last
happening executed has changed, which is all that a round looks at. While processes
run they change a fluent, and the stretch of time up to `next` is searched for the
first event, start or end of a process that this brings about: `NoContinuousEvents`,
and the plan goes on, or `TriggerContinuousEvents`, which executes that first group
and begins the rounds again. `due` are the events that become enabled just at a
happening of the plan, with which that happening may not interfere. `unseenE` and
`unseenP` are history: what changed without the events, or the processes, ever
having looked.

`Intervals` says in which parts of a stretch of time a comparison holds. The fluent
changes by one a unit of time or not at all, so that it crosses thresholds at whole
numbers and a stretch is a finite set of cells: its points and the gaps between
them. The code's several ways to evaluate a comparison are operators of their own,
since they differ: on an interval a strict one is strict (`HoldsIn`), at a point it
is not (`HoldsAbout`, `Proposition.cpp:861`), and `HoldsThroughout`, the check of an
invariant, looks at the two ends. The model was compared with the built validator on
some two thousand small random domains and plans: the verdicts, and every event and
process with its time, were the same, up to processes that are reported as started
after the plan has failed.

### How the pieces fit

    StateManager --- EHCEvaluator ==> Evaluation --- EHCSearch --- BestPerforming
         \---------- IdentidemRound --- RoundOutcomes --- Identidem ---/
    BaseEHC --- MultiWalk           TemporalState --- PlanningGraph
    Ownership --- PlanExecution --- TrajectoryMonitor
         \------- Events --- Intervals      DerivedPredicates

`==>` is refinement; elsewhere one module uses the other, as a definition or as an
assumption that is checked or proved of it. The link from `EHCSearch` to
`BestPerforming` is by statement, not by composition of state:
`BestPerformingAssumption` on `Walk` restates `ResultImproves`, and `MultiWalk`
takes from `BaseEHC` that searches end (`SearchEnds`); so is the link of
`PlanningGraph` to `TemporalState`. The values the searches are modelled over are
the lengths of its relaxed plans. `DerivedPredicates` is checked by itself; the
conditions of `PlanExecution` are plain facts.

## Runs

| run | what it shows | bounds |
|---|---|---|
| `temporal_state` | facts tell what runs; running actions keep their conditions, whatever the source of actions; under the null filter protection is lifted exactly, starts and ends alternate and a plan of the goal has as many of each | three durative actions, two of which protect one proposition, three instantaneous; paths of 7, enough for two nested pairs and a repetition |
| `ehc_evaluator` | graphs are exclusive, joined batches are right, the report is right, `Evaluation` is implemented, its end included | six neighbours of every kind, three at a time, MAX_LIMIT 7 for the 50 that `search()` sets: three rounds, the last beyond the limit |
| `ehc_evaluator_doc` | finding: neighbours never evaluated | four plain neighbours |
| `identidem_round` | the state gone on with is joined, evaluated and on the shared graph; goals are not missed; every step ends | five neighbours, samples of up to three, a goal and a throwing one among them; the look-ahead state ordinary, a goal, or one whose evaluation throws; a history entry with a value of its own |
| `ehc_search` | the result improves, LIMIT is left at zero, breadth-first only after an exception, the search ends | a family of spaces of six nodes: every relaxed plan that stays near, two kinds of neighbourhood, with plateaus, dead ends and a node that is kept as a neighbour and whose evaluation throws |
| `best_performing` | counters agree over many searches, the driver goes to nothing worse but by a failed search, goals are not lost, walks do not start from worse states, the driver returns | six states, 2 iterations of 2 probes, `MaxRestarts` 7: the fail limit doubles twice |
| `base_ehc` | improvements are enforced, states are not open twice, nor opened again once expanded or dropped, unless hash codes collide, null means a dead end, the search ends | eleven states with two collisions, a self-loop, a dead end and a failing state; bounds 2, 4 and none, each state as a start |
| `multi_walk` | the shortest goal is returned, nothing is given up unsearched, the manager returns | two threads; none, one or three candidates; two goals and plan lengths |
| `planning_graph` | a state without a relaxed plan is a dead end and one with a plan is not; the plan reaches the goal; a state that is no goal has a value above zero and is offered an action | up to three of eleven actions, those of numeric conditions and effects among them, and at most one durative action; four facts and a function; two states on one graph, the least that a rest of the first can disturb; `Depth` 9, more layers than a graph of these problems needs to reach its goal |
| `plan_execution` | states follow the plan as written, whatever the order of actions; actions that disturb each other are refused; an accepted plan is valid, a rejected one has a fault; preferences are counted | two durative actions and two simple ones, each at most once, at times 1 to 4, so that ends, starts and simple actions meet in one happening, the two ends of one action among them; three propositions and a fluent; three domains that differ in the conditional effects; one constraint at a time, and a hard hold-after beside a constraint that may fail first |
| `val_derived` | answers, and what the cache holds for later ones, are what the rules mean | three predicates over two atoms: every pair of rules for two that may depend on each other, a third above them with a negation, or all three in a cycle |
| `val_events` | before the plan goes on no event is left over and the right processes run, but for changes nothing has looked at and for thresholds; time passes over no event; cascades end | up to two of nine events and one process in each direction, two propositions and a fluent; up to three happenings with any effects, at times 1 to 3: enough for a ring of events, for a reset, and for a threshold before, at and after a happening |

Each property has a mutant in `PROJECT.json`: a plausible fault of a mapped
definition under which the same run finds the property violated. The faults are
in the modules, under "Fault:".

The models of loops bound nothing but what is named: `MaxPlanLength` (paths),
`MaxRestarts` (after so many restarts the time has elapsed), `MaxEvaluations`
(states on one graph), `Depth` (how far the properties of the graph look) and
`LastTime` (the happenings of a plan with events) have no counterpart in the code;
`MaxLimit` and the sizes of samples, iterations and probes are the code's constants
made small. A goal state's value is taken to be 0, since its relaxed plan is empty,
as `NonGoalsAreHelped` shows, with every other state's above it. Where a run has
`CHECK_DEADLOCK FALSE` the program really ends; `PlanningGraph` and the models of
VAL have a stuttering step `Finished` instead, or never end, so that a run that
stops anywhere else is reported.

### Findings

- `EHCMultiStateEvaluation.java:74`: `notDone` is never reduced. Every round
  evaluates the same first states, against the class comment.

Seen on the way, without a run of their own, in the planner:

- `HelpfulFilter.java:60`: the relaxed plan's actions are tested by `isApplicable`
  only, so that a durative action may be started again while it runs; the plan of
  the goal then has two starts and one end. `temporal_state` refutes
  `StartsAndEndsAlternate` without its restriction to the null filter.
- `RelaxedMetricPlanningGraph.java:62`: `resOps` is to hold the operators "that are
  in the graph", but no reset clears it. A graph begins with the operators of the
  states before, and the same state may get another value.
- `PlanningGraph.java:106`: the count of numeric changes is set to zero unless the
  graph has levelled off anyway, so that `NUMERIC_LIMIT` never decides: a state is
  taken for a dead end although an increase would have reached the goal in time.
- `PlanningGraph.java:377`: an action is added when its conditions enter the graph,
  so that one without any never is; a function's bound is that of the operator
  looked at last, not the greatest (`RelaxedMetricPlanningGraph.java:225`); an
  increase is taken into a comparator with the wrong sign (line 554); when no action
  improves a comparator, the last action of all is chosen (line 361). Whether one
  improves it is told from the kind of the operator alone (line 638), so that a
  decrease by a negative amount, which raises a bound, is never chosen for a ">=": a
  state may then get a plan without an applicable action. A numeric goal
  fails in the constructor, which calls `setGoal` before `metricGoal` is set (seen by
  reading).
- `EnforcedHillClimbingSearch.java:147`: subgoals are counted, not compared, so that
  one achieved may be removed.
- `Identidem.java:90`: `bias` is declared anew for each probe; the rate computed at
  the end of a probe is never used.
- The bound of `baseEHC`, called a depth, counts the states expanded, and `getBest`
  without a goal considers the last round only.

and in the validator:

- `Validator.cpp:907`: `isOK` is overwritten by every step, so that with `-c` a plan
  whose earlier happening failed may be reported as valid. `plan_execution` with
  `ContinueAnyway = TRUE` refutes `AcceptedIsValid`.
- `Plan.cpp:1734`, `Action.cpp:800`: the end condition of a conditional effect that
  spans its action is kept and never evaluated (the model has it so).
- `Ownership.cpp:28`: a claim is judged by the first claim's kind only. Of an action
  that requires and deletes p and one that deletes p, the order decides whether
  they interfere. `Action.cpp:325`: a start action claims for its monitors in a name
  that differs from its own, and so may be refused for disturbing itself.
- `Ownership.cpp:116`: an action that deletes p, and adds it too by a conditional
  effect, has p as one it deletes, and another one may then delete p: the happening
  is applied in one order of the two and refused in the other, and what is added is
  also deleted by another action. TLC refutes `NoInterference` in such a domain, which
  is why its theorem has a hypothesis (`EffectsApart`, below).
- `Plan.cpp:236`: of an action of no duration both ends are in one happening, in the
  order of their addresses. If the end comes first, its invariant is removed from the
  context before it is added, stays for the rest of the plan, and a plan may be
  rejected for it. TLC refutes `RejectedForAReason` if the instant action of the run
  is given an invariant.
- `TrajectoryConstraints.cpp:259`: the parser gives `hold-after` its time as `from` and
  the deadline 0 (`pddl+.y:1090`; `Proposition.cpp:653` prints it as `getFrom`), but the
  monitor keeps it by `getDeadline`. Its condition is therefore asked for from the first
  state on, against `TrajectoryConstraints.h:169`, "If the state has a time after the
  timestamp then the requirement can be shifted into the always". TLC refutes
  `PreferencesCounted` if a `hold-after` is to be counted just when it is violated, and
  `RejectedForAReason` with a hard one that is false in the first state. The next lines
  lack a `break`: a hard `hold-after` runs on into the case of `after` and registers
  its trigger, which is NULL and which the next look that gets to line 410 calls
  (`Answers`, `Crashed`), so that no such plan is ever accepted.
- `TrajectoryConstraints.cpp:480`: `hold-during` is dropped by the first check inside
  its window; the verdict depends on whether an invariant is running.
- `Events.cpp:731`: of the processes that run only those triggered *at this time*
  are looked at for their end, the reverse of what is meant: one started earlier runs
  past the end of its condition until the next happening. Two processes of which
  each ends where the other starts, a thermostat, relieve each other at one time for
  ever, and the validator does not return. Both were seen in the built program.
- `Polynomial.cpp:547`: an event whose threshold is reached just at a happening of
  the plan goes unnoticed if the fluent then comes to rest; if it goes on the event is
  triggered, but where it resets the fluent it is refused as one that does not make
  its own condition false, since the comparisons tested are those of the stretch
  before.
- `Events.cpp:490`: a process enabled by a happening is not started if an event is
  triggered first. `Events.cpp:401`: a process that starts or ends makes VAL forget
  what the events before it changed.

The properties of `Events` leave out what these four bring about and no more; the run
refutes each of them if one of its exceptions is dropped.

- The test for the stratification of derived predicates never rejects a domain; the
  cache of their answers is not cleared between the effects of a step and the next
  check of trajectories and events.
- `Proposition.cpp:334`: `setComplement` uses the wrong interval in one of its cases,
  and `setUnion` loses part of (0,2) with (0,1).
- `Polynomial.cpp:1380`: `checkInvariant` joins two tests with `&&`, so that a
  parabola that falls below zero between two end points that do not passes as `>=`.

### Fairness

- Evaluation: weak fairness of the client and of each thread. A started Java
  thread is scheduled again and again, and no step waits for anything but a join.
- `EHCSearch`: weak fairness of the next step. It is sequential code, and its
  evaluations end by `ImplementsEvaluation`.
- `BestPerforming`: weak fairness of the driver and of the clock, which is needed
  since walk and Identidem may alternate for ever.
- `BaseEHC`: weak fairness of the search; of the clock only for a search without a
  bound, so that bounded searches are shown to end without it.
- `MultiWalk`: weak fairness of the manager, each thread and the clock. Each search
  has a bound, set by `SearchThread`, so it ends.
- `Events`: weak fairness of the rounds and of the search for continuous events,
  which are sequential code. `CascadeEnds` leaves out a process that is ended at the
  time it was triggered, the thermostat above.

## Proofs

Eight modules hold theorems, checked by TLAPS for every value of the constants
under the named assumptions (`DefAssumption`, `FiniteAssumption`,
`DummiesAreFresh`, `StartsKeepTheirInvariant`; `StatesAssumption`;
`EvaluatorAssumption`, `HistoryAgrees`; `RoundAssumption`; `LimitAssumption`, `SearchAssumption`;
`IdentidemAssumption`, `BestPerformingAssumption`; `BaseAssumption`;
`MultiWalkAssumption`; `ProblemsAssumption`, `DomainsAssumption`, `ConditionsAssumption`
and `OwnersAssumption` of `PlanExecution`; `ProblemsAssumption` and `DepthAssumption` of
`PlanningGraph`), all of which TLC evaluates on its
instances, as it does those of the models that are only checked.

`HistoryAgrees` says that a state the history holds itself has there the value its
evaluation yields. The hill climbing looks every state up again in each round, and
copies the value it finds over the state's own (`StateThread.java:24-31`,
`STRIPSState.java:75-79`); a history that disagreed would change a value between two
rounds. It is filled by the walks of `JavaFF.EHCSingleWalk` only, whose closed list holds
just the start, already evaluated. The probe of `IdentidemRound` needs no such
assumption, as each of its states is looked up at most once a round, so there the
history may hold any value.

| module | proved | the argument |
|---|---|---|
| `TemporalStateProofs` | types, `FactsTellWhatRuns`, `OffersEndIffRunning` (the state offers the end of what runs and the start of what does not), `InvariantsHold`, `NoStaleProtection`, `StartsAndEndsAlternate` | a proposition is in the list at least as often as running actions need it (`EveryHolderCounted`, proved with `InvariantsHold` in `RunningActionsProtected`); ending an action removes one occurrence and one holder, so others stay protected. For the plan: an action has one start more than ends if it runs and as many if not (`Balance`), before each of its ends too |
| `StateManagerProofs` | for both clients: types, exclusive graphs; for hill climbing: settled batches, the report, and the safety part of `EHCEvaluator` implementing `Evaluation` (`EvaluationRefined`); for a probe: `ChosenIsReady`, `ChoosesWell` | graph numbers in use are distinct and below the next one; a thread holds its graph until it puts the original back; an evaluation that nothing overlaps yields the true value; the searching thread alone uses the shared graph while its threads run. Each step maps to the abstract `Finish` or changes nothing it sees, since what LIMIT is in between is not seen from outside and it grows only over states that are neither better nor failing (`LimitInv`) |
| `EHCSearchProofs` | types, `ResultImproves`, `LimitLeftAtZero`, `BestOnlyImproves`, `BreadthOnlyAfterException` | the best state has improved on the start, and LIMIT is zero between turns; what a turn opens beside the best state comes from its own evaluation of neighbours, which threw, since one that fails otherwise exhausts LIMIT |
| `BestPerformingProofs` | types, `DriverOnlyImproves`, `GoalNeverLost`, `NeverWorseThanInitial`, `FailCountsAgree` | a search is started from a state no worse than the initial one, and an outcome improves on its start, which is the state the turn has come to; every restart resets the count, and every third doubles the limit |
| `BaseEHCProofs` | types and bound, `OpenSinceBest`, `OpenOnce`, `NullMeansDeadEnd` | what is on the closed list was visited, whatever shares its hash code, and what has left the list of open states is on it unless another state of its hash code took its place; a state opened since the improvement is open, being expanded or has its successors visited |
| `MultiWalkProofs` | types, `ShortestGoalReturned`, `GivesUpExhausted` | the best is a bound on the goals combined; what was a candidate is one, was searched, or is a result not combined yet |
| `PlanExecutionProofs` | `AcceptedIsValid`, `PreferencesCounted`, `StatesFollowThePlan`, `NoInterference` and `RejectedForAReason`, under the hypotheses below | see below |
| `PlanningGraphProofs` | `DeadEndsAreDead`, `PlanReachesGoal`, and `NonGoalsAreHelped` under the hypothesis below | see below |

### A plan VAL accepts is one

The inductive invariant (`Inv` of `PlanExecutionProofs`) says, as long as no step
has failed: the trace ends with the present state (`TraceInv`); the iterator stands
before the happening whose number the length of the trace is, or at the invariants
after the last (`PlaceInv`); the time has not run ahead of it but by the check of
invariants (`TimeInv`); the context holds the invariant of every action that runs
(`ContextInv`); the actions of each happening that was applied found their
preconditions true and had allowed durations (`DoneInv`); the invariants held in
each state that was left, and hold in the present one before the next happening
(`InsideInv`); and the monitor's lists and its set of violated constraints are right
about the trace so far (`MonitorInv`). `AcceptedIsValid` needs the first six because
the verdict looks at none of them: `execute` keeps a single flag, and that an
invariant held throughout an action follows only from where the iterator stood each
time it was checked. `MonitorInv` has two halves. A constraint not yet violated is
watched (`Watched`): were the plan to violate it, the lists still hold what will tell.
One that is violated is so with reason (`Founded`). Both have to survive that a state
is shown again at a later time, with the invariants, where deadlines, windows and
triggers could go wrong.

Both theorems assume `~ContinueAnyway`: with `-c` the first is false, a finding above.
`AcceptedPlansAreValid` assumes `NoHardWindows`, that a `hold-during` is a preference
if there is one; `PreferencesAreCounted` assumes `NoWindows`, that there is none:
`TrajectoryConstraints.cpp:480` stops watching one in the middle of its window, and
both are false with it. Of a `hold-after` the first says that it is met from its time
on, which follows from more than that having been asked for (`AskedIsEnough`); the
second says for what it is counted, which is a condition false in any state, and not
one false from its time on. Everything else (domains with conditional effects, any plan,
any number of constraints of the other kinds, any order of the actions of a happening)
is arbitrary. `ProblemsAssumption` says that a plan is finite, that its times are
natural numbers, that no step ends before it starts (the parser reads any numbers) and
that each step has an action of its own, as each has an object
of its own in the validator; two of these may be alike, since `Domains` is arbitrary.

### The states are those of the plan

`StatesAreOfThePlan` proves `StatesFollowThePlan` and `HappeningsDoNotInterfere` proves
`NoInterference`, both for every plan, every order of the actions in its happenings
and every conditional effect. They share two steps between what the code computes
and what the domain means.

- The status of a monitor. `StatusInv` says what it stands for at any moment: that the
  condition at the start was true and that over all was in each state looked at so far
  (`Alive`), for every action that has not ended. Three kinds of steps write it: a
  happening when actions start, a check of invariants, and the happenings that change
  the context. An action of no duration starts and ends in one happening, and its
  monitors, which may stay in the context, have any status afterwards. At an end the
  status is then what `Fires` asks of all the states in between (`MonitorFires`).
- The claims of a happening. They are sequences made of the plan's actions in some
  order; what is claimed does not depend on it (`ClaimsHave`), and the claims are the
  effects as written: each claim is a part of an effect in the same name, and each part
  of an effect is in some claim (`ClaimsMatch`), for the start by `StartMatches`, for
  the end by `EndMatches`, where the effects that span the action come in.

For `NoInterference` an invariant of `Ownerships` says what an entry tells of the
claims made up to it (`Owned`): the owner is the only one who has claimed the entry, or
all who have claimed it alike. A claim granted keeps it (`OwnedStep`), whatever
comes in which order, and after all claims the entries leave no two actions that disturb
each other (`OwnedUndisturbed`). The hypothesis `EffectsApart`, that no end of an action deletes with one effect
what it adds with another one only, is needed for propositions: of an entry that is
"deleted" by its owner, the code no longer sees that it is added as well, the finding above.
For fluents, and for `StatesFollowThePlan`, it is not needed.

For `StatesFollowThePlan` the deletes and adds of the claims are unions. The value of a
fluent is what is left after all its updates in the order of the claims. Each update
is claimed once (`ClaimsOnce`: the sequence has every effect in one place, since an
effect carries the "when" it is from); if they are additive the values along the
sequence are the running sums of the ones meant (`RunningSum`), and if one of them
assigns, the ownership leaves it alone with its fluent (`AssignedValue`). That the
actions read what the values were before the happening is in both.

`~ContinueAnyway` is assumed as above: told to continue, VAL applies happenings after
one that it did not, and the trace no longer has one state for each.

### A plan VAL rejects has a fault

`RejectedPlansHaveAReason` proves `RejectedForAReason`, the converse of
`AcceptedPlansAreValid`. A plan is rejected by the first step that fails, so the
inductive invariant is the ones above for as long as nothing has failed, and `FailedInv`
for afterwards: an execution that stopped has one of the reasons the property names. The
part to prove is that each test the code makes fails only for such a reason.

- A claim refused (`RefusedDisturbs`). The invariant of the ownership is the converse of
  `Owned`: an entry says of everybody but its owner that somebody else has made a claim of
  the entry's kind (`Blamed`, by `Told`), an entry shared by several says so of all of them,
  and one that is assigned has an assignment among its claims. If no two claims disturb each
  other (`Calm`), each claim is therefore granted and keeps it (`BlamedStep`), in whichever
  order the actions come; and claims that disturb each other are effects that do, in the
  words of the domain (`UndisturbedCalm`). That an update of the sequence has not been made
  before (`ClaimsOnce`) is needed here, too: a second claim of the same update would be
  refused if it assigns.
- An invariant found false (`InvariantReason`). The context has the invariants of actions
  that run, the converse of `ContextInv`, and of actions that took no time
  (`ContextRuns`).
- A constraint counted as violated (`SeriousReason`). `Founded` above has the reason at the
  time of the look, and the state the step may add comes at no earlier time, so that it
  cannot satisfy the constraint after all (`ViolatedForGood`).
- The goal check (`GoalReason`): all happenings have been applied by then.

Two hypotheses come from findings above. `InvariantsTakeTime`: an action with an invariant
does not have the duration 0, since the invariant of an action that takes none may outlive it.
`NoHardHolds`: a `hold-after` or `hold-during` is a preference, since the first is asked
for too early, and the second by a look that takes the state before a happening for that
of its own time. `EffectsApart` is not
needed: the ownership may grant too much, but does not refuse too much.

### A state without a relaxed plan is a dead end

The inductive invariant (`Inv` of `PlanningGraphProofs`) relates the graph under
construction to itself only: a fact above the first layer comes from an action of
the layer below (`FactsInv`), an action in the graph found its facts and its
comparators met there and its effects are in (`ActionsInv`), each bound is the value
of the function or came from the bound below by an operator that counted
(`BoundsInv`, which also says that bounds only widen), an action whose facts are
there is in the graph or waits for its comparators (`BuildInv`), and a graph that
levelled off with its bounds at rest has nothing left to add (`EndInv`). From it, at
a verdict, follow both directions: by induction over the layers all that the graph
reaches, `Relaxed` reaches within as many layers, unless it rests on an operator
kept from another state (`LayersReached`); and if the graph has levelled off and its
bounds stood still, `Relaxed` never leaves what the graph holds (`NothingLeaves`),
so that no depth reaches the goal. There is no hypothesis but the assumptions:
actions, facts and operators are finite, an action has at most one operator on the one
function, numbers are integers, and of a durative action the end is an action that
achieves its goal and deletes that it runs, as a start does the opposite
(`makeInstants`). `Depth` is any natural number, so that the theorem speaks of dead
ends without a bound.

### A relaxed plan reaches the goal, and helps

Both theorems speak of the choice of a plan, whatever the orders in which the hash sets
of facts, comparators and actions are met. `LevelChosen` says what one level of
`searchRelaxedPlan` does in any of these orders (`Level`): each fact that actions of the
layers below achieve has one of them among those chosen, so has each comparator that is
not met below if an action improves it, and what the actions chosen require becomes the
goal of the level below. The choice for facts is a recursive function over the order,
whose every value keeps what was chosen before (`ChosenForFacts`); that an action of
least difficulty exists needs that difficulties are integers, and hence that sums over
finite sets are (`SumIsInt`). The invariant of the graph is `Inv` with two parts more
(`FullInv`): an action is in the graph from the first layer on in which it is applicable
(`PromptInv`), and what it adds is there one layer later (`AddsInv`).

`PlansReachTheGoal` proves `PlanReachesGoal` without further hypotheses. `ReachInv` says
of the sets of actions chosen so far: from any facts that include the state and what is
to be achieved at the present layer they lead to the goal, and every action that is in
the graph by its layer finds its facts. With nothing chosen this is the goal itself; a
level puts one set in front (`ChooseReach`); at layer 0 what is to be achieved is in
the state. That no action is chosen twice when none changes the function (`PlainInv`)
is because a no-op is preferred: an action is chosen only for a fact that no no-op
achieves, so that it entered the graph in the layer just below (`JustEntered`), and the
sets of different layers have nothing in common.

`NonGoalsGetHelp` proves `NonGoalsAreHelped`. `HelpInv` says that, as long as no action
of the first layer has been chosen, something is wanted that the state does not have: a
fact above the first layer, or a comparator not met there. It is at first, since a state
that is no goal lacks a fact of its goal: a fact of the problem's goal, or that an action
which runs has ended (`NonGoalLacks`; `Exclusive` says that it cannot both run and have
ended). It is at the next level, since an action chosen for what is wanted is of the first
layer, or wants something itself (`ActionWants`). At layer 0 nothing can be wanted. The
hypothesis `AmountsCount`, that nothing is increased or decreased by a negative amount,
is needed in `BetterFound`: of a bound that has moved, an operator that moved it is one
that `makeBetter` recognises. Without it the property is false, as said among the
findings. Operators left from earlier states are what `Early` leaves out, as before.

### What stays with TLC

- All liveness, and the fairness part of `ImplementsEvaluation`.
- The properties of `Events`, whose happenings are folds, and of
  `DerivedPredicates`, whose operators are recursive as the code is.

The library's induction theorems take an operator as a parameter and cannot be used
with the provers at hand. Where a proof needs a little induction it goes by sets: the
library's theorem that strict inclusion of finite sets is well founded gives a least
element of a finite set of integers (`Smallest`), and from it that a set of
naturals with 0 and the successor of each member has them all (`AllNumbers`), with
which the function `Relaxed` is seen to satisfy its own recursion, and `FlattenSeq`,
`Ownerships`, the sums over a set of updates and the choices of a relaxed plan theirs
(`Recursion`, `Flattened`, `SumSteps`, `ChosenForTurns`, `TurnByTurn`). Powers of two, in `FailCountsAgree`, are counted as subsets.

## Not modelled

The planner:

- Simulated annealing: what it accepts is decided by chance and by a temperature in
  floating point. Its use of the threads, the look-ahead state evaluated beside
  them, is that of `IdentidemRound`.
- The genetic search: every choice of its operators is random, and it promises
  nothing of the states it keeps.
- `HillClimbingSearch`, `BestFirstSearch`, `BreadthFirstSearch` and the limited
  search: no algorithm of the driver starts them.
- Of relaxed planning graphs: several functions and their sums, durations as
  functions, scaling; mutexes, which `RelaxedPlanningGraph` never has.
- Numeric functions outside `PlanningGraph`, and metrics, which no control modelled
  here depends on.
- Scheduling: the driver has it commented out. Grounding: an enumeration before the
  search starts. The parser: generated by JavaCC.
- The distribution of random choices; which are possible is modelled.

The validator:

- Continuous change beyond a constant rate of one fluent: polynomials of higher
  degree, exponentials and their roots, all in floating point; durative actions that
  change a fluent while they run, and invariants over an interval; comparisons with
  "="; disjunctions and quantifiers in the conditions of events.
- The constraint `after`; scaling updates and effects under quantifiers; constraints on
  the duration that are tested at the end of an action (`Plan.cpp:1815`): the durations
  an action allows are tested at its start.
- The parser (`pddl+.cpp`, the lexer), generated by bison and flex; the syntax tree;
  output, LaTeX, Gantt charts.
- Type inference, instantiation, SAS and the simple evaluator: analyses of a domain
  for other tools, of which the validation of a plan uses the ranges of types.
- Repair advice and robustness: advice after the verdict, and statistics over many
  perturbed executions of what is modelled.

Most of the repository's C++ lines are in these: the generated parser, the
analyses, the numerics and the output are far more than the execution of a plan.

## What could come next

- Durative actions that change fluents while they run: invariants over an interval
  and the comparisons of several fluents, whose crossings lie at fractions.
- The relaxed planning graph with several functions, and with the searches instead
  of the function `H` they are modelled over.
- `EventsAreQuiet` and `ProcessesFollowState` as theorems, by the induction over an order
  that the choice of a relaxed plan is proved with.
