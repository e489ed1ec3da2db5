---------------------------- MODULE PlanningGraph ----------------------------
(***************************************************************************)
(* The planner's relaxed planning graph (PlanningGraph.java and its three  *)
(* subclasses): a state is evaluated by building layers of facts and       *)
(* actions, deletes ignored, until the goal is met or nothing is new, and  *)
(* by choosing actions for the goal from the last layer down.  The length  *)
(* of this relaxed plan is the state's value; a state without one is taken *)
(* for a dead end.  One graph evaluates many states, one after another.    *)
(*                                                                         *)
(* The problem has one numeric function, of which only actions require     *)
(* anything: for a goal that did, the graph could not be constructed, as   *)
(* setGoal is called before the fields it needs are there.                 *)
(*                                                                         *)
(* Each layer has an upper and a lower bound of the function.  An action   *)
(* is [name, pre, add, del, cmp, ops]: the facts it requires, adds and     *)
(* deletes, what it requires of the function and how it changes it.  A     *)
(* comparator [fun, shift, op, val] compares the function, or zero when    *)
(* fun is FALSE, plus shift with val.  A durative action is [start, end,   *)
(* join, goal]: its two parts and the facts that tie them, dummyJoin and   *)
(* dummyGoal.                                                              *)
(*                                                                         *)
(* Hash sets are iterated over in any order.                               *)
(***************************************************************************)
EXTENDS Integers, FiniteSets, SequencesExt

CONSTANTS
    Problems,        \* [actions, durative, facts, number, goal]
    MaxEvaluations,  \* bound on the number of states evaluated
    Depth            \* how many layers deep a goal is looked for by the properties

VARIABLES
    problem,
    state,       \* the state evaluated, [facts, number]
    factLayer,   \* the layer of each fact, -1 if it is in none
    actionLayer, \* that of each action
    high, low,   \* the bounds of the function, one for each layer
    operators,   \* the actions whose operators count (resOps)
    ready,       \* actions whose facts are there and whose comparators are not met
    pc,          \* idle, build, extract, found or null
    goals,       \* the facts and the comparators of actions
    comparators, \* to be achieved at ...
    layer,       \* ... this layer (num_layers while the graph is built)
    plan,        \* the actions chosen, a set for each layer
    evaluations,
    kept         \* history: the operators this evaluation found in the graph

graph == <<factLayer, actionLayer, high, low, operators, ready>>
extraction == <<goals, comparators, plan>>
vars == <<problem, state, graph, extraction, layer, pc, evaluations, kept>>

-----------------------------------------------------------------------------
NoOp(p) == [name |-> p, pre |-> {p}, add |-> {p}, del |-> {}, cmp |-> {}, ops |-> {}]

\* The facts the actions name, and those of a state and the goal.
KnownFacts(d) == UNION {a.pre \cup a.add \cup a.del : a \in d.actions}
Facts(d) == KnownFacts(d) \cup d.facts \cup d.goal

\* The facts and the actions are finitely many, and each action changes the
\* function at most once.  The end of a durative action adds the fact that it has
\* ended and deletes that it runs, and its start does the opposite (makeInstants).
ASSUME ProblemsAssumption ==
    \A d \in Problems :
        /\ IsFiniteSet(d.actions) /\ IsFiniteSet(Facts(d)) /\ d.number \in Int
        /\ \A a \in d.actions :
              /\ IsFiniteSet(a.cmp) /\ IsFiniteSet(a.ops) /\ Cardinality(a.ops) <= 1
              /\ \A o \in a.ops : o.type \in {"assign", "increase", "decrease"} /\ o.by \in Int
              /\ \A c \in a.cmp :
                    c.op \in {">=", ">", "<=", "<", "="} /\ c.shift \in Int /\ c.val \in Int
        /\ \A e \in d.durative :
              /\ e.end \in d.actions /\ e.goal \in e.end.add
              /\ ~ ({e.join, e.goal} \subseteq d.facts)
              /\ \A a \in d.actions : /\ e.join \in a.add => e.goal \in a.del \ a.add
                                      /\ e.goal \in a.add => e.join \in a.del \ a.add

ASSUME DepthAssumption == Depth \in Nat

NoOps == {NoOp(p) : p \in KnownFacts(problem)}
Actions == problem.actions \cup NoOps

\* The facts and actions in the graph when a layer has been built.
FactsAt(k) == {p \in DOMAIN factLayer : factLayer[p] \in 0..k}
ActionsAt(k) == {a \in Actions : actionLayer[a] \in 0..k}

\* PGBinaryComparator.met, given the bounds of a layer.
Met(c, hi, lo) ==
    LET left(v) == (IF c.fun THEN v ELSE 0) + c.shift
    IN  CASE c.op = ">=" -> left(hi) >= c.val
          [] c.op = ">" -> left(hi) > c.val
          [] c.op = "<=" -> left(lo) <= c.val
          [] c.op = "<" -> left(lo) < c.val
          [] c.op = "=" -> left(hi) >= c.val /\ left(lo) <= c.val

MetAt(c, k) == Met(c, high[k + 1], low[k + 1])

\* PGResourceOperator.maximise of the upper, or minimise of the lower bound.
Operate(o, v) ==
    CASE o.type = "assign" -> o.by
      [] o.type = "increase" -> v + o.by
      [] o.type = "decrease" -> v - o.by

OperatorsOf(acts) == UNION {a.ops : a \in acts}

\* updateResourceValues: each operator that exceeds the bound replaces what
\* another one has set, so that the last of them counts, not the greatest.
NextHigh ==
    LET raised == {v \in {Operate(o, Last(high)) : o \in OperatorsOf(operators')} : v > Last(high)}
    IN  IF raised = {} THEN {Last(high)} ELSE raised

NextLow ==
    LET lowered == {v \in {Operate(o, Last(low)) : o \in OperatorsOf(operators')} : v < Last(low)}
    IN  IF lowered = {} THEN {Last(low)} ELSE lowered

-----------------------------------------------------------------------------
\* States, as the searches make them.

HoldsIn(c, v) == Met(c, v, v)

IsApplicable(a, s) == a.pre \subseteq s.facts /\ \A c \in a.cmp : HoldsIn(c, s.number)

\* STRIPSState.apply
Apply(a, s) ==
    [facts |-> (s.facts \ a.del) \cup a.add,
     number |-> IF a.ops = {} THEN s.number ELSE Operate(CHOOSE o \in a.ops : TRUE, s.number)]

InitialState == [facts |-> problem.facts, number |-> problem.number]
Successors == {Apply(a, state) : a \in {b \in problem.actions : IsApplicable(b, state)}}

\* Fault: what runs may go on.
GoalWithoutEnds(s) == problem.goal

\* setGoal and addEndActionGoals: what has been started must be ended, too.
\* The open actions of a state are those whose join fact holds.
GoalOf(s) == problem.goal \cup {d.goal : d \in {e \in problem.durative : e.join \in s.facts}}

Init ==
    /\ problem \in Problems
    /\ state = InitialState
    /\ factLayer = [p \in Facts(problem) |-> -1]
    /\ actionLayer = [a \in Actions |-> -1]
    /\ high = <<>> /\ low = <<>> /\ operators = {} /\ ready = {}
    /\ goals = {} /\ comparators = {} /\ plan = <<>>
    /\ layer = 0 /\ pc = "idle" /\ evaluations = 0 /\ kept = {}

\* getPlan for a state a search comes to: setInitial, resetAll, which leaves the
\* operators of earlier states where they are, and the first layer of facts.
Evaluate(s) ==
    /\ pc \in {"idle", "found", "null"} /\ evaluations < MaxEvaluations
    /\ state' = s
    /\ factLayer' = [p \in DOMAIN factLayer |-> IF p \in s.facts THEN 0 ELSE -1]
    /\ actionLayer' = [a \in Actions |-> -1]
    /\ high' = <<s.number>> /\ low' = <<s.number>>
    /\ ready' = {} /\ kept' = operators
    /\ goals' = GoalOf(s) /\ comparators' = {} /\ plan' = <<>>
    /\ layer' = 0 /\ pc' = "build" /\ evaluations' = evaluations + 1
    /\ UNCHANGED <<problem, operators>>

\* Fault: an action whose last condition is not new is left out.
AvailableIfAllNew(k) ==
    {a \in Actions : actionLayer[a] < 0 /\ a.pre # {} /\ \A p \in a.pre : factLayer[p] = k}

\* getAvailableActions counts, for each action, its conditions as they enter
\* the graph; an action without any is never counted.
Available(k) ==
    {a \in Actions : actionLayer[a] < 0 /\ a.pre \subseteq FactsAt(k) /\ \E p \in a.pre : factLayer[p] = k}

\* actionReady
ActionReady(a, k) == \A c \in a.cmp : MetAt(c, k)

\* goalMet, of the layer just built.
GoalMet == \A p \in goals : factLayer'[p] >= 0

\* One turn of getPlan: createActionLayer, createFactLayer, and the tests for
\* the goal and for level-off.  The changes of the bounds are counted, but
\* NUMERIC_LIMIT never decides, since the count is set to zero unless the graph
\* has levelled off anyway.
AddLayer ==
    /\ pc = "build"
    /\ LET candidates == Available(layer) \cup ready
           filtered == {a \in candidates : ActionReady(a, layer)}
           newFacts == {p \in UNION {a.add : a \in filtered} : factLayer[p] < 0}
           levelOff == Available(layer) \cup filtered = {}
       IN  /\ actionLayer' = [a \in Actions |-> IF a \in filtered THEN layer ELSE actionLayer[a]]
           /\ factLayer' = [p \in DOMAIN factLayer |-> IF p \in newFacts THEN layer + 1 ELSE factLayer[p]]
           /\ operators' = operators \cup {a \in filtered : a.ops # {}}
           /\ ready' = candidates \ filtered
           /\ \E hi \in NextHigh, lo \in NextLow : high' = Append(high, hi) /\ low' = Append(low, lo)
           /\ pc' = CASE GoalMet -> "extract" [] ~GoalMet /\ levelOff -> "null" [] OTHER -> "build"
    /\ layer' = layer + 1
    /\ UNCHANGED <<problem, state, extraction, evaluations, kept>>

-----------------------------------------------------------------------------
\* searchRelaxedPlan

\* Fault: an action of the layer itself may be chosen.
EligibleInclusive(p, l) == {a \in ActionsAt(l) : p \in a.add}

\* The actions that may achieve a fact of layer l.
Eligible(p, l) == {a \in ActionsAt(l - 1) : p \in a.add}

Difficulty(a) == SumFunction([p \in a.pre |-> factLayer[p]])

\* A no-op or an action already chosen, otherwise one of the least difficulty.
Achievers(p, l, chosen) ==
    LET preferred == Eligible(p, l) \cap (NoOps \cup chosen)
    IN  IF preferred # {} THEN preferred
        ELSE {a \in Eligible(p, l) : \A b \in Eligible(p, l) : Difficulty(a) <= Difficulty(b)}

\* What may be chosen when a fact has had its turn.
WithAchiever(p, l, chosen) ==
    IF Achievers(p, l, chosen) = {} THEN {chosen}
    ELSE {chosen \cup {a} : a \in Achievers(p, l, chosen)}

\* The sets of actions that may be chosen for the facts, in that order.
ChosenFor(order, l) ==
    LET after[i \in 0..Len(order)] ==
            IF i = 0 THEN {{}}
            ELSE UNION {WithAchiever(order[i], l, chosen) : chosen \in after[i - 1]}
    IN  after[Len(order)]

\* PGBinaryComparator.makeBetter, of an operator or an action.
MakesBetter(c, o) ==
    CASE c.op \in {">", ">="} -> c.fun /\ o.type \in {"assign", "increase"}
      [] c.op \in {"<", "<="} -> c.fun /\ o.type \in {"assign", "decrease"}
      [] c.op = "=" -> TRUE

Improves(c, a) == \E o \in a.ops : MakesBetter(c, o)

\* affect and invertFunction: the comparator before the operator.
Affect(c, o) ==
    CASE ~c.fun -> c
      [] c.fun /\ o.type = "assign" -> [c EXCEPT !.fun = FALSE, !.shift = o.by]
      [] c.fun /\ o.type = "increase" -> [c EXCEPT !.shift = @ - o.by]
      [] c.fun /\ o.type = "decrease" -> [c EXCEPT !.shift = @ + o.by]

Regress(c, a) == FoldSet(LAMBDA o, d : IF MakesBetter(d, o) THEN Affect(d, o) ELSE d, c, a.ops)

Better(c, l) == {a \in ActionsAt(l - 1) : Improves(c, a)}

Take(r, a) == [acts |-> r.acts \cup {a}, cmp |-> Regress(r.cmp, a)]

Turn(r, a, l) == IF ~MetAt(r.cmp, l - 1) /\ a \in Better(r.cmp, l) THEN Take(r, a) ELSE r

\* The comparator and the actions taken for it when some have had their turn.
AfterTurns(c, order, l) ==
    LET after[i \in 0..Len(order)] ==
            IF i = 0 THEN [acts |-> {}, cmp |-> c] ELSE Turn(after[i - 1], order[i], l)
    IN  after[Len(order)]

\* Actions that make a comparator better are chosen until it is met a layer
\* below; when there are no more of them, the last action of all is chosen,
\* whatever it is.
Improvements(c, l) ==
    LET ending(r, a) == IF MetAt(r.cmp, l - 1) THEN r ELSE Take(r, a)
    IN  IF MetAt(c, l - 1) THEN {[acts |-> {}, cmp |-> c]}
        ELSE UNION {{ending(AfterTurns(c, order, l), a) : order \in SetToSeqs(Better(c, l) \ {a})} :
                       a \in Actions}

WithImprovement(c, l, all) ==
    {[acts |-> r.acts \cup b.acts, cmps |-> r.cmps \cup {b.cmp}] : r \in all, b \in Improvements(c, l)}

\* The same for all comparators, in any order: each has its own actions.
ImprovementsOf(cmps, l) ==
    LET order == SetToSeq(cmps)
        after[i \in 0..Len(order)] ==
            IF i = 0 THEN {[acts |-> {}, cmps |-> {}]} ELSE WithImprovement(order[i], l, after[i - 1])
    IN  after[Len(order)]

\* One level of the recursion.
ChooseActions ==
    /\ pc = "extract" /\ layer > 0
    /\ \E order \in SetToSeqs(goals), numeric \in ImprovementsOf(comparators, layer) :
       \E forFacts \in ChosenFor(order, layer) :
          LET chosen == forFacts \cup numeric.acts
          IN  /\ goals' = UNION {a.pre : a \in chosen}
              /\ comparators' = numeric.cmps \cup UNION {a.cmp : a \in chosen}
              /\ plan' = <<chosen \ NoOps>> \o plan
    /\ layer' = layer - 1
    /\ UNCHANGED <<problem, state, graph, pc, evaluations, kept>>

PlannedActions == UNION Range(plan)

\* The plan is complete; the ends of the actions it starts are added to it.
FinishPlan ==
    /\ pc = "extract" /\ layer = 0
    /\ plan' = Append(plan, {d.end : d \in {e \in problem.durative : e.start \in PlannedActions}} \ PlannedActions)
    /\ pc' = "found"
    /\ UNCHANGED <<problem, state, graph, goals, comparators, layer, evaluations, kept>>

Finished == pc \in {"found", "null"} /\ evaluations = MaxEvaluations /\ UNCHANGED vars

Next ==
    \/ \E s \in {InitialState} \cup Successors : Evaluate(s)
    \/ AddLayer
    \/ ChooseActions
    \/ FinishPlan
    \/ Finished

Spec == Init /\ [][Next]_vars

-----------------------------------------------------------------------------
\* The actions that are applicable when no delete counts, given what has been
\* reached.  One that requires no fact is left out, as the graph leaves it out.
On(below) ==
    {a \in problem.actions :
        /\ a.pre # {} /\ a.pre \subseteq below.facts
        /\ \A c \in a.cmp : Met(c, below.high, below.low)}

\* The values of the function one layer above the value v.
ValuesAbove(below, v) == {v} \cup {Operate(o, v) : o \in OperatorsOf(On(below))}

LayerAbove(below) ==
    [facts |-> below.facts \cup UNION {a.add : a \in On(below)},
     high |-> Max(ValuesAbove(below, below.high)), low |-> Min(ValuesAbove(below, below.low))]

\* What can be reached within k layers.
Relaxed[k \in Nat] ==
    IF k = 0 THEN [facts |-> state.facts, high |-> state.number, low |-> state.number]
    ELSE LayerAbove(Relaxed[k - 1])

ReachedWithin(k) == GoalOf(state) \subseteq Relaxed[k].facts

\* Whether the graph began with an operator of an action that was not
\* applicable yet (resetAll).
Early == \E a \in kept : actionLayer[a] # 0

\* Whether the bounds were still changing in the last layer.
Moving ==
    high[Len(high)] # high[Len(high) - 1] \/ low[Len(low)] # low[Len(low) - 1]

\* A state without a relaxed plan is a dead end, and one with a plan is not, as
\* far as the relaxation can tell (getPlan): but for a graph that levelled off
\* with its bounds still moving, which NUMERIC_LIMIT does not prevent, and for
\* operators left from another state.
DeadEndsAreDead ==
    /\ pc = "null" => Moving \/ ~ReachedWithin(Depth)
    /\ pc = "found" => Early \/ ReachedWithin(Len(high) - 1)

\* The relaxed plan (searchRelaxedPlan) reaches every fact of the goal, the ends
\* of running actions included, when its actions are applied as far as they are
\* applicable; every action chosen from the layers below is.  Unless actions change
\* the function none is counted twice.
PlanReachesGoal ==
    pc = "found" =>
        LET factsAfter[i \in 0..Len(plan)] ==
                IF i = 0 THEN state.facts
                ELSE factsAfter[i - 1]
                         \cup UNION {a.add : a \in {b \in plan[i] : b.pre \subseteq factsAfter[i - 1]}}
        IN  /\ GoalOf(state) \subseteq factsAfter[Len(plan)]
            /\ \A i \in 1..Len(plan) - 1 : \A a \in plan[i] \cap ActionsAt(i - 1) :
                   a.pre \subseteq factsAfter[i - 1]
            /\ OperatorsOf(problem.actions) = {} =>
                   \A i, j \in 1..Len(plan) : i # j => plan[i] \cap plan[j] = {}

\* goalReached: nothing runs, and the goal holds.
IsGoal(s) ==
    problem.goal \subseteq s.facts /\ \A d \in problem.durative : d.join \notin s.facts

\* A goal has the value zero; every other state with a relaxed plan has a
\* greater value and an applicable action in the first layer of the plan, so
\* that the helpful filter offers something (calculateRP), but for operators
\* left from another state.
NonGoalsAreHelped ==
    pc = "found" =>
        IF IsGoal(state) THEN PlannedActions = {}
        ELSE Early \/ \E a \in PlannedActions : actionLayer[a] = 0 /\ IsApplicable(a, state)
=============================================================================
