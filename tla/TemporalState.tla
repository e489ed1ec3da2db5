---------------------------- MODULE TemporalState ----------------------------
(***************************************************************************)
(* The planner's state, javaff.planning.TemporalMetricState: a set of      *)
(* facts, the durative actions that have started and not ended, the list   *)
(* of propositions those need kept true, the actions still offered, and    *)
(* the plan that led here.  A durative action is split, when the problem   *)
(* is grounded, into a start and an end action tied by two dummy facts.    *)
(*                                                                         *)
(* A behaviour is one path a search can walk: apply an applicable action,  *)
(* take the resulting state, repeat.  Search identifies states by their    *)
(* facts alone (equals and hashCode), so what the rest of a state adds to  *)
(* its facts matters to every visited list and to the plan history.        *)
(***************************************************************************)
EXTENDS Naturals, Sequences, FiniteSets

CONSTANTS
    Props,          \* the propositions of the problem
    Instants,       \* names of ground instantaneous actions
    Duratives,      \* names of ground durative actions
    InstantDef,     \* [Instants -> cond, add, del]
    StartDef,       \* [Duratives -> cond, add, del]: the at-start part
    EndDef,         \* [Duratives -> cond, add, del]: the at-end part
    Invariant,      \* [Duratives -> propositions kept true over all]
    InitialFacts,
    GoalProps,
    Guides,         \* where searches take the next action from, see Candidates
    MaxPlanLength   \* bound on the length of a path

Parts == [cond : SUBSET Props, add : SUBSET Props, del : SUBSET Props]

ASSUME DefAssumption ==
    /\ InstantDef \in [Instants -> Parts]
    /\ StartDef \in [Duratives -> Parts]
    /\ EndDef \in [Duratives -> Parts]
    /\ Invariant \in [Duratives -> SUBSET Props]
    /\ InitialFacts \subseteq Props
    /\ GoalProps \subseteq Props
    /\ Guides \subseteq {"null", "helpful", "lookahead"}
    /\ MaxPlanLength \in Nat

ASSUME FiniteAssumption == IsFiniteSet(Duratives)

(***************************************************************************)
(* The facts makeInstants invents: Join(d) holds while d runs, Done(d)     *)
(* after it has ended.                                                     *)
(***************************************************************************)
Join(d) == <<"i", d>>
Done(d) == <<"g", d>>
Fact == Props \cup {Join(d) : d \in Duratives} \cup {Done(d) : d \in Duratives}

ASSUME DummiesAreFresh ==
    \A d \in Duratives : Join(d) \notin Props /\ Done(d) \notin Props

\* A start effect that destroys an "over all" condition of its own action
\* describes an action that can never hold its invariant.
ASSUME StartsKeepTheirInvariant ==
    \A d \in Duratives :
        Invariant[d] \cap StartDef[d].del \subseteq StartDef[d].add

(***************************************************************************)
(* Ground actions and what each requires, adds and deletes.                *)
(***************************************************************************)
Instant(n) == [kind |-> "instant", name |-> n]
Start(d) == [kind |-> "start", name |-> d]
End(d) == [kind |-> "end", name |-> d]
Action ==
    {Instant(n) : n \in Instants} \cup {Start(d) : d \in Duratives}
                                  \cup {End(d) : d \in Duratives}

StartCondition(d) == StartDef[d].cond \cup (Invariant[d] \ StartDef[d].add)
EndCondition(d) == EndDef[d].cond \cup Invariant[d] \cup {Join(d)}

Condition(a) ==
    CASE a.kind = "instant" -> InstantDef[a.name].cond
      [] a.kind = "start" -> StartCondition(a.name)
      [] a.kind = "end" -> EndCondition(a.name)

Adds(a) ==
    CASE a.kind = "instant" -> InstantDef[a.name].add
      [] a.kind = "start" -> StartDef[a.name].add \cup {Join(a.name)}
      [] a.kind = "end" -> EndDef[a.name].add \cup {Done(a.name)}

\* Fault: the end of an action leaves its join fact standing.
DeletesKeepingJoin(a) ==
    CASE a.kind = "instant" -> InstantDef[a.name].del
      [] a.kind = "start" -> StartDef[a.name].del \cup {Done(a.name)}
      [] a.kind = "end" -> EndDef[a.name].del

Deletes(a) ==
    CASE a.kind = "instant" -> InstantDef[a.name].del
      [] a.kind = "start" -> StartDef[a.name].del \cup {Done(a.name)}
      [] a.kind = "end" -> EndDef[a.name].del \cup {Join(a.name)}

OwnInvariant(a) == IF a.kind = "instant" THEN {} ELSE Invariant[a.name]

VARIABLES
    facts,
    open,        \* openActions
    invariants,  \* the list as a bag: how many times each proposition is in it
    actions,     \* what NullFilter iterates over
    plan,
    guide        \* where this path's actions come from

vars == <<facts, open, invariants, actions, plan, guide>>

GoalReached == open = {} /\ GoalProps \subseteq facts

\* Fault: every copy of the action's own invariants is taken out, not one.
CheckAvailabilityOfOthers(a) ==
    \A p \in Deletes(a) \cap Props :
        invariants[p] = 0 \/ p \in OwnInvariant(a)

(***************************************************************************)
(* checkAvailability: with one copy of the action's own invariants taken   *)
(* out, no listed proposition may be deleted.  The schedulability test of  *)
(* the same method, which can only refuse more, is left out.               *)
(***************************************************************************)
CheckAvailability(a) ==
    \A p \in Deletes(a) \cap Props :
        invariants[p] = 0 \/ (p \in OwnInvariant(a) /\ invariants[p] = 1)

IsApplicable(a) == Condition(a) \subseteq facts /\ CheckAvailability(a)

\* Fault: the whole problem's actions are offered in every state.
NullFilterOverAll == {a \in Action : IsApplicable(a)}

(***************************************************************************)
(* NullFilter offers the applicable members of the state's own action set. *)
(* HelpfulFilter and applyRPG take actions from a relaxed plan, built over *)
(* all ground actions, and ask only that they be applicable.  A helpful    *)
(* action was put in the plan for a fact its state lacks; applyRPG applies *)
(* the whole plan of an earlier state, so any applicable action may come.  *)
(***************************************************************************)
NullFilter == {a \in actions : IsApplicable(a)}
LookAhead == {a \in Action : IsApplicable(a)}
HelpfulFilter == {a \in LookAhead : ~ Adds(a) \subseteq facts}

Candidates ==
    IF guide = "null" THEN NullFilter
    ELSE IF guide = "helpful" THEN HelpfulFilter
    ELSE LookAhead

Init ==
    /\ facts = InitialFacts
    /\ open = {}
    /\ invariants = [p \in Props |-> 0]
    /\ actions = {Instant(n) : n \in Instants} \cup {Start(d) : d \in Duratives}
    /\ plan = <<>>
    /\ guide \in Guides

\* What STRIPSState.apply does for every action: delete, add, extend the plan.
ApplyEffects(a) ==
    /\ a \in Candidates
    /\ Len(plan) < MaxPlanLength
    /\ facts' = (facts \ Deletes(a)) \cup Adds(a)
    /\ plan' = Append(plan, a)
    /\ UNCHANGED guide

(***************************************************************************)
(* The list of invariants with those of d added, and with one occurrence   *)
(* of each of them removed.                                                *)
(***************************************************************************)
ListedFor(d) ==
    [p \in Props |->
        IF p \in Invariant[d] THEN invariants[p] + 1 ELSE invariants[p]]

\* Fault: every occurrence goes.
AllUnlistedFor(d) ==
    [p \in Props |-> IF p \in Invariant[d] THEN 0 ELSE invariants[p]]

\* Fault: nothing goes.
NoneUnlistedFor(d) == invariants

UnlistedFor(d) ==
    [p \in Props |->
        IF p \in Invariant[d] /\ invariants[p] > 0
        THEN invariants[p] - 1 ELSE invariants[p]]

ApplyInstant(n) ==
    /\ ApplyEffects(Instant(n))
    /\ UNCHANGED <<open, invariants, actions>>

ApplyStart(d) ==
    /\ ApplyEffects(Start(d))
    /\ open' = open \cup {d}
    /\ invariants' = ListedFor(d)
    /\ actions' = (actions \ {Start(d)}) \cup {End(d)}

ApplyEnd(d) ==
    /\ ApplyEffects(End(d))
    /\ open' = open \ {d}
    /\ invariants' = UnlistedFor(d)
    /\ actions' = (actions \ {End(d)}) \cup {Start(d)}

Next ==
    \/ \E n \in Instants : ApplyInstant(n)
    \/ \E d \in Duratives : ApplyStart(d) \/ ApplyEnd(d)

Spec == Init /\ [][Next]_vars

-----------------------------------------------------------------------------

TypeOK ==
    /\ facts \subseteq Fact
    /\ open \subseteq Duratives
    /\ invariants \in [Props -> Nat]
    /\ actions \subseteq Action
    /\ plan \in Seq(Action)
    /\ guide \in Guides

(***************************************************************************)
(* The facts determine which durative actions run: equals and hashCode may *)
(* leave openActions out, and no visited list, next-state set or history   *)
(* entry confuses a state with a running action and one without.           *)
(***************************************************************************)
FactsTellWhatRuns ==
    \A d \in Duratives :
        /\ d \in open <=> Join(d) \in facts
        /\ ~(Join(d) \in facts /\ Done(d) \in facts)

(***************************************************************************)
(* The state offers, for each durative action, its end while it runs and   *)
(* its start otherwise, never both: the add and remove of applySplit never *)
(* get out of step with openActions.                                       *)
(***************************************************************************)
OffersEndIffRunning ==
    \A d \in Duratives :
        /\ End(d) \in actions <=> d \in open
        /\ Start(d) \in actions <=> d \notin open

(***************************************************************************)
(* The conditions a running action needs throughout hold as long as it     *)
(* runs, whatever is applied meanwhile and however many running actions    *)
(* share a condition: checkAvailability and the list of invariants, with   *)
(* one copy removed when an action ends, protect them.                     *)
(***************************************************************************)
InvariantsHold == \A d \in open : Invariant[d] \subseteq facts

Holders(p) == {d \in open : p \in Invariant[d]}

\* Each proposition is in the list at least once per running action that
\* needs it: what makes InvariantsHold inductive.
EveryHolderCounted == \A p \in Props : invariants[p] >= Cardinality(Holders(p))

(***************************************************************************)
(* Along actions of the null filter no occurrence is left behind either:   *)
(* the list holds a proposition exactly once per running action that needs *)
(* it, so ending an action lifts all the protection its start put in place.*)
(***************************************************************************)
NoStaleProtection ==
    guide = "null" => \A p \in Props : invariants[p] = Cardinality(Holders(p))

Occurrences(a) == {i \in DOMAIN plan : plan[i] = a}

(***************************************************************************)
(* In a plan of the null filter's actions, starts and ends of one durative *)
(* action alternate, a start first, and only a running action lacks its    *)
(* end: the plan of a goal state can be executed as a temporal plan.  The  *)
(* helpful filter, which asks isApplicable only, may start an action that  *)
(* is running.                                                             *)
(***************************************************************************)
StartsAndEndsAlternate ==
    guide = "null" => \A d \in Duratives :
        LET Earlier(a, i) == Cardinality({j \in Occurrences(a) : j < i})
            Begun(i) == Earlier(Start(d), i)
            Ended(i) == Earlier(End(d), i)
        IN  /\ \A i \in Occurrences(Start(d)) : Begun(i) = Ended(i)
            /\ \A i \in Occurrences(End(d)) : Begun(i) = Ended(i) + 1
            /\ GoalReached =>
                   Cardinality(Occurrences(Start(d))) = Cardinality(Occurrences(End(d)))

=============================================================================
