--------------------------- MODULE PlanExecution ---------------------------
(***************************************************************************)
(* The execution of a plan by the validator VAL (Validator.cpp, Plan.h,    *)
(* Plan.cpp, State.cpp, Action.cpp).  The snap actions of a plan that have *)
(* one time make up a happening.  An iterator goes from happening to       *)
(* happening, and between two of them to the check of the invariants of    *)
(* the durative actions that are running (its ExecutionContext).  Every    *)
(* step first shows the state to the trajectory monitor, then progresses   *)
(* it; the execution stops at the first step that fails, unless VAL was    *)
(* told to continue anyway, and the goal is checked in the state reached.  *)
(*                                                                         *)
(* Events, processes and continuous effects are left out here (Events has  *)
(* the first two); conditions are sets of propositions that must be true,  *)
(* and fluents that must be positive.                                      *)
(*                                                                         *)
(* A domain maps every operator to [durative, durations, cond, effects,    *)
(* when], as it is written: conditions [at, of] and effects [at, add, del, *)
(* upd] are at the "start", at the "end" or "over" all, and "when" holds   *)
(* the conditional effects, [cond, effects].  What is not durative has     *)
(* everything at the start.                                                *)
(***************************************************************************)
EXTENDS Integers, FiniteSets, FiniteSetsExt, Ownership, TrajectoryMonitor

CONSTANTS
    Domains,         \* the domains, by their names
    Problems,        \* the problems, with their plans, that are executed
    ContinueAnyway   \* whether VAL goes on after a failure (its option -c)

\* The steps of a plan are finitely many, have times from 0 on and do not end
\* before they start, though the parser takes any numbers; each has an action
\* of its own, as each has an object of its own in the validator.  The parser
\* gives a hold-after its time as from, and no deadline.
ASSUME ProblemsAssumption ==
    \A pr \in Problems :
        /\ pr.domain \in DOMAIN Domains /\ pr.vals \in [Fluents -> Int]
        /\ IsFiniteSet(pr.plan)
        /\ \A s \in pr.plan :
              /\ s.op \in DOMAIN Domains[pr.domain] /\ s.start \in Nat /\ s.end \in Nat
              /\ s.start <= s.end
        /\ \A s1, s2 \in pr.plan : s1.op = s2.op => s1 = s2
        /\ \A c \in pr.constraints :
              /\ c.kind \in ConstraintKinds /\ c.from \in Int /\ c.by \in Int
              /\ c.kind = "hold-after" => c.by = 0

VARIABLES
    problem,     \* [domain, init, vals, goal, constraints, plan]
    next,        \* the time of the happening the iterator points at
    kind,        \* what the iterator executes: REGULAR, INVARIANT or END
    invariants,  \* the operators whose invariant is in the context
    monitors,    \* the conditional effects <<operator, monitor>> in the context
    status,      \* those of them that may still apply
    state,       \* the propositions that are true (State::logState)
    values,      \* the values of the fluents (State::feValue)
    time,        \* the time of the state
    tjm,         \* the trajectory monitor
    isOK,        \* whether the last step was all right
    phase,       \* execute, goal, valid or invalid
    trace        \* history: the states the happenings led to, with their times

context == <<invariants, monitors, status>>
vars == <<problem, next, kind, context, state, values, time, tjm, isOK, phase, trace>>

-----------------------------------------------------------------------------
(* Building the plan: durative actions are split into their two ends.        *)

\* handleDAgoals
Goals(cond, at) == {g.of : g \in {g \in cond : g.at = at}}

\* handleDAeffects
Effects(effects, at) ==
    LET es == {e \in effects : e.at = at} IN
    [add |-> UNION {e.add : e \in es}, del |-> UNION {e.del : e \in es},
     upd |-> UNION {e.upd : e \in es}]

NoEffect == [add |-> {}, del |-> {}, upd |-> {}]

OnlyAtStart(w) ==
    /\ Effects(w.effects, "end") = NoEffect
    /\ Goals(w.cond, "over") = {} /\ Goals(w.cond, "end") = {}

\* Fault: a condition over all is forgotten if there is none at the start.
OnlyAtEndOrOver(w) == ~OnlyAtStart(w) /\ Goals(w.cond, "start") = {}

\* Neither of the two: the effect spans the action and gets a monitor.
OnlyAtEnd(w) ==
    ~OnlyAtStart(w) /\ Goals(w.cond, "start") = {} /\ Goals(w.cond, "over") = {}

\* The conditional effects of one end.  An effect of the start with one of the
\* end is for the start, too.
HandleConditional(when, at) ==
    {[cond |-> Goals(w.cond, at), effect |-> Effects(w.effects, at), written |-> w] :
        w \in {w \in when : IF at = "end" THEN OnlyAtEnd(w)
                            ELSE OnlyAtStart(w) \/ Effects(w.effects, "start") # NoEffect}}

\* The condition a spanning effect has at the end is kept, with all that was
\* written, but never evaluated.
MonitorsOf(when) ==
    {[atStart |-> Goals(w.cond, "start"), overAll |-> Goals(w.cond, "over"),
      effect |-> Effects(w.effects, "end"), written |-> w] :
        w \in {w \in when : ~OnlyAtStart(w) /\ ~OnlyAtEnd(w)}}

SnapAction(da, at) ==
    [pre |-> Goals(da.cond, at), effect |-> Effects(da.effects, at),
     when |-> HandleConditional(da.when, at)]

HandleDurativeAction(da) ==
    [durative |-> da.durative, durations |-> da.durations, over |-> Goals(da.cond, "over"),
     start |-> SnapAction(da, "start"), end |-> SnapAction(da, "end"),
     monitors |-> MonitorsOf(da.when)]

Built == [d \in DOMAIN Domains |->
            [o \in DOMAIN Domains[d] |-> HandleDurativeAction(Domains[d][o])]]

\* Propositions are added and deleted, fluents are updated, each of them once.
IsEffect(e) ==
    /\ e.add \subseteq Props /\ e.del \subseteq Props
    /\ \A u \in e.upd : /\ u.fluent \in Fluents /\ u.by \in Fluents \cup Int
                         /\ u.op \in Additive \cup {"assign"}
                         /\ \A v \in e.upd : u.fluent = v.fluent => u = v

\* An effect at the start that depends on more than the start is an error
\* (TemporalDAError).
ASSUME DomainsAssumption ==
    /\ Props \cap Fluents = {}
    /\ \A d \in DOMAIN Domains : \A o \in DOMAIN Domains[d] :
          /\ IsFiniteSet(Domains[d][o].when)
          /\ \A at \in {"start", "end"} :
                /\ IsEffect(Effects(Domains[d][o].effects, at))
                /\ \A w \in Domains[d][o].when : IsEffect(Effects(w.effects, at))
          /\ \A w \in Domains[d][o].when :
                Effects(w.effects, "start") # NoEffect =>
                    Goals(w.cond, "over") = {} /\ Goals(w.cond, "end") = {}

\* Conditions ask for propositions and fluents.
ASSUME ConditionsAssumption ==
    \A d \in DOMAIN Domains : \A o \in DOMAIN Domains[d] :
        \A c \in {Domains[d][o].cond} \cup {w.cond : w \in Domains[d][o].when} :
            \A g \in c : g.of \in Props \cup Fluents

-----------------------------------------------------------------------------
(* The plan: a set of steps [op, start, end].                                *)

Op(o) == Built[problem.domain][o]
Plan == problem.plan
Times == {s.start : s \in Plan} \cup {s.end : s \in {s \in Plan : Op(s.op).durative}}
Later(t) == {u \in Times : u > t}
NextTime(t) == Min(Later(t))

StartsAt(t) == {s.op : s \in {s \in Plan : s.start = t}}
EndsAt(t) == {s.op : s \in {s \in Plan : Op(s.op).durative /\ s.end = t}}

\* The actions of the happening at t, as the claimants of its ownership.
ActionsAt(t) == {<<o, "start">> : o \in StartsAt(t)} \cup {<<o, "end">> : o \in EndsAt(t)}
Snap(a) == IF a[2] = "end" THEN Op(a[1]).end ELSE Op(a[1]).start
DurationOf(o) == LET s == CHOOSE s \in Plan : s.op = o IN s.end - s.start

\* The plan is sorted by time and by the address of an action, so within a
\* happening the actions may be in any order.
Orders(t) == SetToSeqs(ActionsAt(t))

\* The monitors of the actions os.
MonitorsIn(os) == UNION {{o} \X Op(o).monitors : o \in os}

\* Whether the condition c is true of the propositions S and the values V.
IsTrue(c, S, V) == c \cap Props \subseteq S /\ \A f \in c \cap Fluents : V[f] > 0

-----------------------------------------------------------------------------
(* The iterator and its context.                                             *)

\* Both ends of an action of no duration are in one happening.
Instant(t) == StartsAt(t) \cap EndsAt(t)

\* Of the instant actions those in "late" end before they start there: the ends
\* are in the order of their addresses.
Starting(t, late) == StartsAt(t) \ (EndsAt(t) \ late)

\* Fault: an action that ends keeps its invariant in the context.
EndsKeepInvariants(inv, t, late) ==
    inv \cup {o \in StartsAt(t) : Op(o).durative /\ Op(o).over # {}}

\* adjustContext of the happening at t, just before it is executed.
AdjustInvariants(inv, t, late) ==
    (inv \ EndsAt(t)) \cup {o \in Starting(t, late) : Op(o).durative /\ Op(o).over # {}}

AdjustMonitors(mons, stat, t, late) ==
    (mons \ MonitorsIn(EndsAt(t))) \cup (MonitorsIn(Starting(t, late)) \cap stat)

HasInvariants == invariants \cup monitors # {}

\* Fault: the iterator does not stop at the invariants.
AdvanceToRegular ==
    IF Later(next) = {}
    THEN kind' = "END" /\ UNCHANGED <<next, invariants, monitors>>
    ELSE /\ kind' = "REGULAR"
         /\ next' = NextTime(next)
         /\ \E late \in SUBSET Instant(NextTime(next)) :
               /\ invariants' = AdjustInvariants(invariants, NextTime(next), late)
               /\ monitors' = AdjustMonitors(monitors, status', NextTime(next), late)

\* const_iterator::operator++
Advance ==
    IF Later(next) = {}
    THEN kind' = "END" /\ UNCHANGED <<next, invariants, monitors>>
    ELSE IF kind = "REGULAR" /\ HasInvariants
    THEN kind' = "INVARIANT" /\ UNCHANGED <<next, invariants, monitors>>
    ELSE /\ kind' = "REGULAR"
         /\ next' = NextTime(next)
         /\ \E late \in SUBSET Instant(NextTime(next)) :
               /\ invariants' = AdjustInvariants(invariants, NextTime(next), late)
               /\ monitors' = AdjustMonitors(monitors, status', NextTime(next), late)

-----------------------------------------------------------------------------
(* A happening in the current state.                                         *)

\* DurativeActionElement::confirmPrecondition tests the duration at the start.
Confirmed(a) ==
    /\ IsTrue(Snap(a).pre, state, values)
    /\ a[2] = "start" /\ Op(a[1]).durative => DurationOf(a[1]) \in Op(a[1]).durations

CanHappen(t) == \A a \in ActionsAt(t) : Confirmed(a)

\* Fault: a conditional effect is monitored whatever was true at its start.
InitialNotConfirmed(t) == status

\* confirmInitialPrecondition of the monitors of the actions that start at t.
InitialStatus(t) ==
    (status \ MonitorsIn(StartsAt(t)))
        \cup {m \in MonitorsIn(StartsAt(t)) : IsTrue(m[2].atStart, state, values)}

\* Fault: a monitor that failed once is set again when its condition is true again.
StatusComesBack ==
    (status \ monitors) \cup {m \in monitors : IsTrue(m[2].overAll, state, values)}

\* confirmPrecondition of the monitors, among the invariants.
InvariantStatus == status \ {m \in monitors : ~IsTrue(m[2].overAll, state, values)}

\* What a claim is from, a conditional effect or none, is an object of its own.
Claim(by, from, req, effect) ==
    [by |-> by, from |-> from, require |-> req,
     add |-> effect.add, del |-> effect.del, upd |-> effect.upd]

\* The owner that stands for a monitor.
Name(m) == <<m[1], "monitor", m[2].written>>

\* No claimant is the owner that stands for several.
ASSUME OwnersAssumption ==
    \A d \in DOMAIN Domains : \A o \in DOMAIN Domains[d] :
        /\ Shared \notin {<<o, "start">>, <<o, "end">>}
        /\ \A w \in Domains[d][o].when : Shared # <<o, "monitor", w>>

\* A start action first claims, for its monitors, what those are to find true.
PreconditionClaims(a) ==
    LET ms == SetToSeq(IF a[2] = "start" THEN MonitorsIn({a[1]}) ELSE {})
    IN  Append([i \in DOMAIN ms |->
                   Claim(Name(ms[i]), {ms[i][2].written}, ms[i][2].atStart, NoEffect)],
               Claim(a, {}, Snap(a).pre, NoEffect))

\* What the action a claims for its effects: conditional effects are claimed
\* if they apply, and the effects of a monitor in the monitor's own name.  The
\* monitors of this happening were just asked what they find at their start.
EffectClaims(a, mark) ==
    LET ws == SetToSeq({w \in Snap(a).when : IsTrue(w.cond, state, values)})
        ms == SetToSeq(IF a[2] = "end" THEN MonitorsIn({a[1]}) \cap InitialStatus(next) ELSE {})
    IN  <<Claim(a, {}, {}, [Snap(a).effect EXCEPT !.upd = {}])>>
        \o [i \in DOMAIN ws |->
               Claim(a, {ws[i].written}, IF mark THEN ws[i].cond ELSE {}, ws[i].effect)]
        \o <<Claim(a, {}, {}, [NoEffect EXCEPT !.upd = Snap(a).effect.upd])>>
        \o [i \in DOMAIN ms |-> Claim(Name(ms[i]), {ms[i][2].written}, {}, ms[i][2].effect)]

\* Fault: the preconditions of the actions are not marked before the effects.
NothingMarked(order) == NothingOwned

\* One action alone cannot conflict, so its preconditions are not marked.
Marked(order) ==
    IF Len(order) > 1
    THEN MarkAll(NothingOwned, FlattenSeq([i \in 1..Len(order) |-> PreconditionClaims(order[i])]))
    ELSE NothingOwned

Claims(order) ==
    FlattenSeq([i \in 1..Len(order) |-> EffectClaims(order[i], Len(order) > 1)])

ValueOf(u) == IF u.by \in Fluents THEN values[u.by] ELSE u.by

NewValue(v, u) ==
    CASE u.op = "increase" -> v + ValueOf(u)
      [] u.op = "decrease" -> v - ValueOf(u)
      [] u.op = "assign"   -> ValueOf(u)

\* What a right-hand side reads is what it was before the happening.
Update(vals, c) ==
    [x \in DOMAIN vals |->
        IF UpdatesOf(c, x) = {} THEN vals[x]
        ELSE NewValue(vals[x], CHOOSE u \in UpdatesOf(c, x) : TRUE)]

\* Fault: what one action adds and another one deletes is false afterwards.
AddsThenDels(claims) ==
    (state \cup UNION {claims[i].add : i \in DOMAIN claims})
        \ UNION {claims[i].del : i \in DOMAIN claims}

\* EffectsRecord::enact: the deletes, then the adds, then the updates.
Enact(claims) ==
    (state \ UNION {claims[i].del : i \in DOMAIN claims})
        \cup UNION {claims[i].add : i \in DOMAIN claims}

EnactUpdates(claims) ==
    LET after[i \in 0..Len(claims)] ==
            IF i = 0 THEN values ELSE Update(after[i - 1], claims[i])
    IN  after[Len(claims)]

-----------------------------------------------------------------------------
Init ==
    /\ problem \in Problems
    /\ state = problem.init /\ values = problem.vals /\ time = 0
    /\ next = IF Times = {} THEN 0 ELSE Min(Times)
    /\ kind = IF Times = {} THEN "END" ELSE "REGULAR"
    /\ status = MonitorsIn({s.op : s \in Plan})
    /\ \E late \in SUBSET Instant(next) :
          /\ invariants = AdjustInvariants({}, next, late)
          /\ monitors = AdjustMonitors({}, status, next, late)
    /\ tjm = NewMonitor(problem.constraints)
    /\ isOK = TRUE /\ phase = "execute"
    /\ trace = <<[time |-> 0, state |-> problem.init, values |-> problem.vals]>>

Executing == phase = "execute" /\ kind # "END" /\ (isOK \/ ContinueAnyway)

\* Whether the trajectory monitor comes back from the look that is due.
Answering == Answers(problem.constraints, tjm, state, time)

\* executeOneStep and followThroughOneStep at a regular happening.
ExecuteRegular ==
    /\ Executing /\ kind = "REGULAR" /\ Answering
    /\ tjm' = CheckAtState(tjm, state, time)
    /\ status' = InitialStatus(next)
    /\ \E order \in Orders(next) :
          LET applied == AllGranted(Marked(order), Claims(order)) IN
          /\ time' = IF CanHappen(next) \/ ContinueAnyway THEN next ELSE time
          /\ isOK' = (NothingSerious(tjm') /\ CanHappen(next) /\ applied)
          /\ IF (CanHappen(next) \/ ContinueAnyway) /\ applied
             THEN /\ state' = Enact(Claims(order))
                  /\ values' = EnactUpdates(Claims(order))
                  /\ trace' = Append(trace,
                        [time |-> next, state |-> state', values |-> values'])
             ELSE UNCHANGED <<state, values, trace>>
    /\ Advance
    /\ UNCHANGED <<problem, phase>>

\* The same at the check of the invariants: it only changes the time.
ExecuteInvariant ==
    /\ Executing /\ kind = "INVARIANT" /\ Answering
    /\ tjm' = CheckAtState(tjm, state, time)
    /\ status' = InvariantStatus
    /\ LET hold == \A o \in invariants : IsTrue(Op(o).over, state, values) IN
       /\ time' = IF hold \/ ContinueAnyway THEN NextTime(next) ELSE time
       /\ isOK' = (NothingSerious(tjm') /\ hold)
    /\ Advance
    /\ UNCHANGED <<problem, state, values, phase, trace>>

\* execute returns: the goal is checked if the last step was all right.
EndExecution ==
    /\ phase = "execute" /\ ~Executing
    /\ phase' = IF isOK THEN "goal" ELSE "invalid"
    /\ UNCHANGED <<problem, next, kind, context, state, values, time, tjm, isOK, trace>>

\* Fault: the monitor is not asked when the goal is met.
GoalOnly ==
    /\ phase = "goal"
    /\ phase' = IF problem.goal \subseteq state THEN "valid" ELSE "invalid"
    /\ UNCHANGED <<problem, next, kind, context, state, values, time, tjm, isOK, trace>>

\* The monitor sees the final state if the goal is met.
CheckGoal ==
    /\ phase = "goal" /\ (problem.goal \subseteq state => Answering)
    /\ IF problem.goal \subseteq state
       THEN /\ tjm' = CheckFinalState(tjm, state, time)
            /\ phase' = IF NothingSerious(tjm') THEN "valid" ELSE "invalid"
       ELSE phase' = "invalid" /\ UNCHANGED tjm
    /\ UNCHANGED <<problem, next, kind, context, state, values, time, isOK, trace>>

\* The program dies in the trajectory monitor.
Crashed == ~Answering /\ (Executing \/ (phase = "goal" /\ problem.goal \subseteq state))

\* The program ends, with a verdict or none; anything else that stops is a deadlock.
Finished == (phase \in {"valid", "invalid"} \/ Crashed) /\ UNCHANGED vars

Next == ExecuteRegular \/ ExecuteInvariant \/ EndExecution \/ CheckGoal \/ Finished

Spec == Init /\ [][Next]_vars

-----------------------------------------------------------------------------
(* What a plan means, told from the states its happenings led to.            *)

\* The number of the happening at t; trace[k] is the state before the k-th.
Number(t) == Cardinality({u \in Times : u <= t})
Before(t) == trace[Number(t)]
After(t) == trace[Number(t) + 1]
Applied == {t \in Times : Number(t) < Len(trace)}
Final == trace[Len(trace)]

\* The numbers of the states in which the step s was running.
Inside(s) == (Number(s.start) + 1)..Number(s.end)

\* Whether c was true in the k-th state of the trace, or before the happening at t.
TrueIn(c, k) == IsTrue(c, trace[k].state, trace[k].values)
TrueBefore(c, t) == TrueIn(c, Number(t))

Written(s) == Domains[problem.domain][s.op]

\* Whether the conditional effect w of the step s is to happen at the end "at"
\* of it: what it requires at the start, over all and at the end was true.  A
\* condition at the end does not count beside another one.
Fires(s, w, at) ==
    LET overall == Goals(w.cond, "start") \cup Goals(w.cond, "over") IN
    /\ TrueBefore(Goals(w.cond, "start"), s.start)
    /\ at = "end" => \A k \in Inside(s) : TrueIn(Goals(w.cond, "over"), k)
    /\ at = "end" /\ overall = {} => TrueBefore(Goals(w.cond, "end"), s.end)

\* The ends of steps that are at t.
EndsOfSteps(t) ==
    {<<s, "start">> : s \in {s \in Plan : s.start = t}}
    \cup {<<s, "end">> : s \in {s \in Plan : Op(s.op).durative /\ s.end = t}}

\* Who claims the effect of w at that end: a monitor if w spans the step.
Claimant(s, w, at) ==
    IF at = "start" \/ Goals(w.cond, "start") \cup Goals(w.cond, "over") = {}
    THEN <<s.op, at>> ELSE <<s.op, "monitor", w>>

\* The effects at t, each with who it is of, and from which "when" it comes.
EffectsAt(t) ==
    UNION {
        {[by |-> <<x[1].op, x[2]>>, from |-> {}, of |-> Effects(Written(x[1]).effects, x[2])]}
        \cup {[by |-> Claimant(x[1], w, x[2]), from |-> {w}, of |-> Effects(w.effects, x[2])] :
                w \in {w \in Written(x[1]).when : Fires(x[1], w, x[2])}} : x \in EndsOfSteps(t)}

\* What the actions at t require, each with the action it is of; the condition
\* of a conditional effect counts if the effect is one of this end and happens.
RequiredAt(t) ==
    LET effects == EffectsAt(t) IN
    (UNION {{a} \X (Snap(a).pre
                       \cup UNION {w.cond : w \in {w \in Snap(a).when : TrueBefore(w.cond, t)}})
            : a \in ActionsAt(t)})
    \cup (UNION {{e.by} \X ({u.by : u \in e.of.upd} \cap Fluents) : e \in effects})
    \cup (UNION {UNION {{<<o, "monitor", w>>} \X Goals(w.cond, "start") :
                          w \in {w \in Domains[problem.domain][o].when :
                                  ~OnlyAtStart(w) /\ ~OnlyAtEnd(w)}} : o \in StartsAt(t)})

AddedAt(t) == UNION {{<<e.by, p>> : p \in e.of.add} : e \in EffectsAt(t)}
DeletedAt(t) == UNION {{<<e.by, p>> : p \in e.of.del} : e \in EffectsAt(t)}
UpdatedAt(t) == UNION {{<<e.by, u, e.from>> : u \in e.of.upd} : e \in EffectsAt(t)}

\* The actions of a happening together, in no order.
ValueAfter(f, t) ==
    LET updates == {u \in UpdatedAt(t) : u[2].fluent = f}
        amount(u) == IF u.by \in Fluents THEN Before(t).values[u.by] ELSE u.by
        change(u) == IF u[2].op = "decrease" THEN - amount(u[2]) ELSE amount(u[2])
    IN  IF \E u \in updates : u[2].op = "assign"
        THEN amount((CHOOSE u \in updates : u[2].op = "assign")[2])
        ELSE Before(t).values[f] + SumFunction([u \in updates |-> change(u)])

\* Two actions, or an action and the monitor of one, disturb each other, or a
\* fluent is set and updated by two effects, be they of one action.
Disturbs(t) ==
    LET required == RequiredAt(t)
        added == AddedAt(t)
        deleted == DeletedAt(t)
        updated == UpdatedAt(t)
        meet(A, B) == \E a \in A, b \in B : a[1] # b[1] /\ a[2] = b[2]
    IN  \/ meet(required, added \cup deleted)
        \/ meet(added, deleted)
        \/ meet(required, {<<u[1], u[2].fluent>> : u \in updated})
        \/ \E u, v \in updated : u # v /\ u[2].fluent = v[2].fluent /\ u[2].op = "assign"

\* The trajectory constraint c over the states of the trace.
Sees(k, p) == p \in trace[k].state
Stages == 1..Len(trace)
Satisfied(c) ==
    CASE c.kind = "at-end"          -> Sees(Len(trace), c.p)
      [] c.kind = "always"          -> \A k \in Stages : Sees(k, c.p)
      [] c.kind = "sometime"        -> \E k \in Stages : Sees(k, c.p)
      [] c.kind = "within"          -> \E k \in Stages : Sees(k, c.p) /\ trace[k].time <= c.by
      [] c.kind = "at-most-once"    -> ~\E i, j, k \in Stages :
                                          i < j /\ j < k /\ Sees(i, c.p) /\ ~Sees(j, c.p) /\ Sees(k, c.p)
      [] c.kind = "sometime-after"  -> \A k \in Stages : Sees(k, c.q) =>
                                          \E j \in k..Len(trace) : Sees(j, c.p)
      [] c.kind = "sometime-before" -> \A k \in Stages : Sees(k, c.q) =>
                                          \E j \in 1..(k - 1) : Sees(j, c.p)
      [] c.kind = "always-within"   -> \A k \in Stages : Sees(k, c.q) =>
                                          \E j \in k..Len(trace) :
                                              Sees(j, c.p) /\ trace[j].time <= trace[k].time + c.by
      [] c.kind = "hold-after"      -> \A k \in Stages : trace[k].time >= c.from => Sees(k, c.p)
      [] c.kind = "hold-during"     -> \A k \in Stages : InWindow(c, trace[k].time) => Sees(k, c.p)

-----------------------------------------------------------------------------
(* The properties.                                                           *)

\* Whatever the order of the actions in a happening, the state it leads to is
\* the one of all their effects together, as the domain has them: the split
\* into two ends and monitors loses no effect, and one that spans an action
\* happens just if its conditions were true at the start and in every state
\* since (handleDAConditionalEffects, CondCommunicationAction, enact).
StatesFollowThePlan ==
    \A t \in Applied : Number(t) + 1 = Len(trace) =>
        /\ After(t).state = (Before(t).state \ {d[2] : d \in DeletedAt(t)})
                                \cup {e[2] : e \in AddedAt(t)}
        /\ \A f \in Fluents : After(t).values[f] = ValueAfter(f, t)

\* A happening that was applied had no action that changes what another one
\* requires, or deletes what another one adds, unless the other one has that
\* same effect itself (Ownership, Happening::applyTo).
NoInterference ==
    \A t \in Applied : Number(t) + 1 = Len(trace) =>
        LET required == IF Cardinality(ActionsAt(t)) > 1 THEN RequiredAt(t) ELSE {}
            added == AddedAt(t)
            deleted == DeletedAt(t)
            updated == UpdatedAt(t)
            own(effects, r) == \A e \in effects : r[2] = e[2] => r[1] = e[1] \/ r \in effects
        IN  /\ \A r \in required : own(added, r) /\ own(deleted, r)
            /\ \A e \in added, d \in deleted :
                  e[2] = d[2] => e[1] = d[1] \/ <<d[1], e[2]>> \in added
            /\ \A r \in required, u \in updated : r[2] = u[2].fluent =>
                  \E v \in updated : v[1] = r[1] /\ v[2].fluent = r[2]
            /\ \A u, v \in updated :
                  u[1] # v[1] /\ u[2].fluent = v[2].fluent => {u[2].op, v[2].op} \subseteq Additive

\* The happenings were all applied, and their actions could be.
Executed ==
    /\ Applied = Times
    /\ \A t \in Times : \A a \in ActionsAt(t) : TrueBefore(Snap(a).pre, t)

\* A plan VAL accepts is one: all its happenings were applied, every action
\* found its precondition true and had an allowed duration, the invariant of
\* every durative action was true in each state it ran in, and the goal and
\* every constraint that is no preference are met (Validator::execute,
\* Plan::const_iterator, Validator::checkGoal).
AcceptedIsValid ==
    phase = "valid" =>
        /\ Executed
        /\ \A s \in {s \in Plan : Op(s.op).durative} :
              /\ s.end - s.start \in Op(s.op).durations
              /\ \A k \in Inside(s) : TrueIn(Op(s.op).over, k)
        /\ problem.goal \subseteq Final.state
        /\ \A c \in problem.constraints : ~c.pref => Satisfied(c)

\* A plan VAL rejects has a fault: the happening that was to come next has an
\* action that cannot be applied or is disturbed by another one, an invariant
\* is false in the last state, or the goal or a constraint is not met.
RejectedForAReason ==
    phase = "invalid" =>
        \/ \E t \in Times : Number(t) = Len(trace) /\
              \/ Disturbs(t)
              \/ \E a \in ActionsAt(t) :
                    \/ ~TrueBefore(Snap(a).pre, t)
                    \/ a[2] = "start" /\ Op(a[1]).durative /\ DurationOf(a[1]) \notin Op(a[1]).durations
        \/ \E s \in {s \in Plan : Op(s.op).durative} :
              Len(trace) \in Inside(s) /\ ~TrueIn(Op(s.op).over, Len(trace))
        \/ Applied = Times /\ ~(problem.goal \subseteq Final.state)
        \/ \E c \in problem.constraints : ~c.pref /\ ~Satisfied(c)

\* What the monitor makes of c: it asks for a hold-after from the first state on,
\* whatever its time, for it reads the deadline the parser left at 0.  What is
\* asked for and given is satisfied.
AskedFor(c) == IF c.kind = "hold-after" THEN \A k \in Stages : Sees(k, c.p) ELSE Satisfied(c)

\* When a plan is accepted, the preferences VAL has counted as violated are
\* those the states of the plan violate, although the monitor also saw states
\* again at a later time, with the invariants (checkAtState, violationSerious).
\* A hold-after is counted if it is violated, but also if it is met from its
\* time on and was not before: VAL asks for more than the constraint says.
PreferencesCounted ==
    phase = "valid" =>
        \A c \in problem.constraints :
            /\ c \in tjm.violated => c.pref
            /\ c \in tjm.violated <=> ~AskedFor(c)
=============================================================================
