-------------------------- MODULE MCPlanExecution --------------------------
(***************************************************************************)
(* Plans of up to two durative and two simple actions, at the times 1 to   *)
(* 4, over three propositions and one fluent.  drive keeps the invariant q *)
(* or may take no time, and has effects that span it; load deletes q while *)
(* it runs; tick and burn are simple actions, with conditional effects,    *)
(* that share the fluent f with each other and with load.                  *)
(***************************************************************************)
EXTENDS PlanExecution, TLC

CONSTANTS p, q, r, f, drive, load, tick, burn, consuming, setting, spending, NoOne

MCProps == {p, q, r}
MCFluents == {f}

At(at, xs) == {[at |-> at, of |-> xs]}
Changes(at, add, del, upd) == {[at |-> at, add |-> add, del |-> del, upd |-> upd]}
When(cond, effects) == [cond |-> cond, effects |-> effects]
By(op, x) == {[fluent |-> f, op |-> op, by |-> x]}

Conditions(at, xs) == UNION {At(at, x) : x \in xs}
Simple(xs, effects, when) ==
    [durative |-> FALSE, durations |-> {}, cond |-> Conditions("start", xs),
     effects |-> effects, when |-> when]

\* In one domain burn requires the fluent tick and load only add to; in the
\* next one it sets it; in the last one it deletes what tick requires and deletes.
Burn == consuming :> Simple({f}, Changes("start", {}, {}, By("decrease", 1)), {})
        @@ setting :> Simple({}, Changes("start", {p}, {p}, By("assign", 2)), {})
        @@ spending :> Simple({}, Changes("start", {}, {p}, {}), {})

\* What drive does, in one domain each, under a condition: at the start and
\* over all, over all alone, at the start and at the end, or at the end alone.
DriveWhen ==
    consuming :> {When(At("start", r) \cup At("over", p), Changes("end", {r}, {}, {}))}
    @@ setting :> {When(At("over", p), Changes("end", {}, {p}, By("increase", 1))),
                   When(At("start", r), Changes("start", {p}, {}, {}) \cup Changes("end", {r}, {}, {}))}
    @@ spending :> {When(At("start", r) \cup At("end", p), Changes("end", {r}, {}, {})),
                    When(At("end", f), Changes("end", {}, {p}, {}))}

MCDomains ==
  [d \in {consuming, setting, spending} |->
    drive :> [durative |-> TRUE, durations |-> IF d = spending THEN 0..2 ELSE {1, 2},
              cond |-> (IF d = spending THEN {} ELSE At("over", q)) \cup At("end", q),
              effects |-> IF d = setting THEN Changes("start", {}, {r}, {}) ELSE {},
              when |-> DriveWhen[d]]
    @@ load :> [durative |-> TRUE, durations |-> {1}, cond |-> {},
                effects |-> Changes("start", {}, {q}, By("increase", 1)) \cup Changes("end", {q}, {}, {}),
                when |-> {}]
    @@ tick :> Simple({p}, Changes("start", {}, {p}, By("increase", f)),
                      {When(At("start", q), Changes("start", {r}, {}, {}))})
    @@ burn :> Burn[d]]

DriveTimes == {<<1, 2>>, <<1, 3>>, <<2, 2>>, <<2, 3>>}
LoadTimes == {<<1, 2>>, <<2, 3>>, <<3, 4>>}
Timed(o, is) == {{}} \cup {{[op |-> o, start |-> i[1], end |-> i[2]]} : i \in is}
Point == {<<t, t>> : t \in 1..3}

MCPlans == {d \cup l \cup t \cup b : d \in Timed(drive, DriveTimes), l \in Timed(load, LoadTimes),
                                     t \in Timed(tick, Point), b \in Timed(burn, Point)}

Constraint(k, a, b, from, by, pref) ==
    [kind |-> k, p |-> a, q |-> b, from |-> from, by |-> by, pref |-> pref]

\* Hard constraints of the kinds that have one meaning, preferences, and a hard
\* hold-after, beside a constraint that may fail the plan before it ends VAL.
MCConstraints ==
    {{}} \cup
    {{Constraint("always", q, q, 0, 0, FALSE)}, {Constraint("at-end", p, p, 0, 0, FALSE)},
     {Constraint("within", r, r, 0, 2, FALSE)},
     {Constraint("always", p, p, 0, 0, FALSE), Constraint("hold-after", q, q, 2, 0, FALSE)},
     {Constraint("hold-after", q, q, 2, 0, TRUE)}} \cup
    {{Constraint(c[1], c[2], c[3], 2, 1, TRUE)} :
        c \in {<<"always", q, q>>, <<"sometime", r, r>>, <<"within", p, p>>,
               <<"at-most-once", p, p>>, <<"at-most-once", q, q>>,
               <<"sometime-after", r, p>>, <<"sometime-before", q, r>>,
               <<"always-within", q, r>>, <<"always-within", r, p>>}}

MCProblem(d, i, v, c, pl) ==
    [domain |-> d, init |-> i, vals |-> [x \in {f} |-> v], goal |-> {q},
     constraints |-> c, plan |-> pl]

\* Every plan with no constraint, and every plan without burn with each constraint.
MCProblems ==
    {MCProblem(d, i, v, {}, pl) :
        d \in DOMAIN MCDomains, i \in SUBSET MCProps, v \in {0, 1}, pl \in MCPlans}
    \cup {MCProblem(consuming, i, 1, c, pl) : i \in {{p, q}, {q}, {p, q, r}},
            c \in MCConstraints, pl \in {pl \in MCPlans : \A s \in pl : s.op # burn}}
=============================================================================
