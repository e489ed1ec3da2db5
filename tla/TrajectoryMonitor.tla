------------------------- MODULE TrajectoryMonitor -------------------------
(***************************************************************************)
(* The monitor of the trajectory constraints of a problem                  *)
(* (TrajectoryConstraints.cpp).  It is asked before every step of the      *)
(* execution (checkAtState) and once more in the final state               *)
(* (checkFinalState), and keeps, for every kind of constraint, the list of *)
(* those that are still to be watched.                                     *)
(*                                                                         *)
(* A constraint is [kind, p, q, from, by, pref]: its requirement p, its    *)
(* trigger q, its times (getFrom, getDeadline), and whether it is a        *)
(* preference.  A violated preference is counted, once; any other violated *)
(* constraint fails the plan.  What a list becomes after a check that      *)
(* failed is not told from what it would have become: an execution that    *)
(* stops there does not read it.                                           *)
(***************************************************************************)
EXTENDS Integers

\* The kinds that are watched (constraint_sort).
ConstraintKinds ==
    {"at-end", "always", "sometime", "within", "at-most-once", "sometime-after",
     "sometime-before", "always-within", "hold-after", "hold-during"}

OfKind(C, k) == {c \in C : c.kind = k}

\* CollectProps: every constraint starts in the list of its kind.  A hold-after
\* is kept with its deadline, like a within, and not with its own time.
NewMonitor(C) ==
    [atEnd |-> OfKind(C, "at-end"), always |-> OfKind(C, "always"),
     sometime |-> OfKind(C, "sometime"), within |-> {<<c, c.by>> : c \in OfKind(C, "within")},
     atMostOnce |-> OfKind(C, "at-most-once"), currently |-> {}, never |-> {},
     sometimeAfter |-> OfKind(C, "sometime-after"),
     sometimeBefore |-> OfKind(C, "sometime-before"),
     alwaysWithin |-> OfKind(C, "always-within"),
     holdDuring |-> OfKind(C, "hold-during"), holdAfter |-> OfKind(C, "hold-after"),
     violated |-> {}]

\* The requirements to hold from now on in the state of time t.
AlwaysAt(m, t) == m.always \cup {c \in m.holdAfter : c.by <= t}

\* Fault: a trigger replaces the deadline an earlier trigger has set.
LatestDeadline(m, S, t) ==
    {w \in m.within : \A c \in m.alwaysWithin : c.q \in S => w[1] # c}
        \cup {<<c, t + c.by>> : c \in {c \in m.alwaysWithin : c.q \in S}}

\* The deadlines, with the ones triggered in this state.
WithinAt(m, S, t) ==
    m.within \cup {<<c, t + c.by>> : c \in {c \in m.alwaysWithin : c.q \in S}}

\* What is still to be made true, with what is triggered in this state.
SometimeAt(m, S) == m.sometime \cup {c \in m.sometimeAfter : c.q \in S}

CurrentlyAt(m, S) == m.currently \cup {c \in m.atMostOnce : c.p \in S}

\* Fault: what was true once may start again as if it had never been true.
NeverAgain(m, S) == m.never

NeverAt(m, S) == m.never \cup {c \in CurrentlyAt(m, S) : c.p \notin S}

InWindow(c, t) == c.from <= t /\ t < c.by

ViolatedAt(m, S, t) ==
    {c \in AlwaysAt(m, t) : c.p \notin S}
    \cup {w[1] : w \in {w \in WithinAt(m, S, t) : t > w[2]}}
    \cup {c \in NeverAt(m, S) : c.p \in S}
    \cup {c \in m.holdDuring : InWindow(c, t) /\ c.p \notin S}
    \cup {c \in m.sometimeBefore : c.q \in S}

\* The monitor after it has seen the state S at time t.  A window is dropped
\* by the first check that falls into it: only later ones are kept.
CheckAtState(m, S, t) ==
    [m EXCEPT
        !.always = AlwaysAt(m, t),
        !.holdAfter = {c \in @ : c.by > t},
        !.within = {w \in WithinAt(m, S, t) : t <= w[2] /\ w[1].p \notin S},
        !.sometime = {c \in SometimeAt(m, S) : c.p \notin S},
        !.atMostOnce = {c \in @ : c.p \notin S},
        !.currently = {c \in CurrentlyAt(m, S) : c.p \in S},
        !.never = NeverAt(m, S),
        !.holdDuring = {c \in @ : ~InWindow(c, t) /\ c.by > t},
        !.sometimeBefore = {c \in @ : c.p \notin S},
        !.violated = @ \cup ViolatedAt(m, S, t)]

\* The case of a hold-after has no break: one that is no preference goes on to be
\* an after with no trigger.  A check that gets to the triggers of after, having
\* found nothing serious before them, reads it and does not come back.
Answers(C, m, S, t) ==
    \/ \A c \in OfKind(C, "hold-after") : c.pref
    \/ \E c \in AlwaysAt(m, t) : ~c.pref /\ c.p \notin S
    \/ \E w \in WithinAt(m, S, t) : ~w[1].pref /\ t > w[2]

\* violationSerious of PreferenceMonitor counts and lets the plan go on.
NothingSerious(m) == \A c \in m.violated : c.pref

CheckFinalState(m, S, t) ==
    LET last == CheckAtState(m, S, t) IN
    [last EXCEPT !.violated =
        @ \cup {c \in last.atEnd : c.p \notin S} \cup last.sometime
          \cup {w[1] : w \in last.within}]
=============================================================================
