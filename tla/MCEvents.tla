------------------------------ MODULE MCEvents ------------------------------
(***************************************************************************)
(* Up to two of nine events, and at most one process of each direction,    *)
(* over two propositions and a fluent; plans of up to three happenings     *)
(* with any effects.                                                       *)
(***************************************************************************)
EXTENDS Events

CONSTANTS a, b, NoOne

MCProps == {a, b}
MCFluents == {Level}

Event(pos, neg, cmp, add, del, set) ==
    [pos |-> pos, neg |-> neg, cmp |-> cmp, add |-> add, del |-> del, set |-> set]
Process(pos, neg, cmp, rate) == [pos |-> pos, neg |-> neg, cmp |-> cmp, rate |-> rate]
Compare(op, val) == {[op |-> op, val |-> val]}

\* Two that trigger each other, one in conflict with the second of them, one
\* with a negative condition.
DiscreteEvents ==
    {Event({a}, {}, {}, {b}, {a}, {}), Event({b}, {}, {}, {a}, {b}, {}),
     Event({b}, {a}, {}, {}, {b}, {1}), Event({}, {a, b}, {}, {a}, {}, {})}

\* One that resets the fluent when it has risen, two that switch processes at
\* the same value, one in a half-open range, one that raises the fluent.
ContinuousEvents ==
    {Event({}, {}, Compare(">=", 2), {a}, {}, {0}), Event({}, {a}, Compare(">=", 1), {a}, {}, {}),
     Event({a}, {}, Compare("<", 1), {}, {a}, {}),
     Event({b}, {}, Compare(">", 0) \cup Compare("<=", 1), {a}, {b}, {}),
     Event({a}, {}, Compare("<=", 2), {}, {a}, {2})}

Ups == {Process({b}, {}, {}, 1), Process({}, {a}, Compare("<", 2), 1)}
Downs == {Process({}, {}, Compare(">=", 2), -1), Process({a}, {}, Compare(">", 0), -1)}

UpTo(n, S) == {T \in SUBSET S : Cardinality(T) <= n}

MCDomains ==
    {[events |-> e, processes |-> u \cup d] :
        e \in UpTo(2, DiscreteEvents \cup ContinuousEvents), u \in UpTo(1, Ups), d \in UpTo(1, Downs)}

MCHappenings == {Event({}, {}, {}, x, y, s) : x, y \in UpTo(1, MCProps), s \in {{}, {0}}}
=============================================================================
