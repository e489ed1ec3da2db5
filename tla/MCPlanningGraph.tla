--------------------------- MODULE MCPlanningGraph ---------------------------
(***************************************************************************)
(* Problems of up to three of eleven actions, and a durative one, over     *)
(* four facts and a function.                                              *)
(***************************************************************************)
EXTENDS PlanningGraph

CONSTANTS p, q, r, g, join, done

Act(name, pre, add, del, cmp, ops) ==
    [name |-> name, pre |-> pre, add |-> add, del |-> del, cmp |-> cmp, ops |-> ops]
Compare(op, val) == {[fun |-> TRUE, shift |-> 0, op |-> op, val |-> val]}
Change(type, by) == {[type |-> type, by |-> by]}

Start == Act("start", {p}, {q, join}, {done}, {}, {})
End == Act("end", {r, join}, {done, g}, {join}, {}, {})

Simple ==
    {Act("move", {p}, {q}, {p}, {}, {}),
     Act("back", {q}, {p, r}, {q}, {}, {}),
     Act("both", {p, q}, {g}, {}, {}, {}),
     Act("free", {}, {r}, {}, {}, {}),
     Act("fill", {p}, {}, {}, {}, Change("increase", 1)),
     Act("fill2", {p, q}, {}, {}, {}, Change("increase", 2)),
     Act("drain", {q}, {r}, {}, Compare(">=", 1), Change("decrease", 1)),
     Act("set", {r}, {}, {}, {}, Change("assign", 2)),
     Act("level", {p}, {r}, {p}, Compare("=", 1), {}),
     Act("rest", {q}, {p}, {}, Compare("<=", -1), {}),
     Act("use", {p}, {g}, {p}, Compare(">=", 2), {})}

UpTo(n, S) == {T \in SUBSET S : Cardinality(T) <= n}

Durative == {[start |-> Start, end |-> End, join |-> join, goal |-> done]}

MCProblems ==
    {[actions |-> a \cup UNION {{d.start, d.end} : d \in t}, durative |-> t,
      facts |-> f, number |-> 0, goal |-> x] :
        a \in UpTo(3, Simple) \ {{}}, t \in UpTo(1, Durative), f \in {{p}, {q}},
        x \in {{g}, {q, r}, {g, r}}}
=============================================================================
