------------------------- MODULE PlanningGraphProofs -------------------------
(***************************************************************************)
(* Proofs about PlanningGraph, for every problem and every depth: a state  *)
(* the graph takes for a dead end is one, as far as the relaxation that    *)
(* ignores deletes can tell, and a state it finds a plan for is not; the   *)
(* plan reaches the goal, and offers an action to every state that is no   *)
(* goal.                                                                   *)
(***************************************************************************)
EXTENDS PlanningGraph, FiniteSetTheorems, WellFoundedInduction, TLAPS

-----------------------------------------------------------------------------
(* Finite sets of integers, and induction over the naturals by a set.        *)

\* A finite set of integers has a smallest element.
LEMMA Smallest ==
  ASSUME NEW T \in SUBSET Int, IsFiniteSet(T), T # {}
  PROVE  Min(T) \in T /\ \A y \in T : Min(T) <= y
<1> DEFINE Below(x) == {y \in T : y <= x}
           Belows == {Below(x) : x \in T}
<1>1. Belows \subseteq FiniteSubsetsOf(T)
  <2>1. \A x \in T : Below(x) \in SUBSET T /\ IsFiniteSet(Below(x))
    BY FS_Subset
  <2> QED
    BY <2>1 DEF FiniteSubsetsOf
<1>2. IsWellFoundedOn(StrictSubsetOrdering(T), FiniteSubsetsOf(T))
  BY FS_StrictSubsetOrderingWellFounded
<1>3. Belows # {}
  OBVIOUS
<1>4. PICK B \in Belows : \A C \in Belows : <<C, B>> \notin StrictSubsetOrdering(T)
  <2> HIDE DEF Belows
  <2> QED
    BY <1>1, <1>2, <1>3, WFMin
<1>5. PICK x \in T : B = Below(x)
  BY <1>4
<1>6. ASSUME NEW y \in T, y < x PROVE FALSE
  <2>0. x <= x /\ ~ (x <= y) /\ \A z \in T : z <= y => z <= x
    BY <1>6
  <2>1. Below(y) \subseteq Below(x) /\ x \in Below(x) /\ x \notin Below(y)
    BY <2>0
  <2>2. Below(y) \in SUBSET T /\ Below(x) \in SUBSET T /\ Below(y) \in Belows
    OBVIOUS
  <2> QED
    BY <1>4, <1>5, <2>1, <2>2 DEF StrictSubsetOrdering
<1>7. \A y \in T : x <= y
  BY <1>6
<1> QED
  BY <1>7 DEF Min

\* ... and a greatest one.
LEMMA Greatest ==
  ASSUME NEW T \in SUBSET Int, IsFiniteSet(T), T # {}
  PROVE  Max(T) \in T /\ \A y \in T : y <= Max(T)
<1> DEFINE Negated == {0 - x : x \in T}
           negate == [x \in T |-> 0 - x]
<1>1. IsFiniteSet(Negated)
  <2>1. negate \in Surjection(T, Negated)
    BY DEF Surjection
  <2> QED
    BY <2>1, FS_Surjection
<1>2. Negated \in SUBSET Int /\ Negated # {}
  <2>1. \A x \in T : 0 - x \in Int
    OBVIOUS
  <2> QED
    BY <2>1
<1> HIDE DEF Negated
<1>3. Min(Negated) \in Negated /\ \A y \in Negated : Min(Negated) <= y
  BY <1>1, <1>2, Smallest
<1>4. PICK x \in T : Min(Negated) = 0 - x
  BY <1>3 DEF Negated
<1>5. ASSUME NEW y \in T PROVE y <= x
  <2>1. 0 - y \in Negated
    BY DEF Negated
  <2>2. 0 - x <= 0 - y /\ x \in Int /\ y \in Int
    BY <1>3, <1>4, <2>1
  <2> QED
    BY <2>2
<1>6. \E z \in T : \A y \in T : z >= y
  BY <1>5
<1>7. Max(T) \in T /\ \A y \in T : Max(T) >= y
  BY <1>6 DEF Max
<1>8. Max(T) \in Int /\ \A y \in T : y \in Int
  BY <1>7
<1> QED
  BY <1>7, <1>8

\* A set of naturals that has 0 and, with every number, the next one.
LEMMA AllNumbers ==
  ASSUME NEW S \in SUBSET Nat, 0 \in S, \A n \in S : n + 1 \in S
  PROVE  \A n \in Nat : n \in S
<1> SUFFICES ASSUME NEW x \in Nat, x \notin S PROVE FALSE
  OBVIOUS
<1> DEFINE Missing == {y \in 0..x : y \notin S}
<1>1. IsFiniteSet(Missing) /\ Missing \in SUBSET Int /\ Missing # {}
  <2>1. IsFiniteSet(0..x) /\ Missing \in SUBSET (0..x)
    BY FS_Interval
  <2> QED
    BY <2>1, FS_Subset
<1>2. PICK y \in Missing : \A z \in Missing : y <= z
  BY <1>1, Smallest
<1>3. y \in Nat /\ y # 0 /\ y \notin S
  BY <1>2
<1>4. y - 1 \in 0..x
  BY <1>2, <1>3
<1>5. y - 1 \in S
  BY <1>2, <1>3, <1>4
<1>6. (y - 1) + 1 \in S
  BY <1>5
<1> QED
  BY <1>3, <1>6

-----------------------------------------------------------------------------
(* What can be reached when no delete counts, layer by layer.                *)

\* The beginning of Relaxed, up to the layer n.
Begins(f, n) ==
    /\ f[0] = [facts |-> state.facts, high |-> state.number, low |-> state.number]
    /\ \A i \in Nat : i + 1 <= n => f[i + 1] = LayerAbove(f[i])

\* Two of them are alike as far as both go.
LEMMA BeginsAlike ==
  ASSUME NEW f, NEW g, NEW n \in Nat, NEW m \in Nat, n <= m, Begins(f, n), Begins(g, m)
  PROVE  f[n] = g[n]
<1> DEFINE Same == {i \in Nat : i <= n => f[i] = g[i]}
<1>1. 0 \in Same
  BY DEF Begins
<1>2. ASSUME NEW i \in Same PROVE i + 1 \in Same
  <2> SUFFICES ASSUME i + 1 <= n PROVE f[i + 1] = g[i + 1]
    OBVIOUS
  <2>1. i \in Nat /\ i <= n /\ i + 1 <= m
    OBVIOUS
  <2> QED
    BY <2>1 DEF Begins
<1> HIDE DEF Same
<1>3. Same \in SUBSET Nat
  BY DEF Same
<1>4. n \in Same
  BY <1>1, <1>2, <1>3, AllNumbers
<1> QED
  BY <1>4 DEF Same

\* Relaxed is the function its definition says: the state, and every layer from
\* the one below.
LEMMA RelaxedLayers ==
  /\ Relaxed[0] = [facts |-> state.facts, high |-> state.number, low |-> state.number]
  /\ \A k \in Nat : Relaxed[k + 1] = LayerAbove(Relaxed[k])
<1> DEFINE first == [facts |-> state.facts, high |-> state.number, low |-> state.number]
           Some == {n \in Nat : \E f : Begins(f, n)}
           chosen(n) == CHOOSE f : Begins(f, n)
           R == [n \in Nat |-> chosen(n)[n]]
           Def(f) == f = [k \in Nat |-> IF k = 0 THEN first ELSE LayerAbove(f[k - 1])]
<1>1. 0 \in Some
  <2> DEFINE f == [i \in Nat |-> first]
  <2>1. f[0] = first /\ \A i \in Nat : ~ (i + 1 <= 0)
    OBVIOUS
  <2>2. Begins(f, 0)
    BY <2>1 DEF Begins
  <2> QED
    BY <2>2
<1>2. ASSUME NEW n \in Some PROVE n + 1 \in Some
  <2>1. n \in Nat
    OBVIOUS
  <2>2. PICK f : Begins(f, n)
    OBVIOUS
  <2> DEFINE g == [i \in Nat |-> IF i = n + 1 THEN LayerAbove(f[n]) ELSE f[i]]
  <2>3. g[0] = f[0] /\ g[n + 1] = LayerAbove(f[n])
    BY <2>1
  <2>4. \A i \in Nat : i <= n => g[i] = f[i]
    BY <2>1
  <2> HIDE DEF g
  <2>5. ASSUME NEW i \in Nat, i + 1 <= n + 1 PROVE g[i + 1] = LayerAbove(g[i])
    <3>1. CASE i = n
      BY <2>1, <2>3, <2>4, <3>1
    <3>2. CASE i # n
      <4>1. i + 1 <= n /\ i <= n /\ i + 1 \in Nat
        BY <2>1, <2>5, <3>2
      <4> QED
        BY <2>2, <2>4, <4>1 DEF Begins
    <3> QED
      BY <3>1, <3>2
  <2>6. Begins(g, n + 1)
    BY <2>2, <2>3, <2>5 DEF Begins
  <2> QED
    BY <2>1, <2>6
<1>3. \A n \in Nat : n \in Some
  <2>1. Some \in SUBSET Nat
    OBVIOUS
  <2> HIDE DEF Some
  <2> QED
    BY <1>1, <1>2, <2>1, AllNumbers
<1>4. \A n \in Nat : Begins(chosen(n), n)
  BY <1>3
<1> HIDE DEF chosen, Some
<1>5. R[0] = first
  BY <1>4 DEF Begins
<1>6. ASSUME NEW n \in Nat PROVE R[n + 1] = LayerAbove(R[n])
  <2>1. n + 1 \in Nat /\ n <= n + 1
    OBVIOUS
  <2>2. chosen(n)[n] = chosen(n + 1)[n]
    BY <1>4, <2>1, BeginsAlike
  <2>3. chosen(n + 1)[n + 1] = LayerAbove(chosen(n + 1)[n])
    BY <1>4, <2>1 DEF Begins
  <2> QED
    BY <2>1, <2>2, <2>3
<1>7. Def(R)
  <2>1. ASSUME NEW k \in Nat PROVE R[k] = IF k = 0 THEN first ELSE LayerAbove(R[k - 1])
    <3>1. CASE k = 0
      BY <1>5, <3>1
    <3>2. CASE k # 0
      <4>1. k - 1 \in Nat /\ (k - 1) + 1 = k
        BY <3>2
      <4> HIDE DEF R
      <4> QED
        BY <1>6, <3>2, <4>1
    <3> QED
      BY <3>1, <3>2
  <2>2. R = [n \in Nat |-> R[n]]
    OBVIOUS
  <2> HIDE DEF R
  <2> QED
    BY <2>1, <2>2
<1>8. Relaxed = CHOOSE f : Def(f)
  BY DEF Relaxed
<1> HIDE DEF R
<1>9. Def(Relaxed)
  <2> HIDE DEF Def
  <2> QED
    BY <1>7, <1>8
<1>10. \A k \in Nat : Relaxed[k] = IF k = 0 THEN first ELSE LayerAbove(Relaxed[k - 1])
  BY <1>9
<1>11. \A k \in Nat : k + 1 \in Nat /\ k + 1 # 0 /\ (k + 1) - 1 = k
  OBVIOUS
<1> QED
  BY <1>10, <1>11

-----------------------------------------------------------------------------
(* The graph of a state.                                                     *)

\* How many layers of actions the graph has.
Built == Len(high) - 1

InGraph(p) == factLayer[p] >= 0

TypeInv ==
    /\ problem \in Problems
    /\ pc \in {"idle", "build", "extract", "found", "null"}
    /\ state.facts \in SUBSET Facts(problem) /\ state.number \in Int
    /\ factLayer \in [Facts(problem) -> Int] /\ actionLayer \in [Actions -> Int]
    /\ high \in Seq(Int) /\ low \in Seq(Int) /\ Len(low) = Len(high)
    /\ kept \subseteq operators /\ operators \subseteq problem.actions /\ ready \subseteq Actions

\* A fact is in the first layer if the state has it, otherwise it comes from an
\* action of the layer before it.
FactsInv ==
    \A p \in Facts(problem) :
        /\ factLayer[p] \in -1..Built
        /\ factLayer[p] = 0 <=> p \in state.facts
        /\ factLayer[p] > 0 => \E a \in Actions : p \in a.add /\ actionLayer[a] = factLayer[p] - 1

\* An action in the graph found its facts there, and what it requires of the
\* function; its effects are in the graph.
ActionsInv ==
    \A a \in Actions :
        /\ actionLayer[a] \in -1..(Built - 1)
        /\ actionLayer[a] >= 0 =>
              /\ a.pre # {} /\ \A p \in a.pre : factLayer[p] \in 0..actionLayer[a]
              /\ ActionReady(a, actionLayer[a])
              /\ \A p \in a.add : InGraph(p)
              /\ a.ops # {} => a \in operators

\* The operators that count at a layer: those of its actions, of the layers
\* below, and of earlier states.
CountsAt(a, k) == a \in kept \/ actionLayer[a] \in 0..k

\* The bounds start with the value of the function, and move by an operator.
BoundsInv ==
    /\ high[1] = state.number /\ low[1] = state.number
    /\ \A a \in operators : CountsAt(a, Built - 1)
    /\ \A j, k \in 1..Len(high) : j <= k => high[j] <= high[k] /\ low[k] <= low[j]
    /\ \A k \in 1..Built :
          /\ \/ high[k + 1] = high[k]
             \/ \E a \in operators : \E o \in a.ops :
                   CountsAt(a, k - 1) /\ high[k + 1] = Operate(o, high[k])
          /\ \/ low[k + 1] = low[k]
             \/ \E a \in operators : \E o \in a.ops :
                   CountsAt(a, k - 1) /\ low[k + 1] = Operate(o, low[k])

\* While the graph is built, an action whose facts are all in a lower layer has
\* been in the graph since, or waits for its comparators.
BuildInv ==
    pc = "build" =>
        /\ layer = Built /\ goals = GoalOf(state)
        /\ \A a \in ready :
              actionLayer[a] < 0 /\ a.pre # {} /\ \A p \in a.pre : InGraph(p)
        /\ \A a \in Actions :
              a.pre # {} /\ a.pre \subseteq FactsAt(Built - 1) /\ actionLayer[a] < 0 => a \in ready

\* No action leads out of the graph: those that are applicable in the last
\* layer add nothing to it, and their operators exceed no bound.
Closed ==
    \A a \in problem.actions :
        /\ a.pre # {} /\ \A p \in a.pre : InGraph(p)
        /\ \A c \in a.cmp : Met(c, Last(high), Last(low))
        => /\ \A p \in a.add : InGraph(p)
           /\ \A o \in a.ops : /\ Operate(o, Last(high)) <= Last(high)
                               /\ Operate(o, Last(low)) >= Last(low)

EndInv ==
    /\ pc \in {"extract", "found"} => \A p \in GoalOf(state) : InGraph(p)
    /\ pc = "null" => (\E p \in GoalOf(state) : ~InGraph(p)) /\ (Moving \/ Closed)

Inv ==
    /\ TypeInv
    /\ pc # "idle" => /\ Len(high) >= 1
                      /\ FactsInv /\ ActionsInv /\ BoundsInv /\ BuildInv /\ EndInv

-----------------------------------------------------------------------------
(* Operators and comparators, and the layers of Relaxed.                     *)

\* What the actions of a problem require of the function, and do to it.
LEMMA ProblemActions ==
  ASSUME problem \in Problems, NEW a \in problem.actions
  PROVE  /\ IsFiniteSet(a.ops)
         /\ \A o \in a.ops : o.type \in {"assign", "increase", "decrease"} /\ o.by \in Int
         /\ \A c \in a.cmp :
               c.op \in {">=", ">", "<=", "<", "="} /\ c.shift \in Int /\ c.val \in Int
  BY ProblemsAssumption

\* An operator yields an integer, and a greater one for a greater value.
LEMMA Operated ==
  ASSUME NEW o, o.type \in {"assign", "increase", "decrease"}, o.by \in Int,
         NEW v \in Int, NEW w \in Int, v <= w
  PROVE  Operate(o, v) \in Int /\ Operate(o, w) \in Int /\ Operate(o, v) <= Operate(o, w)
<1>1. CASE o.type = "assign"
  BY <1>1 DEF Operate
<1>2. CASE o.type = "increase"
  BY <1>2 DEF Operate
<1>3. CASE o.type = "decrease"
  BY <1>3 DEF Operate
<1> QED
  BY <1>1, <1>2, <1>3

\* A comparator that is met is met by wider bounds.
LEMMA MetByWider ==
  ASSUME NEW c, c.op \in {">=", ">", "<=", "<", "="}, c.shift \in Int, c.val \in Int,
         NEW hi \in Int, NEW lo \in Int, NEW hi2 \in Int, NEW lo2 \in Int,
         hi <= hi2, lo2 <= lo, Met(c, hi, lo)
  PROVE  Met(c, hi2, lo2)
<1>1. CASE c.op = ">="
  BY <1>1 DEF Met
<1>2. CASE c.op = ">"
  BY <1>2 DEF Met
<1>3. CASE c.op = "<="
  BY <1>3 DEF Met
<1>4. CASE c.op = "<"
  BY <1>4 DEF Met
<1>5. CASE c.op = "="
  BY <1>5 DEF Met
<1> QED
  BY <1>1, <1>2, <1>3, <1>4, <1>5

\* The values above one are finitely many integers.
LEMMA ValuesFinite ==
  ASSUME problem \in Problems, NEW below, NEW v \in Int
  PROVE  /\ IsFiniteSet(ValuesAbove(below, v)) /\ ValuesAbove(below, v) \in SUBSET Int
         /\ v \in ValuesAbove(below, v)
<1> DEFINE A == On(below)
           OpsOf == [a \in A |-> a.ops]
           OpSets == {a.ops : a \in A}
           Ops == OperatorsOf(A)
           Value == [o \in Ops |-> Operate(o, v)]
           Values == {Operate(o, v) : o \in Ops}
<1>1. A \in SUBSET problem.actions
  BY DEF On
<1>2. IsFiniteSet(A)
  BY <1>1, ProblemsAssumption, FS_Subset
<1>3. \A a \in A : /\ IsFiniteSet(a.ops)
                   /\ \A o \in a.ops : o.type \in {"assign", "increase", "decrease"} /\ o.by \in Int
  BY <1>1, ProblemActions
<1> HIDE DEF A
<1>4. IsFiniteSet(OpSets)
  <2>1. OpsOf \in Surjection(A, OpSets)
    BY DEF Surjection
  <2> QED
    BY <1>2, <2>1, FS_Surjection
<1>5. IsFiniteSet(Ops)
  <2>1. \A T \in OpSets : IsFiniteSet(T)
    BY <1>3
  <2>2. Ops = UNION OpSets
    BY DEF OperatorsOf
  <2> HIDE DEF OpSets, Ops
  <2> QED
    BY <1>4, <2>1, <2>2, FS_UNION
<1>6. \A o \in Ops : o.type \in {"assign", "increase", "decrease"} /\ o.by \in Int
  BY <1>3 DEF OperatorsOf
<1> HIDE DEF Ops
<1>7. IsFiniteSet(Values)
  <2>1. Value \in Surjection(Ops, Values)
    BY DEF Surjection
  <2> QED
    BY <1>5, <2>1, FS_Surjection
<1>8. \A o \in Ops : Operate(o, v) \in Int
  BY <1>6, Operated
<1>9. ValuesAbove(below, v) = Values \cup {v}
  BY DEF ValuesAbove, A, Ops
<1> QED
  BY <1>7, <1>8, <1>9, FS_AddElement

\* A layer above another one has its facts and those added, and bounds that are
\* the widest the operators make of those below.
LEMMA LayerAboveIs ==
  ASSUME problem \in Problems, NEW below, below.high \in Int, below.low \in Int
  PROVE  LET above == LayerAbove(below) IN
         /\ above.facts = below.facts \cup UNION {a.add : a \in On(below)}
         /\ above.high \in Int /\ above.low \in Int
         /\ above.high \in ValuesAbove(below, below.high)
         /\ above.low \in ValuesAbove(below, below.low)
         /\ \A v \in ValuesAbove(below, below.high) : v <= above.high
         /\ \A v \in ValuesAbove(below, below.low) : above.low <= v
<1> DEFINE above == LayerAbove(below)
           H == ValuesAbove(below, below.high)
           L == ValuesAbove(below, below.low)
<1>1. /\ above.facts = below.facts \cup UNION {a.add : a \in On(below)}
      /\ above.high = Max(H) /\ above.low = Min(L)
  BY DEF LayerAbove
<1>2. /\ IsFiniteSet(H) /\ H \in SUBSET Int /\ H # {}
      /\ IsFiniteSet(L) /\ L \in SUBSET Int /\ L # {}
  BY ValuesFinite
<1> HIDE DEF above, H, L
<1>3. Max(H) \in H /\ \A v \in H : v <= Max(H)
  BY <1>2, Greatest
<1>4. Min(L) \in L /\ \A v \in L : Min(L) <= v
  BY <1>2, Smallest
<1>5. Max(H) \in Int /\ Min(L) \in Int
  BY <1>2, <1>3, <1>4
<1> QED
  BY <1>1, <1>3, <1>4, <1>5 DEF above, H, L

\* Every layer has integers for bounds.
LEMMA RelaxedTyped ==
  ASSUME problem \in Problems, state.number \in Int
  PROVE  \A k \in Nat : Relaxed[k].high \in Int /\ Relaxed[k].low \in Int
<1> DEFINE Typed == {k \in Nat : Relaxed[k].high \in Int /\ Relaxed[k].low \in Int}
<1>1. 0 \in Typed
  BY RelaxedLayers
<1>2. ASSUME NEW k \in Typed PROVE k + 1 \in Typed
  <2>1. k \in Nat /\ Relaxed[k].high \in Int /\ Relaxed[k].low \in Int
    OBVIOUS
  <2>2. Relaxed[k + 1].high \in Int /\ Relaxed[k + 1].low \in Int
    BY <2>1, LayerAboveIs, RelaxedLayers
  <2> QED
    BY <2>1, <2>2
<1>3. Typed \in SUBSET Nat
  OBVIOUS
<1> HIDE DEF Typed
<1>4. \A k \in Nat : k \in Typed
  BY <1>1, <1>2, <1>3, AllNumbers
<1> QED
  BY <1>4 DEF Typed

-----------------------------------------------------------------------------
(* The verdict on a state, from the invariant.                               *)

\* The no-ops keep a fact, and touch no function.
LEMMA NoOpsKeep ==
  ASSUME NEW a \in NoOps
  PROVE  a.add = a.pre /\ a.cmp = {} /\ a.ops = {}
  BY DEF NoOps, NoOp

\* Without operators of earlier states, no layer of the graph has a fact that
\* the relaxation has not reached, nor wider bounds.
LEMMA LayersReached ==
  ASSUME Inv, pc # "idle", ~Early
  PROVE  \A k \in 0..Built :
            /\ \A p \in FactsAt(k) : p \in Relaxed[k].facts
            /\ high[k + 1] <= Relaxed[k].high /\ Relaxed[k].low <= low[k + 1]
<1> DEFINE Reached(k) ==
             /\ \A p \in FactsAt(k) : p \in Relaxed[k].facts
             /\ high[k + 1] <= Relaxed[k].high /\ Relaxed[k].low <= low[k + 1]
           S == {k \in Nat : k <= Built => Reached(k)}
<1>1. /\ TypeInv /\ FactsInv /\ ActionsInv /\ BoundsInv
      /\ Built \in Nat /\ Len(high) = Built + 1 /\ Len(low) = Built + 1
      /\ problem \in Problems /\ state.number \in Int
      /\ DOMAIN factLayer = Facts(problem)
  BY DEF Inv, TypeInv, Built
<1>2. \A k \in 0..Built : high[k + 1] \in Int /\ low[k + 1] \in Int
  <2>1. \A k \in 0..Built : k + 1 \in 1..Len(high) /\ k + 1 \in 1..Len(low)
    BY <1>1
  <2> QED
    BY <1>1, <2>1 DEF TypeInv
<1>3. \A k \in Nat : Relaxed[k].high \in Int /\ Relaxed[k].low \in Int
  BY <1>1, RelaxedTyped
<1>4. 0 \in S
  <2>1. \A p \in FactsAt(0) : p \in Relaxed[0].facts
    BY <1>1, RelaxedLayers DEF FactsAt, FactsInv
  <2>2. high[0 + 1] = Relaxed[0].high /\ low[0 + 1] = Relaxed[0].low
    BY <1>1, RelaxedLayers DEF BoundsInv
  <2> QED
    BY <1>3, <2>1, <2>2
<1>5. ASSUME NEW k \in S PROVE k + 1 \in S
  <2> SUFFICES ASSUME k + 1 <= Built PROVE Reached(k + 1)
    OBVIOUS
  <2>0. k \in Nat /\ k \in 0..Built /\ Reached(k)
    BY <1>1
  <2> DEFINE R == Relaxed[k]
  <2>1. /\ R.high \in Int /\ R.low \in Int
        /\ Relaxed[k + 1] = LayerAbove(R)
        /\ Relaxed[k + 1].facts = R.facts \cup UNION {a.add : a \in On(R)}
        /\ Relaxed[k + 1].high \in Int /\ Relaxed[k + 1].low \in Int
        /\ \A v \in ValuesAbove(R, R.high) : v <= Relaxed[k + 1].high
        /\ \A v \in ValuesAbove(R, R.low) : Relaxed[k + 1].low <= v
    BY <1>1, <1>3, <2>0, LayerAboveIs, RelaxedLayers
  <2>2. /\ \A p \in FactsAt(k) : p \in R.facts
        /\ high[k + 1] <= R.high /\ R.low <= low[k + 1]
    BY <2>0
  <2> HIDE DEF R, Reached
  \* The actions of the layer, and of those below, are applicable in Relaxed.
  <2>3. ASSUME NEW a \in problem.actions, actionLayer[a] \in 0..k
        PROVE  a \in On(R)
    <3>1. a \in Actions
      BY DEF Actions
    <3>2. /\ a.pre # {} /\ \A p \in a.pre : factLayer[p] \in 0..actionLayer[a]
          /\ ActionReady(a, actionLayer[a])
      BY <1>1, <2>3, <3>1 DEF ActionsInv
    <3>3. \A p \in a.pre : p \in R.facts
      <4>1. \A p \in a.pre : p \in Facts(problem)
        BY <3>1 DEF Facts, KnownFacts
      <4>2. \A p \in a.pre : factLayer[p] \in 0..k
        BY <2>0, <2>3, <3>2
      <4> QED
        BY <1>1, <2>2, <4>1, <4>2 DEF FactsAt
    <3>4. ASSUME NEW c \in a.cmp PROVE Met(c, R.high, R.low)
      <4> DEFINE j == actionLayer[a]
      <4>1. Met(c, high[j + 1], low[j + 1])
        BY <3>2 DEF ActionReady, MetAt
      <4>2. c.op \in {">=", ">", "<=", "<", "="} /\ c.shift \in Int /\ c.val \in Int
        BY <1>1, ProblemActions
      <4>3. /\ high[j + 1] \in Int /\ low[j + 1] \in Int
            /\ high[j + 1] <= high[k + 1] /\ low[k + 1] <= low[j + 1]
        <5>1. /\ j \in 0..Built /\ j + 1 \in 1..Len(high) /\ k + 1 \in 1..Len(high)
              /\ j + 1 <= k + 1
          BY <1>1, <2>0, <2>3
        <5> HIDE DEF j
        <5> QED
          BY <1>1, <1>2, <5>1 DEF BoundsInv
      <4>4. /\ high[k + 1] \in Int /\ low[k + 1] \in Int
            /\ high[j + 1] <= R.high /\ R.low <= low[j + 1]
        <5>1. high[k + 1] \in Int /\ low[k + 1] \in Int
          BY <1>2, <2>0
        <5> HIDE DEF j
        <5> QED
          BY <2>1, <2>2, <4>3, <5>1
      <4> HIDE DEF j
      <4> QED
        BY <2>1, <4>1, <4>2, <4>3, <4>4, MetByWider
    <3> QED
      BY <3>2, <3>3, <3>4 DEF On
  <2>4. \A p \in FactsAt(k + 1) : p \in Relaxed[k + 1].facts
    <3> SUFFICES ASSUME NEW p \in FactsAt(k + 1), p \notin R.facts
                 PROVE  p \in Relaxed[k + 1].facts
      BY <2>1
    <3>1. p \in Facts(problem) /\ factLayer[p] = k + 1
      BY <1>1, <2>0, <2>2 DEF FactsAt
    <3>2. PICK a \in Actions : p \in a.add /\ actionLayer[a] = k
      BY <1>1, <2>0, <3>1 DEF FactsInv
    <3>3. CASE a \in problem.actions
      BY <2>0, <2>1, <2>3, <3>2, <3>3
    <3>4. CASE a \in NoOps
      <4>1. p \in a.pre
        BY <3>2, <3>4, NoOpsKeep
      <4>2. factLayer[p] \in 0..k
        BY <1>1, <2>0, <3>2, <4>1 DEF ActionsInv
      <4> QED
        BY <2>0, <3>1, <4>2
    <3> QED
      BY <3>3, <3>4 DEF Actions
  \* An operator that counts is one of an action that is on in Relaxed.
  <2>5. ASSUME NEW a \in operators, NEW o \in a.ops, CountsAt(a, k)
        PROVE  /\ o \in OperatorsOf(On(R))
               /\ o.type \in {"assign", "increase", "decrease"} /\ o.by \in Int
    <3>1. actionLayer[a] \in 0..k
      BY <2>0, <2>5 DEF CountsAt, Early
    <3>2. a \in problem.actions
      BY <1>1 DEF TypeInv
    <3> QED
      BY <1>1, <2>3, <3>1, <3>2, ProblemActions DEF OperatorsOf
  <2>6. k + 1 \in 1..Built /\ high[k + 1] \in Int /\ low[k + 1] \in Int
    BY <1>1, <1>2, <2>0
  <2>7. high[(k + 1) + 1] <= Relaxed[k + 1].high
    <3>1. R.high \in ValuesAbove(R, R.high)
      BY DEF ValuesAbove
    <3>2. CASE high[(k + 1) + 1] = high[k + 1]
      BY <2>1, <2>2, <2>6, <3>1, <3>2
    <3>3. CASE high[(k + 1) + 1] # high[k + 1]
      <4>1. PICK a \in operators : \E o \in a.ops :
              CountsAt(a, k) /\ high[(k + 1) + 1] = Operate(o, high[k + 1])
        <5>1. (k + 1) - 1 = k
          BY <2>0
        <5> QED
          BY <1>1, <2>6, <3>3, <5>1 DEF BoundsInv
      <4> PICK o \in a.ops :
              CountsAt(a, k) /\ high[(k + 1) + 1] = Operate(o, high[k + 1])
        BY <4>1
      <4>2. Operate(o, R.high) \in ValuesAbove(R, R.high)
        BY <2>5 DEF ValuesAbove
      <4>3. /\ Operate(o, high[k + 1]) \in Int /\ Operate(o, R.high) \in Int
            /\ Operate(o, high[k + 1]) <= Operate(o, R.high)
        BY <2>1, <2>2, <2>5, <2>6, Operated
      <4> QED
        BY <2>1, <4>2, <4>3
    <3> QED
      BY <3>2, <3>3
  <2>8. Relaxed[k + 1].low <= low[(k + 1) + 1]
    <3>1. R.low \in ValuesAbove(R, R.low)
      BY DEF ValuesAbove
    <3>2. CASE low[(k + 1) + 1] = low[k + 1]
      BY <2>1, <2>2, <2>6, <3>1, <3>2
    <3>3. CASE low[(k + 1) + 1] # low[k + 1]
      <4>1. PICK a \in operators : \E o \in a.ops :
              CountsAt(a, k) /\ low[(k + 1) + 1] = Operate(o, low[k + 1])
        <5>1. (k + 1) - 1 = k
          BY <2>0
        <5> QED
          BY <1>1, <2>6, <3>3, <5>1 DEF BoundsInv
      <4> PICK o \in a.ops :
              CountsAt(a, k) /\ low[(k + 1) + 1] = Operate(o, low[k + 1])
        BY <4>1
      <4>2. Operate(o, R.low) \in ValuesAbove(R, R.low)
        BY <2>5 DEF ValuesAbove
      <4>3. /\ Operate(o, low[k + 1]) \in Int /\ Operate(o, R.low) \in Int
            /\ Operate(o, R.low) <= Operate(o, low[k + 1])
        BY <2>1, <2>2, <2>5, <2>6, Operated
      <4> QED
        BY <2>1, <4>2, <4>3
    <3> QED
      BY <3>2, <3>3
  <2> QED
    BY <2>4, <2>7, <2>8 DEF Reached
<1>6. S \in SUBSET Nat
  OBVIOUS
<1> HIDE DEF S
<1>7. \A k \in Nat : k \in S
  BY <1>4, <1>5, <1>6, AllNumbers
<1>8. \A k \in 0..Built : k \in Nat /\ k <= Built
  BY <1>1
<1> QED
  BY <1>7, <1>8 DEF S

\* Out of a graph that is closed the relaxation does not reach either.
LEMMA NothingLeaves ==
  ASSUME Inv, pc # "idle", Closed
  PROVE  \A k \in Nat : \A p \in Relaxed[k].facts : p \in Facts(problem) /\ InGraph(p)
<1> DEFINE hi == Last(high)
           lo == Last(low)
           Inside(k) == /\ \A p \in Relaxed[k].facts : p \in Facts(problem) /\ InGraph(p)
                        /\ Relaxed[k].high <= hi /\ lo <= Relaxed[k].low
           S == {k \in Nat : Inside(k)}
<1>1. /\ TypeInv /\ FactsInv /\ BoundsInv /\ problem \in Problems /\ state.number \in Int
      /\ Len(high) \in Nat /\ Len(high) >= 1 /\ Len(low) = Len(high)
  BY DEF Inv, TypeInv
<1>2. /\ hi \in Int /\ lo \in Int /\ state.number <= hi /\ lo <= state.number
  <2>1. 1 \in 1..Len(high) /\ Len(high) \in 1..Len(high)
    BY <1>1
  <2>2. hi = high[Len(high)] /\ lo = low[Len(high)]
    BY <1>1 DEF Last
  <2>3. high[1] <= high[Len(high)] /\ low[Len(high)] <= low[1]
    BY <1>1, <2>1 DEF BoundsInv
  <2>4. high[Len(high)] \in Int /\ low[Len(high)] \in Int
    BY <1>1, <2>1 DEF TypeInv
  <2> HIDE DEF hi, lo
  <2> QED
    BY <1>1, <2>2, <2>3, <2>4 DEF BoundsInv
<1>3. \A k \in Nat : Relaxed[k].high \in Int /\ Relaxed[k].low \in Int
  BY <1>1, RelaxedTyped
<1>4. 0 \in S
  <2>1. \A p \in state.facts : p \in Facts(problem) /\ InGraph(p)
    BY <1>1 DEF FactsInv, TypeInv, InGraph
  <2> HIDE DEF hi, lo
  <2> QED
    BY <1>2, <2>1, RelaxedLayers
<1>5. ASSUME NEW k \in S PROVE k + 1 \in S
  <2>0. k \in Nat /\ Inside(k)
    OBVIOUS
  <2> DEFINE R == Relaxed[k]
  <2>1. /\ R.high \in Int /\ R.low \in Int
        /\ Relaxed[k + 1].facts = R.facts \cup UNION {a.add : a \in On(R)}
        /\ Relaxed[k + 1].high \in Int /\ Relaxed[k + 1].low \in Int
        /\ Relaxed[k + 1].high \in ValuesAbove(R, R.high)
        /\ Relaxed[k + 1].low \in ValuesAbove(R, R.low)
    BY <1>1, <1>3, <2>0, LayerAboveIs, RelaxedLayers
  <2>2. /\ \A p \in R.facts : p \in Facts(problem) /\ InGraph(p)
        /\ R.high <= hi /\ lo <= R.low
    BY <2>0
  <2> HIDE DEF R, hi, lo, Inside
  <2>3. ASSUME NEW a \in On(R)
        PROVE  /\ a \in problem.actions /\ \A p \in a.add : p \in Facts(problem) /\ InGraph(p)
               /\ \A o \in a.ops : /\ Operate(o, hi) <= hi /\ Operate(o, lo) >= lo
                                   /\ o.type \in {"assign", "increase", "decrease"} /\ o.by \in Int
    <3>1. /\ a \in problem.actions /\ a.pre # {} /\ a.pre \subseteq R.facts
          /\ \A c \in a.cmp : Met(c, R.high, R.low)
      BY DEF On
    <3>2. /\ \A o \in a.ops : o.type \in {"assign", "increase", "decrease"} /\ o.by \in Int
          /\ \A c \in a.cmp : c.op \in {">=", ">", "<=", "<", "="} /\ c.shift \in Int /\ c.val \in Int
      BY <1>1, <3>1, ProblemActions
    <3>3. \A c \in a.cmp : Met(c, hi, lo)
      BY <1>2, <2>1, <2>2, <3>1, <3>2, MetByWider
    <3>4. /\ \A p \in a.add : InGraph(p)
          /\ \A o \in a.ops : Operate(o, hi) <= hi /\ Operate(o, lo) >= lo
      BY <2>2, <3>1, <3>3 DEF Closed, hi, lo
    <3>5. \A p \in a.add : p \in Facts(problem)
      BY <3>1 DEF Facts, KnownFacts
    <3> QED
      BY <3>1, <3>2, <3>4, <3>5
  <2>4. \A p \in Relaxed[k + 1].facts : p \in Facts(problem) /\ InGraph(p)
    BY <2>1, <2>2, <2>3
  <2>5. Relaxed[k + 1].high <= hi
    <3>1. \A o \in OperatorsOf(On(R)) : Operate(o, R.high) <= hi
      <4> SUFFICES ASSUME NEW a \in On(R), NEW o \in a.ops PROVE Operate(o, R.high) <= hi
        BY DEF OperatorsOf
      <4>1. /\ Operate(o, R.high) \in Int /\ Operate(o, hi) \in Int
            /\ Operate(o, R.high) <= Operate(o, hi) /\ Operate(o, hi) <= hi
        BY <1>2, <2>1, <2>2, <2>3, Operated
      <4> QED
        BY <1>2, <4>1
    <3> QED
      BY <2>1, <2>2, <3>1 DEF ValuesAbove
  <2>6. lo <= Relaxed[k + 1].low
    <3>1. \A o \in OperatorsOf(On(R)) : lo <= Operate(o, R.low)
      <4> SUFFICES ASSUME NEW a \in On(R), NEW o \in a.ops PROVE lo <= Operate(o, R.low)
        BY DEF OperatorsOf
      <4>1. /\ Operate(o, R.low) \in Int /\ Operate(o, lo) \in Int
            /\ Operate(o, lo) <= Operate(o, R.low) /\ Operate(o, lo) >= lo
        BY <1>2, <2>1, <2>2, <2>3, Operated
      <4> QED
        BY <1>2, <4>1
    <3> QED
      BY <2>1, <2>2, <3>1 DEF ValuesAbove
  <2> QED
    BY <2>0, <2>4, <2>5, <2>6 DEF Inside
<1>6. S \in SUBSET Nat
  OBVIOUS
<1> HIDE DEF S
<1>7. \A k \in Nat : k \in S
  BY <1>4, <1>5, <1>6, AllNumbers
<1> QED
  BY <1>7 DEF S

\* The goal of a state is among the facts of the graph.
LEMMA GoalKnown ==
  ASSUME problem \in Problems, NEW s
  PROVE  GoalOf(s) \subseteq Facts(problem)
<1>1. \A e \in problem.durative : e.goal \in KnownFacts(problem)
  BY ProblemsAssumption DEF KnownFacts
<1> QED
  BY <1>1 DEF GoalOf, Facts

\* The invariant gives the verdict.
LEMMA VerdictIsRight ==
  ASSUME Inv
  PROVE  DeadEndsAreDead
<1>1. ASSUME pc = "null", ~Moving PROVE ~ReachedWithin(Depth)
  <2>1. Closed /\ \E p \in GoalOf(state) : ~InGraph(p)
    BY <1>1 DEF Inv, EndInv
  <2>2. \A p \in Relaxed[Depth].facts : InGraph(p)
    BY <1>1, <2>1, NothingLeaves, DepthAssumption
  <2> QED
    BY <2>1, <2>2 DEF ReachedWithin
<1>2. ASSUME pc = "found", ~Early PROVE ReachedWithin(Len(high) - 1)
  <2>1. /\ \A p \in GoalOf(state) : InGraph(p) /\ p \in Facts(problem)
        /\ FactsInv /\ Built \in Nat /\ DOMAIN factLayer = Facts(problem)
    BY <1>2, GoalKnown DEF Inv, EndInv, TypeInv, Built
  <2>2. Built \in 0..Built /\ \A p \in GoalOf(state) : p \in FactsAt(Built)
    BY <2>1 DEF FactsInv, InGraph, FactsAt
  <2>3. \A p \in FactsAt(Built) : p \in Relaxed[Built].facts
    BY <1>2, <2>2, LayersReached
  <2> QED
    BY <2>2, <2>3 DEF ReachedWithin, Built
<1> QED
  BY <1>1, <1>2 DEF DeadEndsAreDead

-----------------------------------------------------------------------------
(* The invariant.                                                            *)

\* What the problem says does not change with the graph.
LEMMA ProblemFixed ==
  ASSUME problem' = problem
  PROVE  /\ NoOps' = NoOps /\ Actions' = Actions /\ Facts(problem)' = Facts(problem)
         /\ \A s : GoalOf(s)' = GoalOf(s)
<1>1. NoOps' = NoOps
  BY DEF NoOps
<1>2. Actions' = Actions
  BY <1>1 DEF Actions
<1> QED
  BY <1>1, <1>2 DEF GoalOf

\* What an action requires and adds is known.
LEMMA ActionsKnown ==
  ASSUME NEW a \in Actions
  PROVE  /\ \A p \in a.pre \cup a.add : p \in Facts(problem)
         /\ a.ops # {} => a \in problem.actions
<1>1. CASE a \in problem.actions
  BY <1>1 DEF Facts, KnownFacts
<1>2. CASE a \in NoOps
  BY <1>2 DEF NoOps, NoOp, Facts
<1> QED
  BY <1>1, <1>2 DEF Actions

\* A state the search comes to has known facts and an integer.
LEMMA StateTyped ==
  ASSUME TypeInv, NEW s \in {InitialState} \cup Successors
  PROVE  s.facts \in SUBSET Facts(problem) /\ s.number \in Int
<1>1. CASE s = InitialState
  BY <1>1, ProblemsAssumption DEF TypeInv, InitialState, Facts
<1>2. CASE s \in Successors
  <2>1. PICK a \in problem.actions : s = Apply(a, state)
    BY <1>2 DEF Successors
  <2>2. s.facts \in SUBSET Facts(problem)
    <3>1. s.facts = (state.facts \ a.del) \cup a.add
      BY <2>1 DEF Apply
    <3> QED
      BY <3>1 DEF TypeInv, Facts, KnownFacts
  <2>3. s.number \in Int
    <3>1. CASE a.ops = {}
      BY <2>1, <3>1 DEF Apply, TypeInv
    <3>2. CASE a.ops # {}
      <4>1. PICK o \in a.ops : o = CHOOSE x \in a.ops : TRUE
        BY <3>2
      <4>2. s.number = Operate(o, state.number)
        BY <2>1, <3>2, <4>1 DEF Apply
      <4>3. state.number \in Int /\ o.type \in {"assign", "increase", "decrease"} /\ o.by \in Int
        BY ProblemActions DEF TypeInv
      <4> QED
        BY <4>2, <4>3, Operated
    <3> QED
      BY <3>1, <3>2
  <2> QED
    BY <2>2, <2>3
<1> QED
  BY <1>1, <1>2

\* No state has been evaluated at first.
LEMMA InitInv == Init => Inv
<1> SUFFICES ASSUME Init PROVE Inv
  OBVIOUS
<1>1. /\ problem \in Problems /\ state = InitialState
      /\ factLayer = [p \in Facts(problem) |-> -1] /\ actionLayer = [a \in Actions |-> -1]
      /\ high = <<>> /\ low = <<>> /\ operators = {} /\ ready = {} /\ kept = {} /\ pc = "idle"
  BY DEF Init
<1>2. state.facts \in SUBSET Facts(problem) /\ state.number \in Int
  BY <1>1, ProblemsAssumption DEF InitialState, Facts
<1>3. factLayer \in [Facts(problem) -> Int] /\ actionLayer \in [Actions -> Int]
  BY <1>1
<1>4. high \in Seq(Int) /\ low \in Seq(Int) /\ Len(low) = Len(high)
  BY <1>1
<1> QED
  BY <1>1, <1>2, <1>3, <1>4 DEF Inv, TypeInv

\* The graph of a new state has the facts of that state only.
LEMMA EvaluateInv ==
  ASSUME Inv, NEW s \in {InitialState} \cup Successors, Evaluate(s)
  PROVE  Inv'
<1>1. /\ s.facts \in SUBSET Facts(problem) /\ s.number \in Int /\ TypeInv
  BY StateTyped DEF Inv
<1>2. /\ state' = s /\ problem' = problem /\ operators' = operators /\ kept' = operators
      /\ factLayer' = [p \in Facts(problem) |-> IF p \in s.facts THEN 0 ELSE -1]
      /\ actionLayer' = [a \in Actions |-> -1]
      /\ high' = <<s.number>> /\ low' = <<s.number>> /\ ready' = {}
      /\ goals' = GoalOf(s) /\ layer' = 0 /\ pc' = "build"
  BY <1>1 DEF Evaluate, TypeInv
<1>3. /\ Actions' = Actions /\ Facts(problem)' = Facts(problem) /\ GoalOf(state)' = GoalOf(s)
  BY <1>2, ProblemFixed DEF GoalOf
<1>4. /\ Built' = 0 /\ Len(high') = 1 /\ Len(low') = 1 /\ high'[1] = s.number /\ low'[1] = s.number
      /\ high' \in Seq(Int) /\ low' \in Seq(Int)
  BY <1>1, <1>2 DEF Built
<1>5. TypeInv'
  <2>1. factLayer' \in [Facts(problem) -> Int] /\ actionLayer' \in [Actions -> Int]
    BY <1>2
  <2> QED
    BY <1>1, <1>2, <1>3, <1>4, <2>1 DEF TypeInv
<1>6. FactsInv'
  BY <1>2, <1>3, <1>4 DEF FactsInv
<1>7. ActionsInv'
  BY <1>2, <1>3, <1>4 DEF ActionsInv
<1>8. BoundsInv'
  <2>1. \A a \in operators' : a \in kept'
    BY <1>2
  <2>2. \A j \in 1..1 : j = 1
    OBVIOUS
  <2> QED
    BY <1>1, <1>2, <1>4, <2>1, <2>2 DEF BoundsInv, CountsAt
<1>9. BuildInv'
  <2>1. \A p \in Facts(problem) : p \notin FactsAt(Built - 1)'
    BY <1>2, <1>4 DEF FactsAt
  <2>2. \A a \in Actions : a.pre # {} => ~ (a.pre \subseteq FactsAt(Built - 1)')
    BY <2>1, ActionsKnown
  <2> QED
    BY <1>2, <1>3, <1>4, <2>2 DEF BuildInv
<1>10. EndInv'
  BY <1>2 DEF EndInv
<1> QED
  BY <1>4, <1>5, <1>6, <1>7, <1>8, <1>9, <1>10 DEF Inv

\* Steps that leave the graph as it is, and never go back, keep the invariant.
LEMMA SameGraph ==
  ASSUME Inv, UNCHANGED <<problem, state, graph, kept>>,
         pc' \in {"idle", "build", "extract", "found", "null"},
         pc' # "idle" => pc # "idle",
         pc' = "build" => pc = "build" /\ UNCHANGED <<layer, goals>>,
         pc' \in {"extract", "found"} => pc \in {"extract", "found"},
         pc' = "null" => pc = "null"
  PROVE  Inv'
<1>1. /\ problem' = problem /\ state' = state /\ factLayer' = factLayer
      /\ actionLayer' = actionLayer /\ high' = high /\ low' = low /\ operators' = operators
      /\ ready' = ready /\ kept' = kept
  BY DEF graph
<1>2. Actions' = Actions /\ Facts(problem)' = Facts(problem) /\ GoalOf(state)' = GoalOf(state)
  BY <1>1, ProblemFixed DEF GoalOf
<1>3. /\ Built' = Built /\ \A k : FactsAt(k)' = FactsAt(k)
      /\ \A p : InGraph(p)' <=> InGraph(p)
  BY <1>1 DEF Built, FactsAt, InGraph
<1>4. TypeInv'
  BY <1>1, <1>2 DEF Inv, TypeInv
<1> SUFFICES ASSUME pc' # "idle"
             PROVE  /\ Len(high') >= 1
                    /\ FactsInv' /\ ActionsInv' /\ BoundsInv' /\ BuildInv' /\ EndInv'
  BY <1>4 DEF Inv
<1>5. Len(high') >= 1 /\ FactsInv /\ ActionsInv /\ BoundsInv /\ BuildInv /\ EndInv
  BY <1>1 DEF Inv
<1>6. FactsInv'
  BY <1>1, <1>2, <1>3, <1>5 DEF FactsInv
<1>7. ActionsInv'
  BY <1>1, <1>2, <1>3, <1>5 DEF ActionsInv, ActionReady, MetAt
<1>8. BoundsInv'
  BY <1>1, <1>3, <1>5 DEF BoundsInv, CountsAt
<1>9. BuildInv'
  BY <1>1, <1>2, <1>3, <1>5 DEF BuildInv, FactsAt
<1>10. EndInv'
  BY <1>1, <1>2, <1>3, <1>5 DEF EndInv, Moving, Closed
<1> QED
  BY <1>5, <1>6, <1>7, <1>8, <1>9, <1>10

\* The next bounds are an operator's, or those of the layer below if no operator
\* exceeds them.
LEMMA BoundsMove ==
  ASSUME problem \in Problems, operators' \subseteq problem.actions,
         Last(high) \in Int, Last(low) \in Int, NEW hi \in NextHigh, NEW lo \in NextLow
  PROVE  /\ hi \in Int /\ lo \in Int /\ Last(high) <= hi /\ lo <= Last(low)
         /\ hi = Last(high) \/ \E a \in operators' : \E o \in a.ops : hi = Operate(o, Last(high))
         /\ lo = Last(low) \/ \E a \in operators' : \E o \in a.ops : lo = Operate(o, Last(low))
         /\ hi = Last(high) => \A a \in operators' : \A o \in a.ops : Operate(o, hi) <= hi
         /\ lo = Last(low) => \A a \in operators' : \A o \in a.ops : Operate(o, lo) >= lo
<1> DEFINE H == Last(high)
           L == Last(low)
           raised == {v \in {Operate(o, H) : o \in OperatorsOf(operators')} : v > H}
           lowered == {v \in {Operate(o, L) : o \in OperatorsOf(operators')} : v < L}
<1>1. /\ hi \in IF raised = {} THEN {H} ELSE raised
      /\ lo \in IF lowered = {} THEN {L} ELSE lowered
  BY DEF NextHigh, NextLow
<1>2. H \in Int /\ L \in Int
  OBVIOUS
<1>3. \A o : o \in OperatorsOf(operators') <=> \E a \in operators' : o \in a.ops
  BY DEF OperatorsOf
<1>4. \A a \in operators' : \A o \in a.ops : Operate(o, H) \in Int /\ Operate(o, L) \in Int
  <2> SUFFICES ASSUME NEW a \in operators', NEW o \in a.ops
               PROVE  Operate(o, H) \in Int /\ Operate(o, L) \in Int
    OBVIOUS
  <2>1. o.type \in {"assign", "increase", "decrease"} /\ o.by \in Int
    BY ProblemActions
  <2> QED
    BY <1>2, <2>1, Operated
<1> HIDE DEF H, L
<1>5. /\ hi \in Int /\ H <= hi
      /\ hi = H \/ \E a \in operators' : \E o \in a.ops : hi = Operate(o, H)
      /\ hi = H => \A a \in operators' : \A o \in a.ops : Operate(o, hi) <= hi
  <2>1. CASE raised = {}
    <3>1. hi = H
      BY <1>1, <2>1
    <3>2. \A a \in operators' : \A o \in a.ops : ~ (Operate(o, H) > H)
      BY <1>3, <2>1
    <3> QED
      BY <1>2, <1>4, <3>1, <3>2
  <2>2. CASE raised # {}
    <3>1. hi \in raised
      BY <1>1, <2>2
    <3>2. PICK o \in OperatorsOf(operators') : hi = Operate(o, H) /\ hi > H
      BY <3>1
    <3> QED
      BY <1>2, <1>3, <1>4, <3>2
  <2> QED
    BY <2>1, <2>2
<1>6. /\ lo \in Int /\ lo <= L
      /\ lo = L \/ \E a \in operators' : \E o \in a.ops : lo = Operate(o, L)
      /\ lo = L => \A a \in operators' : \A o \in a.ops : Operate(o, lo) >= lo
  <2>1. CASE lowered = {}
    <3>1. lo = L
      BY <1>1, <2>1
    <3>2. \A a \in operators' : \A o \in a.ops : ~ (Operate(o, L) < L)
      BY <1>3, <2>1
    <3> QED
      BY <1>2, <1>4, <3>1, <3>2
  <2>2. CASE lowered # {}
    <3>1. lo \in lowered
      BY <1>1, <2>2
    <3>2. PICK o \in OperatorsOf(operators') : lo = Operate(o, L) /\ lo < L
      BY <3>1
    <3> QED
      BY <1>2, <1>3, <1>4, <3>2
  <2> QED
    BY <2>1, <2>2
<1> QED
  BY <1>5, <1>6 DEF H, L

\* A layer more keeps the invariant.
LEMMA AddLayerInv ==
  ASSUME Inv, AddLayer
  PROVE  Inv'
<1> DEFINE n == layer
           C == Available(n) \cup ready
           F == {a \in C : ActionReady(a, n)}
           New == {p \in UNION {a.add : a \in F} : factLayer[p] < 0}
           H == high[n + 1]
           L == low[n + 1]
<1>1. /\ TypeInv /\ FactsInv /\ ActionsInv /\ BoundsInv /\ pc = "build"
      /\ n = Built /\ goals = GoalOf(state) /\ n \in Nat
      /\ Len(high) = n + 1 /\ Len(low) = n + 1 /\ problem \in Problems
      /\ H \in Int /\ L \in Int /\ Last(high) = H /\ Last(low) = L
      /\ DOMAIN factLayer = Facts(problem)
      /\ \A p \in Facts(problem) : factLayer[p] \in Int
      /\ \A a \in Actions : actionLayer[a] \in Int
  <2>1. /\ TypeInv /\ FactsInv /\ ActionsInv /\ BoundsInv /\ BuildInv /\ pc = "build"
        /\ Len(high) >= 1
    BY DEF Inv, AddLayer
  <2>2. /\ n = Built /\ n \in Nat /\ Len(high) = n + 1 /\ Len(low) = n + 1
        /\ goals = GoalOf(state) /\ problem \in Problems
    BY <2>1 DEF TypeInv, BuildInv, Built
  <2>3. H \in Int /\ L \in Int /\ Last(high) = H /\ Last(low) = L
    BY <2>1, <2>2 DEF TypeInv, Last
  <2> QED
    BY <2>1, <2>2, <2>3 DEF TypeInv
<1>2. /\ actionLayer' = [a \in Actions |-> IF a \in F THEN n ELSE actionLayer[a]]
      /\ factLayer' = [p \in Facts(problem) |-> IF p \in New THEN n + 1 ELSE factLayer[p]]
      /\ operators' = operators \cup {a \in F : a.ops # {}}
      /\ ready' = C \ F /\ layer' = n + 1 /\ goals' = goals
      /\ problem' = problem /\ state' = state /\ kept' = kept
      /\ pc' = CASE GoalMet -> "extract"
                 [] ~GoalMet /\ Available(n) \cup F = {} -> "null"
                 [] OTHER -> "build"
  BY <1>1 DEF AddLayer, extraction
<1>3. PICK hi \in NextHigh, lo \in NextLow : high' = Append(high, hi) /\ low' = Append(low, lo)
  BY DEF AddLayer
<1>4. Actions' = Actions /\ Facts(problem)' = Facts(problem) /\ GoalOf(state)' = GoalOf(state)
  BY <1>2, ProblemFixed DEF GoalOf
\* An action that is taken into the layer is new, and its facts are there.
<1>5. ASSUME NEW a \in C
      PROVE  /\ a \in Actions /\ actionLayer[a] < 0 /\ a.pre # {}
             /\ \A p \in a.pre : p \in Facts(problem) /\ factLayer[p] \in 0..n
  <2>1. CASE a \in Available(n)
    BY <1>1, <2>1 DEF Available, FactsAt
  <2>2. CASE a \in ready
    <3>1. a \in Actions /\ actionLayer[a] < 0 /\ a.pre # {} /\ \A p \in a.pre : InGraph(p)
      BY <1>1, <2>2 DEF Inv, BuildInv, TypeInv
    <3>2. \A p \in a.pre : p \in Facts(problem)
      BY <3>1, ActionsKnown
    <3> QED
      BY <1>1, <3>1, <3>2 DEF FactsInv, InGraph
  <2> QED
    BY <2>1, <2>2
<1>6. \A a \in F : a \in C /\ ActionReady(a, n)
  OBVIOUS
<1>7. \A p \in New : p \in Facts(problem) /\ factLayer[p] < 0
  BY <1>5, <1>6, ActionsKnown
<1>8. operators' \subseteq problem.actions
  BY <1>1, <1>2, <1>5, <1>6, ActionsKnown DEF TypeInv
<1>9. /\ hi \in Int /\ lo \in Int /\ H <= hi /\ lo <= L
      /\ hi = H \/ \E a \in operators' : \E o \in a.ops : hi = Operate(o, H)
      /\ lo = L \/ \E a \in operators' : \E o \in a.ops : lo = Operate(o, L)
      /\ hi = H => \A a \in operators' : \A o \in a.ops : Operate(o, hi) <= hi
      /\ lo = L => \A a \in operators' : \A o \in a.ops : Operate(o, lo) >= lo
  BY <1>1, <1>8, BoundsMove
<1>10. /\ Len(high') = n + 2 /\ Len(low') = n + 2 /\ Built' = n + 1
       /\ high'[n + 2] = hi /\ low'[n + 2] = lo
       /\ \A k \in 1..(n + 1) : high'[k] = high[k] /\ low'[k] = low[k]
       /\ high' \in Seq(Int) /\ low' \in Seq(Int)
  BY <1>1, <1>3, <1>9 DEF TypeInv, Built
<1>11. ASSUME NEW a, NEW j \in 0..n, ActionReady(a, j), actionLayer'[a] = j
       PROVE  ActionReady(a, actionLayer[a])'
  <2>1. j + 1 \in 1..(n + 1)
    BY <1>1
  <2>2. high'[j + 1] = high[j + 1] /\ low'[j + 1] = low[j + 1]
    BY <1>10, <2>1
  <2> QED
    BY <1>11, <2>2 DEF ActionReady, MetAt
<1> HIDE DEF C, F, New, H, L, n
\* What was in the graph stays where it is.
<1>12. \A p \in Facts(problem) :
         /\ p \in New => factLayer'[p] = n + 1
         /\ p \notin New => factLayer'[p] = factLayer[p]
         /\ factLayer[p] >= 0 => factLayer'[p] = factLayer[p]
  BY <1>1, <1>2, <1>7
<1>13. \A a \in Actions :
         /\ a \in F => actionLayer'[a] = n
         /\ a \notin F => actionLayer'[a] = actionLayer[a]
         /\ actionLayer[a] >= 0 => actionLayer'[a] = actionLayer[a]
  BY <1>1, <1>2, <1>5, <1>6
\* The actions taken into the layer find what they require, and add it.
<1>14. ASSUME NEW a \in Actions, a \in F
       PROVE  /\ actionLayer'[a] = n /\ actionLayer[a] < 0
              /\ a.pre # {} /\ \A p \in a.pre : factLayer'[p] \in 0..n
              /\ ActionReady(a, n)
              /\ \A p \in a.add : factLayer'[p] >= 0
              /\ a.ops # {} => a \in operators'
  <2>1. a \in C /\ ActionReady(a, n)
    BY <1>6, <1>14
  <2>2. \A p \in a.pre : p \in Facts(problem) /\ factLayer[p] \in 0..n
    BY <1>5, <2>1
  <2>3. \A p \in a.pre : factLayer'[p] \in 0..n
    BY <1>1, <1>12, <2>2
  <2>4. \A p \in a.add : p \in Facts(problem) /\ (p \in New \/ ~ (factLayer[p] < 0))
    BY <1>14, ActionsKnown DEF New
  <2>5. \A p \in a.add : factLayer'[p] >= 0
    BY <1>1, <1>12, <2>4
  <2>6. a.ops # {} => a \in operators'
    BY <1>2, <1>14
  <2> QED
    BY <1>5, <1>13, <1>14, <2>1, <2>3, <2>5, <2>6
\* An action whose facts are there, and that is not in the graph, was there to be
\* taken, if it had not been before.
<1>15. ASSUME NEW a \in Actions, a.pre # {}, \A p \in a.pre : factLayer'[p] \in 0..n,
              actionLayer'[a] < 0
       PROVE  a \in C /\ a \notin F
  <2>1. a \notin F /\ actionLayer[a] < 0
    BY <1>1, <1>13, <1>15
  <2>2. \A p \in a.pre : p \in Facts(problem) /\ factLayer[p] \in 0..n
    <3>1. \A p \in a.pre : p \in Facts(problem)
      BY ActionsKnown
    <3>2. \A p \in a.pre : p \notin New
      BY <1>1, <1>12, <1>15, <3>1
    <3> QED
      BY <1>12, <1>15, <3>1, <3>2
  <2>3. CASE \E p \in a.pre : factLayer[p] = n
    BY <1>1, <2>1, <2>2, <2>3 DEF C, Available, FactsAt, n
  <2>4. CASE ~\E p \in a.pre : factLayer[p] = n
    <3>1. \A p \in a.pre : p \in Facts(problem) /\ factLayer[p] \in 0..(Built - 1)
      BY <1>1, <2>2, <2>4
    <3>2. a \in ready
      BY <1>1, <1>15, <2>1, <3>1 DEF Inv, BuildInv, FactsAt
    <3> QED
      BY <2>1, <3>2 DEF C
  <2> QED
    BY <2>1, <2>3, <2>4
<1>16. TypeInv'
  <2>1. factLayer' \in [Facts(problem) -> Int]
    BY <1>1, <1>2
  <2>2. actionLayer' \in [Actions -> Int]
    BY <1>1, <1>2
  <2>3. ready' \subseteq Actions /\ kept' \subseteq operators'
    BY <1>1, <1>2, <1>5 DEF TypeInv
  <2>4. pc' \in {"extract", "null", "build"}
    BY <1>2
  <2> QED
    BY <1>1, <1>2, <1>4, <1>8, <1>10, <2>1, <2>2, <2>3, <2>4 DEF TypeInv
<1>17. FactsInv'
  <2> SUFFICES ASSUME NEW p \in Facts(problem)
               PROVE  /\ factLayer'[p] \in -1..(n + 1)
                      /\ factLayer'[p] = 0 <=> p \in state.facts
                      /\ factLayer'[p] > 0 =>
                            \E a \in Actions : p \in a.add /\ actionLayer'[a] = factLayer'[p] - 1
    BY <1>2, <1>4, <1>10 DEF FactsInv
  <2>1. factLayer[p] \in -1..n /\ (factLayer[p] = 0 <=> p \in state.facts)
    BY <1>1 DEF FactsInv
  <2>2. CASE p \in New
    <3>1. PICK a \in F : p \in a.add
      BY <2>2 DEF New
    <3>2. a \in Actions /\ actionLayer'[a] = n
      BY <1>5, <1>6, <1>13, <3>1
    <3> QED
      BY <1>1, <1>7, <1>12, <2>1, <2>2, <3>1, <3>2
  <2>3. CASE p \notin New
    <3>1. factLayer'[p] = factLayer[p]
      BY <1>12, <2>3
    <3>2. ASSUME factLayer[p] > 0
          PROVE  \E a \in Actions : p \in a.add /\ actionLayer'[a] = factLayer[p] - 1
      <4>1. PICK a \in Actions : p \in a.add /\ actionLayer[a] = factLayer[p] - 1
        BY <1>1, <3>2 DEF FactsInv
      <4>2. actionLayer[a] >= 0
        BY <1>1, <3>2, <4>1
      <4> QED
        BY <1>13, <4>1, <4>2
    <3> QED
      BY <1>1, <2>1, <3>1, <3>2
  <2> QED
    BY <2>2, <2>3
<1>18. ActionsInv'
  <2> SUFFICES ASSUME NEW a \in Actions
               PROVE  /\ actionLayer'[a] \in -1..n
                      /\ actionLayer'[a] >= 0 =>
                            /\ a.pre # {} /\ \A p \in a.pre : factLayer'[p] \in 0..actionLayer'[a]
                            /\ ActionReady(a, actionLayer[a])'
                            /\ \A p \in a.add : factLayer'[p] >= 0
                            /\ a.ops # {} => a \in operators'
    BY <1>1, <1>4, <1>10 DEF ActionsInv, InGraph
  <2>1. CASE a \in F
    <3>1. actionLayer'[a] = n /\ n \in 0..n
      BY <1>1, <1>14, <2>1
    <3>2. ActionReady(a, actionLayer[a])'
      BY <1>11, <1>14, <2>1, <3>1
    <3> QED
      BY <1>1, <1>14, <2>1, <3>1, <3>2
  <2>2. CASE a \notin F
    <3>1. actionLayer'[a] = actionLayer[a] /\ actionLayer[a] \in -1..(n - 1)
      BY <1>1, <1>13, <2>2 DEF ActionsInv
    <3> SUFFICES ASSUME actionLayer[a] >= 0
                 PROVE  /\ \A p \in a.pre : factLayer'[p] \in 0..actionLayer'[a]
                        /\ ActionReady(a, actionLayer[a])'
                        /\ \A p \in a.add : factLayer'[p] >= 0
                        /\ a.pre # {} /\ (a.ops # {} => a \in operators')
      BY <1>1, <3>1
    <3>2. /\ a.pre # {} /\ \A p \in a.pre : factLayer[p] \in 0..actionLayer[a]
          /\ ActionReady(a, actionLayer[a])
          /\ \A p \in a.add : factLayer[p] >= 0
          /\ a.ops # {} => a \in operators
      BY <1>1 DEF ActionsInv, InGraph
    <3>3. \A p \in a.pre \cup a.add : p \in Facts(problem)
      BY ActionsKnown
    <3>4. actionLayer[a] \in 0..n
      BY <1>1, <3>1
    <3>5. ActionReady(a, actionLayer[a])'
      BY <1>11, <3>1, <3>2, <3>4
    <3>6. \A p \in a.pre : factLayer'[p] \in 0..actionLayer'[a]
      BY <1>12, <3>1, <3>2, <3>3
    <3>7. \A p \in a.add : factLayer'[p] >= 0
      BY <1>12, <3>2, <3>3
    <3> QED
      BY <1>2, <3>2, <3>5, <3>6, <3>7
  <2> QED
    BY <2>1, <2>2
<1>19. BoundsInv'
  <2>1. high'[1] = state'.number /\ low'[1] = state'.number
    <3>1. high[1] = state.number /\ low[1] = state.number
      BY <1>1 DEF BoundsInv
    <3>2. 1 \in 1..(n + 1)
      BY <1>1
    <3> QED
      BY <1>2, <1>10, <3>1, <3>2
  <2>2. ASSUME NEW a \in operators, NEW k \in 0..n, CountsAt(a, k - 1)
        PROVE  a \in kept' \/ actionLayer'[a] \in 0..(k - 1)
    <3>1. a \in Actions
      BY <1>1 DEF TypeInv, Actions
    <3> QED
      BY <1>1, <1>2, <1>13, <2>2, <3>1 DEF CountsAt
  <2>3. ASSUME NEW a \in operators'
        PROVE  a \in kept' \/ actionLayer'[a] \in 0..n
    <3>1. CASE a \in operators
      <4>1. CountsAt(a, n - 1) /\ n \in 0..n
        BY <1>1, <3>1 DEF BoundsInv
      <4> QED
        BY <1>1, <2>2, <3>1, <4>1
    <3>2. CASE a \in F
      BY <1>1, <1>5, <1>6, <1>13, <3>2
    <3> QED
      BY <1>2, <3>1, <3>2
  <2>4. \A j, k \in 1..(n + 2) : j <= k => high'[j] <= high'[k] /\ low'[k] <= low'[j]
    <3> SUFFICES ASSUME NEW j \in 1..(n + 2), NEW k \in 1..(n + 2), j <= k
                 PROVE  high'[j] <= high'[k] /\ low'[k] <= low'[j]
      OBVIOUS
    <3>1. \A i \in 1..(n + 1) : /\ high[i] \in Int /\ low[i] \in Int
                                /\ high[i] <= H /\ L <= low[i]
      <4>1. n + 1 \in 1..(n + 1) /\ \A i \in 1..(n + 1) : i <= n + 1
        BY <1>1
      <4>2. \A i \in 1..(n + 1) : high[i] \in Int /\ low[i] \in Int
        BY <1>1 DEF TypeInv
      <4> QED
        BY <1>1, <4>1, <4>2 DEF BoundsInv, H, L
    <3>2. CASE k \in 1..(n + 1)
      <4>1. j \in 1..(n + 1)
        BY <1>1, <3>2
      <4>2. high[j] <= high[k] /\ low[k] <= low[j]
        BY <1>1, <3>2, <4>1 DEF BoundsInv
      <4> QED
        BY <1>10, <3>2, <4>1, <4>2
    <3>3. CASE k = n + 2 /\ j \in 1..(n + 1)
      BY <1>1, <1>9, <1>10, <3>1, <3>3
    <3>4. CASE k = n + 2 /\ j = n + 2
      BY <1>9, <1>10, <3>4
    <3> QED
      BY <1>1, <3>2, <3>3, <3>4
  <2>5. ASSUME NEW k \in 1..(n + 1)
        PROVE  /\ \/ high'[k + 1] = high'[k]
                  \/ \E a \in operators' : \E o \in a.ops :
                        /\ a \in kept' \/ actionLayer'[a] \in 0..(k - 1)
                        /\ high'[k + 1] = Operate(o, high'[k])
               /\ \/ low'[k + 1] = low'[k]
                  \/ \E a \in operators' : \E o \in a.ops :
                        /\ a \in kept' \/ actionLayer'[a] \in 0..(k - 1)
                        /\ low'[k + 1] = Operate(o, low'[k])
    <3>1. CASE k = n + 1
      <4>1. k + 1 = n + 2 /\ k - 1 = n /\ high'[k] = H /\ low'[k] = L
        BY <1>1, <1>10, <3>1 DEF H, L
      <4> QED
        BY <1>9, <1>10, <2>3, <4>1
    <3>2. CASE k # n + 1
      <4>1. /\ k \in 1..n /\ k \in 0..n
            /\ high'[k + 1] = high[k + 1] /\ high'[k] = high[k]
            /\ low'[k + 1] = low[k + 1] /\ low'[k] = low[k]
        <5>1. k \in 1..n /\ k \in 0..n /\ k + 1 \in 1..(n + 1)
          BY <1>1, <3>2
        <5> QED
          BY <1>10, <5>1
      <4>2. /\ \/ high[k + 1] = high[k]
               \/ \E a \in operators : \E o \in a.ops :
                     CountsAt(a, k - 1) /\ high[k + 1] = Operate(o, high[k])
            /\ \/ low[k + 1] = low[k]
               \/ \E a \in operators : \E o \in a.ops :
                     CountsAt(a, k - 1) /\ low[k + 1] = Operate(o, low[k])
        BY <1>1, <4>1 DEF BoundsInv
      <4> QED
        BY <1>2, <2>2, <4>1, <4>2
    <3> QED
      BY <3>1, <3>2
  <2>6. Built' - 1 = n /\ Built' = n + 1 /\ Len(high') = n + 2
    BY <1>1, <1>10
  <2> QED
    BY <2>1, <2>3, <2>4, <2>5, <2>6 DEF BoundsInv, CountsAt
<1>20. BuildInv'
  <2> SUFFICES ASSUME pc' = "build"
               PROVE  /\ layer' = Built' /\ goals' = GoalOf(state)'
                      /\ \A a \in ready' :
                            actionLayer'[a] < 0 /\ a.pre # {} /\ \A p \in a.pre : factLayer'[p] >= 0
                      /\ \A a \in Actions' :
                            a.pre # {} /\ a.pre \subseteq FactsAt(Built - 1)' /\ actionLayer'[a] < 0
                            => a \in ready'
    BY DEF BuildInv, InGraph
  <2>1. layer' = Built' /\ goals' = GoalOf(state)'
    BY <1>1, <1>2, <1>4, <1>10
  <2>2. ASSUME NEW a \in ready'
        PROVE  actionLayer'[a] < 0 /\ a.pre # {} /\ \A p \in a.pre : factLayer'[p] >= 0
    <3>1. a \in C /\ a \notin F
      BY <1>2
    <3>2. /\ a \in Actions /\ actionLayer[a] < 0 /\ a.pre # {}
          /\ \A p \in a.pre : p \in Facts(problem) /\ factLayer[p] \in 0..n
      BY <1>5, <3>1
    <3>3. \A p \in a.pre : factLayer'[p] >= 0
      BY <1>1, <1>12, <3>2
    <3> QED
      BY <1>13, <3>1, <3>2, <3>3
  <2>3. ASSUME NEW a \in Actions, a.pre # {}, a.pre \subseteq FactsAt(Built - 1)',
               actionLayer'[a] < 0
        PROVE  a \in ready'
    <3>1. \A p \in a.pre : factLayer'[p] \in 0..n
      <4>1. Built' - 1 = n
        BY <1>1, <1>10
      <4> QED
        BY <2>3, <4>1 DEF FactsAt
    <3> QED
      BY <1>2, <1>15, <2>3, <3>1
  <2> QED
    BY <1>4, <2>1, <2>2, <2>3
<1>21. EndInv'
  <2>1. CASE pc' = "build"
    BY <2>1 DEF EndInv
  <2>2. CASE pc' = "extract"
    <3>1. GoalMet
      BY <1>2, <2>2
    <3> QED
      BY <1>1, <1>4, <2>2, <3>1 DEF EndInv, GoalMet, InGraph
  <2>3. CASE pc' = "null"
    <3>1. ~GoalMet /\ F = {} /\ C = ready
      BY <1>2, <2>3 DEF C
    <3>2. \E p \in GoalOf(state) : ~ (factLayer'[p] >= 0)
      BY <1>1, <3>1 DEF GoalMet
    <3>3. Moving' \/ Closed'
      <4> SUFFICES ASSUME ~Moving' PROVE Closed'
        OBVIOUS
      <4>1. hi = H /\ lo = L
        <5>1. /\ Len(high') = n + 2 /\ Len(low') = n + 2
              /\ (n + 2) - 1 = n + 1 /\ n + 1 \in 1..(n + 1)
          BY <1>1, <1>10
        <5>2. high'[n + 1] = H /\ low'[n + 1] = L
          BY <1>10, <5>1 DEF H, L
        <5> QED
          BY <1>10, <5>1, <5>2 DEF Moving
      <4>2. Last(high)' = hi /\ Last(low)' = lo
        BY <1>10 DEF Last
      <4> SUFFICES ASSUME NEW a \in problem.actions, a.pre # {},
                          \A p \in a.pre : factLayer'[p] >= 0,
                          \A c \in a.cmp : Met(c, hi, lo)
                   PROVE  /\ \A p \in a.add : factLayer'[p] >= 0
                          /\ \A o \in a.ops : Operate(o, hi) <= hi /\ Operate(o, lo) >= lo
        BY <1>2, <4>2 DEF Closed, InGraph
      <4>3. a \in Actions
        BY DEF Actions
      <4>4. \A p \in a.pre : factLayer'[p] \in 0..n
        <5>1. \A p \in a.pre : p \in Facts(problem)
          BY <4>3, ActionsKnown
        <5>2. New = {}
          BY <3>1 DEF New
        <5> QED
          BY <1>1, <1>12, <5>1, <5>2 DEF FactsInv
      <4>5. actionLayer'[a] >= 0
        <5> SUFFICES ASSUME actionLayer'[a] < 0 PROVE FALSE
          BY <1>1, <1>13, <4>3
        <5>1. a \in C /\ a \notin F
          BY <1>15, <4>3, <4>4
        <5>2. ActionReady(a, n)
          BY <4>1 DEF ActionReady, MetAt, H, L
        <5> QED
          BY <5>1, <5>2 DEF F
      <4>6. /\ \A p \in a.add : factLayer'[p] >= 0
            /\ a.ops # {} => a \in operators'
        BY <1>4, <1>18, <4>3, <4>5 DEF ActionsInv, InGraph
      <4> QED
        BY <1>9, <4>1, <4>6
    <3> QED
      BY <1>4, <2>3, <3>2, <3>3 DEF EndInv, InGraph
  <2> QED
    BY <1>2, <2>1, <2>2, <2>3
<1>22. Len(high') >= 1
  BY <1>1, <1>10
<1> QED
  BY <1>16, <1>17, <1>18, <1>19, <1>20, <1>21, <1>22 DEF Inv

\* The invariant is kept by every step.
LEMMA StepInv ==
  ASSUME Inv, [Next]_vars
  PROVE  Inv'
<1>1. CASE \E s \in {InitialState} \cup Successors : Evaluate(s)
  BY <1>1, EvaluateInv
<1>2. CASE AddLayer
  BY <1>2, AddLayerInv
<1>3. CASE ChooseActions
  <2>1. pc = "extract" /\ UNCHANGED <<problem, state, graph, pc, kept>>
    BY <1>3 DEF ChooseActions
  <2> QED
    BY <2>1, SameGraph
<1>4. CASE FinishPlan
  <2>1. pc = "extract" /\ pc' = "found" /\ UNCHANGED <<problem, state, graph, kept>>
    BY <1>4 DEF FinishPlan
  <2> QED
    BY <2>1, SameGraph
<1>5. CASE UNCHANGED vars
  <2>1. /\ pc' = pc /\ UNCHANGED <<problem, state, graph, kept, layer, goals>>
        /\ pc \in {"idle", "build", "extract", "found", "null"}
    BY <1>5 DEF vars, extraction, Inv, TypeInv
  <2> QED
    BY <2>1, SameGraph
<1> QED
  BY <1>1, <1>2, <1>3, <1>4, <1>5 DEF Next, Finished

\* A state without a relaxed plan is a dead end, and one with a plan is not, as
\* far as the relaxation can tell (getPlan): but for a graph that levelled off
\* with its bounds still moving, which NUMERIC_LIMIT does not prevent, and for
\* operators left from another state.
THEOREM DeadEndsAreTold == Spec => []DeadEndsAreDead
<1>1. Init => Inv
  BY InitInv
<1>2. Inv /\ [Next]_vars => Inv'
  BY StepInv
<1>3. Inv => DeadEndsAreDead
  BY VerdictIsRight
<1> QED
  BY <1>1, <1>2, <1>3, PTL DEF Spec

-----------------------------------------------------------------------------
(* Recursion, sums and orders.                                               *)

\* A function defined by recursion over 0..n: step[<<i, v>>] is the i-th value
\* when v is the one before it.
Follows(f, n, V, base, step) ==
    f \in [0..n -> V] /\ f[0] = base /\ \A i \in 1..n : f[i] = step[<<i, f[i - 1]>>]

\* Such a function exists.
LEMMA Recursion ==
  ASSUME NEW n \in Nat, NEW V, NEW base \in V, NEW step \in [(1..n) \X V -> V]
  PROVE  \E f : Follows(f, n, V, base, step)
<1> DEFINE Reaches(f, m) == /\ f \in [0..m -> V]
                            /\ f[0] = base /\ \A i \in 1..m : f[i] = step[<<i, f[i - 1]>>]
           S == {m \in Nat : m <= n => \E f : Reaches(f, m)}
<1>1. 0 \in S
  <2> DEFINE f == [i \in 0..0 |-> base]
  <2>1. Reaches(f, 0)
    OBVIOUS
  <2> QED
    BY <2>1
<1>2. ASSUME NEW m \in S PROVE m + 1 \in S
  <2>1. m \in Nat /\ m + 1 \in Nat /\ (m + 1) - 1 = m /\ m + 1 \in 0..(m + 1)
    OBVIOUS
  <2> SUFFICES ASSUME m + 1 <= n PROVE \E g : Reaches(g, m + 1)
    BY <2>1
  <2>2. m <= n /\ m + 1 \in 1..n
    BY <2>1
  <2>3. PICK f : Reaches(f, m)
    BY <2>2
  <2>4. f[m] \in V /\ step[<<m + 1, f[m]>>] \in V
    BY <2>1, <2>2, <2>3
  <2> DEFINE g == [i \in 0..(m + 1) |-> IF i = m + 1 THEN step[<<m + 1, f[m]>>] ELSE f[i]]
  <2>5. g \in [0..(m + 1) -> V]
    BY <2>1, <2>3, <2>4
  <2>6. \A i \in 0..m : g[i] = f[i]
    BY <2>1
  <2>7. g[m + 1] = step[<<m + 1, f[m]>>] /\ g[m] = f[m]
    BY <2>1, <2>6
  <2> HIDE DEF g
  <2>8. g[0] = base
    BY <2>1, <2>3, <2>6
  <2>9. ASSUME NEW i \in 1..(m + 1) PROVE g[i] = step[<<i, g[i - 1]>>]
    <3>1. CASE i = m + 1
      BY <2>1, <2>7, <3>1
    <3>2. CASE i # m + 1
      <4>1. i \in 1..m /\ i \in 0..m /\ i - 1 \in 0..m
        BY <2>1, <3>2
      <4> QED
        BY <2>3, <2>6, <4>1
    <3> QED
      BY <3>1, <3>2
  <2>10. Reaches(g, m + 1)
    BY <2>5, <2>8, <2>9
  <2> QED
    BY <2>10
<1>3. \A m \in Nat : m \in S
  <2>1. S \in SUBSET Nat
    OBVIOUS
  <2> HIDE DEF S
  <2> QED
    BY <1>1, <1>2, <2>1, AllNumbers
<1>4. \E f : Reaches(f, n)
  BY <1>3
<1> QED
  BY <1>4 DEF Follows

\* One of the elements of s.
OneOf(s) == CHOOSE x \in s : TRUE

\* it[s] is the sum of G over the subset s of S.
SumsOver(it, S, G) ==
    it = [s \in SUBSET S |-> IF s = {} THEN 0 ELSE G[OneOf(s)] + it[s \ {OneOf(s)}]]

\* SumFunction, without the folds.
LEMMA SumIs ==
  ASSUME NEW S, NEW G, DOMAIN G = S
  PROVE  SumFunction(G) = (CHOOSE it : SumsOver(it, S, G))[S]
BY DEF SumFunction, SumFunctionOnSet, FoldFunctionOnSet, MapThenFoldSet, SumsOver, OneOf

\* The sums over the subsets of a finite set are defined.
LEMMA SumsExist ==
  ASSUME NEW S, IsFiniteSet(S), NEW G \in [S -> Int]
  PROVE  \E it \in [SUBSET S -> Int] : SumsOver(it, S, G)
<1> DEFINE n == Cardinality(S)
           V == [SUBSET S -> Int]
           zero == [s \in SUBSET S |-> 0]
           Longer(h) == [s \in SUBSET S |-> IF s = {} THEN 0 ELSE G[OneOf(s)] + h[s \ {OneOf(s)}]]
           step == [p \in (1..(n + 1)) \X V |-> Longer(p[2])]
<1>1. n \in Nat /\ n + 1 \in Nat
  BY FS_CardinalityType
<1>2. \A s \in SUBSET S : s # {} => OneOf(s) \in s /\ G[OneOf(s)] \in Int /\ s \ {OneOf(s)} \in SUBSET S
  BY DEF OneOf
<1>3. zero \in V
  OBVIOUS
<1>4. \A h \in V : Longer(h) \in V
  <2> SUFFICES ASSUME NEW h \in V PROVE Longer(h) \in V
    OBVIOUS
  <2>1. ASSUME NEW s \in SUBSET S PROVE (IF s = {} THEN 0 ELSE G[OneOf(s)] + h[s \ {OneOf(s)}]) \in Int
    <3>1. CASE s = {}
      BY <3>1
    <3>2. CASE s # {}
      <4>1. G[OneOf(s)] \in Int /\ h[s \ {OneOf(s)}] \in Int
        BY <1>2, <3>2
      <4> QED
        BY <3>2, <4>1
    <3> QED
      BY <3>1, <3>2
  <2> QED
    BY <2>1
<1>5. step \in [(1..(n + 1)) \X V -> V]
  <2> HIDE DEF V, Longer, n
  <2> QED
    BY <1>4
<1>6. PICK f : Follows(f, n + 1, V, zero, step)
  <2> HIDE DEF step, zero, V, n
  <2> QED
    BY <1>1, <1>3, <1>5, Recursion
<1>7. /\ f \in [0..(n + 1) -> V] /\ f[0] = zero
      /\ \A i \in 1..(n + 1) : f[i] = Longer(f[i - 1])
  <2>1. f \in [0..(n + 1) -> V] /\ f[0] = zero /\ \A i \in 1..(n + 1) : f[i] = step[<<i, f[i - 1]>>]
    BY <1>6 DEF Follows
  <2>2. ASSUME NEW i \in 1..(n + 1) PROVE f[i] = Longer(f[i - 1])
    <3>1. i - 1 \in 0..(n + 1)
      BY <1>1
    <3>2. f[i - 1] \in V
      BY <2>1, <3>1
    <3> HIDE DEF V, Longer, n
    <3>3. step[<<i, f[i - 1]>>] = Longer(f[i - 1])
      BY <3>2
    <3> HIDE DEF step
    <3> QED
      BY <2>1, <3>3
  <2> QED
    BY <2>1, <2>2
\* The sums over sets of k elements do not change after k steps.
<1> DEFINE Stable(k) == \A s \in SUBSET S : Cardinality(s) <= k => f[k][s] = f[k + 1][s]
           K == {k \in Nat : k <= n => Stable(k)}
<1>8. \A s \in SUBSET S : /\ IsFiniteSet(s) /\ Cardinality(s) \in Nat /\ Cardinality(s) <= n
                          /\ Cardinality(s) = 0 <=> s = {}
                          /\ s # {} => Cardinality(s \ {OneOf(s)}) = Cardinality(s) - 1
  <2> SUFFICES ASSUME NEW s \in SUBSET S
               PROVE  /\ IsFiniteSet(s) /\ Cardinality(s) \in Nat /\ Cardinality(s) <= n
                      /\ Cardinality(s) = 0 <=> s = {}
                      /\ s # {} => Cardinality(s \ {OneOf(s)}) = Cardinality(s) - 1
    OBVIOUS
  <2>1. IsFiniteSet(s) /\ Cardinality(s) <= n
    BY FS_Subset
  <2>2. Cardinality(s) \in Nat /\ (Cardinality(s) = 0 <=> s = {})
    BY <2>1, FS_CardinalityType, FS_EmptySet
  <2>3. s # {} => Cardinality(s \ {OneOf(s)}) = Cardinality(s) - 1
    BY <1>2, <2>1, FS_RemoveElement
  <2> QED
    BY <2>1, <2>2, <2>3
<1>9. ASSUME NEW i \in 1..(n + 1), NEW s \in SUBSET S
      PROVE  f[i][s] = IF s = {} THEN 0 ELSE G[OneOf(s)] + f[i - 1][s \ {OneOf(s)}]
  <2>1. f[i] = Longer(f[i - 1])
    BY <1>7
  <2> QED
    BY <2>1
<1>10. 0 \in K
  <2>1. 1 \in 1..(n + 1) /\ 0 + 1 = 1
    BY <1>1
  <2>2. ASSUME NEW s \in SUBSET S, Cardinality(s) <= 0 PROVE f[0][s] = f[0 + 1][s]
    <3>1. s = {}
      <4>1. Cardinality(s) \in Nat
        BY <1>8
      <4>2. Cardinality(s) = 0
        BY <2>2, <4>1
      <4> QED
        BY <1>8, <4>2
    <3>2. f[0][s] = 0
      BY <1>7
    <3>3. f[1][s] = 0
      BY <1>9, <2>1, <3>1
    <3> QED
      BY <2>1, <3>2, <3>3
  <2> QED
    BY <2>2
<1>11. ASSUME NEW k \in K PROVE k + 1 \in K
  <2> SUFFICES ASSUME k + 1 <= n, NEW s \in SUBSET S, Cardinality(s) <= k + 1
               PROVE  f[k + 1][s] = f[(k + 1) + 1][s]
    BY <1>11
  <2>1. /\ k \in Nat /\ k <= n /\ k + 1 \in 1..(n + 1) /\ (k + 1) + 1 \in 1..(n + 1)
        /\ (k + 1) - 1 = k /\ ((k + 1) + 1) - 1 = k + 1
    BY <1>1
  <2>2. CASE s = {}
    BY <1>9, <2>1, <2>2
  <2>3. CASE s # {}
    <3> DEFINE r == s \ {OneOf(s)}
    <3>1. r \in SUBSET S /\ Cardinality(r) <= k
      BY <1>2, <1>8, <2>1, <2>3
    <3>2. f[k][r] = f[k + 1][r]
      BY <2>1, <3>1
    <3>3. f[k + 1][s] = G[OneOf(s)] + f[k][r] /\ f[(k + 1) + 1][s] = G[OneOf(s)] + f[k + 1][r]
      BY <1>9, <2>1, <2>3
    <3> QED
      BY <3>2, <3>3
  <2> QED
    BY <2>2, <2>3
<1>12. \A k \in Nat : k \in K
  <2>1. K \in SUBSET Nat
    OBVIOUS
  <2> HIDE DEF K
  <2> QED
    BY <1>10, <1>11, <2>1, AllNumbers
<1>13. Stable(n)
  <2>1. n \in K
    <3> HIDE DEF K
    <3> QED
      BY <1>1, <1>12
  <2>2. n <= n
    BY <1>1
  <2> HIDE DEF Stable, n
  <2> QED
    BY <2>1, <2>2
<1>14. f[n] \in V /\ f[n + 1] \in V
  <2>1. n \in 0..(n + 1) /\ n + 1 \in 0..(n + 1)
    <3> HIDE DEF n
    <3> QED
      BY <1>1
  <2>2. f \in [0..(n + 1) -> V]
    BY <1>7
  <2> HIDE DEF V, n
  <2> QED
    BY <2>1, <2>2
<1>15. f[n + 1] = f[n]
  <2> DEFINE g == f[n]
             h == f[n + 1]
  <2>1. g \in V /\ h \in V
    BY <1>14
  <2>2. \A s \in SUBSET S : g[s] = h[s]
    BY <1>8, <1>13
  <2> HIDE DEF g, h
  <2>3. g = h
    BY <2>1, <2>2
  <2> QED
    BY <2>3 DEF g, h
<1>16. f[n + 1] = Longer(f[n])
  <2>1. n + 1 \in 1..(n + 1) /\ (n + 1) - 1 = n
    BY <1>1
  <2> HIDE DEF Longer, n
  <2> QED
    BY <1>7, <2>1
<1> DEFINE it == f[n]
<1>17. it \in [SUBSET S -> Int] /\ it = Longer(it)
  BY <1>14, <1>15, <1>16
<1>18. SumsOver(it, S, G)
  BY <1>17 DEF SumsOver
<1> HIDE DEF it
<1> QED
  BY <1>17, <1>18

\* A sum of integers is one.
LEMMA SumIsInt ==
  ASSUME NEW S, IsFiniteSet(S), NEW G \in [S -> Int]
  PROVE  SumFunction(G) \in Int
<1> DEFINE it == CHOOSE h : SumsOver(h, S, G)
           K == {k \in Nat : \A s \in SUBSET S : Cardinality(s) <= k => it[s] \in Int}
<1>1. PICK h \in [SUBSET S -> Int] : SumsOver(h, S, G)
  BY SumsExist
<1>2. SumsOver(it, S, G)
  BY <1>1
<1>3. SumFunction(G) = it[S]
  BY SumIs
<1> HIDE DEF it
<1>4. \A s \in SUBSET S : it[s] = IF s = {} THEN 0 ELSE G[OneOf(s)] + it[s \ {OneOf(s)}]
  BY <1>2 DEF SumsOver
<1>5. \A s \in SUBSET S : s # {} => OneOf(s) \in s
  BY DEF OneOf
<1>6. \A s \in SUBSET S : /\ Cardinality(s) \in Nat /\ (Cardinality(s) = 0 <=> s = {})
                          /\ \A x \in s : Cardinality(s \ {x}) = Cardinality(s) - 1
  <2> SUFFICES ASSUME NEW s \in SUBSET S
               PROVE  /\ Cardinality(s) \in Nat /\ (Cardinality(s) = 0 <=> s = {})
                      /\ \A x \in s : Cardinality(s \ {x}) = Cardinality(s) - 1
    OBVIOUS
  <2>1. IsFiniteSet(s)
    BY FS_Subset
  <2> QED
    BY <2>1, FS_CardinalityType, FS_EmptySet, FS_RemoveElement
<1>0. it[{}] = 0
  <2>1. {} \in SUBSET S
    OBVIOUS
  <2> QED
    BY <1>4, <2>1
<1>7. 0 \in K
  <2>1. \A s \in SUBSET S : Cardinality(s) <= 0 => s = {}
    <3>1. \A s \in SUBSET S : Cardinality(s) <= 0 => Cardinality(s) = 0
      BY <1>6
    <3> QED
      BY <1>6, <3>1
  <2> QED
    BY <2>1, <1>0
<1>8. ASSUME NEW k \in K PROVE k + 1 \in K
  <2>1. k \in Nat /\ \A s \in SUBSET S : Cardinality(s) <= k => it[s] \in Int
    OBVIOUS
  <2>2. ASSUME NEW s \in SUBSET S, Cardinality(s) <= k + 1 PROVE it[s] \in Int
    <3>1. CASE s = {}
      BY <1>0, <3>1
    <3>2. CASE s # {}
      <4> DEFINE x == OneOf(s)
                 r == s \ {x}
      <4>1. x \in s /\ r \in SUBSET S
        BY <1>5, <3>2
      <4>2. it[s] = G[x] + it[r]
        BY <1>4, <3>2
      <4>3. G[x] \in Int
        BY <4>1
      <4> HIDE DEF x
      <4>4. Cardinality(r) <= k
        BY <1>6, <2>1, <2>2, <4>1
      <4> HIDE DEF r
      <4>5. it[r] \in Int
        BY <2>1, <4>1, <4>4
      <4> QED
        BY <4>2, <4>3, <4>5
    <3> QED
      BY <3>1, <3>2
  <2> QED
    BY <2>1, <2>2
<1>9. \A k \in Nat : k \in K
  <2>1. K \in SUBSET Nat
    OBVIOUS
  <2> HIDE DEF K
  <2> QED
    BY <1>7, <1>8, <2>1, AllNumbers
<1>10. Cardinality(S) \in K /\ Cardinality(S) <= Cardinality(S) /\ S \in SUBSET S
  <2>1. Cardinality(S) \in Nat
    BY FS_CardinalityType
  <2> HIDE DEF K
  <2> QED
    BY <1>9, <2>1
<1> QED
  BY <1>3, <1>10

\* An order of a finite set has each of its elements.
LEMMA OrderLists ==
  ASSUME NEW S, IsFiniteSet(S), NEW order \in SetToSeqs(S)
  PROVE  /\ Len(order) = Cardinality(S) /\ Len(order) \in Nat
         /\ \A i \in 1..Len(order) : order[i] \in S
         /\ \A x \in S : \E i \in 1..Len(order) : order[i] = x
<1> DEFINE n == Cardinality(S)
<1>1. /\ n \in Nat /\ order \in [1..n -> S]
      /\ \A i, j \in 1..n : i # j => order[i] # order[j]
  BY FS_CardinalityType DEF SetToSeqs
<1>2. Len(order) = n /\ DOMAIN order = 1..n
  BY <1>1
<1>3. order \in Injection(1..n, S)
  BY <1>1, <1>2 DEF Injection, IsInjective
<1>4. order \in Surjection(1..n, S)
  <2>1. Cardinality(1..n) = n
    BY <1>1, FS_Interval
  <2> QED
    BY <1>3, <2>1, FS_Injection
<1> HIDE DEF n
<1>5. \A x \in S : \E i \in 1..n : order[i] = x
  BY <1>4 DEF Surjection
<1> QED
  BY <1>1, <1>2, <1>5 DEF n

\* So has the order of a finite set that is chosen.
LEMMA SeqLists ==
  ASSUME NEW S, IsFiniteSet(S)
  PROVE  SetToSeq(S) \in SetToSeqs(S)
<1> DEFINE n == Cardinality(S)
<1>1. PICK f : f \in Bijection(1..n, S)
  BY FS_CardinalityType DEF ExistsBijection
<1>2. f \in [1..n -> S] /\ IsInjective(f)
  BY <1>1 DEF Bijection, Injection
<1>3. SetToSeq(S) \in [1..n -> S] /\ IsInjective(SetToSeq(S))
  BY <1>2 DEF SetToSeq
<1> QED
  BY <1>3 DEF SetToSeqs, IsInjective

-----------------------------------------------------------------------------
(* The actions chosen for facts.                                             *)

\* The facts and the actions of a problem are finitely many.
LEMMA ProblemFinite ==
  ASSUME problem \in Problems
  PROVE  /\ IsFiniteSet(Facts(problem)) /\ IsFiniteSet(Actions)
         /\ \A a \in Actions : IsFiniteSet(a.pre) /\ IsFiniteSet(a.cmp)
<1>1. IsFiniteSet(Facts(problem)) /\ IsFiniteSet(problem.actions)
  BY ProblemsAssumption
<1>2. IsFiniteSet(NoOps)
  <2> DEFINE K == KnownFacts(problem)
             f == [p \in K |-> NoOp(p)]
             T == {NoOp(p) : p \in K}
  <2>1. IsFiniteSet(K)
    <3>1. K \subseteq Facts(problem)
      BY DEF Facts
    <3> HIDE DEF K
    <3> QED
      BY <1>1, <3>1, FS_Subset
  <2>2. f \in Surjection(K, T)
    BY DEF Surjection
  <2>3. IsFiniteSet(T)
    <3> HIDE DEF f, K, T
    <3> QED
      BY <2>1, <2>2, FS_Surjection
  <2> QED
    BY <2>3 DEF NoOps
<1>3. IsFiniteSet(Actions)
  BY <1>1, <1>2, FS_Union DEF Actions
<1>4. ASSUME NEW a \in Actions PROVE IsFiniteSet(a.pre) /\ IsFiniteSet(a.cmp)
  <2>1. IsFiniteSet(a.pre)
    <3>1. a.pre \subseteq Facts(problem)
      BY ActionsKnown
    <3> QED
      BY <1>1, <3>1, FS_Subset
  <2>2. IsFiniteSet(a.cmp)
    <3>1. CASE a \in problem.actions
      BY <3>1, ProblemsAssumption
    <3>2. CASE a \in NoOps
      BY <3>2, NoOpsKeep, FS_EmptySet
    <3> QED
      BY <3>1, <3>2 DEF Actions
  <2> QED
    BY <2>1, <2>2
<1> QED
  BY <1>1, <1>3, <1>4

\* The difficulty of an action is an integer.
LEMMA DifficultyIsInt ==
  ASSUME TypeInv, NEW a \in Actions
  PROVE  Difficulty(a) \in Int
<1> DEFINE S == a.pre
           G == [p \in S |-> factLayer[p]]
<1>1. IsFiniteSet(S)
  BY ProblemFinite DEF TypeInv
<1>2. G \in [S -> Int]
  <2>1. \A p \in S : factLayer[p] \in Int
    BY ActionsKnown DEF TypeInv
  <2> QED
    BY <2>1
<1>3. Difficulty(a) = SumFunction(G)
  BY DEF Difficulty
<1> HIDE DEF S, G
<1> QED
  BY <1>1, <1>2, <1>3, SumIsInt

\* There is an action to be chosen for a fact whenever one may achieve it: a
\* no-op or one chosen before if there is one.
LEMMA AchieverFound ==
  ASSUME TypeInv, NEW p, NEW l, NEW chosen
  PROVE  /\ Achievers(p, l, chosen) \subseteq Eligible(p, l)
         /\ Eligible(p, l) \subseteq Actions
         /\ Eligible(p, l) # {} => Achievers(p, l, chosen) # {}
         /\ \A a \in Achievers(p, l, chosen) :
               a \in NoOps \/ a \in chosen \/ Eligible(p, l) \cap NoOps = {}
<1> DEFINE El == Eligible(p, l)
           Ac == Achievers(p, l, chosen)
           preferred == El \cap (NoOps \cup chosen)
<1>1. El \subseteq Actions
  BY DEF Eligible, ActionsAt
<1>2. /\ preferred # {} => Ac = preferred
      /\ preferred = {} => Ac = {a \in El : \A b \in El : Difficulty(a) <= Difficulty(b)}
  BY DEF Achievers
<1>3. \A a \in El : Difficulty(a) \in Int
  BY <1>1, DifficultyIsInt
<1>4. IsFiniteSet(El)
  BY <1>1, ProblemFinite, FS_Subset DEF TypeInv
<1> HIDE DEF El, Ac
<1>5. ASSUME El # {} PROVE \E a \in El : \A b \in El : Difficulty(a) <= Difficulty(b)
  <2> DEFINE D == {Difficulty(a) : a \in El}
             f == [a \in El |-> Difficulty(a)]
  <2>1. f \in Surjection(El, D)
    BY DEF Surjection
  <2>2. D \in SUBSET Int /\ D # {}
    BY <1>3, <1>5
  <2>3. IsFiniteSet(D)
    <3> HIDE DEF f, D
    <3> QED
      BY <1>4, <2>1, FS_Surjection
  <2>4. Min(D) \in D /\ \A y \in D : Min(D) <= y
    <3> HIDE DEF D
    <3> QED
      BY <2>2, <2>3, Smallest
  <2> QED
    BY <2>4
<1>6. Ac \subseteq El
  BY <1>2
<1>7. El # {} => Ac # {}
  BY <1>2, <1>5
<1>8. \A a \in Ac : a \in NoOps \/ a \in chosen \/ El \cap NoOps = {}
  BY <1>2
<1> QED
  BY <1>1, <1>6, <1>7, <1>8 DEF El, Ac

\* ChosenFor is what its definition says: a turn for each fact.
LEMMA ChosenForTurns ==
  ASSUME TypeInv, NEW l, NEW order, Len(order) \in Nat
  PROVE  \E f : /\ f[0] = {{}}
                /\ \A i \in 1..Len(order) :
                      f[i] = UNION {WithAchiever(order[i], l, chosen) : chosen \in f[i - 1]}
                /\ ChosenFor(order, l) = f[Len(order)]
<1> DEFINE n == Len(order)
           V == SUBSET SUBSET Actions
           turn(i, s) == UNION {WithAchiever(order[i], l, chosen) : chosen \in s}
           step == [x \in (1..n) \X V |-> turn(x[1], x[2])]
           Def(f) == f = [i \in 0..n |-> IF i = 0 THEN {{}} ELSE turn(i, f[i - 1])]
<1>1. \A i, s : s \in V => turn(i, s) \in V
  <2> SUFFICES ASSUME NEW i, NEW s \in V, NEW chosen \in s, NEW C \in WithAchiever(order[i], l, chosen)
               PROVE  C \in SUBSET Actions
    OBVIOUS
  <2>1. Achievers(order[i], l, chosen) \subseteq Actions
    BY AchieverFound
  <2> QED
    BY <2>1 DEF WithAchiever
<1>2. step \in [(1..n) \X V -> V]
  <2> HIDE DEF V, turn, n
  <2> QED
    BY <1>1
<1>3. PICK f : Follows(f, n, V, {{}}, step)
  <2>1. {{}} \in V /\ n \in Nat
    OBVIOUS
  <2> HIDE DEF V, step, n
  <2> QED
    BY <1>2, <2>1, Recursion
<1>4. f \in [0..n -> V] /\ f[0] = {{}} /\ \A i \in 1..n : f[i] = turn(i, f[i - 1])
  <2>1. f \in [0..n -> V] /\ f[0] = {{}} /\ \A i \in 1..n : f[i] = step[<<i, f[i - 1]>>]
    BY <1>3 DEF Follows
  <2>2. ASSUME NEW i \in 1..n PROVE f[i] = turn(i, f[i - 1])
    <3>1. i - 1 \in 0..n
      OBVIOUS
    <3>2. f[i - 1] \in V
      BY <2>1, <3>1
    <3> HIDE DEF V, turn, n
    <3>3. step[<<i, f[i - 1]>>] = turn(i, f[i - 1])
      BY <3>2
    <3> HIDE DEF step
    <3> QED
      BY <2>1, <3>3
  <2> QED
    BY <2>1, <2>2
<1>5. Def(f)
  <2> HIDE DEF V, turn
  <2>1. \A i \in 0..n : f[i] = IF i = 0 THEN {{}} ELSE turn(i, f[i - 1])
    BY <1>4
  <2>2. f = [i \in 0..n |-> f[i]]
    BY <1>4
  <2> QED
    BY <2>1, <2>2
<1> DEFINE after == CHOOSE h : Def(h)
<1>6. ChosenFor(order, l) = after[n]
  BY DEF ChosenFor
<1>7. Def(after)
  <2> HIDE DEF Def
  <2> QED
    BY <1>5
<1> HIDE DEF after
<1>8. after[0] = {{}} /\ \A i \in 1..n : after[i] = turn(i, after[i - 1])
  <2> HIDE DEF turn
  <2>1. \A i \in 0..n : after[i] = IF i = 0 THEN {{}} ELSE turn(i, after[i - 1])
    BY <1>7
  <2>2. 0 \in 0..n /\ \A i \in 1..n : i \in 0..n /\ i # 0
    OBVIOUS
  <2> QED
    BY <2>1, <2>2
<1> QED
  BY <1>6, <1>8

\* Every fact that actions of the layer below may achieve has one of them among
\* those chosen, and every one chosen may achieve a fact: a no-op, or an action
\* for a fact that no no-op achieves.
LEMMA ChosenForFacts ==
  ASSUME TypeInv, NEW l, NEW order, Len(order) \in Nat, NEW C \in ChosenFor(order, l)
  PROVE  /\ \A a \in C : \E j \in 1..Len(order) :
               /\ a \in Eligible(order[j], l)
               /\ a \in NoOps \/ Eligible(order[j], l) \cap NoOps = {}
         /\ \A j \in 1..Len(order) :
               Eligible(order[j], l) # {} => \E a \in C : a \in Eligible(order[j], l)
<1> DEFINE n == Len(order)
           El(j) == Eligible(order[j], l)
           From(a, i) == \E j \in 1..i : a \in El(j) /\ (a \in NoOps \/ El(j) \cap NoOps = {})
           Good(i, D) == /\ \A a \in D : From(a, i)
                         /\ \A j \in 1..i : El(j) # {} => \E a \in D : a \in El(j)
<1>1. PICK f : /\ f[0] = {{}}
               /\ \A i \in 1..n : f[i] = UNION {WithAchiever(order[i], l, chosen) : chosen \in f[i - 1]}
               /\ ChosenFor(order, l) = f[n]
  BY ChosenForTurns
<1> DEFINE K == {i \in Nat : i <= n => \A D \in f[i] : Good(i, D)}
<1>2. 0 \in K
  <2>1. \A D \in f[0] : D = {}
    BY <1>1
  <2> QED
    BY <2>1
<1>3. ASSUME NEW i \in K PROVE i + 1 \in K
  <2>1. /\ i \in Nat /\ i + 1 \in Nat /\ (i + 1) - 1 = i /\ i + 1 \in 1..(i + 1)
        /\ \A j \in 1..(i + 1) : j \in 1..i \/ j = i + 1
        /\ \A j \in 1..i : j \in 1..(i + 1)
    OBVIOUS
  <2> SUFFICES ASSUME i + 1 <= n, NEW D \in f[i + 1] PROVE Good(i + 1, D)
    BY <2>1
  <2>2. i <= n /\ i + 1 \in 1..n
    BY <2>1
  <2>3. PICK c \in f[i] : D \in WithAchiever(order[i + 1], l, c)
    BY <1>1, <2>1, <2>2
  <2>4. Good(i, c)
    BY <2>2
  <2> DEFINE Ac == Achievers(order[i + 1], l, c)
  <2>5. /\ Ac \subseteq El(i + 1) /\ (El(i + 1) # {} => Ac # {})
        /\ \A a \in Ac : a \in NoOps \/ a \in c \/ El(i + 1) \cap NoOps = {}
    BY AchieverFound
  <2>6. \A a \in c : From(a, i + 1)
    <3> HIDE DEF El
    <3> QED
      BY <2>1, <2>4
  <2>7. \A j \in 1..i : El(j) # {} => \E a \in c : a \in El(j)
    BY <2>4
  <2>8. CASE Ac = {}
    <3>1. D = c
      BY <2>3, <2>8 DEF WithAchiever
    <3>2. El(i + 1) = {}
      BY <2>5, <2>8
    <3> HIDE DEF El, Ac, From
    <3> QED
      BY <2>1, <2>6, <2>7, <3>1, <3>2
  <2>9. CASE Ac # {}
    <3>1. PICK b \in Ac : D = c \cup {b}
      BY <2>3, <2>9 DEF WithAchiever
    <3>2. b \in El(i + 1)
      BY <2>5
    <3> HIDE DEF El, Ac
    <3>3. From(b, i + 1)
      <4>1. CASE b \in c
        BY <2>6, <4>1
      <4>2. CASE b \notin c
        BY <2>1, <2>5, <3>2, <4>2
      <4> QED
        BY <4>1, <4>2
    <3> HIDE DEF From
    <3> QED
      BY <2>1, <2>6, <2>7, <3>1, <3>2, <3>3
  <2> QED
    BY <2>8, <2>9
<1>4. \A i \in Nat : i \in K
  <2>1. K \in SUBSET Nat
    OBVIOUS
  <2> HIDE DEF K
  <2> QED
    BY <1>2, <1>3, <2>1, AllNumbers
<1>5. n \in K /\ n <= n
  <2> HIDE DEF K
  <2> QED
    BY <1>4
<1> HIDE DEF Good
<1>6. Good(n, C)
  BY <1>1, <1>5
<1> QED
  BY <1>6 DEF Good

-----------------------------------------------------------------------------
(* The actions chosen for comparators.                                       *)

\* Turns are taken one after the other.
LEMMA TurnByTurn ==
  ASSUME NEW c, NEW l, NEW order, Len(order) \in Nat
  PROVE  \E f : /\ f[0] = [acts |-> {}, cmp |-> c]
                /\ \A i \in 1..Len(order) : f[i] = Turn(f[i - 1], order[i], l)
                /\ AfterTurns(c, order, l) = f[Len(order)]
<1> DEFINE n == Len(order)
           none == [acts |-> {}, cmp |-> c]
           turn(i, r) == Turn(r, order[i], l)
           Run(f, m) == f[0] = none /\ \A i \in 1..m : f[i] = turn(i, f[i - 1])
           S == {m \in Nat : \E f : Run(f, m)}
           Def(f) == f = [i \in 0..n |-> IF i = 0 THEN none ELSE turn(i, f[i - 1])]
<1> HIDE DEF turn
<1>1. 0 \in S
  <2> DEFINE f == [i \in 0..0 |-> none]
  <2>1. f[0] = none /\ \A i \in 1..0 : FALSE
    OBVIOUS
  <2> QED
    BY <2>1
<1>2. ASSUME NEW m \in S PROVE m + 1 \in S
  <2>1. m \in Nat /\ m + 1 \in Nat /\ (m + 1) - 1 = m /\ m + 1 # 0
    OBVIOUS
  <2>2. PICK f : Run(f, m)
    OBVIOUS
  <2> DEFINE g == [i \in 0..(m + 1) |-> IF i = m + 1 THEN turn(m + 1, f[m]) ELSE f[i]]
  <2>3. \A i \in 0..m : g[i] = f[i]
    BY <2>1
  <2>4. g[m + 1] = turn(m + 1, f[m]) /\ g[m] = f[m] /\ g[0] = f[0]
    BY <2>1, <2>3
  <2> HIDE DEF g
  <2>5. ASSUME NEW i \in 1..(m + 1) PROVE g[i] = turn(i, g[i - 1])
    <3>1. CASE i = m + 1
      BY <2>1, <2>4, <3>1
    <3>2. CASE i # m + 1
      <4>1. i \in 1..m /\ i \in 0..m /\ i - 1 \in 0..m
        BY <2>1, <3>2
      <4> QED
        BY <2>2, <2>3, <4>1
    <3> QED
      BY <3>1, <3>2
  <2>6. Run(g, m + 1)
    BY <2>2, <2>4, <2>5
  <2> QED
    BY <2>1, <2>6
<1>3. \A m \in Nat : m \in S
  <2>1. S \in SUBSET Nat
    OBVIOUS
  <2> HIDE DEF S
  <2> QED
    BY <1>1, <1>2, <2>1, AllNumbers
<1>4. PICK f : Run(f, n)
  BY <1>3
<1> DEFINE h == [i \in 0..n |-> f[i]]
<1>5. Def(h)
  <2>1. \A i \in 0..n : h[i] = IF i = 0 THEN none ELSE turn(i, h[i - 1])
    <3> SUFFICES ASSUME NEW i \in 0..n PROVE h[i] = IF i = 0 THEN none ELSE turn(i, h[i - 1])
      OBVIOUS
    <3>1. CASE i = 0
      BY <1>4, <3>1
    <3>2. CASE i # 0
      <4>1. i \in 1..n /\ i - 1 \in 0..n
        BY <3>2
      <4> QED
        BY <1>4, <3>2, <4>1
    <3> QED
      BY <3>1, <3>2
  <2>2. h = [i \in 0..n |-> h[i]]
    OBVIOUS
  <2> HIDE DEF h
  <2> QED
    BY <2>1, <2>2
<1> DEFINE after == CHOOSE k : Def(k)
<1>6. AfterTurns(c, order, l) = after[n]
  BY DEF AfterTurns, turn
<1>7. Def(after)
  <2> HIDE DEF Def, h
  <2> QED
    BY <1>5
<1> HIDE DEF after
<1>8. after[0] = none /\ \A i \in 1..n : after[i] = turn(i, after[i - 1])
  <2>1. \A i \in 0..n : after[i] = IF i = 0 THEN none ELSE turn(i, after[i - 1])
    BY <1>7
  <2>2. 0 \in 0..n /\ \A i \in 1..n : i \in 0..n /\ i # 0
    OBVIOUS
  <2> QED
    BY <2>1, <2>2
<1> QED
  BY <1>6, <1>8 DEF turn

\* The first action that makes a comparator better is taken for it, and so are
\* only actions of the layer below.
LEMMA TurnsTaken ==
  ASSUME NEW c, NEW l, NEW order, Len(order) \in Nat
  PROVE  /\ AfterTurns(c, order, l).acts \subseteq ActionsAt(l - 1)
         /\ Len(order) = 0 => AfterTurns(c, order, l).acts = {} /\ AfterTurns(c, order, l).cmp = c
         /\ Len(order) > 0 /\ order[1] \in Better(c, l) /\ ~MetAt(c, l - 1) =>
               order[1] \in AfterTurns(c, order, l).acts
<1> DEFINE n == Len(order)
<1>1. PICK f : /\ f[0] = [acts |-> {}, cmp |-> c]
               /\ \A i \in 1..n : f[i] = Turn(f[i - 1], order[i], l)
               /\ AfterTurns(c, order, l) = f[n]
  BY TurnByTurn
<1>2. \A r, a : /\ r.acts \subseteq ActionsAt(l - 1) => Turn(r, a, l).acts \subseteq ActionsAt(l - 1)
                /\ r.acts \subseteq Turn(r, a, l).acts
  BY DEF Turn, Take, Better
<1> DEFINE Good(i) == /\ f[i].acts \subseteq ActionsAt(l - 1)
                      /\ i >= 1 /\ order[1] \in Better(c, l) /\ ~MetAt(c, l - 1) => order[1] \in f[i].acts
           K == {i \in Nat : i <= n => Good(i)}
<1>3. 0 \in K
  BY <1>1
<1>4. ASSUME NEW i \in K PROVE i + 1 \in K
  <2>1. i \in Nat /\ i + 1 \in Nat /\ (i + 1) - 1 = i
    OBVIOUS
  <2> SUFFICES ASSUME i + 1 <= n PROVE Good(i + 1)
    BY <2>1
  <2>2. i <= n /\ i + 1 \in 1..n
    BY <2>1
  <2>3. Good(i)
    BY <2>2
  <2>4. f[i + 1] = Turn(f[i], order[i + 1], l)
    BY <1>1, <2>1, <2>2
  <2>5. f[i + 1].acts \subseteq ActionsAt(l - 1) /\ f[i].acts \subseteq f[i + 1].acts
    BY <1>2, <2>3, <2>4
  <2>6. ASSUME order[1] \in Better(c, l), ~MetAt(c, l - 1) PROVE order[1] \in f[i + 1].acts
    <3>1. CASE i = 0
      <4>1. f[0].cmp = c /\ i + 1 = 1
        BY <1>1, <3>1
      <4>2. f[1] = Take(f[0], order[1])
        BY <2>4, <2>6, <3>1, <4>1 DEF Turn
      <4> QED
        BY <4>1, <4>2 DEF Take
    <3>2. CASE i # 0
      <4>1. i >= 1
        BY <2>1, <3>2
      <4> QED
        BY <2>3, <2>5, <2>6, <4>1
    <3> QED
      BY <3>1, <3>2
  <2> QED
    BY <2>5, <2>6
<1>5. \A i \in Nat : i \in K
  <2>1. K \in SUBSET Nat
    OBVIOUS
  <2> HIDE DEF K
  <2> QED
    BY <1>3, <1>4, <2>1, AllNumbers
<1>6. Good(n)
  <2>1. n \in K /\ n <= n
    <3> HIDE DEF K
    <3> QED
      BY <1>5
  <2> HIDE DEF Good
  <2> QED
    BY <2>1
<1>7. n > 0 => n >= 1
  OBVIOUS
<1>8. n = 0 => AfterTurns(c, order, l) = [acts |-> {}, cmp |-> c]
  BY <1>1
<1> QED
  BY <1>1, <1>6, <1>7, <1>8

\* A comparator that is met below stays as it is; for another one an action that
\* makes it better is chosen, if there is any.
LEMMA ImprovementIs ==
  ASSUME TypeInv, NEW c, NEW l, NEW b \in Improvements(c, l)
  PROVE  /\ b.acts \subseteq Actions
         /\ MetAt(c, l - 1) => b.acts = {} /\ b.cmp = c
         /\ ~MetAt(c, l - 1) /\ Better(c, l) # {} => \E a \in Better(c, l) : a \in b.acts
<1>1. CASE MetAt(c, l - 1)
  <2>1. b = [acts |-> {}, cmp |-> c]
    BY <1>1 DEF Improvements
  <2> QED
    BY <1>1, <2>1
<1>2. CASE ~MetAt(c, l - 1)
  <2> DEFINE B == Better(c, l)
             ending(r, a) == IF MetAt(r.cmp, l - 1) THEN r ELSE Take(r, a)
  <2>1. PICK a \in Actions : \E order \in SetToSeqs(B \ {a}) : b = ending(AfterTurns(c, order, l), a)
    BY <1>2 DEF Improvements
  <2> PICK order \in SetToSeqs(B \ {a}) : b = ending(AfterTurns(c, order, l), a)
    BY <2>1
  <2> DEFINE r == AfterTurns(c, order, l)
  <2>2. B \subseteq Actions /\ ActionsAt(l - 1) \subseteq Actions
    BY DEF Better, ActionsAt
  <2>3. IsFiniteSet(B \ {a})
    BY <2>2, ProblemFinite, FS_Subset DEF TypeInv
  <2>4. /\ Len(order) = Cardinality(B \ {a}) /\ Len(order) \in Nat
        /\ \A i \in 1..Len(order) : order[i] \in B \ {a}
    BY <2>3, OrderLists
  <2>5. /\ r.acts \subseteq ActionsAt(l - 1)
        /\ Len(order) = 0 => r.acts = {} /\ r.cmp = c
        /\ Len(order) > 0 /\ order[1] \in B => order[1] \in r.acts
    BY <1>2, <2>4, TurnsTaken
  <2> HIDE DEF r
  <2>6. b = IF MetAt(r.cmp, l - 1) THEN r ELSE Take(r, a)
    BY <2>1 DEF r
  <2>7. r.acts \subseteq b.acts /\ b.acts \subseteq Actions
    BY <2>2, <2>5, <2>6 DEF Take
  <2>8. ASSUME B # {} PROVE \E x \in B : x \in b.acts
    <3>1. CASE Len(order) = 0
      <4>1. B \ {a} = {}
        BY <2>3, <2>4, <3>1, FS_EmptySet
      <4>2. a \in B
        BY <2>8, <4>1
      <4>3. b = Take(r, a)
        BY <1>2, <2>5, <2>6, <3>1
      <4> QED
        BY <4>2, <4>3 DEF Take
    <3>2. CASE Len(order) # 0
      <4>1. Len(order) > 0 /\ 1 \in 1..Len(order)
        BY <2>4, <3>2
      <4> QED
        BY <2>4, <2>5, <2>7, <4>1
    <3> QED
      BY <3>1, <3>2
  <2> QED
    BY <1>2, <2>7, <2>8
<1> QED
  BY <1>1, <1>2

\* ImprovementsOf is what its definition says: the comparators one by one.
LEMMA ImprovementsOneByOne ==
  ASSUME NEW cmps, NEW l, Len(SetToSeq(cmps)) \in Nat
  PROVE  \E f : /\ f[0] = {[acts |-> {}, cmps |-> {}]}
                /\ \A i \in 1..Len(SetToSeq(cmps)) : f[i] =
                      WithImprovement(SetToSeq(cmps)[i], l, f[i - 1])
                /\ ImprovementsOf(cmps, l) = f[Len(SetToSeq(cmps))]
<1> DEFINE order == SetToSeq(cmps)
           n == Len(order)
           none == {[acts |-> {}, cmps |-> {}]}
           turn(i, s) == WithImprovement(order[i], l, s)
           Run(f, m) == f[0] = none /\ \A i \in 1..m : f[i] = turn(i, f[i - 1])
           S == {m \in Nat : \E f : Run(f, m)}
           Def(f) == f = [i \in 0..n |-> IF i = 0 THEN none ELSE turn(i, f[i - 1])]
<1> HIDE DEF turn
<1>1. 0 \in S
  <2> DEFINE f == [i \in 0..0 |-> none]
  <2>1. f[0] = none /\ \A i \in 1..0 : FALSE
    OBVIOUS
  <2> QED
    BY <2>1
<1>2. ASSUME NEW m \in S PROVE m + 1 \in S
  <2>1. m \in Nat /\ m + 1 \in Nat /\ (m + 1) - 1 = m /\ m + 1 # 0
    OBVIOUS
  <2>2. PICK f : Run(f, m)
    OBVIOUS
  <2> DEFINE g == [i \in 0..(m + 1) |-> IF i = m + 1 THEN turn(m + 1, f[m]) ELSE f[i]]
  <2>3. \A i \in 0..m : g[i] = f[i]
    BY <2>1
  <2>4. g[m + 1] = turn(m + 1, f[m]) /\ g[m] = f[m] /\ g[0] = f[0]
    BY <2>1, <2>3
  <2> HIDE DEF g
  <2>5. ASSUME NEW i \in 1..(m + 1) PROVE g[i] = turn(i, g[i - 1])
    <3>1. CASE i = m + 1
      BY <2>1, <2>4, <3>1
    <3>2. CASE i # m + 1
      <4>1. i \in 1..m /\ i \in 0..m /\ i - 1 \in 0..m
        BY <2>1, <3>2
      <4> QED
        BY <2>2, <2>3, <4>1
    <3> QED
      BY <3>1, <3>2
  <2>6. Run(g, m + 1)
    BY <2>2, <2>4, <2>5
  <2> QED
    BY <2>1, <2>6
<1>3. \A m \in Nat : m \in S
  <2>1. S \in SUBSET Nat
    OBVIOUS
  <2> HIDE DEF S
  <2> QED
    BY <1>1, <1>2, <2>1, AllNumbers
<1>4. PICK f : Run(f, n)
  BY <1>3
<1> DEFINE h == [i \in 0..n |-> f[i]]
<1>5. Def(h)
  <2>1. \A i \in 0..n : h[i] = IF i = 0 THEN none ELSE turn(i, h[i - 1])
    <3> SUFFICES ASSUME NEW i \in 0..n PROVE h[i] = IF i = 0 THEN none ELSE turn(i, h[i - 1])
      OBVIOUS
    <3>1. CASE i = 0
      BY <1>4, <3>1
    <3>2. CASE i # 0
      <4>1. i \in 1..n /\ i - 1 \in 0..n
        BY <3>2
      <4> QED
        BY <1>4, <3>2, <4>1
    <3> QED
      BY <3>1, <3>2
  <2>2. h = [i \in 0..n |-> h[i]]
    OBVIOUS
  <2> HIDE DEF h
  <2> QED
    BY <2>1, <2>2
<1> DEFINE after == CHOOSE k : Def(k)
<1>6. ImprovementsOf(cmps, l) = after[n]
  BY DEF ImprovementsOf, turn
<1>7. Def(after)
  <2> HIDE DEF Def, h
  <2> QED
    BY <1>5
<1> HIDE DEF after
<1>8. after[0] = none /\ \A i \in 1..n : after[i] = turn(i, after[i - 1])
  <2>1. \A i \in 0..n : after[i] = IF i = 0 THEN none ELSE turn(i, after[i - 1])
    BY <1>7
  <2>2. 0 \in 0..n /\ \A i \in 1..n : i \in 0..n /\ i # 0
    OBVIOUS
  <2> QED
    BY <2>1, <2>2
<1> QED
  BY <1>6, <1>8 DEF turn

\* Each comparator has its own actions, and what becomes of it.
LEMMA EachImproved ==
  ASSUME NEW cmps, IsFiniteSet(cmps), NEW l, NEW r \in ImprovementsOf(cmps, l)
  PROVE  /\ IsFiniteSet(r.cmps)
         /\ \A a \in r.acts : \E c \in cmps : \E b \in Improvements(c, l) : a \in b.acts
         /\ \A d \in r.cmps : \E c \in cmps : \E b \in Improvements(c, l) : d = b.cmp
         /\ \A c \in cmps : \E b \in Improvements(c, l) : b.acts \subseteq r.acts /\ b.cmp \in r.cmps
<1> DEFINE order == SetToSeq(cmps)
           n == Len(order)
           Im(i) == Improvements(order[i], l)
           Good(i, s) == /\ IsFiniteSet(s.cmps)
                         /\ \A a \in s.acts : \E j \in 1..i : \E b \in Im(j) : a \in b.acts
                         /\ \A d \in s.cmps : \E j \in 1..i : \E b \in Im(j) : d = b.cmp
                         /\ \A j \in 1..i : \E b \in Im(j) : b.acts \subseteq s.acts /\ b.cmp \in s.cmps
<1>1. /\ n \in Nat /\ \A i \in 1..n : order[i] \in cmps
      /\ \A x \in cmps : \E i \in 1..n : order[i] = x
  BY SeqLists, OrderLists
<1>2. PICK f : /\ f[0] = {[acts |-> {}, cmps |-> {}]}
               /\ \A i \in 1..n : f[i] = WithImprovement(order[i], l, f[i - 1])
               /\ ImprovementsOf(cmps, l) = f[n]
  BY <1>1, ImprovementsOneByOne
<1> DEFINE K == {i \in Nat : i <= n => \A s \in f[i] : Good(i, s)}
<1> HIDE DEF order, Im
<1>3. 0 \in K
  <2>1. \A s \in f[0] : s.acts = {} /\ s.cmps = {} /\ IsFiniteSet(s.cmps)
    <3>1. \A s \in f[0] : s.acts = {} /\ s.cmps = {}
      BY <1>2
    <3>2. IsFiniteSet({})
      BY FS_EmptySet
    <3> QED
      BY <3>1, <3>2
  <2>2. \A j \in 1..0 : FALSE
    OBVIOUS
  <2>3. \A s \in f[0] : Good(0, s)
    BY <2>1, <2>2
  <2> HIDE DEF Good
  <2> QED
    BY <2>3
<1>4. ASSUME NEW i \in K PROVE i + 1 \in K
  <2>1. /\ i \in Nat /\ i + 1 \in Nat /\ (i + 1) - 1 = i /\ i + 1 \in 1..(i + 1)
        /\ \A j \in 1..(i + 1) : j \in 1..i \/ j = i + 1
        /\ \A j \in 1..i : j \in 1..(i + 1)
    OBVIOUS
  <2> SUFFICES ASSUME i + 1 <= n, NEW s \in f[i + 1] PROVE Good(i + 1, s)
    BY <2>1
  <2>2. i <= n /\ i + 1 \in 1..n
    BY <2>1
  <2>3. PICK q \in f[i], b \in Im(i + 1) :
          s = [acts |-> q.acts \cup b.acts, cmps |-> q.cmps \cup {b.cmp}]
    <3>1. s \in WithImprovement(order[i + 1], l, f[i])
      BY <1>2, <2>1, <2>2
    <3> QED
      BY <3>1 DEF WithImprovement, Im
  <2>4. Good(i, q)
    BY <2>2
  <2>4a. IsFiniteSet(q.cmps)
    BY <2>4
  <2>5. s.acts = q.acts \cup b.acts /\ s.cmps = q.cmps \cup {b.cmp}
    BY <2>3
  <2>6. IsFiniteSet(s.cmps)
    <3>1. IsFiniteSet(q.cmps \cup {b.cmp})
      BY <2>4a, FS_AddElement
    <3> QED
      BY <2>5, <3>1
  <2>7. \A a \in s.acts : \E j \in 1..(i + 1) : \E x \in Im(j) : a \in x.acts
    BY <2>1, <2>4, <2>5
  <2>8. \A d \in s.cmps : \E j \in 1..(i + 1) : \E x \in Im(j) : d = x.cmp
    BY <2>1, <2>4, <2>5
  <2>9. \A j \in 1..(i + 1) : \E x \in Im(j) : x.acts \subseteq s.acts /\ x.cmp \in s.cmps
    <3>1. b.acts \subseteq s.acts /\ b.cmp \in s.cmps /\ q.acts \subseteq s.acts /\ q.cmps \subseteq s.cmps
      BY <2>5
    <3> QED
      BY <2>1, <2>4, <3>1
  <2> QED
    BY <2>6, <2>7, <2>8, <2>9
<1>5. \A i \in Nat : i \in K
  <2>1. K \in SUBSET Nat
    OBVIOUS
  <2> HIDE DEF K
  <2> QED
    BY <1>3, <1>4, <2>1, AllNumbers
<1>6. Good(n, r)
  <2>1. n \in K /\ n <= n
    <3> HIDE DEF K
    <3> QED
      BY <1>1, <1>5
  <2> HIDE DEF Good
  <2> QED
    BY <1>2, <2>1
<1> HIDE DEF n
<1> QED
  BY <1>1, <1>6 DEF Im

-----------------------------------------------------------------------------
(* When actions and facts enter the graph.                                   *)

\* An action is in the graph from the first layer on in which it is applicable.
PromptInv ==
    \A a \in Actions, k \in 0..(Built - 1) :
        a.pre # {} /\ a.pre \subseteq FactsAt(k) /\ ActionReady(a, k) => actionLayer[a] \in 0..k

\* The facts it adds are in the next layer at the latest.
AddsInv ==
    \A a \in Actions :
        actionLayer[a] >= 0 => \A p \in a.add : factLayer[p] <= actionLayer[a] + 1

\* The actions the next layer takes, of those whose facts are there.
Candidates == Available(layer) \cup ready
Taken == {a \in Candidates : ActionReady(a, layer)}

\* What a layer more does.
LEMMA LayerAdded ==
  ASSUME Inv, AddLayer
  PROVE  /\ layer \in Nat /\ Built = layer /\ Built' = layer + 1 /\ layer' = layer + 1
         /\ Actions' = Actions /\ NoOps' = NoOps /\ problem' = problem /\ state' = state
         /\ \A j \in 1..(layer + 1) : high'[j] = high[j] /\ low'[j] = low[j]
         /\ \A a \in Taken : a \in Actions /\ actionLayer[a] < 0
         /\ \A a \in Actions : /\ a \in Taken => actionLayer'[a] = layer
                               /\ a \notin Taken => actionLayer'[a] = actionLayer[a]
                               /\ actionLayer[a] \in -1..(layer - 1)
         /\ \A p \in Facts(problem) :
               /\ factLayer[p] \in -1..layer
               /\ factLayer[p] >= 0 => factLayer'[p] = factLayer[p]
               /\ factLayer[p] < 0 => factLayer'[p] = IF \E a \in Taken : p \in a.add THEN layer + 1
                                                      ELSE factLayer[p]
         /\ \A a \in Actions :
               a.pre # {} /\ a.pre \subseteq FactsAt(layer) /\ actionLayer[a] < 0 => a \in Candidates
<1> DEFINE n == layer
<1>1. /\ TypeInv /\ FactsInv /\ ActionsInv /\ BuildInv /\ pc = "build" /\ Len(high) >= 1
  BY DEF Inv, AddLayer
<1>2. /\ n = Built /\ n \in Nat /\ Len(high) = n + 1 /\ Len(low) = n + 1
      /\ goals = GoalOf(state) /\ DOMAIN factLayer = Facts(problem) /\ problem \in Problems
  BY <1>1 DEF TypeInv, BuildInv, Built
<1>3. /\ actionLayer' = [a \in Actions |-> IF a \in Taken THEN n ELSE actionLayer[a]]
      /\ factLayer' = [p \in Facts(problem) |->
                          IF p \in UNION {a.add : a \in Taken} /\ factLayer[p] < 0 THEN n + 1 ELSE factLayer[p]]
      /\ layer' = n + 1 /\ problem' = problem /\ state' = state
  BY <1>2 DEF AddLayer, Taken, Candidates
<1>4. PICK hi \in NextHigh, lo \in NextLow : high' = Append(high, hi) /\ low' = Append(low, lo)
  BY DEF AddLayer
<1>5. Actions' = Actions /\ NoOps' = NoOps
  BY <1>3, ProblemFixed
<1>6. Inv'
  BY AddLayerInv
<1>7. /\ Len(high') = n + 2 /\ Built' = n + 1
      /\ \A j \in 1..(n + 1) : high'[j] = high[j] /\ low'[j] = low[j]
  <2>1. high \in Seq(Int) /\ low \in Seq(Int)
    BY <1>1 DEF TypeInv
  <2>2. Len(high') = n + 2
    BY <1>2, <1>4, <2>1
  <2>3. \A j \in 1..(n + 1) : high'[j] = high[j] /\ low'[j] = low[j]
    BY <1>2, <1>4, <2>1
  <2>4. Built' = n + 1
    BY <1>2, <2>2 DEF Built
  <2> QED
    BY <2>2, <2>3, <2>4
<1>8. ASSUME NEW a \in Taken PROVE a \in Actions /\ actionLayer[a] < 0
  <2>1. CASE a \in Available(n)
    BY <2>1 DEF Available
  <2>2. CASE a \in ready
    BY <1>1, <2>2 DEF BuildInv, TypeInv
  <2> QED
    BY <2>1, <2>2 DEF Taken, Candidates
<1>9. \A a \in Actions : /\ a \in Taken => actionLayer'[a] = n
                         /\ a \notin Taken => actionLayer'[a] = actionLayer[a]
                         /\ actionLayer[a] \in -1..(n - 1)
  BY <1>1, <1>2, <1>3 DEF ActionsInv
<1>10. \A p \in Facts(problem) :
         /\ factLayer[p] \in -1..n
         /\ factLayer[p] >= 0 => factLayer'[p] = factLayer[p]
         /\ factLayer[p] < 0 => factLayer'[p] = IF \E a \in Taken : p \in a.add THEN n + 1
                                                ELSE factLayer[p]
  <2> SUFFICES ASSUME NEW p \in Facts(problem)
               PROVE  /\ factLayer[p] \in -1..n
                      /\ factLayer[p] >= 0 => factLayer'[p] = factLayer[p]
                      /\ factLayer[p] < 0 => factLayer'[p] = IF \E a \in Taken : p \in a.add THEN n + 1
                                                             ELSE factLayer[p]
    OBVIOUS
  <2>1. factLayer[p] \in -1..n
    BY <1>1, <1>2 DEF FactsInv
  <2>2. factLayer'[p] = IF p \in UNION {a.add : a \in Taken} /\ factLayer[p] < 0 THEN n + 1 ELSE factLayer[p]
    BY <1>3
  <2>3. p \in UNION {a.add : a \in Taken} <=> \E a \in Taken : p \in a.add
    OBVIOUS
  <2> QED
    BY <1>2, <2>1, <2>2, <2>3
<1>11. ASSUME NEW a \in Actions, a.pre # {}, a.pre \subseteq FactsAt(n), actionLayer[a] < 0
       PROVE  a \in Candidates
  <2>1. CASE \E p \in a.pre : factLayer[p] = n
    BY <1>11, <2>1 DEF Available, Candidates
  <2>2. CASE ~\E p \in a.pre : factLayer[p] = n
    <3>1. a.pre \subseteq FactsAt(Built - 1)
      BY <1>2, <1>11, <2>2 DEF FactsAt
    <3> QED
      BY <1>1, <1>11, <3>1 DEF BuildInv, Candidates
  <2> QED
    BY <2>1, <2>2
<1> QED
  BY <1>2, <1>3, <1>5, <1>7, <1>8, <1>9, <1>10, <1>11

\* A layer more keeps them.
LEMMA AddLayerPrompt ==
  ASSUME Inv, PromptInv, AddsInv, AddLayer
  PROVE  PromptInv' /\ AddsInv'
<1> DEFINE n == layer
<1>1. /\ n \in Nat /\ Built = n /\ Built' = n + 1 /\ Actions' = Actions
      /\ \A j \in 1..(n + 1) : high'[j] = high[j] /\ low'[j] = low[j]
      /\ \A a \in Taken : a \in Actions /\ actionLayer[a] < 0
      /\ \A a \in Actions : /\ a \in Taken => actionLayer'[a] = n
                            /\ a \notin Taken => actionLayer'[a] = actionLayer[a]
                            /\ actionLayer[a] \in -1..(n - 1)
      /\ \A p \in Facts(problem) :
            /\ factLayer[p] \in -1..n
            /\ factLayer[p] >= 0 => factLayer'[p] = factLayer[p]
            /\ factLayer[p] < 0 => factLayer'[p] = IF \E a \in Taken : p \in a.add THEN n + 1
                                                   ELSE factLayer[p]
      /\ \A a \in Actions :
            a.pre # {} /\ a.pre \subseteq FactsAt(n) /\ actionLayer[a] < 0 => a \in Candidates
      /\ problem' = problem
  BY LayerAdded
<1>2. Inv'
  BY AddLayerInv
<1>3. DOMAIN factLayer = Facts(problem) /\ DOMAIN factLayer' = Facts(problem)
  <2>1. TypeInv /\ TypeInv'
    BY <1>2 DEF Inv
  <2>2. Facts(problem)' = Facts(problem)
    BY <1>1, ProblemFixed
  <2> QED
    BY <2>1, <2>2 DEF TypeInv
\* The facts of a layer are those that were in it.
<1>4. ASSUME NEW k \in 0..n PROVE FactsAt(k)' = FactsAt(k)
  <2>1. \A p \in Facts(problem) : factLayer'[p] \in 0..k <=> factLayer[p] \in 0..k
    BY <1>1
  <2> QED
    BY <1>3, <2>1 DEF FactsAt
<1>5. ASSUME NEW a, NEW k \in 0..n PROVE ActionReady(a, k)' <=> ActionReady(a, k)
  <2>1. k + 1 \in 1..(n + 1)
    BY <1>1
  <2>2. high'[k + 1] = high[k + 1] /\ low'[k + 1] = low[k + 1]
    BY <1>1, <2>1
  <2> QED
    BY <2>2 DEF ActionReady, MetAt
<1>6. PromptInv'
  <2> SUFFICES ASSUME NEW a \in Actions, NEW k \in 0..n,
                      a.pre # {}, a.pre \subseteq FactsAt(k), ActionReady(a, k)
               PROVE  actionLayer'[a] \in 0..k
    <3>1. Built' - 1 = n
      BY <1>1
    <3> QED
      BY <1>1, <1>4, <1>5, <3>1 DEF PromptInv
  <2>1. CASE actionLayer[a] >= 0
    <3>1. actionLayer'[a] = actionLayer[a] /\ actionLayer[a] \in 0..(n - 1)
      BY <1>1, <2>1
    <3>2. CASE k = n
      BY <1>1, <3>1, <3>2
    <3>3. CASE k # n
      <4>1. k \in 0..(Built - 1)
        BY <1>1, <3>3
      <4> QED
        BY <3>1, <4>1 DEF PromptInv
    <3> QED
      BY <3>2, <3>3
  <2>2. CASE actionLayer[a] < 0
    <3>1. k = n
      <4>1. k # n => k \in 0..(Built - 1)
        BY <1>1
      <4>2. k # n => actionLayer[a] \in 0..k
        BY <4>1 DEF PromptInv
      <4> QED
        BY <1>1, <2>2, <4>2
    <3>2. a \in Taken
      BY <1>1, <2>2, <3>1 DEF Taken
    <3> QED
      BY <1>1, <3>1, <3>2
  <2> QED
    BY <1>1, <2>1, <2>2
<1>7. AddsInv'
  <2> SUFFICES ASSUME NEW a \in Actions, actionLayer'[a] >= 0, NEW p \in a.add
               PROVE  factLayer'[p] <= actionLayer'[a] + 1
    BY <1>1 DEF AddsInv
  <2>1. p \in Facts(problem)
    BY ActionsKnown
  <2>2. CASE a \in Taken
    BY <1>1, <2>1, <2>2
  <2>3. CASE a \notin Taken
    <3>1. actionLayer'[a] = actionLayer[a] /\ actionLayer[a] >= 0
      BY <1>1, <2>3
    <3>2. factLayer[p] <= actionLayer[a] + 1 /\ factLayer[p] >= 0
      BY <3>1 DEF AddsInv, Inv, ActionsInv, InGraph, AddLayer
    <3> QED
      BY <1>1, <2>1, <3>1, <3>2
  <2> QED
    BY <2>2, <2>3
<1> QED
  BY <1>6, <1>7

-----------------------------------------------------------------------------
(* One level of the choice of a plan.                                        *)

\* The plan has a set of actions for each layer that has been dealt with.
ExtractInv ==
    /\ pc = "build" => plan = <<>> /\ comparators = {}
    /\ pc = "extract" =>
          /\ layer \in 0..Built /\ plan \in Seq(SUBSET Actions) /\ Len(plan) = Built - layer
          /\ goals \in SUBSET Facts(problem) /\ IsFiniteSet(comparators)

\* The actions C are chosen at the layer, for the facts and the comparators.
Level(C) ==
    /\ C \in SUBSET Actions
    /\ goals' = UNION {a.pre : a \in C} /\ plan' = <<C \ NoOps>> \o plan
    /\ \A p \in goals : Eligible(p, layer) # {} => \E a \in C : a \in Eligible(p, layer)
    /\ \A a \in C : a.cmp \subseteq comparators'
    /\ \A c \in comparators :
          /\ MetAt(c, layer - 1) => c \in comparators'
          /\ ~MetAt(c, layer - 1) /\ Better(c, layer) # {} => \E a \in Better(c, layer) : a \in C

\* When all comparators are met below, actions are chosen for facts only, and a
\* comparator is one that was there or that an action chosen requires.
PlainLevel(C) ==
    (\A c \in comparators : MetAt(c, layer - 1)) =>
        /\ \A c \in comparators' : c \in comparators \/ \E a \in C : c \in a.cmp
        /\ \A a \in C : \E p \in goals :
              a \in Eligible(p, layer) /\ (a \in NoOps \/ Eligible(p, layer) \cap NoOps = {})

\* What is chosen.
LEMMA LevelChosen ==
  ASSUME TypeInv, ExtractInv, ChooseActions
  PROVE  /\ \E C : Level(C) /\ PlainLevel(C)
         /\ IsFiniteSet(comparators') /\ goals' \in SUBSET Facts(problem)
<1> DEFINE l == layer
<1>1. /\ goals \in SUBSET Facts(problem) /\ IsFiniteSet(comparators) /\ problem \in Problems
  BY DEF ExtractInv, ChooseActions, TypeInv
<1>2. PICK order \in SetToSeqs(goals), numeric \in ImprovementsOf(comparators, l) :
        \E forFacts \in ChosenFor(order, l) :
            LET chosen == forFacts \cup numeric.acts IN
            /\ goals' = UNION {a.pre : a \in chosen}
            /\ comparators' = numeric.cmps \cup UNION {a.cmp : a \in chosen}
            /\ plan' = <<chosen \ NoOps>> \o plan
  BY DEF ChooseActions
<1>3. PICK F \in ChosenFor(order, l) :
            /\ goals' = UNION {a.pre : a \in F \cup numeric.acts}
            /\ comparators' = numeric.cmps \cup UNION {a.cmp : a \in F \cup numeric.acts}
            /\ plan' = <<(F \cup numeric.acts) \ NoOps>> \o plan
  BY <1>2
<1> DEFINE C == F \cup numeric.acts
<1>4. IsFiniteSet(goals)
  BY <1>1, ProblemFinite, FS_Subset
<1>5. /\ Len(order) \in Nat /\ \A i \in 1..Len(order) : order[i] \in goals
      /\ \A p \in goals : \E i \in 1..Len(order) : order[i] = p
  BY <1>4, OrderLists
<1>6. /\ \A a \in F : \E j \in 1..Len(order) :
            /\ a \in Eligible(order[j], l)
            /\ a \in NoOps \/ Eligible(order[j], l) \cap NoOps = {}
      /\ \A j \in 1..Len(order) :
            Eligible(order[j], l) # {} => \E a \in F : a \in Eligible(order[j], l)
  BY <1>5, ChosenForFacts
<1>7. /\ IsFiniteSet(numeric.cmps)
      /\ \A a \in numeric.acts : \E c \in comparators : \E b \in Improvements(c, l) : a \in b.acts
      /\ \A d \in numeric.cmps : \E c \in comparators : \E b \in Improvements(c, l) : d = b.cmp
      /\ \A c \in comparators : \E b \in Improvements(c, l) :
            b.acts \subseteq numeric.acts /\ b.cmp \in numeric.cmps
  BY <1>1, EachImproved
<1>8. \A c : \A b \in Improvements(c, l) :
         /\ b.acts \subseteq Actions
         /\ MetAt(c, l - 1) => b.acts = {} /\ b.cmp = c
         /\ ~MetAt(c, l - 1) /\ Better(c, l) # {} => \E a \in Better(c, l) : a \in b.acts
  BY ImprovementIs
<1>9. C \in SUBSET Actions
  <2>1. \A a \in F : a \in Actions
    BY <1>6 DEF Eligible, ActionsAt
  <2>2. \A a \in numeric.acts : a \in Actions
    BY <1>7, <1>8
  <2> QED
    BY <2>1, <2>2
<1>10. \A p \in goals : Eligible(p, l) # {} => \E a \in C : a \in Eligible(p, l)
  BY <1>5, <1>6
<1>11. \A a \in C : a.cmp \subseteq comparators'
  BY <1>3
<1>12. ASSUME NEW c \in comparators
       PROVE  /\ MetAt(c, l - 1) => c \in comparators'
              /\ ~MetAt(c, l - 1) /\ Better(c, l) # {} => \E a \in Better(c, l) : a \in C
  <2>1. PICK b \in Improvements(c, l) : b.acts \subseteq numeric.acts /\ b.cmp \in numeric.cmps
    BY <1>7
  <2>2. /\ MetAt(c, l - 1) => b.cmp = c
        /\ ~MetAt(c, l - 1) /\ Better(c, l) # {} => \E a \in Better(c, l) : a \in b.acts
    BY <1>8
  <2>3. numeric.cmps \subseteq comparators'
    BY <1>3
  <2> QED
    BY <2>1, <2>2, <2>3
<1>13. Level(C)
  BY <1>3, <1>9, <1>10, <1>11, <1>12 DEF Level
<1>14. PlainLevel(C)
  <2> SUFFICES ASSUME \A c \in comparators : MetAt(c, l - 1)
               PROVE  /\ \A c \in comparators' : c \in comparators \/ \E a \in C : c \in a.cmp
                      /\ \A a \in C : \E p \in goals :
                            a \in Eligible(p, l) /\ (a \in NoOps \/ Eligible(p, l) \cap NoOps = {})
    BY DEF PlainLevel
  <2>1. numeric.acts = {}
    <3> SUFFICES ASSUME NEW a \in numeric.acts PROVE FALSE
      OBVIOUS
    <3>1. PICK c \in comparators : \E b \in Improvements(c, l) : a \in b.acts
      BY <1>7
    <3> QED
      BY <1>8, <3>1
  <2>2. \A d \in numeric.cmps : d \in comparators
    BY <1>7, <1>8
  <2>3. \A c \in comparators' : c \in comparators \/ \E a \in C : c \in a.cmp
    BY <1>3, <2>2
  <2>4. \A a \in C : \E p \in goals :
           a \in Eligible(p, l) /\ (a \in NoOps \/ Eligible(p, l) \cap NoOps = {})
    BY <1>5, <1>6, <2>1
  <2> QED
    BY <2>3, <2>4
<1>15. IsFiniteSet(comparators')
  <2> DEFINE f == [a \in C |-> a.cmp]
             T == {a.cmp : a \in C}
  <2>1. IsFiniteSet(C)
    BY <1>1, <1>9, ProblemFinite, FS_Subset
  <2>2. f \in Surjection(C, T)
    BY DEF Surjection
  <2>3. IsFiniteSet(T)
    <3> HIDE DEF C, f, T
    <3> QED
      BY <2>1, <2>2, FS_Surjection
  <2>4. \A x \in T : IsFiniteSet(x)
    BY <1>1, <1>9, ProblemFinite
  <2>5. IsFiniteSet(UNION T)
    <3> HIDE DEF T
    <3> QED
      BY <2>3, <2>4, FS_UNION
  <2>6. comparators' = numeric.cmps \cup UNION T
    BY <1>3
  <2> HIDE DEF T
  <2> QED
    BY <1>7, <2>5, <2>6, FS_Union
<1>16. goals' \in SUBSET Facts(problem)
  BY <1>3, <1>9, ActionsKnown
<1> QED
  BY <1>13, <1>14, <1>15, <1>16

\* No durative action runs and has ended.
Exclusive == \A e \in problem.durative : ~ ({e.join, e.goal} \subseteq state.facts)

FullInv ==
    /\ Inv /\ ExtractInv /\ Exclusive
    /\ pc # "idle" => PromptInv /\ AddsInv

\* An action that starts a durative one deletes that it has ended, and one that
\* ends it deletes that it runs.
LEMMA StaysExclusive ==
  ASSUME problem \in Problems, Exclusive, NEW s \in {InitialState} \cup Successors
  PROVE  \A e \in problem.durative : ~ ({e.join, e.goal} \subseteq s.facts)
<1>1. CASE s = InitialState
  BY <1>1, ProblemsAssumption DEF InitialState
<1>2. CASE s \in Successors
  <2>1. PICK a \in problem.actions : s = Apply(a, state)
    BY <1>2 DEF Successors
  <2>2. s.facts = (state.facts \ a.del) \cup a.add
    BY <2>1 DEF Apply
  <2> SUFFICES ASSUME NEW e \in problem.durative, e.join \in s.facts, e.goal \in s.facts PROVE FALSE
    OBVIOUS
  <2>3. /\ e.join \in a.add => e.goal \in a.del \ a.add
        /\ e.goal \in a.add => e.join \in a.del \ a.add
    BY ProblemsAssumption
  <2>4. ~ (e.join \in state.facts /\ e.goal \in state.facts)
    BY DEF Exclusive
  <2> QED
    BY <2>2, <2>3, <2>4
<1> QED
  BY <1>1, <1>2

\* Steps that leave the graph as it is keep what is said of it.
LEMMA SamePrompt ==
  ASSUME UNCHANGED <<problem, state, graph>>
  PROVE  /\ PromptInv => PromptInv'
         /\ AddsInv => AddsInv'
         /\ Exclusive => Exclusive'
         /\ Built' = Built /\ Actions' = Actions /\ NoOps' = NoOps /\ Facts(problem)' = Facts(problem)
<1>1. /\ problem' = problem /\ state' = state /\ factLayer' = factLayer
      /\ actionLayer' = actionLayer /\ high' = high /\ low' = low
  BY DEF graph
<1>2. Actions' = Actions /\ NoOps' = NoOps /\ Facts(problem)' = Facts(problem)
  BY <1>1, ProblemFixed
<1>3. Built' = Built
  BY <1>1 DEF Built
<1>4. PromptInv => PromptInv'
  <2> SUFFICES ASSUME PromptInv, NEW a \in Actions, NEW k \in 0..(Built - 1),
                      a.pre # {}, a.pre \subseteq FactsAt(k)', ActionReady(a, k)'
               PROVE  actionLayer'[a] \in 0..k
    BY <1>2, <1>3 DEF PromptInv
  <2>1. FactsAt(k)' = FactsAt(k) /\ (ActionReady(a, k)' <=> ActionReady(a, k))
    BY <1>1 DEF FactsAt, ActionReady, MetAt
  <2> QED
    BY <1>1, <2>1 DEF PromptInv
<1>5. AddsInv => AddsInv'
  BY <1>1, <1>2 DEF AddsInv
<1>6. Exclusive => Exclusive'
  BY <1>1 DEF Exclusive
<1> QED
  BY <1>2, <1>3, <1>4, <1>5, <1>6

\* The full invariant holds at the beginning.
LEMMA InitFull == Init => FullInv
<1> SUFFICES ASSUME Init PROVE FullInv
  OBVIOUS
<1>1. Inv
  BY InitInv
<1>2. pc = "idle" /\ problem \in Problems /\ state = InitialState
  BY DEF Init
<1>3. Exclusive
  BY <1>2, ProblemsAssumption DEF Exclusive, InitialState
<1> QED
  BY <1>1, <1>2, <1>3 DEF FullInv, ExtractInv

\* A new state begins with a graph of one layer.
LEMMA EvaluateFull ==
  ASSUME FullInv, NEW s \in {InitialState} \cup Successors, Evaluate(s)
  PROVE  FullInv'
<1>1. Inv'
  BY EvaluateInv DEF FullInv
<1>2. /\ state' = s /\ problem' = problem /\ high' = <<s.number>>
      /\ actionLayer' = [a \in Actions |-> -1]
      /\ comparators' = {} /\ plan' = <<>> /\ pc' = "build"
  BY DEF Evaluate
<1>3. Actions' = Actions
  BY <1>2, ProblemFixed
<1>4. Built' = 0
  BY <1>2 DEF Built
<1>5. PromptInv'
  BY <1>4 DEF PromptInv
<1>6. AddsInv'
  BY <1>2, <1>3 DEF AddsInv
<1>7. ExtractInv'
  BY <1>2 DEF ExtractInv
<1>8. Exclusive'
  <2>1. problem \in Problems /\ Exclusive
    BY DEF FullInv, Inv, TypeInv
  <2>2. \A e \in problem.durative : ~ ({e.join, e.goal} \subseteq s.facts)
    BY <2>1, StaysExclusive
  <2> QED
    BY <1>2, <2>2 DEF Exclusive
<1> QED
  BY <1>1, <1>5, <1>6, <1>7, <1>8 DEF FullInv

\* A layer more keeps it.
LEMMA AddLayerFull ==
  ASSUME FullInv, AddLayer
  PROVE  FullInv'
<1>1. Inv' /\ PromptInv' /\ AddsInv'
  BY AddLayerInv, AddLayerPrompt DEF FullInv, AddLayer
<1>2. /\ layer \in Nat /\ Built' = layer + 1 /\ layer' = layer + 1
      /\ problem' = problem /\ state' = state /\ Actions' = Actions
  BY LayerAdded DEF FullInv
<1>3. plan = <<>> /\ comparators = {} /\ plan' = plan /\ comparators' = comparators /\ goals' = goals
  BY DEF FullInv, ExtractInv, AddLayer, extraction
<1>4. Facts(problem)' = Facts(problem)
  BY <1>2, ProblemFixed
<1>5. goals \in SUBSET Facts(problem)
  <2>1. goals = GoalOf(state) /\ problem \in Problems
    BY DEF FullInv, Inv, BuildInv, TypeInv, AddLayer
  <2> QED
    BY <2>1, GoalKnown
<1>6. ExtractInv'
  <2>1. layer' \in 0..Built' /\ Len(plan') = Built' - layer' /\ plan' \in Seq(SUBSET Actions')
    <3>1. layer + 1 \in 0..(layer + 1) /\ (layer + 1) - (layer + 1) = 0
      BY <1>2
    <3>2. plan' = <<>> /\ Len(<<>>) = 0 /\ <<>> \in Seq(SUBSET Actions)
      BY <1>3
    <3> QED
      BY <1>2, <3>1, <3>2
  <2>2. IsFiniteSet(comparators')
    BY <1>3, FS_EmptySet
  <2> QED
    BY <1>3, <1>4, <1>5, <2>1, <2>2 DEF ExtractInv
<1>7. Exclusive'
  BY <1>2 DEF Exclusive, FullInv
<1> QED
  BY <1>1, <1>6, <1>7 DEF FullInv

\* So does one level of the choice, which is one set more of actions.
LEMMA ChooseFull ==
  ASSUME FullInv, ChooseActions
  PROVE  FullInv' /\ plan' \in Seq(SUBSET Actions) /\ Len(plan') = Len(plan) + 1
<1>1. /\ pc = "extract" /\ pc' = "extract" /\ layer' = layer - 1 /\ layer > 0
      /\ UNCHANGED <<problem, state, graph, kept>>
  BY DEF ChooseActions
<1>2. Inv'
  BY <1>1, SameGraph DEF FullInv
<1>3. /\ PromptInv' /\ AddsInv' /\ Exclusive'
      /\ Built' = Built /\ Actions' = Actions /\ Facts(problem)' = Facts(problem)
  BY <1>1, SamePrompt DEF FullInv
<1>4. /\ layer \in 0..Built /\ plan \in Seq(SUBSET Actions) /\ Len(plan) = Built - layer
      /\ Built \in Nat
  <2>1. Built \in Nat
    BY <1>1 DEF FullInv, Inv, TypeInv, Built
  <2> QED
    BY <1>1, <2>1 DEF FullInv, ExtractInv
<1>5. IsFiniteSet(comparators') /\ goals' \in SUBSET Facts(problem) /\ \E C : Level(C)
  BY LevelChosen DEF FullInv, Inv
<1>5a. PICK C : Level(C)
  BY <1>5
<1>6. C \in SUBSET Actions /\ plan' = <<C \ NoOps>> \o plan
  BY <1>5a DEF Level
<1>7. plan' \in Seq(SUBSET Actions) /\ Len(plan') = Len(plan) + 1
  <2> DEFINE T == SUBSET Actions
             D == C \ NoOps
  <2>1. D \in T /\ plan \in Seq(T) /\ plan' = <<D>> \o plan
    BY <1>4, <1>6
  <2> HIDE DEF T, D
  <2>2. <<D>> \in Seq(T) /\ Len(<<D>>) = 1
    BY <2>1
  <2>3. plan' \in Seq(T) /\ Len(plan') = Len(<<D>>) + Len(plan)
    BY <2>1, <2>2
  <2> QED
    BY <2>1, <2>2, <2>3 DEF T
<1>8. ExtractInv'
  BY <1>1, <1>3, <1>4, <1>5, <1>7 DEF ExtractInv
<1> QED
  BY <1>2, <1>3, <1>7, <1>8 DEF FullInv

\* Every step keeps it.
LEMMA StepFull ==
  ASSUME FullInv, [Next]_vars
  PROVE  FullInv'
<1>1. CASE \E s \in {InitialState} \cup Successors : Evaluate(s)
  BY <1>1, EvaluateFull
<1>2. CASE AddLayer
  BY <1>2, AddLayerFull
<1>3. CASE ChooseActions
  BY <1>3, ChooseFull
<1>4. CASE FinishPlan
  <2>1. pc = "extract" /\ pc' = "found" /\ UNCHANGED <<problem, state, graph>>
    BY <1>4 DEF FinishPlan
  <2>2. Inv'
    BY <1>4, StepInv DEF FullInv, Next
  <2> QED
    BY <2>1, <2>2, SamePrompt DEF FullInv, ExtractInv
<1>5. CASE UNCHANGED vars
  <2>1. /\ UNCHANGED <<problem, state, graph>> /\ pc' = pc /\ layer' = layer
        /\ plan' = plan /\ goals' = goals /\ comparators' = comparators
    BY <1>5 DEF vars, extraction
  <2>2. Inv'
    BY StepInv DEF FullInv
  <2>3. /\ Built' = Built /\ Actions' = Actions /\ Facts(problem)' = Facts(problem) /\ Exclusive'
        /\ pc' # "idle" => PromptInv' /\ AddsInv'
    BY <2>1, SamePrompt DEF FullInv
  <2>4. ExtractInv'
    BY <2>1, <2>3 DEF FullInv, ExtractInv
  <2> QED
    BY <2>2, <2>3, <2>4 DEF FullInv
<1> QED
  BY <1>1, <1>2, <1>3, <1>4, <1>5 DEF Next, Finished

-----------------------------------------------------------------------------
(* A plan helps: it has an action of the first layer.                        *)

\* Actions increase and decrease the function by amounts that are not negative.
AmountsCount ==
    \A d \in Problems : \A a \in d.actions : \A o \in a.ops :
        o.type \in {"increase", "decrease"} => o.by \in Nat

Required(c) == \E a \in problem.actions : c \in a.cmp

\* A fact or a comparator of layer l is to be achieved that the state does not have.
Wanted(l) ==
    \/ \E p \in goals : factLayer[p] \in 1..l
    \/ \E c \in comparators : Required(c) /\ MetAt(c, l) /\ ~MetAt(c, 0)

FirstPlanned == \E a \in Actions : a \in PlannedActions /\ actionLayer[a] = 0

\* As long as no action of the first layer has been chosen for a state that is
\* no goal, something is wanted; for a goal nothing is, and nothing is chosen.
HelpInv ==
    /\ ~IsGoal(state) /\ ~Early =>
          /\ pc = "extract" => Wanted(layer) \/ FirstPlanned
          /\ pc = "found" => FirstPlanned
    /\ IsGoal(state) =>
          /\ pc = "build" => layer = 0
          /\ pc = "extract" /\ layer > 0 =>
                layer = 1 /\ comparators = {} /\ goals \subseteq state.facts
          /\ pc \in {"extract", "found"} => PlannedActions = {}

\* Without operators of earlier states, a comparator that is met in a layer and
\* not in the one below is made better by an action in between.
LEMMA BetterFound ==
  ASSUME Inv, pc # "idle", ~Early, AmountsCount,
         NEW l \in 1..Built, NEW c, Required(c), MetAt(c, l), ~MetAt(c, l - 1)
  PROVE  Better(c, l) # {}
<1> DEFINE Moves(o) == \E a \in ActionsAt(l - 1) : o \in a.ops
           hi == high[l]
           hi2 == high[l + 1]
           lo == low[l]
           lo2 == low[l + 1]
<1>1. /\ TypeInv /\ BoundsInv /\ Built \in Nat /\ l \in Nat /\ Len(high) = Built + 1
      /\ problem \in Problems
  BY DEF Inv, TypeInv, Built
<1>2. /\ hi \in Int /\ hi2 \in Int /\ lo \in Int /\ lo2 \in Int /\ hi <= hi2 /\ lo2 <= lo
  <2>1. l \in 1..Len(high) /\ l + 1 \in 1..Len(high) /\ l <= l + 1
    BY <1>1
  <2> QED
    BY <1>1, <2>1 DEF TypeInv, BoundsInv
<1>3. Met(c, hi2, lo2) /\ ~Met(c, hi, lo)
  <2>1. (l - 1) + 1 = l
    BY <1>1
  <2> QED
    BY <2>1 DEF MetAt
<1>4. c.op \in {">=", ">", "<=", "<", "="} /\ c.shift \in Int /\ c.val \in Int
  BY <1>1, ProblemActions DEF Required
<1>5. ASSUME NEW a \in operators, CountsAt(a, l - 1) PROVE a \in ActionsAt(l - 1)
  <2>1. 0 \in 0..(l - 1)
    BY <1>1
  <2>2. a \in Actions
    BY <1>1 DEF TypeInv, Actions
  <2> QED
    BY <1>5, <2>1, <2>2 DEF CountsAt, Early, ActionsAt
<1>6. /\ hi2 = hi \/ \E o : Moves(o) /\ hi2 = Operate(o, hi)
      /\ lo2 = lo \/ \E o : Moves(o) /\ lo2 = Operate(o, lo)
  <2>1. /\ \/ high[l + 1] = high[l]
           \/ \E a \in operators : \E o \in a.ops :
                 CountsAt(a, l - 1) /\ high[l + 1] = Operate(o, high[l])
        /\ \/ low[l + 1] = low[l]
           \/ \E a \in operators : \E o \in a.ops :
                 CountsAt(a, l - 1) /\ low[l + 1] = Operate(o, low[l])
    BY <1>1 DEF BoundsInv
  <2> QED
    BY <1>5, <2>1
<1>7. ASSUME NEW o, Moves(o)
      PROVE  /\ o.type \in {"assign", "increase", "decrease"} /\ o.by \in Int
             /\ o.type \in {"increase", "decrease"} => o.by \in Nat
  <2>1. PICK a \in ActionsAt(l - 1) : o \in a.ops
    BY <1>7
  <2>2. a \in problem.actions
    <3>1. a \in Actions /\ a.ops # {}
      BY <2>1 DEF ActionsAt
    <3> QED
      BY <3>1, ActionsKnown
  <2> QED
    BY <1>1, <2>1, <2>2, ProblemActions DEF AmountsCount
<1>8. ASSUME NEW o, Moves(o), MakesBetter(c, o) PROVE Better(c, l) # {}
  BY <1>8 DEF Better, Improves
<1> HIDE DEF hi, hi2, lo, lo2, Moves
<1>9. CASE c.op \in {">=", ">"}
  <2>1. c.fun /\ hi # hi2
    BY <1>2, <1>3, <1>4, <1>9 DEF Met
  <2>2. PICK o : Moves(o) /\ hi2 = Operate(o, hi)
    BY <1>6, <2>1
  <2>3. o.type \in {"assign", "increase"}
    <3>1. CASE o.type = "decrease"
      <4>1. hi2 = hi - o.by /\ o.by \in Nat
        BY <1>7, <2>2, <3>1 DEF Operate
      <4> QED
        BY <1>2, <2>1, <4>1
    <3> QED
      BY <1>7, <2>2, <3>1
  <2>4. MakesBetter(c, o)
    BY <1>9, <2>1, <2>3 DEF MakesBetter
  <2> QED
    BY <1>8, <2>2, <2>4
<1>10. CASE c.op \in {"<=", "<"}
  <2>1. c.fun /\ lo # lo2
    BY <1>2, <1>3, <1>4, <1>10 DEF Met
  <2>2. PICK o : Moves(o) /\ lo2 = Operate(o, lo)
    BY <1>6, <2>1
  <2>3. o.type \in {"assign", "decrease"}
    <3>1. CASE o.type = "increase"
      <4>1. lo2 = lo + o.by /\ o.by \in Nat
        BY <1>7, <2>2, <3>1 DEF Operate
      <4> QED
        BY <1>2, <2>1, <4>1
    <3> QED
      BY <1>7, <2>2, <3>1
  <2>4. MakesBetter(c, o)
    BY <1>10, <2>1, <2>3 DEF MakesBetter
  <2> QED
    BY <1>8, <2>2, <2>4
<1>11. CASE c.op = "="
  <2>1. hi # hi2 \/ lo # lo2
    BY <1>3
  <2>2. PICK o : Moves(o)
    BY <1>6, <2>1
  <2>3. MakesBetter(c, o)
    BY <1>11 DEF MakesBetter
  <2> QED
    BY <1>8, <2>2, <2>3
<1> QED
  BY <1>4, <1>9, <1>10, <1>11

\* A comparator met in a layer is met in those above it.
LEMMA MetAbove ==
  ASSUME Inv, pc # "idle", NEW c, Required(c), NEW j \in 0..Built, NEW k \in 0..Built, j <= k,
         MetAt(c, j)
  PROVE  MetAt(c, k)
<1>1. /\ TypeInv /\ BoundsInv /\ Built \in Nat /\ Len(high) = Built + 1 /\ Len(low) = Len(high)
      /\ problem \in Problems
  BY DEF Inv, TypeInv, Built
<1>2. j + 1 \in 1..Len(high) /\ k + 1 \in 1..Len(high) /\ j + 1 <= k + 1
  BY <1>1
<1>3. /\ high[j + 1] \in Int /\ high[k + 1] \in Int /\ low[j + 1] \in Int /\ low[k + 1] \in Int
      /\ high[j + 1] <= high[k + 1] /\ low[k + 1] <= low[j + 1]
  BY <1>1, <1>2 DEF TypeInv, BoundsInv
<1>4. c.op \in {">=", ">", "<=", "<", "="} /\ c.shift \in Int /\ c.val \in Int
  BY <1>1, ProblemActions DEF Required
<1> QED
  BY <1>3, <1>4, MetByWider DEF MetAt

\* An action that is not of the first layer wants something of a layer below its own.
LEMMA ActionWants ==
  ASSUME Inv, PromptInv, pc # "idle", NEW a \in Actions, actionLayer[a] > 0
  PROVE  \/ \E p \in a.pre : factLayer[p] \in 1..actionLayer[a]
         \/ \E c \in a.cmp : Required(c) /\ MetAt(c, actionLayer[a]) /\ ~MetAt(c, 0)
<1> DEFINE k == actionLayer[a]
<1>1. /\ TypeInv /\ FactsInv /\ ActionsInv /\ Built \in Nat /\ DOMAIN factLayer = Facts(problem)
  BY DEF Inv, TypeInv, Built
<1>2. /\ k \in -1..(Built - 1) /\ k > 0
      /\ a.pre # {} /\ (\A p \in a.pre : factLayer[p] \in 0..k) /\ ActionReady(a, k)
  BY <1>1 DEF ActionsInv
<1>3. 0 \in 0..(Built - 1)
  BY <1>1, <1>2
<1>4. ~ (a.pre \subseteq FactsAt(0) /\ ActionReady(a, 0))
  <2>1. a.pre \subseteq FactsAt(0) /\ ActionReady(a, 0) => actionLayer[a] \in 0..0
    BY <1>2, <1>3 DEF PromptInv
  <2> QED
    BY <1>2, <2>1
<1>5. CASE ~ (a.pre \subseteq FactsAt(0))
  <2>1. PICK p \in a.pre : p \notin FactsAt(0)
    BY <1>5
  <2>2. factLayer[p] \in 0..k /\ factLayer[p] \notin 0..0
    BY <1>1, <1>2, <2>1, ActionsKnown DEF FactsAt
  <2> QED
    BY <1>2, <2>2
<1>6. CASE ~ActionReady(a, 0)
  <2>1. PICK c \in a.cmp : ~MetAt(c, 0)
    BY <1>6 DEF ActionReady
  <2>2. a \in problem.actions
    BY <2>1, NoOpsKeep DEF Actions
  <2> QED
    BY <1>2, <2>1, <2>2 DEF ActionReady, Required
<1> QED
  BY <1>4, <1>5, <1>6

\* A level of the choice of a plan for a state that is no goal.
LEMMA LevelWants ==
  ASSUME FullInv, AmountsCount, ~Early, pc = "extract", layer > 0,
         Wanted(layer), NEW C, Level(C)
  PROVE  \/ \E p \in goals' : factLayer[p] \in 1..(layer - 1)
         \/ \E c \in comparators' : Required(c) /\ MetAt(c, layer - 1) /\ ~MetAt(c, 0)
         \/ \E a \in C : a \in Actions /\ a \notin NoOps /\ actionLayer[a] = 0
<1> DEFINE l == layer
           Facts1 == \E p \in goals' : factLayer[p] \in 1..(l - 1)
           Comps1 == \E c \in comparators' : Required(c) /\ MetAt(c, l - 1) /\ ~MetAt(c, 0)
           First1 == \E a \in C : a \in Actions /\ a \notin NoOps /\ actionLayer[a] = 0
<1>1. /\ Inv /\ PromptInv /\ TypeInv /\ FactsInv /\ ActionsInv /\ Built \in Nat
      /\ l \in 1..Built /\ l \in Nat /\ l - 1 \in 0..Built
      /\ goals \in SUBSET Facts(problem)
  <2>1. Inv /\ PromptInv /\ TypeInv /\ FactsInv /\ ActionsInv
    BY DEF FullInv, Inv
  <2>2. Built \in Nat
    BY <2>1 DEF FullInv, Inv, TypeInv, Built
  <2>3. l \in 0..Built /\ goals \in SUBSET Facts(problem)
    BY DEF FullInv, ExtractInv
  <2> QED
    BY <2>1, <2>2, <2>3
<1>2. /\ C \in SUBSET Actions /\ goals' = UNION {a.pre : a \in C}
      /\ \A p \in goals : Eligible(p, l) # {} => \E a \in C : a \in Eligible(p, l)
      /\ \A a \in C : a.cmp \subseteq comparators'
      /\ \A c \in comparators :
            /\ MetAt(c, l - 1) => c \in comparators'
            /\ ~MetAt(c, l - 1) /\ Better(c, l) # {} => \E a \in Better(c, l) : a \in C
  BY DEF Level
\* An action chosen from below is of the first layer or wants something.
<1>3. ASSUME NEW a \in C, actionLayer[a] \in 0..(l - 1), actionLayer[a] = 0 => a \notin NoOps
      PROVE  Facts1 \/ Comps1 \/ First1
  <2>1. CASE actionLayer[a] = 0
    BY <1>2, <1>3, <2>1
  <2>2. CASE actionLayer[a] # 0
    <3> DEFINE k == actionLayer[a]
    <3>1. a \in Actions /\ k > 0 /\ k \in 0..Built /\ k <= l - 1
      BY <1>1, <1>2, <1>3, <2>2
    <3>2. CASE \E p \in a.pre : factLayer[p] \in 1..k
      <4>1. PICK p \in a.pre : factLayer[p] \in 1..k
        BY <3>2
      <4>2. p \in goals' /\ factLayer[p] \in 1..(l - 1)
        BY <1>1, <1>2, <3>1, <4>1
      <4> QED
        BY <4>2
    <3>3. CASE \E c \in a.cmp : Required(c) /\ MetAt(c, k) /\ ~MetAt(c, 0)
      <4>1. PICK c \in a.cmp : Required(c) /\ MetAt(c, k) /\ ~MetAt(c, 0)
        BY <3>3
      <4>2. MetAt(c, l - 1)
        BY <1>1, <3>1, <4>1, MetAbove
      <4>3. c \in comparators'
        BY <1>2
      <4> QED
        BY <4>1, <4>2, <4>3
    <3> QED
      BY <1>1, <3>1, <3>2, <3>3, ActionWants
  <2> QED
    BY <2>1, <2>2
<1>4. CASE \E p \in goals : factLayer[p] \in 1..l
  <2>1. PICK p \in goals : factLayer[p] \in 1..l
    BY <1>4
  <2>2. p \in Facts(problem) /\ factLayer[p] > 0
    BY <1>1, <2>1
  <2>3. PICK b \in Actions : p \in b.add /\ actionLayer[b] = factLayer[p] - 1
    BY <1>1, <2>2 DEF FactsInv
  <2>4. b \in Eligible(p, l)
    <3>1. actionLayer[b] \in 0..(l - 1)
      BY <1>1, <2>1, <2>3
    <3> QED
      BY <2>3, <3>1 DEF Eligible, ActionsAt
  <2>5. PICK a \in C : a \in Eligible(p, l)
    BY <1>2, <2>4
  <2>6. actionLayer[a] \in 0..(l - 1) /\ p \in a.add
    BY <2>5 DEF Eligible, ActionsAt
  <2>7. ASSUME actionLayer[a] = 0, a \in NoOps PROVE FALSE
    <3>1. p \in a.pre
      BY <2>6, <2>7, NoOpsKeep
    <3>2. factLayer[p] \in 0..actionLayer[a]
      BY <1>1, <1>2, <2>5, <2>7, <3>1 DEF ActionsInv
    <3> QED
      BY <2>2, <2>7, <3>2
  <2> QED
    BY <1>3, <2>6, <2>7
<1>5. CASE \E c \in comparators : Required(c) /\ MetAt(c, l) /\ ~MetAt(c, 0)
  <2>1. PICK c \in comparators : Required(c) /\ MetAt(c, l) /\ ~MetAt(c, 0)
    BY <1>5
  <2>2. CASE MetAt(c, l - 1)
    BY <1>2, <2>1, <2>2
  <2>3. CASE ~MetAt(c, l - 1)
    <3>1. Better(c, l) # {}
      BY <1>1, <2>1, <2>3, BetterFound
    <3>2. PICK a \in Better(c, l) : a \in C
      BY <1>2, <2>3, <3>1
    <3>3. actionLayer[a] \in 0..(l - 1) /\ a.ops # {}
      BY DEF Better, ActionsAt, Improves
    <3>4. a \notin NoOps
      BY <3>3, NoOpsKeep
    <3> QED
      BY <1>3, <3>2, <3>3, <3>4
  <2> QED
    BY <2>2, <2>3
<1> QED
  BY <1>4, <1>5 DEF Wanted

\* The actions planned, when a set of actions is put before or after the others.
LEMMA PlannedGrow ==
  ASSUME NEW T, plan \in Seq(T), NEW D \in T
  PROVE  /\ plan' = <<D>> \o plan => PlannedActions' = D \cup PlannedActions
         /\ plan' = Append(plan, D) => PlannedActions' = PlannedActions \cup D
<1>1. \A x : x \in PlannedActions <=> \E i \in 1..Len(plan) : x \in plan[i]
  BY DEF PlannedActions, Range
<1>2. \A x : x \in PlannedActions' <=> \E i \in DOMAIN plan' : x \in plan'[i]
  BY DEF PlannedActions, Range
<1>3. ASSUME plan' = <<D>> \o plan PROVE PlannedActions' = D \cup PlannedActions
  <2>1. DOMAIN plan' = 1..(Len(plan) + 1) /\ Len(plan) \in Nat
    BY <1>3
  <2>2. plan'[1] = D /\ \A i \in 1..Len(plan) : plan'[i + 1] = plan[i] /\ i + 1 \in DOMAIN plan'
    BY <1>3
  <2>3. \A i \in DOMAIN plan' : i = 1 \/ (i - 1 \in 1..Len(plan) /\ (i - 1) + 1 = i)
    BY <2>1
  <2>4. 1 \in DOMAIN plan'
    BY <2>1
  <2>5. ASSUME NEW x \in PlannedActions' PROVE x \in D \cup PlannedActions
    <3>1. PICK i \in DOMAIN plan' : x \in plan'[i]
      BY <1>2, <2>5
    <3>2. CASE i = 1
      BY <2>2, <3>1, <3>2
    <3>3. CASE i # 1
      <4> DEFINE j == i - 1
      <4>1. j \in 1..Len(plan) /\ j + 1 = i
        BY <2>3, <3>3
      <4> HIDE DEF j
      <4>2. plan'[i] = plan[j]
        BY <2>2, <4>1
      <4> QED
        BY <1>1, <3>1, <4>1, <4>2
    <3> QED
      BY <3>2, <3>3
  <2>6. ASSUME NEW x \in D \cup PlannedActions PROVE x \in PlannedActions'
    BY <1>1, <1>2, <2>2, <2>4, <2>6
  <2> QED
    BY <2>5, <2>6
<1>4. ASSUME plan' = Append(plan, D) PROVE PlannedActions' = PlannedActions \cup D
  <2>1. DOMAIN plan' = 1..(Len(plan) + 1) /\ Len(plan) \in Nat
    BY <1>4
  <2>2. plan'[Len(plan) + 1] = D /\ \A i \in 1..Len(plan) : plan'[i] = plan[i] /\ i \in DOMAIN plan'
    BY <1>4
  <2>3. \A i \in DOMAIN plan' : i = Len(plan) + 1 \/ i \in 1..Len(plan)
    BY <2>1
  <2>4. Len(plan) + 1 \in DOMAIN plan'
    BY <2>1
  <2> QED
    BY <1>1, <1>2, <2>2, <2>3, <2>4
<1> QED
  BY <1>3, <1>4

\* For a goal no action is chosen.
LEMMA GoalLevel ==
  ASSUME FullInv, pc = "extract", layer = 1, comparators = {}, goals \subseteq state.facts,
         NEW C, Level(C), PlainLevel(C)
  PROVE  C \subseteq NoOps
<1> SUFFICES ASSUME NEW a \in C PROVE a \in NoOps
  OBVIOUS
<1>1. /\ TypeInv /\ FactsInv /\ PromptInv /\ Built \in Nat
      /\ 1 \in 0..Built /\ DOMAIN factLayer = Facts(problem) /\ state.facts \in SUBSET Facts(problem)
  <2>1. TypeInv /\ FactsInv /\ PromptInv /\ 1 \in 0..Built
    BY DEF FullInv, Inv, ExtractInv
  <2> QED
    BY <2>1 DEF FullInv, Inv, TypeInv, Built
<1>2. PICK p \in goals : a \in Eligible(p, 1) /\ (a \in NoOps \/ Eligible(p, 1) \cap NoOps = {})
  BY DEF PlainLevel
<1>3. a \in Actions /\ p \in a.add
  BY <1>2 DEF Eligible, ActionsAt
<1>4. p \in KnownFacts(problem)
  <2>1. CASE a \in problem.actions
    BY <1>3, <2>1 DEF KnownFacts
  <2>2. CASE a \in NoOps
    BY <1>3, <2>2 DEF NoOps, NoOp
  <2> QED
    BY <1>3, <2>1, <2>2 DEF Actions
<1> DEFINE b == NoOp(p)
<1>5. /\ b \in NoOps /\ b \in Actions /\ b.pre = {p} /\ b.add = {p} /\ b.cmp = {}
  BY <1>4 DEF NoOps, Actions, NoOp
<1>6. p \in FactsAt(0)
  <2>1. p \in Facts(problem) /\ factLayer[p] = 0
    BY <1>1, <1>2 DEF FactsInv
  <2> QED
    BY <1>1, <2>1 DEF FactsAt
<1>7. ActionReady(b, 0)
  BY <1>5 DEF ActionReady
<1> HIDE DEF b
<1>8. actionLayer[b] \in 0..0
  <2>1. 0 \in 0..(Built - 1)
    BY <1>1
  <2>2. b.pre # {} /\ b.pre \subseteq FactsAt(0)
    BY <1>5, <1>6
  <2> QED
    BY <1>1, <1>5, <1>7, <2>1, <2>2 DEF PromptInv
<1>9. b \in Eligible(p, 1)
  BY <1>5, <1>8 DEF Eligible, ActionsAt
<1> QED
  BY <1>2, <1>5, <1>9

\* What is said of the state and the graph is not touched by the choice of a plan.
LEMMA SameState ==
  ASSUME UNCHANGED <<problem, state, graph, kept>>
  PROVE  /\ IsGoal(state)' <=> IsGoal(state)
         /\ Early' <=> Early
         /\ NoOps' = NoOps /\ Actions' = Actions /\ actionLayer' = actionLayer /\ factLayer' = factLayer
         /\ \A c, k : (MetAt(c, k)' <=> MetAt(c, k)) /\ (Required(c)' <=> Required(c))
<1>1. /\ problem' = problem /\ state' = state /\ factLayer' = factLayer /\ kept' = kept
      /\ actionLayer' = actionLayer /\ high' = high /\ low' = low
  BY DEF graph
<1>2. NoOps' = NoOps /\ Actions' = Actions
  BY <1>1, ProblemFixed
<1> QED
  BY <1>1, <1>2 DEF IsGoal, Early, MetAt, Required

\* One level of the choice keeps what is said of help.
LEMMA ChooseHelp ==
  ASSUME FullInv, AmountsCount, HelpInv, ChooseActions
  PROVE  HelpInv'
<1>1. /\ pc = "extract" /\ pc' = "extract" /\ layer' = layer - 1 /\ layer > 0
      /\ UNCHANGED <<problem, state, graph, kept>>
  BY DEF ChooseActions
<1>2. /\ IsGoal(state)' <=> IsGoal(state)
      /\ Early' <=> Early
      /\ NoOps' = NoOps /\ Actions' = Actions /\ actionLayer' = actionLayer /\ factLayer' = factLayer
      /\ \A c, k : (MetAt(c, k)' <=> MetAt(c, k)) /\ (Required(c)' <=> Required(c))
  BY <1>1, SameState
<1>3. PICK C : Level(C) /\ PlainLevel(C)
  BY LevelChosen DEF FullInv, Inv
<1>4. PlannedActions' = (C \ NoOps) \cup PlannedActions
  <2> DEFINE T == SUBSET Actions
             D == C \ NoOps
  <2>1. plan \in Seq(T) /\ D \in T /\ plan' = <<D>> \o plan
    BY <1>1, <1>3 DEF FullInv, ExtractInv, Level
  <2> HIDE DEF T, D
  <2>2. PlannedActions' = D \cup PlannedActions
    BY <2>1, PlannedGrow
  <2> QED
    BY <2>2 DEF D
<1>5. ASSUME ~IsGoal(state), ~Early PROVE Wanted(layer)' \/ FirstPlanned'
  <2>1. CASE FirstPlanned
    BY <1>2, <1>4, <2>1 DEF FirstPlanned
  <2>2. CASE Wanted(layer)
    <3>1. CASE \E p \in goals' : factLayer[p] \in 1..(layer - 1)
      BY <1>1, <1>2, <3>1 DEF Wanted
    <3>2. CASE \E c \in comparators' : Required(c) /\ MetAt(c, layer - 1) /\ ~MetAt(c, 0)
      <4>1. PICK c \in comparators' : Required(c) /\ MetAt(c, layer - 1) /\ ~MetAt(c, 0)
        BY <3>2
      <4>2. Required(c)' /\ ~MetAt(c, 0)' /\ MetAt(c, layer)'
        <5>1. Required(c)' /\ ~MetAt(c, 0)'
          BY <1>2, <4>1
        <5>2. MetAt(c, layer)'
          BY <1>1, <4>1 DEF MetAt, graph
        <5> QED
          BY <5>1, <5>2
      <4> QED
        BY <4>1, <4>2 DEF Wanted
    <3>3. CASE \E a \in C : a \in Actions /\ a \notin NoOps /\ actionLayer[a] = 0
      BY <1>2, <1>4, <3>3 DEF FirstPlanned
    <3> QED
      BY <1>1, <1>3, <1>5, <2>2, <3>1, <3>2, <3>3, LevelWants
  <2> QED
    BY <1>1, <1>5, <2>1, <2>2 DEF HelpInv
<1>6. ASSUME IsGoal(state) PROVE PlannedActions' = {} /\ layer' = 0
  <2>1. layer = 1 /\ comparators = {} /\ goals \subseteq state.facts /\ PlannedActions = {}
    BY <1>1, <1>6 DEF HelpInv
  <2>2. C \subseteq NoOps
    BY <1>1, <1>3, <2>1, GoalLevel
  <2> QED
    BY <1>1, <1>4, <2>1, <2>2
<1> QED
  BY <1>1, <1>2, <1>5, <1>6 DEF HelpInv

\* The goal of a state that is none is not in its facts.
LEMMA NonGoalLacks ==
  ASSUME Exclusive, ~IsGoal(state)
  PROVE  \E p \in GoalOf(state) : p \notin state.facts
<1>1. CASE ~ (problem.goal \subseteq state.facts)
  BY <1>1 DEF GoalOf
<1>2. CASE problem.goal \subseteq state.facts
  <2>1. PICK d \in problem.durative : d.join \in state.facts
    BY <1>2 DEF IsGoal
  <2>2. d.goal \in GoalOf(state)
    BY <2>1 DEF GoalOf
  <2>3. d.goal \notin state.facts
    BY <2>1 DEF Exclusive
  <2> QED
    BY <2>2, <2>3
<1> QED
  BY <1>1, <1>2

\* A layer more keeps what is said of help.
LEMMA AddLayerHelp ==
  ASSUME FullInv, HelpInv, AddLayer
  PROVE  HelpInv'
<1>1. FullInv'
  BY AddLayerFull
<1>2. /\ pc = "build" /\ pc' \in {"extract", "null", "build"} /\ (pc' = "extract" <=> GoalMet)
      /\ goals = GoalOf(state)
      /\ problem' = problem /\ state' = state /\ layer' = layer + 1
      /\ goals' = goals /\ comparators' = {} /\ plan' = <<>>
      /\ layer' = Built' /\ Built' \in Nat
  <2>1. pc = "build" /\ pc' \in {"extract", "null", "build"} /\ (pc' = "extract" <=> GoalMet)
    BY DEF AddLayer
  <2>2. goals = GoalOf(state) /\ plan = <<>> /\ comparators = {}
    BY <2>1 DEF FullInv, Inv, BuildInv, ExtractInv
  <2>3. /\ problem' = problem /\ state' = state /\ layer' = layer + 1
        /\ goals' = goals /\ comparators' = comparators /\ plan' = plan
    BY DEF AddLayer, extraction
  <2>4. layer \in Nat /\ Built' = layer + 1
    BY LayerAdded DEF FullInv
  <2> QED
    BY <2>1, <2>2, <2>3, <2>4
<1>3. IsGoal(state)' <=> IsGoal(state)
  BY <1>2 DEF IsGoal
<1>4. PlannedActions' = {}
  BY <1>2 DEF PlannedActions, Range
<1>5. ASSUME ~IsGoal(state), pc' = "extract" PROVE Wanted(layer)'
  <2>1. PICK p \in GoalOf(state) : p \notin state.facts
    BY <1>5, NonGoalLacks DEF FullInv
  <2>2. p \in Facts(problem)
    BY <2>1, GoalKnown DEF FullInv, Inv, TypeInv
  <2>3. factLayer'[p] >= 0
    BY <1>2, <1>5, <2>1 DEF GoalMet
  <2>4. factLayer'[p] \in -1..Built' /\ factLayer'[p] # 0
    <3>1. FactsInv' /\ Facts(problem)' = Facts(problem)
      BY <1>1, <1>2, ProblemFixed DEF FullInv, Inv
    <3> QED
      BY <1>2, <2>1, <2>2, <3>1 DEF FactsInv
  <2>5. p \in goals' /\ factLayer'[p] \in 1..layer'
    BY <1>2, <2>1, <2>3, <2>4
  <2> QED
    BY <2>5 DEF Wanted
<1>6. ASSUME IsGoal(state) PROVE pc' = "extract" /\ layer' = 1 /\ goals' \subseteq state.facts
  <2>1. layer = 0
    BY <1>2, <1>6 DEF HelpInv
  <2>2. \A p \in goals : p \in state.facts
    BY <1>2, <1>6 DEF GoalOf, IsGoal
  <2>3. \A p \in goals : factLayer'[p] >= 0
    <3>1. TypeInv' /\ FactsInv' /\ state.facts \in SUBSET Facts(problem)
          /\ Facts(problem)' = Facts(problem)
      BY <1>1, <1>2, ProblemFixed DEF FullInv, Inv, TypeInv
    <3>2. \A p \in goals : factLayer'[p] = 0
      BY <1>2, <2>2, <3>1 DEF FactsInv
    <3> QED
      BY <3>2
  <2> QED
    BY <1>2, <2>1, <2>2, <2>3 DEF GoalMet
<1> QED
  BY <1>2, <1>3, <1>4, <1>5, <1>6 DEF HelpInv

\* Every step keeps what is said of help.
LEMMA StepHelp ==
  ASSUME FullInv, AmountsCount, HelpInv, [Next]_vars
  PROVE  HelpInv'
<1>1. CASE \E s \in {InitialState} \cup Successors : Evaluate(s)
  <2>1. pc' = "build" /\ layer' = 0
    BY <1>1 DEF Evaluate
  <2> QED
    BY <2>1 DEF HelpInv
<1>2. CASE AddLayer
  BY <1>2, AddLayerHelp
<1>3. CASE ChooseActions
  BY <1>3, ChooseHelp
<1>4. CASE FinishPlan
  <2>1. /\ pc = "extract" /\ layer = 0 /\ pc' = "found"
        /\ UNCHANGED <<problem, state, graph, kept>>
    BY <1>4 DEF FinishPlan
  <2> DEFINE Ends == {d.end : d \in {e \in problem.durative : e.start \in PlannedActions}} \ PlannedActions
  <2>2. plan' = Append(plan, Ends) /\ plan \in Seq(SUBSET Actions)
    BY <1>4, <2>1 DEF FinishPlan, FullInv, ExtractInv
  <2>3. Ends \in SUBSET Actions
    BY ProblemsAssumption DEF FullInv, Inv, TypeInv, Actions
  <2>4. PlannedActions' = PlannedActions \cup Ends
    <3> HIDE DEF Ends
    <3> DEFINE T == SUBSET Actions
    <3>1. plan \in Seq(T) /\ Ends \in T
      BY <2>2, <2>3
    <3> HIDE DEF T
    <3> QED
      BY <2>2, <3>1, PlannedGrow
  <2>5. /\ IsGoal(state)' <=> IsGoal(state)
        /\ Early' <=> Early
        /\ Actions' = Actions /\ actionLayer' = actionLayer
    BY <2>1, SameState
  <2>6. ASSUME ~IsGoal(state), ~Early PROVE FirstPlanned'
    <3>1. ~Wanted(layer)
      BY <2>1 DEF Wanted
    <3>2. FirstPlanned
      BY <2>1, <2>6, <3>1 DEF HelpInv
    <3> QED
      BY <2>4, <2>5, <3>2 DEF FirstPlanned
  <2>7. ASSUME IsGoal(state) PROVE PlannedActions' = {}
    <3>1. PlannedActions = {}
      BY <2>1, <2>7 DEF HelpInv
    <3>2. Ends = {}
      BY <3>1
    <3> QED
      BY <2>4, <3>1, <3>2
  <2> QED
    BY <2>1, <2>5, <2>6, <2>7 DEF HelpInv
<1>5. CASE UNCHANGED vars
  <2>1. /\ UNCHANGED <<problem, state, graph, kept>> /\ pc' = pc /\ layer' = layer
        /\ plan' = plan /\ goals' = goals /\ comparators' = comparators
    BY <1>5 DEF vars, extraction
  <2>2. /\ IsGoal(state)' <=> IsGoal(state)
        /\ Early' <=> Early
        /\ Actions' = Actions /\ actionLayer' = actionLayer /\ factLayer' = factLayer
        /\ \A c, k : (MetAt(c, k)' <=> MetAt(c, k)) /\ (Required(c)' <=> Required(c))
    BY <2>1, SameState
  <2>3. (Wanted(layer)' <=> Wanted(layer)) /\ PlannedActions' = PlannedActions
    <3>1. high' = high /\ low' = low /\ problem' = problem
      BY <2>1 DEF graph
    <3> QED
      BY <2>1, <2>2, <3>1 DEF Wanted, PlannedActions, Range, MetAt, Required
  <2>4. FirstPlanned' <=> FirstPlanned
    BY <2>2, <2>3 DEF FirstPlanned
  <2>5. state' = state
    BY <2>1
  <2> QED
    BY <2>1, <2>2, <2>3, <2>4, <2>5 DEF HelpInv
<1> QED
  BY <1>1, <1>2, <1>3, <1>4, <1>5 DEF Next, Finished

\* A plan with an action of the first layer helps.
LEMMA FirstHelps ==
  ASSUME FullInv, HelpInv
  PROVE  NonGoalsAreHelped
<1> SUFFICES ASSUME pc = "found"
             PROVE  /\ IsGoal(state) => PlannedActions = {}
                    /\ ~IsGoal(state) /\ ~Early =>
                          \E a \in PlannedActions : actionLayer[a] = 0 /\ IsApplicable(a, state)
  BY DEF NonGoalsAreHelped
<1>1. IsGoal(state) => PlannedActions = {}
  BY DEF HelpInv
<1>2. ASSUME ~IsGoal(state), ~Early
      PROVE  \E a \in PlannedActions : actionLayer[a] = 0 /\ IsApplicable(a, state)
  <2>1. PICK a \in Actions : a \in PlannedActions /\ actionLayer[a] = 0
    BY <1>2 DEF HelpInv, FirstPlanned
  <2>2. FactsInv /\ ActionsInv /\ BoundsInv
    BY DEF FullInv, Inv
  <2>3. /\ \A p \in a.pre : factLayer[p] \in 0..0
        /\ ActionReady(a, 0)
    BY <2>1, <2>2 DEF ActionsInv
  <2>4. a.pre \subseteq state.facts
    <3>1. \A p \in a.pre : p \in Facts(problem) /\ factLayer[p] = 0
      BY <2>3, ActionsKnown
    <3> QED
      BY <2>2, <3>1 DEF FactsInv
  <2>5. \A c \in a.cmp : HoldsIn(c, state.number)
    <3>1. high[0 + 1] = state.number /\ low[0 + 1] = state.number
      BY <2>2 DEF BoundsInv
    <3> QED
      BY <2>3, <3>1 DEF ActionReady, MetAt, HoldsIn
  <2> QED
    BY <2>1, <2>4, <2>5 DEF IsApplicable
<1> QED
  BY <1>1, <1>2

\* A goal has the value zero; every other state with a relaxed plan has a
\* greater value and an applicable action in the first layer of the plan
\* (searchRelaxedPlan, calculateRP), but for operators left from another state,
\* for every problem whose actions change the function by amounts that are not
\* negative.
THEOREM NonGoalsGetHelp ==
  ASSUME AmountsCount
  PROVE  Spec => []NonGoalsAreHelped
<1> DEFINE IInv == FullInv /\ HelpInv
<1>1. Init => IInv
  <2> SUFFICES ASSUME Init PROVE IInv
    OBVIOUS
  <2>1. FullInv /\ pc = "idle"
    BY InitFull DEF Init
  <2> QED
    BY <2>1 DEF HelpInv
<1>2. IInv /\ [Next]_vars => IInv'
  BY StepFull, StepHelp
<1>3. IInv => NonGoalsAreHelped
  BY FirstHelps
<1> QED
  BY <1>1, <1>2, <1>3, PTL DEF Spec

-----------------------------------------------------------------------------
(* A plan reaches the goal.                                                  *)

\* What an action adds to the facts g that have it applicable.
Gain(acts, g) == UNION {a.add : a \in {b \in acts : b.pre \subseteq g}}

\* f[i] is what the first i sets of actions of P lead to, from f[0].
LeadsTo(f, P) == \A i \in 1..Len(P) : f[i] = f[i - 1] \cup Gain(P[i], f[i - 1])

\* The goal is reached, and every action of P that is in the graph by its layer,
\* counted from k, finds its facts.
Attains(f, P, k) ==
    /\ GoalOf(state) \subseteq f[Len(P)]
    /\ \A i \in 1..Len(P) : \A a \in P[i] : a \in ActionsAt(k + i - 1) => a.pre \subseteq f[i - 1]

\* Whatever has the state and the facts still to be achieved leads to the goal by
\* the actions chosen so far.
ReachInv ==
    pc = "extract" =>
        \A f : /\ LeadsTo(f, plan) /\ state.facts \subseteq f[0]
               /\ \A p \in goals : p \in FactsAt(layer) => p \in f[0]
               => Attains(f, plan, layer)

\* What an action in the graph requires is in the layers below.
LEMMA LowerFacts ==
  ASSUME Inv, pc # "idle", NEW l \in 1..Built, NEW a \in ActionsAt(l - 1)
  PROVE  \A p \in a.pre : p \in FactsAt(l - 1)
<1>1. ActionsInv /\ TypeInv
  BY DEF Inv
<1>2. a \in Actions /\ actionLayer[a] \in 0..(l - 1)
  BY DEF ActionsAt
<1>3. l - 1 \in Nat
  OBVIOUS
<1>4. \A p \in a.pre : factLayer[p] \in 0..actionLayer[a] /\ p \in Facts(problem)
  BY <1>1, <1>2, ActionsKnown DEF ActionsInv
<1> HIDE DEF Inv
<1>5. DOMAIN factLayer = Facts(problem)
  BY <1>1 DEF TypeInv
<1>6. \A p \in a.pre : factLayer[p] \in 0..(l - 1)
  BY <1>2, <1>3, <1>4
<1> QED
  BY <1>4, <1>5, <1>6 DEF FactsAt

\* One level of the choice keeps what is said of the goal.
LEMMA ChooseReach ==
  ASSUME FullInv, ReachInv, ChooseActions
  PROVE  ReachInv'
<1> DEFINE l == layer
<1>1. /\ pc = "extract" /\ pc' = "extract" /\ layer' = l - 1 /\ l > 0
      /\ UNCHANGED <<problem, state, graph, kept>>
  BY DEF ChooseActions
<1>2. /\ state' = state /\ factLayer' = factLayer /\ actionLayer' = actionLayer /\ problem' = problem
  BY <1>1 DEF graph
<1>3. PICK C : Level(C)
  BY LevelChosen DEF FullInv, Inv
<1> DEFINE D == C \ NoOps
<1>4. /\ C \in SUBSET Actions /\ goals' = UNION {a.pre : a \in C} /\ plan' = <<D>> \o plan
      /\ \A p \in goals : Eligible(p, l) # {} => \E a \in C : a \in Eligible(p, l)
  BY <1>3 DEF Level
<1>5. /\ Inv /\ FactsInv /\ TypeInv /\ l \in 0..Built /\ l \in Int /\ l \in 1..Built
      /\ plan \in Seq(SUBSET Actions) /\ goals \in SUBSET Facts(problem)
      /\ DOMAIN factLayer = Facts(problem)
  <2>1. /\ Inv /\ FactsInv /\ TypeInv /\ l \in 0..Built
        /\ plan \in Seq(SUBSET Actions) /\ goals \in SUBSET Facts(problem)
    BY <1>1 DEF FullInv, Inv, ExtractInv
  <2> QED
    BY <1>1, <2>1 DEF TypeInv
<1> DEFINE n == Len(plan)
<1>6. /\ n \in Nat /\ Len(plan') = n + 1 /\ plan'[1] = D
      /\ \A i \in 1..n : plan'[i + 1] = plan[i]
  BY <1>4, <1>5
<1>7. (\A k : FactsAt(k)' = FactsAt(k) /\ ActionsAt(k)' = ActionsAt(k)) /\ GoalOf(state)' = GoalOf(state)
  BY <1>2, ProblemFixed DEF FactsAt, ActionsAt, GoalOf
<1> HIDE DEF n, D, l
<1>8. ASSUME NEW g, LeadsTo(g, plan'), state.facts \subseteq g[0],
             \A p \in goals' : p \in FactsAt(l - 1) => p \in g[0]
      PROVE  /\ GoalOf(state) \subseteq g[n + 1]
             /\ \A i \in 1..(n + 1) : \A a \in plan'[i] :
                   a \in ActionsAt((l - 1) + i - 1) => a.pre \subseteq g[i - 1]
  <2> DEFINE f == [i \in 0..n |-> g[i + 1]]
  <2>1. \A i \in 1..(n + 1) : g[i] = g[i - 1] \cup Gain(plan'[i], g[i - 1])
    BY <1>6, <1>8 DEF LeadsTo
  <2>2. g[1] = g[0] \cup Gain(D, g[0])
    <3>1. 1 \in 1..(n + 1) /\ 1 - 1 = 0
      BY <1>6
    <3>2. g[1] = g[1 - 1] \cup Gain(plan'[1], g[1 - 1])
      BY <2>1, <3>1
    <3> QED
      BY <1>6, <3>1, <3>2
  <2>3. LeadsTo(f, plan)
    <3> SUFFICES ASSUME NEW i \in 1..n PROVE f[i] = f[i - 1] \cup Gain(plan[i], f[i - 1])
      BY DEF LeadsTo, n
    <3>1. i + 1 \in 1..(n + 1) /\ (i + 1) - 1 = i /\ i \in 0..n /\ i - 1 \in 0..n /\ (i - 1) + 1 = i
      BY <1>6
    <3>2. f[i] = g[i + 1] /\ f[i - 1] = g[i]
      BY <3>1
    <3>3. g[i + 1] = g[i] \cup Gain(plan'[i + 1], g[i])
      BY <2>1, <3>1
    <3> HIDE DEF f
    <3> QED
      BY <1>6, <3>2, <3>3
  <2>4. f[0] = g[1] /\ f[n] = g[n + 1] /\ \A i \in 0..n : f[i] = g[i + 1]
    BY <1>6
  <2> HIDE DEF f
  \* Actions chosen at this layer find their facts.
  <2>5. ASSUME NEW a \in C, a \in ActionsAt(l - 1) PROVE a.pre \subseteq g[0]
    <3>1. \A p \in a.pre : p \in goals'
      BY <1>4
    <3>2. \A p \in a.pre : p \in FactsAt(l - 1)
      BY <1>1, <1>5, <2>5, LowerFacts
    <3> QED
      BY <1>8, <3>1, <3>2
  <2>6. ASSUME NEW p \in goals, p \in FactsAt(l) PROVE p \in f[0]
    <3>1. p \in Facts(problem) /\ factLayer[p] \in 0..l
      BY <1>5, <2>6 DEF FactsAt
    <3>2. CASE factLayer[p] = 0
      <4>1. p \in state.facts
        BY <1>5, <3>1, <3>2 DEF FactsInv
      <4> QED
        BY <1>8, <2>2, <2>4, <4>1
    <3>3. CASE factLayer[p] # 0
      <4>1. PICK b \in Actions : p \in b.add /\ actionLayer[b] = factLayer[p] - 1
        <5>1. factLayer[p] > 0
          BY <1>5, <3>1, <3>3
        <5> QED
          BY <1>5, <3>1, <5>1 DEF FactsInv
      <4>2. actionLayer[b] \in 0..(l - 1)
        BY <1>5, <3>1, <3>3, <4>1
      <4>3. b \in Eligible(p, l)
        BY <4>1, <4>2 DEF Eligible, ActionsAt
      <4>4. PICK a \in C : a \in Eligible(p, l)
        BY <1>4, <4>3
      <4>5. a \in ActionsAt(l - 1) /\ p \in a.add
        BY <4>4 DEF Eligible
      <4>6. a.pre \subseteq g[0]
        BY <2>5, <4>5
      <4>7. CASE a \in NoOps
        <5>1. p \in a.pre
          BY <4>5, <4>7, NoOpsKeep
        <5> QED
          BY <2>2, <2>4, <4>6, <5>1
      <4>8. CASE a \notin NoOps
        <5>1. a \in D
          BY <4>8 DEF D
        <5>2. p \in Gain(D, g[0])
          BY <4>5, <4>6, <5>1 DEF Gain
        <5> QED
          BY <2>2, <2>4, <5>2
      <4> QED
        BY <4>7, <4>8
    <3> QED
      BY <3>2, <3>3
  <2>7. state.facts \subseteq f[0]
    BY <1>8, <2>2, <2>4
  <2>8. Attains(f, plan, l)
    BY <1>1, <2>3, <2>6, <2>7 DEF ReachInv, l
  <2>9. /\ GoalOf(state) \subseteq f[n]
        /\ \A i \in 1..n : \A a \in plan[i] : a \in ActionsAt(l + i - 1) => a.pre \subseteq f[i - 1]
    BY <2>8 DEF Attains, n
  <2>10. ASSUME NEW i \in 1..(n + 1), NEW a \in plan'[i], a \in ActionsAt((l - 1) + i - 1)
         PROVE  a.pre \subseteq g[i - 1]
    <3>1. CASE i = 1
      <4>1. (l - 1) + i - 1 = l - 1 /\ i - 1 = 0
        BY <1>5, <3>1
      <4>2. a \in C
        BY <1>6, <2>10, <3>1 DEF D
      <4>3. a \in ActionsAt(l - 1)
        BY <2>10, <4>1
      <4> QED
        BY <2>5, <4>1, <4>2, <4>3
    <3>2. CASE i # 1
      <4> DEFINE j == i - 1
      <4>1. /\ j \in 1..n /\ j + 1 = i /\ (l - 1) + i - 1 = l + j - 1
            /\ j - 1 \in 0..n /\ (j - 1) + 1 = j
        BY <1>5, <1>6, <3>2
      <4>2. i - 1 = j
        OBVIOUS
      <4> HIDE DEF j
      <4>3. plan'[i] = plan[j]
        BY <1>6, <4>1
      <4>4. a.pre \subseteq f[j - 1]
        BY <2>9, <2>10, <4>1, <4>3
      <4>5. f[j - 1] = g[j]
        BY <2>4, <4>1
      <4> QED
        BY <4>2, <4>4, <4>5
    <3> QED
      BY <3>1, <3>2
  <2> QED
    BY <2>4, <2>9, <2>10
<1>9. Len(plan') = n + 1
  BY <1>6
<1> SUFFICES ASSUME NEW g, LeadsTo(g, plan'), state.facts \subseteq g[0],
                    \A p \in goals' : p \in FactsAt(l - 1) => p \in g[0]
             PROVE  Attains(g, plan, layer)'
  BY <1>1, <1>2, <1>7 DEF ReachInv, LeadsTo, l
<1>10. /\ GoalOf(state) \subseteq g[n + 1]
       /\ \A i \in 1..(n + 1) : \A a \in plan'[i] :
             a \in ActionsAt((l - 1) + i - 1) => a.pre \subseteq g[i - 1]
  BY <1>8
<1> QED
  BY <1>1, <1>7, <1>9, <1>10 DEF Attains, l

-----------------------------------------------------------------------------
(* No action is chosen twice unless actions change the function.             *)

Unchanging == OperatorsOf(problem.actions) = {}

\* All comparators are met throughout, and the actions chosen for a layer entered
\* the graph in the layer below.
PlainInv ==
    pc = "extract" /\ Unchanging =>
        /\ \A c \in comparators : \A k \in 0..Built : MetAt(c, k)
        /\ \A i \in 1..Len(plan) : \A a \in plan[i] : actionLayer[a] = layer + i - 1

\* Without operators the bounds stay as they are.
LEMMA BoundsStill ==
  ASSUME Inv, pc # "idle", Unchanging
  PROVE  \A k \in 0..Built : high[k + 1] = state.number /\ low[k + 1] = state.number
<1> DEFINE Still(k) == high[k + 1] = state.number /\ low[k + 1] = state.number
           S == {k \in Nat : k <= Built => Still(k)}
<1>1. /\ TypeInv /\ BoundsInv /\ Built \in Nat
  BY DEF Inv, TypeInv, Built
<1>2. \A a \in operators : a.ops = {}
  <2>1. operators \subseteq problem.actions
    BY <1>1 DEF TypeInv
  <2>2. \A a \in problem.actions : a.ops = {}
    BY DEF Unchanging, OperatorsOf
  <2> QED
    BY <2>1, <2>2
<1>3. \A k \in 1..Built : high[k + 1] = high[k] /\ low[k + 1] = low[k]
  BY <1>1, <1>2 DEF BoundsInv
<1>4. 0 \in S
  <2>1. 0 + 1 = 1
    OBVIOUS
  <2>2. Still(0)
    BY <1>1, <2>1 DEF BoundsInv
  <2> QED
    BY <2>2
<1>5. ASSUME NEW k \in S PROVE k + 1 \in S
  <2>1. k \in Nat /\ k + 1 \in Nat
    OBVIOUS
  <2> SUFFICES ASSUME k + 1 <= Built PROVE Still(k + 1)
    BY <2>1
  <2>2. k <= Built /\ k + 1 \in 1..Built
    BY <1>1, <2>1
  <2>3. Still(k)
    BY <2>2
  <2> QED
    BY <1>3, <2>2, <2>3
<1>6. \A k \in Nat : k \in S
  <2>1. S \in SUBSET Nat
    OBVIOUS
  <2> HIDE DEF S
  <2> QED
    BY <1>4, <1>5, <2>1, AllNumbers
<1>7. ASSUME NEW k \in 0..Built PROVE Still(k)
  <2>1. k \in Nat /\ k <= Built
    BY <1>1
  <2>2. k \in S
    <3> HIDE DEF S
    <3> QED
      BY <1>6, <2>1
  <2> QED
    BY <2>1, <2>2
<1> QED
  BY <1>7

\* What actions in the graph require of the function is met throughout.
LEMMA MetThroughout ==
  ASSUME Inv, pc # "idle", Unchanging, NEW a \in Actions, actionLayer[a] >= 0, NEW c \in a.cmp,
         NEW k \in 0..Built
  PROVE  MetAt(c, k)
<1> DEFINE j == actionLayer[a]
<1>1. ActionsInv /\ Built \in Nat
  BY DEF Inv, TypeInv, Built
<1>2. j \in 0..Built /\ MetAt(c, j)
  BY <1>1 DEF ActionsInv, ActionReady
<1>3. /\ high[j + 1] = state.number /\ low[j + 1] = state.number
      /\ high[k + 1] = state.number /\ low[k + 1] = state.number
  BY <1>2, BoundsStill
<1> QED
  BY <1>2, <1>3 DEF MetAt

\* An action chosen for a fact that no no-op achieves has just entered the graph.
LEMMA JustEntered ==
  ASSUME FullInv, pc = "extract", layer > 0, NEW p, NEW a \in Eligible(p, layer), a \notin NoOps,
         Eligible(p, layer) \cap NoOps = {}
  PROVE  actionLayer[a] = layer - 1
<1> DEFINE l == layer
           k == actionLayer[a]
           b == NoOp(p)
<1>1. /\ TypeInv /\ FactsInv /\ ActionsInv /\ PromptInv /\ AddsInv /\ Built \in Nat
      /\ l \in 0..Built /\ DOMAIN factLayer = Facts(problem)
  <2>1. /\ TypeInv /\ FactsInv /\ ActionsInv /\ PromptInv /\ AddsInv /\ l \in 0..Built
    BY DEF FullInv, Inv, ExtractInv
  <2> QED
    BY <2>1 DEF FullInv, Inv, TypeInv, Built
<1>2. a \in Actions /\ k \in 0..(l - 1) /\ p \in a.add
  BY DEF Eligible, ActionsAt
<1> SUFFICES ASSUME k # l - 1 PROVE FALSE
  OBVIOUS
<1>3. k + 1 <= l - 1 /\ l - 1 \in 0..(Built - 1)
  BY <1>1, <1>2
<1>4. p \in KnownFacts(problem) /\ p \in Facts(problem)
  <2>1. a \in problem.actions
    BY <1>2 DEF Actions
  <2> QED
    BY <1>2, <2>1 DEF KnownFacts, Facts
<1>5. p \in FactsAt(l - 1)
  <2>1. factLayer[p] >= 0 /\ factLayer[p] <= k + 1 /\ factLayer[p] \in Int
    BY <1>1, <1>2, <1>4 DEF ActionsInv, InGraph, AddsInv, TypeInv
  <2>2. factLayer[p] \in 0..(l - 1)
    BY <1>1, <1>2, <1>3, <2>1
  <2> QED
    BY <1>1, <1>4, <2>2 DEF FactsAt
<1>6. /\ b \in NoOps /\ b \in Actions /\ b.pre = {p} /\ b.add = {p} /\ b.cmp = {}
  BY <1>4 DEF NoOps, Actions, NoOp
<1>7. ActionReady(b, l - 1)
  BY <1>6 DEF ActionReady
<1> HIDE DEF b
<1>8. b.pre # {} /\ b.pre \subseteq FactsAt(l - 1)
  BY <1>5, <1>6
<1> HIDE DEF l
<1>9. actionLayer[b] \in 0..(l - 1)
  BY <1>1, <1>3, <1>6, <1>7, <1>8 DEF PromptInv
<1>10. b \in Eligible(p, l)
  BY <1>6, <1>9 DEF Eligible, ActionsAt
<1> QED
  BY <1>6, <1>10 DEF l

\* One level of the choice keeps it so.
LEMMA ChoosePlain ==
  ASSUME FullInv, PlainInv, ChooseActions
  PROVE  PlainInv'
<1> DEFINE l == layer
<1>1. /\ pc = "extract" /\ pc' = "extract" /\ layer' = l - 1 /\ l > 0
      /\ UNCHANGED <<problem, state, graph, kept>>
  BY DEF ChooseActions
<1>2. /\ factLayer' = factLayer /\ actionLayer' = actionLayer /\ problem' = problem
      /\ high' = high /\ low' = low
  BY <1>1 DEF graph
<1>3. PICK C : Level(C) /\ PlainLevel(C)
  BY LevelChosen DEF FullInv, Inv
<1> DEFINE D == C \ NoOps
           n == Len(plan)
<1>4. C \in SUBSET Actions /\ plan' = <<D>> \o plan
  BY <1>3 DEF Level
<1>5. /\ Inv /\ l \in 0..Built /\ l \in Int /\ l - 1 \in 0..Built /\ Built \in Nat
      /\ plan \in Seq(SUBSET Actions)
  <2>1. /\ Inv /\ l \in 0..Built /\ plan \in Seq(SUBSET Actions)
    BY <1>1 DEF FullInv, ExtractInv
  <2>2. Built \in Nat
    BY <1>1, <2>1 DEF Inv, TypeInv, Built
  <2> QED
    BY <1>1, <2>1, <2>2
<1>6. /\ n \in Nat /\ Len(plan') = n + 1 /\ plan'[1] = D
      /\ \A i \in 1..n : plan'[i + 1] = plan[i]
  BY <1>4, <1>5
<1>7. (Unchanging' <=> Unchanging) /\ Built' = Built
  BY <1>2 DEF Unchanging, Built
<1> SUFFICES ASSUME Unchanging
             PROVE  /\ \A c \in comparators' : \A k \in 0..Built : MetAt(c, k)
                    /\ \A i \in 1..Len(plan') : \A a \in plan'[i] : actionLayer[a] = (l - 1) + i - 1
  BY <1>1, <1>2, <1>7 DEF PlainInv, MetAt
<1>8. /\ \A c \in comparators : \A k \in 0..Built : MetAt(c, k)
      /\ \A i \in 1..n : \A a \in plan[i] : actionLayer[a] = l + i - 1
  BY <1>1 DEF PlainInv
<1>9. /\ \A c \in comparators' : c \in comparators \/ \E a \in C : c \in a.cmp
      /\ \A a \in C : \E p \in goals :
            a \in Eligible(p, l) /\ (a \in NoOps \/ Eligible(p, l) \cap NoOps = {})
  BY <1>3, <1>5, <1>8 DEF PlainLevel
<1>10. ASSUME NEW c \in comparators', NEW k \in 0..Built PROVE MetAt(c, k)
  <2>1. CASE c \in comparators
    BY <1>8, <2>1
  <2>2. CASE c \notin comparators
    <3>1. PICK a \in C : c \in a.cmp
      BY <1>9, <2>2
    <3>2. a \in Actions /\ actionLayer[a] \in 0..(l - 1)
      BY <1>9 DEF Eligible, ActionsAt
    <3>3. actionLayer[a] >= 0
      BY <3>2
    <3> QED
      BY <1>1, <1>5, <3>1, <3>2, <3>3, MetThroughout
  <2> QED
    BY <2>1, <2>2
<1>11. ASSUME NEW a \in D PROVE actionLayer[a] = l - 1
  <2>1. PICK p \in goals : a \in Eligible(p, l) /\ (a \in NoOps \/ Eligible(p, l) \cap NoOps = {})
    BY <1>9
  <2> QED
    BY <1>1, <2>1, JustEntered
<1> HIDE DEF D, n, l
<1>12. ASSUME NEW i \in 1..(n + 1), NEW a \in plan'[i] PROVE actionLayer[a] = (l - 1) + i - 1
  <2>1. CASE i = 1
    <3>1. (l - 1) + i - 1 = l - 1
      BY <1>5, <2>1
    <3> QED
      BY <1>6, <1>11, <2>1, <3>1
  <2>2. CASE i # 1
    <3> DEFINE j == i - 1
    <3>1. j \in 1..n /\ j + 1 = i /\ (l - 1) + i - 1 = l + j - 1
      BY <1>5, <1>6, <2>2
    <3> HIDE DEF j
    <3>2. plan'[i] = plan[j]
      BY <1>6, <3>1
    <3> QED
      BY <1>8, <3>1, <3>2
  <2> QED
    BY <2>1, <2>2
<1> QED
  BY <1>6, <1>10, <1>12

\* What a complete plan leads to.
FoundInv ==
    pc = "found" =>
        /\ plan \in Seq(SUBSET Actions)
        /\ \A f : LeadsTo(f, plan) /\ f[0] = state.facts =>
              /\ GoalOf(state) \subseteq f[Len(plan)]
              /\ \A i \in 1..Len(plan) - 1 : \A a \in plan[i] :
                    a \in ActionsAt(i - 1) => a.pre \subseteq f[i - 1]
        /\ Unchanging => \A i, j \in 1..Len(plan) : i # j => plan[i] \cap plan[j] = {}

\* The last step completes the plan with the ends of the actions it starts.
LEMMA FinishFound ==
  ASSUME FullInv, ReachInv, PlainInv, FinishPlan
  PROVE  FoundInv'
<1> DEFINE Ends == {d.end : d \in {e \in problem.durative : e.start \in PlannedActions}} \ PlannedActions
           n == Len(plan)
<1>1. /\ pc = "extract" /\ layer = 0 /\ pc' = "found" /\ plan' = Append(plan, Ends)
      /\ UNCHANGED <<problem, state, graph, kept>>
  BY DEF FinishPlan
<1>2. /\ state' = state /\ factLayer' = factLayer /\ actionLayer' = actionLayer /\ problem' = problem
  BY <1>1 DEF graph
<1>3. /\ FactsInv /\ TypeInv /\ plan \in Seq(SUBSET Actions) /\ DOMAIN factLayer = Facts(problem)
      /\ Actions' = Actions
  <2>1. FactsInv /\ TypeInv /\ plan \in Seq(SUBSET Actions)
    BY <1>1 DEF FullInv, Inv, ExtractInv
  <2> QED
    BY <1>2, <2>1, ProblemFixed DEF TypeInv
<1>4. Ends \in SUBSET Actions
  BY <1>3, ProblemsAssumption DEF TypeInv, Actions
<1>5. Ends \cap PlannedActions = {}
  OBVIOUS
<1> HIDE DEF Ends
<1>6. /\ n \in Nat /\ Len(plan') = n + 1 /\ plan'[n + 1] = Ends
      /\ \A i \in 1..n : plan'[i] = plan[i]
      /\ plan' \in Seq(SUBSET Actions)
  <2> DEFINE T == SUBSET Actions
  <2>1. plan \in Seq(T) /\ Ends \in T
    BY <1>3, <1>4
  <2> HIDE DEF T
  <2>2. /\ Len(plan) \in Nat /\ Len(plan') = Len(plan) + 1 /\ plan'[Len(plan) + 1] = Ends
        /\ \A i \in 1..Len(plan) : plan'[i] = plan[i]
        /\ plan' \in Seq(T)
    BY <1>1, <2>1
  <2> QED
    BY <2>2 DEF T
<1>7. /\ \A k : ActionsAt(k)' = ActionsAt(k)
      /\ GoalOf(state)' = GoalOf(state) /\ (Unchanging' <=> Unchanging)
  BY <1>2, ProblemFixed DEF ActionsAt, GoalOf, Unchanging
<1>8. ASSUME NEW f, LeadsTo(f, plan'), f[0] = state.facts
      PROVE  /\ GoalOf(state) \subseteq f[n + 1]
             /\ \A i \in 1..n : \A a \in plan'[i] : a \in ActionsAt(i - 1) => a.pre \subseteq f[i - 1]
  <2>1. \A i \in 1..(n + 1) : f[i] = f[i - 1] \cup Gain(plan'[i], f[i - 1])
    BY <1>6, <1>8 DEF LeadsTo
  <2>2. LeadsTo(f, plan)
    <3>1. \A i \in 1..n : i \in 1..(n + 1)
      BY <1>6
    <3> QED
      BY <1>6, <2>1, <3>1 DEF LeadsTo
  <2>3. \A p \in goals : p \in FactsAt(layer) => p \in f[0]
    <3> SUFFICES ASSUME NEW p \in goals, p \in FactsAt(layer) PROVE p \in f[0]
      OBVIOUS
    <3>1. p \in Facts(problem) /\ factLayer[p] \in 0..0
      BY <1>1, <1>3 DEF FactsAt
    <3> QED
      BY <1>3, <1>8, <3>1 DEF FactsInv
  <2>4. Attains(f, plan, layer)
    BY <1>1, <1>8, <2>2, <2>3 DEF ReachInv
  <2>5. /\ GoalOf(state) \subseteq f[n]
        /\ \A i \in 1..n : \A a \in plan[i] : a \in ActionsAt(0 + i - 1) => a.pre \subseteq f[i - 1]
    BY <1>1, <2>4 DEF Attains
  <2>6. f[n] \subseteq f[n + 1]
    <3>1. n + 1 \in 1..(n + 1) /\ (n + 1) - 1 = n
      BY <1>6
    <3>2. f[n + 1] = f[(n + 1) - 1] \cup Gain(plan'[n + 1], f[(n + 1) - 1])
      BY <2>1, <3>1
    <3> QED
      BY <3>1, <3>2
  <2>7. \A i \in 1..n : 0 + i - 1 = i - 1
    OBVIOUS
  <2> HIDE DEF n
  <2> QED
    BY <1>6, <2>5, <2>6, <2>7
<1>9. ASSUME Unchanging, NEW i \in 1..(n + 1), NEW j \in 1..(n + 1), i # j
      PROVE  plan'[i] \cap plan'[j] = {}
  <2>1. \A k \in 1..n : \A a \in plan'[k] : actionLayer[a] = k - 1
    <3>1. \A k \in 1..n : \A a \in plan[k] : actionLayer[a] = 0 + k - 1
      BY <1>1, <1>9 DEF PlainInv
    <3>2. \A k \in 1..n : 0 + k - 1 = k - 1
      OBVIOUS
    <3> HIDE DEF n
    <3> QED
      BY <1>6, <3>1, <3>2
  <2>2. \A k \in 1..n : plan'[k] \cap Ends = {}
    <3>1. \A k \in 1..n : plan[k] \subseteq PlannedActions
      BY DEF PlannedActions, Range
    <3> HIDE DEF n
    <3> QED
      BY <1>5, <1>6, <3>1
  <2> HIDE DEF n
  <2>3. CASE i \in 1..n /\ j \in 1..n
    <3>1. i - 1 # j - 1
      BY <1>6, <1>9, <2>3
    <3> QED
      BY <2>1, <2>3, <3>1
  <2>4. CASE i = n + 1 /\ j \in 1..n
    BY <1>6, <2>2, <2>4
  <2>5. CASE j = n + 1 /\ i \in 1..n
    BY <1>6, <2>2, <2>5
  <2> QED
    BY <1>6, <1>9, <2>3, <2>4, <2>5
<1>10. 1..Len(plan') - 1 = 1..n /\ 1..Len(plan') = 1..(n + 1) /\ Len(plan') = n + 1
  BY <1>6
<1> HIDE DEF n
<1> SUFFICES /\ plan' \in Seq(SUBSET Actions)
             /\ \A f : LeadsTo(f, plan') /\ f[0] = state.facts =>
                   /\ GoalOf(state) \subseteq f[Len(plan')]
                   /\ \A i \in 1..Len(plan') - 1 : \A a \in plan'[i] :
                         a \in ActionsAt(i - 1) => a.pre \subseteq f[i - 1]
             /\ Unchanging => \A i, j \in 1..Len(plan') : i # j => plan'[i] \cap plan'[j] = {}
  BY <1>1, <1>2, <1>3, <1>7 DEF FoundInv, LeadsTo
<1> QED
  BY <1>6, <1>8, <1>9, <1>10

ReachesInv == ReachInv /\ PlainInv /\ FoundInv

\* A layer more begins the choice of a plan with the goal.
LEMMA AddLayerReaches ==
  ASSUME FullInv, AddLayer
  PROVE  ReachesInv'
<1>1. FullInv'
  BY AddLayerFull
<1>2. pc' \in {"extract", "null", "build"}
  BY DEF AddLayer
<1>3. FoundInv'
  BY <1>2 DEF FoundInv
<1>4. goals = GoalOf(state) /\ plan = <<>> /\ comparators = {}
  BY DEF FullInv, Inv, BuildInv, ExtractInv, AddLayer
<1>5. plan' = <<>> /\ comparators' = {} /\ goals' = goals /\ state' = state /\ problem' = problem
  BY <1>4 DEF AddLayer, extraction
<1>6. GoalOf(state)' = GoalOf(state) /\ Facts(problem)' = Facts(problem)
  BY <1>5, ProblemFixed DEF GoalOf
<1>7. PlainInv'
  BY <1>5 DEF PlainInv
<1>8. ASSUME pc' = "extract" PROVE \A p \in goals' : p \in FactsAt(layer)'
  <2>1. /\ TypeInv' /\ FactsInv' /\ EndInv' /\ Built' \in Nat /\ layer' = Built'
    <3>1. TypeInv' /\ FactsInv' /\ EndInv'
      BY <1>1, <1>2 DEF FullInv, Inv
    <3>2. layer \in Nat /\ Built' = layer + 1 /\ layer' = layer + 1
      BY LayerAdded DEF FullInv
    <3> QED
      BY <3>1, <3>2
  <2>2. \A p \in goals' : factLayer'[p] >= 0 /\ p \in Facts(problem)
    <3>1. \A p \in GoalOf(state) : factLayer'[p] >= 0
      BY <1>6, <1>8, <2>1 DEF EndInv, InGraph
    <3>2. GoalOf(state) \subseteq Facts(problem)
      BY GoalKnown DEF FullInv, Inv, TypeInv
    <3> QED
      BY <1>4, <1>5, <3>1, <3>2
  <2>3. \A p \in Facts(problem) : factLayer'[p] \in -1..Built'
    BY <1>6, <2>1 DEF FactsInv
  <2>4. \A p \in goals' : factLayer'[p] \in 0..Built'
    BY <2>1, <2>2, <2>3
  <2>5. DOMAIN factLayer' = Facts(problem)
    BY <1>6, <2>1 DEF TypeInv
  <2> QED
    BY <2>1, <2>2, <2>4, <2>5 DEF FactsAt
<1>9. ReachInv'
  <2> SUFFICES ASSUME pc' = "extract", NEW f, \A p \in goals' : p \in FactsAt(layer)' => p \in f[0]
               PROVE  Attains(f, plan, layer)'
    BY DEF ReachInv
  <2>1. GoalOf(state)' \subseteq f[0]
    BY <1>4, <1>5, <1>6, <1>8
  <2>2. Len(plan') = 0
    BY <1>5
  <2>3. \A i \in 1..0 : FALSE
    OBVIOUS
  <2> QED
    BY <2>1, <2>2, <2>3 DEF Attains
<1> QED
  BY <1>3, <1>7, <1>9 DEF ReachesInv

\* Every step keeps what is said of the goal.
LEMMA StepReaches ==
  ASSUME FullInv, ReachesInv, [Next]_vars
  PROVE  ReachesInv'
<1>1. CASE \E s \in {InitialState} \cup Successors : Evaluate(s)
  <2>1. pc' = "build"
    BY <1>1 DEF Evaluate
  <2> QED
    BY <2>1 DEF ReachesInv, ReachInv, PlainInv, FoundInv
<1>2. CASE AddLayer
  BY <1>2, AddLayerReaches
<1>3. CASE ChooseActions
  <2>1. pc' = "extract"
    BY <1>3 DEF ChooseActions
  <2>2. FoundInv'
    BY <2>1 DEF FoundInv
  <2> QED
    BY <1>3, <2>2, ChooseReach, ChoosePlain DEF ReachesInv
<1>4. CASE FinishPlan
  <2>1. pc' = "found"
    BY <1>4 DEF FinishPlan
  <2> QED
    BY <1>4, <2>1, FinishFound DEF ReachesInv, ReachInv, PlainInv
<1>5. CASE UNCHANGED vars
  <2>1. /\ problem' = problem /\ state' = state /\ factLayer' = factLayer
        /\ actionLayer' = actionLayer /\ high' = high /\ low' = low /\ pc' = pc /\ layer' = layer
        /\ plan' = plan /\ goals' = goals /\ comparators' = comparators
    BY <1>5 DEF vars, extraction, graph
  <2>2. /\ \A k : FactsAt(k)' = FactsAt(k) /\ ActionsAt(k)' = ActionsAt(k)
        /\ GoalOf(state)' = GoalOf(state) /\ Actions' = Actions
        /\ (Unchanging' <=> Unchanging) /\ Built' = Built
    BY <2>1, ProblemFixed DEF FactsAt, ActionsAt, GoalOf, Unchanging, Built
  <2>3. ReachInv'
    BY <2>1, <2>2 DEF ReachesInv, ReachInv, LeadsTo, Attains
  <2>4. PlainInv'
    BY <2>1, <2>2 DEF ReachesInv, PlainInv, MetAt
  <2>5. FoundInv'
    BY <2>1, <2>2 DEF ReachesInv, FoundInv, LeadsTo
  <2> QED
    BY <2>3, <2>4, <2>5 DEF ReachesInv
<1> QED
  BY <1>1, <1>2, <1>3, <1>4, <1>5 DEF Next, Finished

\* The facts after each set of actions of a plan are what its definition says.
LEMMA PlanIsGood ==
  ASSUME FullInv, ReachesInv
  PROVE  PlanReachesGoal
<1> SUFFICES ASSUME pc = "found" PROVE PlanReachesGoal
  BY DEF PlanReachesGoal
<1> DEFINE n == Len(plan)
           V == SUBSET Facts(problem)
           after(i, g) == g \cup UNION {a.add : a \in {b \in plan[i] : b.pre \subseteq g}}
           step == [x \in (1..n) \X V |-> after(x[1], x[2])]
           Def(h) == h = [i \in 0..n |-> IF i = 0 THEN state.facts ELSE after(i, h[i - 1])]
           factsAfter == CHOOSE h : Def(h)
<1>1. /\ plan \in Seq(SUBSET Actions) /\ n \in Nat /\ \A i \in 1..n : plan[i] \subseteq Actions
      /\ state.facts \in V
  BY DEF ReachesInv, FoundInv, FullInv, Inv, TypeInv
<1>2. \A i \in 1..n : \A g \in V : after(i, g) \in V
  <2> SUFFICES ASSUME NEW i \in 1..n, NEW g \in V, NEW a \in plan[i], NEW p \in a.add
               PROVE  p \in Facts(problem)
    OBVIOUS
  <2>1. a \in Actions
    BY <1>1
  <2> QED
    BY <2>1, ActionsKnown
<1>3. step \in [(1..n) \X V -> V]
  <2> HIDE DEF V, after, n
  <2> QED
    BY <1>2
<1>4. PICK f : Follows(f, n, V, state.facts, step)
  <2> HIDE DEF V, step, n
  <2> QED
    BY <1>1, <1>3, Recursion
<1>5. f \in [0..n -> V] /\ f[0] = state.facts /\ \A i \in 1..n : f[i] = after(i, f[i - 1])
  <2>1. f \in [0..n -> V] /\ f[0] = state.facts /\ \A i \in 1..n : f[i] = step[<<i, f[i - 1]>>]
    BY <1>4 DEF Follows
  <2>2. ASSUME NEW i \in 1..n PROVE f[i] = after(i, f[i - 1])
    <3>1. i - 1 \in 0..n
      BY <1>1
    <3>2. f[i - 1] \in V
      BY <2>1, <3>1
    <3> HIDE DEF V, after, n
    <3>3. step[<<i, f[i - 1]>>] = after(i, f[i - 1])
      BY <3>2
    <3> HIDE DEF step
    <3> QED
      BY <2>1, <3>3
  <2> QED
    BY <2>1, <2>2
<1>6. Def(f)
  <2> HIDE DEF V, after, n
  <2>1. \A i \in 0..n : f[i] = IF i = 0 THEN state.facts ELSE after(i, f[i - 1])
    <3>1. \A i \in 0..n : i # 0 => i \in 1..n
      BY <1>1
    <3> QED
      BY <1>5, <3>1
  <2>2. f = [i \in 0..n |-> f[i]]
    BY <1>5
  <2> QED
    BY <2>1, <2>2
<1>7. Def(factsAfter)
  <2> HIDE DEF Def
  <2> QED
    BY <1>6
<1> HIDE DEF factsAfter
<1>8. factsAfter[0] = state.facts /\ \A i \in 1..n : factsAfter[i] = after(i, factsAfter[i - 1])
  <2> HIDE DEF after, n
  <2>1. \A i \in 0..n : factsAfter[i] = IF i = 0 THEN state.facts ELSE after(i, factsAfter[i - 1])
    BY <1>7
  <2>2. 0 \in 0..n /\ \A i \in 1..n : i \in 0..n /\ i # 0
    BY <1>1
  <2> QED
    BY <2>1, <2>2
<1>9. LeadsTo(factsAfter, plan)
  BY <1>8 DEF LeadsTo, Gain
<1>10. /\ GoalOf(state) \subseteq factsAfter[n]
       /\ \A i \in 1..n - 1 : \A a \in plan[i] : a \in ActionsAt(i - 1) => a.pre \subseteq factsAfter[i - 1]
  BY <1>8, <1>9 DEF ReachesInv, FoundInv
<1>11. \A i \in 1..n - 1 : \A a \in plan[i] \cap ActionsAt(i - 1) : a.pre \subseteq factsAfter[i - 1]
  BY <1>10
<1>12. OperatorsOf(problem.actions) = {} => \A i, j \in 1..n : i # j => plan[i] \cap plan[j] = {}
  BY DEF ReachesInv, FoundInv, Unchanging
<1> HIDE DEF n
<1> QED
  BY <1>10, <1>11, <1>12 DEF PlanReachesGoal, factsAfter, n

\* The relaxed plan of a state (searchRelaxedPlan) reaches every fact of the goal,
\* the ends of running actions included, and every action chosen from the layers
\* below finds its facts; unless actions change the function none is chosen twice.
THEOREM PlansReachTheGoal == Spec => []PlanReachesGoal
<1> DEFINE IInv == FullInv /\ ReachesInv
<1>1. Init => IInv
  <2> SUFFICES ASSUME Init PROVE IInv
    OBVIOUS
  <2>1. FullInv /\ pc = "idle"
    BY InitFull DEF Init
  <2> QED
    BY <2>1 DEF ReachesInv, ReachInv, PlainInv, FoundInv
<1>2. IInv /\ [Next]_vars => IInv'
  BY StepFull, StepReaches
<1>3. IInv => PlanReachesGoal
  BY PlanIsGood
<1> QED
  BY <1>1, <1>2, <1>3, PTL DEF Spec
=============================================================================
